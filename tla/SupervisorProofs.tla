-------------------------- MODULE SupervisorProofs --------------------------
(***************************************************************************)
(* Proofs about Supervisor, for any number of agents, handles, processes   *)
(* and callers.  Handles are the managedAgent objects of                   *)
(* src/internal/hub/supervisor.go.                                         *)
(***************************************************************************)
EXTENDS Supervisor, TLAPS

\* The map never points to a managedAgent of another agent: Start and Spawn
\* insert under the entry's own ID and Remove only deletes.
MapMatchesEntries ==
  \A a \in AgentNames : agents[a] # NoHandle => entry[agents[a]] = a

TypeInv == TypeOK /\ MapMatchesEntries

LEMMA HandleFacts ==
  /\ NumConfigured \in Nat /\ MaxHandles \in Nat /\ NumConfigured <= MaxHandles
  /\ \A h \in Handles : h \in Nat /\ h # NoHandle
  /\ \A h \in Handles : h <= NumConfigured => h \in 1..NumConfigured
  /\ \A h \in 1..NumConfigured : h \in Handles /\ h <= NumConfigured
  /\ \A p \in Procs : p # NoProc
  /\ ConfiguredAgents \in [1..NumConfigured -> AgentNames]
  BY ConfiguredAssumption DEF Handles, NoHandle, NoProc

LEMMA CounterFacts ==
  ASSUME NEW h \in Handles
  PROVE  /\ attempt \in [Handles -> 0..MaxAttempt] => NextAttempt(h) \in 0..MaxAttempt
         /\ late \in [Handles -> Nat] => LateStarts(h) \in Nat
         /\ 0 \in 0..MaxAttempt
  BY ConfiguredAssumption DEF NextAttempt, LateStarts

LEMMA TypeInit == SupervisorInit => TypeInv
<1> SUFFICES ASSUME SupervisorInit PROVE TypeInv
  OBVIOUS
<1>1. agents \in [AgentNames -> Handles \union {NoHandle}]
  BY DEF SupervisorInit
<1>2. ASSUME NEW a \in AgentNames, agents[a] # NoHandle
      PROVE  entry[agents[a]] = a
  <2>1. LastConfigured(a, agents[a])
    BY DEF SupervisorInit
  <2>2. agents[a] \in 1..NumConfigured /\ ConfiguredAgents[agents[a]] = a
    BY <2>1, <1>2 DEF LastConfigured, ConfigIndexes
  <2>3. QED
    BY <2>2, HandleFacts DEF SupervisorInit
<1>3. entry \in [Handles -> AgentNames \union {NoAgent}]
  BY HandleFacts DEF SupervisorInit
<1>4. policy \in [Handles -> Policies \union {""}]
  <2>1. PICK pol \in [1..NumConfigured -> Policies] :
          policy = [h \in Handles |-> IF h <= NumConfigured THEN pol[h] ELSE ""]
    BY DEF SupervisorInit
  <2>2. QED
    BY <2>1, HandleFacts
<1>5. mon \in [Handles -> MonPC]
  BY DEF SupervisorInit, MonPC
<1>6. Idle \in Calls /\ Idle.pc = "idle"
  BY DEF Calls, CallPC, Idle
<1>7. call \in [Callers -> Calls] /\ \A c \in Callers : call[c].pc = "idle"
  BY <1>6 DEF SupervisorInit
<1>8. /\ cmd \in [Handles -> Procs \union {NoProc}]
      /\ running \in [Handles -> BOOLEAN]
      /\ once \in [Handles -> {"idle", "busy", "done"}]
      /\ stopCh \in [Handles -> Nat]
      /\ closed \in [Handles -> SUBSET Nat]
      /\ sel \in [Handles -> Nat]
      /\ child \in [Handles -> Procs \union {NoProc}]
      /\ exitErr \in [Handles -> BOOLEAN]
      /\ late \in [Handles -> Nat]
      /\ resetOverlapped \in [Handles -> BOOLEAN]
  BY DEF SupervisorInit
<1>9. /\ attempt \in [Handles -> 0..MaxAttempt]
      /\ procState \in [Procs -> {"free", "alive", "clean", "failed"}]
      /\ signalled \in SUBSET Procs
      /\ hub \in {"up", "cancelled", "exited", "panicked"}
  BY CounterFacts, ConfiguredAssumption DEF SupervisorInit
<1>10. QED
  BY <1>1, <1>2, <1>3, <1>4, <1>5, <1>7, <1>8, <1>9
  DEF TypeInv, TypeOK, MapMatchesEntries

LEMMA TypeMonitor ==
  ASSUME TypeInv, NEW h \in Handles, Monitor(h)
  PROVE  TypeInv'
<1> USE HandleFacts, CounterFacts
    DEF TypeInv, TypeOK, MapMatchesEntries, Made, MonPC, Goto,
        handleVars, flagVars, statusVars, procVars, histVars
<1>1. CASE MonitorStops(h)
  BY <1>1 DEF MonitorStops
<1>2. CASE MonitorProceeds(h)
  BY <1>2 DEF MonitorProceeds
<1>3. CASE BackoffInterrupted(h)
  BY <1>3 DEF BackoffInterrupted
<1>4. CASE BackoffElapses(h)
  BY <1>4 DEF BackoffElapses
<1>5. CASE BuildCmd(h)
  BY <1>5 DEF BuildCmd
<1>6. CASE BuildFails(h)
  BY <1>6 DEF BuildFails
<1>7. CASE \E p \in Procs : StartProcess(h, p)
  <2>1. PICK p \in Procs : StartProcess(h, p)
    BY <1>7
  <2>2. procState' \in [Procs -> {"free", "alive", "clean", "failed"}]
    BY <2>1 DEF StartProcess
  <2>3. child' \in [Handles -> Procs \union {NoProc}] /\ mon' \in [Handles -> MonPC]
    BY <2>1 DEF StartProcess
  <2>4. late' \in [Handles -> Nat]
    BY <2>1 DEF StartProcess
  <2>5. UNCHANGED <<agents, entry, policy, cmd, running, once, stopCh, closed, attempt,
                    sel, exitErr, signalled, call, hub, resetOverlapped>>
    BY <2>1 DEF StartProcess
  <2>6. QED
    BY <2>2, <2>3, <2>4, <2>5
<1>8. CASE StartFails(h)
  BY <1>8 DEF StartFails
<1>9. CASE SetRunning(h)
  BY <1>9 DEF SetRunning
<1>10. CASE WaitReturns(h)
  <2>1. exitErr' \in [Handles -> BOOLEAN]
    BY <1>10 DEF WaitReturns
  <2>2. procState' \in [Procs -> {"free", "alive", "clean", "failed"}]
    BY <1>10 DEF WaitReturns
  <2>3. UNCHANGED <<agents, entry, policy, cmd, running, once, stopCh, closed, attempt,
                    sel, call, hub, late, resetOverlapped>>
    BY <1>10 DEF WaitReturns
  <2>4. /\ mon' \in [Handles -> MonPC]
        /\ child' \in [Handles -> Procs \union {NoProc}]
        /\ signalled' \in SUBSET Procs
    BY <1>10 DEF WaitReturns
  <2>5. QED
    BY <2>1, <2>2, <2>3, <2>4
<1>11. CASE SetStopped(h)
  BY <1>11 DEF SetStopped
<1>12. QED
  BY <1>1, <1>2, <1>3, <1>4, <1>5, <1>6, <1>7, <1>8, <1>9, <1>10, <1>11 DEF Monitor

\* The call record after a step of an API call.
LEMMA CallTypes ==
  ASSUME NEW r \in Calls, NEW loc \in CallPC, NEW t \in Procs \union {NoProc}
  PROVE  /\ [r EXCEPT !.pc = loc, !.tgt = t] \in Calls
         /\ Idle \in Calls /\ Idle.pc = "idle"
  BY DEF Calls, Idle, CallPC

LEMMA MoveTypes ==
  ASSUME TypeOK, NEW c \in Callers, NEW from \in CallPC \ {"idle"}, NEW loc \in CallPC,
         NEW t \in Procs \union {NoProc},
         MoveTo(c, from, loc, t), entry' = entry
  PROVE  /\ call' \in [Callers -> Calls]
         /\ \A d \in Callers :
              call'[d].pc # "idle" => call'[d].op \in Ops /\ call'[d].h \in Made'
<1>1. call \in [Callers -> Calls]
  BY DEF TypeOK
<1>2. call' = [call EXCEPT ![c] = [call[c] EXCEPT !.pc = loc, !.tgt = t]]
  BY DEF MoveTo
<1>3. call' \in [Callers -> Calls]
  BY <1>1, <1>2, CallTypes
<1>4. /\ call'[c].op = call[c].op /\ call'[c].h = call[c].h
      /\ \A d \in Callers : d # c => call'[d] = call[d]
  BY <1>1, <1>2 DEF Calls
<1>5. Made' = Made
  BY DEF Made
<1>6. call[c].pc # "idle"
  BY DEF MoveTo, CallAt
<1>7. QED
  BY <1>3, <1>4, <1>5, <1>6 DEF TypeOK

LEMMA ReturnTypes ==
  ASSUME TypeOK, NEW c \in Callers, NEW from, Return(c, from), entry' = entry
  PROVE  /\ call' \in [Callers -> Calls]
         /\ \A d \in Callers :
              call'[d].pc # "idle" => call'[d].op \in Ops /\ call'[d].h \in Made'
<1>1. call' \in [Callers -> Calls]
  BY CallTypes DEF TypeOK, Return, NoProc, CallPC
<1>2. call'[c].pc = "idle" /\ \A d \in Callers : d # c => call'[d] = call[d]
  BY CallTypes DEF TypeOK, Return, NoProc, CallPC
<1>3. QED
  BY <1>1, <1>2 DEF TypeOK, Made

LEMMA AfterKillType ==
  ASSUME NEW op \in Ops
  PROVE  AfterKill(op) \in CallPC
  BY DEF Ops, AfterKill, CallPC

LEMMA CloseType ==
  ASSUME NEW h \in Handles,
         closed \in [Handles -> SUBSET Nat], stopCh \in [Handles -> Nat],
         closed' = [closed EXCEPT ![h] = @ \union {stopCh[h]}]
  PROVE  closed' \in [Handles -> SUBSET Nat]
<1>1. closed[h] \union {stopCh[h]} \in SUBSET Nat
  OBVIOUS
<1>2. QED
  BY <1>1

LEMMA RemakeType ==
  ASSUME NEW h \in Handles,
         stopCh \in [Handles -> Nat], late \in [Handles -> Nat],
         stopCh' = [stopCh EXCEPT ![h] = @ + 1], late' = [late EXCEPT ![h] = 0]
  PROVE  stopCh' \in [Handles -> Nat] /\ late' \in [Handles -> Nat]
  OBVIOUS

LEMMA TypeCaller ==
  ASSUME TypeInv, NEW c \in Callers, Caller(c), ~ClosePanics(c)
  PROVE  TypeInv'
<1> DEFINE CallOK ==
      /\ call' \in [Callers -> Calls]
      /\ \A d \in Callers :
           call'[d].pc # "idle" => call'[d].op \in Ops /\ call'[d].h \in Made'
<1>0. /\ NoProc \in Procs \union {NoProc}
      /\ {"once", "close", "kill", "signal", "return", "reset", "remake", "delete"}
           = CallPC \ {"idle"}
      /\ TypeOK
      /\ call[c].pc # "idle" => call[c].op \in Ops /\ call[c].h \in Handles
      /\ call[c].pc # "idle" => AfterKill(call[c].op) \in CallPC
  BY AfterKillType DEF CallPC, TypeInv, TypeOK, Made
<1> USE <1>0, MoveTypes, ReturnTypes
    DEF Step, handleVars, flagVars, statusVars, monVars, procVars, histVars
<1>1. CASE OnceEnter(c)
  <2>1. CallOK
    BY <1>1 DEF OnceEnter
  <2>2. QED
    BY <1>1, <2>1 DEF OnceEnter, TypeInv, TypeOK, MapMatchesEntries
<1>2. CASE OnceSkip(c)
  <2>1. CallOK
    BY <1>2 DEF OnceSkip
  <2>2. QED
    BY <1>2, <2>1 DEF OnceSkip, TypeInv, TypeOK, MapMatchesEntries
<1>3. CASE CloseStopCh(c)
  <2>1. CallOK
    BY <1>3 DEF CloseStopCh
  <2>2. closed' \in [Handles -> SUBSET Nat]
    <3>1. closed' = [closed EXCEPT ![call[c].h] = @ \union {stopCh[call[c].h]}]
      BY <1>3 DEF CloseStopCh
    <3>2. call[c].h \in Handles
      BY <1>3 DEF CloseStopCh, MoveTo, CallAt
    <3>3. QED
      BY <3>1, <3>2, CloseType DEF TypeOK
  <2>5. once' \in [Handles -> {"idle", "busy", "done"}]
    BY <1>3 DEF CloseStopCh, TypeOK
  <2>3. late' \in [Handles -> Nat] /\ resetOverlapped' \in [Handles -> BOOLEAN]
    BY <1>3 DEF CloseStopCh, TypeOK
  <2>4. QED
    BY <1>3, <2>1, <2>2, <2>3, <2>5 DEF CloseStopCh, TypeInv, TypeOK, MapMatchesEntries
<1>4. CASE KillNotRunning(c)
  <2>1. CallOK
    BY <1>4 DEF KillNotRunning, MoveTo, CallAt
  <2>2. QED
    BY <1>4, <2>1 DEF KillNotRunning, TypeInv, TypeOK, MapMatchesEntries
<1>5. CASE KillReads(c)
  <2>1. cmd[call[c].h] \in Procs \union {NoProc}
    BY <1>5 DEF KillReads, MoveTo, CallAt, TypeOK
  <2>2. CallOK
    BY <1>5, <2>1 DEF KillReads
  <2>3. QED
    BY <1>5, <2>2 DEF KillReads, TypeInv, TypeOK, MapMatchesEntries
<1>6. CASE Signal(c)
  <2>1. CallOK
    BY <1>6 DEF Signal, MoveTo, CallAt
  <2>2. signalled' \in SUBSET Procs
    BY <1>6 DEF Signal, TypeOK
  <2>3. QED
    BY <1>6, <2>1, <2>2 DEF Signal, TypeInv, TypeOK, MapMatchesEntries
<1>7. CASE StopReturns(c)
  <2>1. CallOK
    BY <1>7 DEF StopReturns
  <2>2. QED
    BY <1>7, <2>1 DEF StopReturns, TypeInv, TypeOK, MapMatchesEntries
<1>8. CASE ResetOnce(c)
  <2>1. CallOK
    BY <1>8 DEF ResetOnce
  <2>2. once' \in [Handles -> {"idle", "busy", "done"}] /\ resetOverlapped' \in [Handles -> BOOLEAN]
    BY <1>8 DEF ResetOnce, TypeOK
  <2>3. QED
    BY <1>8, <2>1, <2>2 DEF ResetOnce, TypeInv, TypeOK, MapMatchesEntries
<1>9. CASE RemakeStopCh(c)
  <2>1. CallOK
    BY <1>9 DEF RemakeStopCh
  <2>2. call[c].h \in Handles
    BY <1>9 DEF RemakeStopCh, Return, CallAt
  <2>3. stopCh' = [stopCh EXCEPT ![call[c].h] = @ + 1] /\ late' = [late EXCEPT ![call[c].h] = 0]
    BY <1>9 DEF RemakeStopCh
  <2>5. stopCh' \in [Handles -> Nat] /\ late' \in [Handles -> Nat]
    BY <2>2, <2>3, RemakeType DEF TypeOK
  <2>4. QED
    BY <1>9, <2>1, <2>5 DEF RemakeStopCh, TypeInv, TypeOK, MapMatchesEntries
<1>10. CASE DeleteEntry(c)
  <2>1. CallOK
    BY <1>10 DEF DeleteEntry
  <2>2. QED
    BY <1>10, <2>1 DEF DeleteEntry, TypeInv, TypeOK, MapMatchesEntries
<1>11. QED
  BY <1>1, <1>2, <1>3, <1>4, <1>5, <1>6, <1>7, <1>8, <1>9, <1>10 DEF Caller

LEMMA TypeGone ==
  ASSUME TypeInv, HubGone, hub' \in {"exited", "panicked"}
  PROVE  TypeInv'
<1>1. /\ agents' \in [AgentNames -> Handles \union {NoHandle}]
      /\ entry' \in [Handles -> AgentNames \union {NoAgent}]
      /\ policy' \in [Handles -> Policies \union {""}]
      /\ cmd' \in [Handles -> Procs \union {NoProc}]
      /\ running' \in [Handles -> BOOLEAN]
      /\ once' \in [Handles -> {"idle", "busy", "done"}]
      /\ stopCh' \in [Handles -> Nat]
      /\ closed' \in [Handles -> SUBSET Nat]
      /\ sel' \in [Handles -> Nat]
      /\ child' \in [Handles -> Procs \union {NoProc}]
      /\ exitErr' \in [Handles -> BOOLEAN]
      /\ late' \in [Handles -> Nat]
  BY DEF HubGone
<1>2. mon' \in [Handles -> MonPC] /\ attempt' \in [Handles -> 0..MaxAttempt]
  BY CounterFacts DEF HubGone, MonPC
<1>3. /\ call' \in [Callers -> Calls]
      /\ \A c \in Callers : call'[c].pc = "idle"
  <2>1. Idle \in Calls /\ Idle.pc = "idle"
    BY DEF Calls, CallPC, Idle
  <2>2. QED
    BY <2>1 DEF HubGone
<1>4. /\ procState' \in [Procs -> {"free", "alive", "clean", "failed"}]
      /\ signalled' \in SUBSET Procs
      /\ resetOverlapped' \in [Handles -> BOOLEAN]
  BY DEF HubGone, procVars, TypeInv, TypeOK
<1>5. MapMatchesEntries'
  BY DEF HubGone, MapMatchesEntries
<1>6. QED
  BY <1>1, <1>2, <1>3, <1>4, <1>5 DEF TypeInv, TypeOK

LEMMA TypeBegin ==
  ASSUME TypeInv, NEW c \in Callers, NEW a \in AgentNames, NEW op \in Ops, Begin(c, op, a)
  PROVE  TypeInv'
<1>0. agents[a] # NoHandle
  BY DEF Begin
<1>1. agents[a] \in Made
  <2>0. agents \in [AgentNames -> Handles \union {NoHandle}]
    BY DEF TypeInv, TypeOK
  <2>1. agents[a] \in Handles
    BY <1>0, <2>0
  <2>2. entry[agents[a]] = a /\ a # NoAgent
    BY <1>0, ConfiguredAssumption DEF TypeInv, MapMatchesEntries
  <2>3. QED
    BY <2>1, <2>2 DEF Made
<1> DEFINE loc == IF op = "Restart" THEN "kill" ELSE "once"
<1>2. [pc |-> loc, op |-> op, h |-> agents[a], tgt |-> NoProc] \in Calls
  BY <1>1 DEF Calls, CallPC, Made
<1>3. call' = [call EXCEPT ![c] = [pc |-> loc, op |-> op, h |-> agents[a], tgt |-> NoProc]]
  BY DEF Begin
<1>4. /\ call' \in [Callers -> Calls]
      /\ \A d \in Callers : call'[d].pc # "idle" => call'[d].op \in Ops /\ call'[d].h \in Made
  <2> HIDE DEF loc
  <2>1. QED
    BY <1>1, <1>2, <1>3 DEF TypeInv, TypeOK
<1>5. QED
  BY <1>4 DEF Begin, handleVars, flagVars, statusVars, monVars, procVars, histVars,
              TypeInv, TypeOK, MapMatchesEntries, Made

LEMMA TypeSpawn ==
  ASSUME TypeInv, NEW c \in Callers, NEW a \in AgentNames, NEW h \in Handles,
         NEW pol \in Policies, SpawnHandle(c, a, h, pol)
  PROVE  TypeInv'
<1> USE DEF SpawnHandle, flagVars, statusVars, procVars, histVars
<1>1. entry[h] = NoAgent /\ a # NoAgent
  BY ConfiguredAssumption DEF NextHandle
<1>2. /\ agents' \in [AgentNames -> Handles \union {NoHandle}]
      /\ entry' \in [Handles -> AgentNames \union {NoAgent}]
      /\ policy' \in [Handles -> Policies \union {""}]
      /\ mon' \in [Handles -> MonPC]
  BY DEF TypeInv, TypeOK, MonPC
<1>3. Made \subseteq Made'
  BY <1>1 DEF Made, TypeInv, TypeOK
<1>4. MapMatchesEntries'
  <2>1. SUFFICES ASSUME NEW b \in AgentNames, agents'[b] # NoHandle
                 PROVE  entry'[agents'[b]] = b
    BY DEF MapMatchesEntries
  <2>2. CASE b = a
    BY <2>2 DEF TypeInv, TypeOK
  <2>3. CASE b # a
    <3>1. agents'[b] = agents[b] /\ agents[b] \in Handles
      BY <2>1, <2>3 DEF TypeInv, TypeOK
    <3>2. entry[agents[b]] = b /\ b # NoAgent
      BY <2>1, <3>1, ConfiguredAssumption DEF TypeInv, MapMatchesEntries
    <3>3. agents[b] # h
      BY <1>1, <3>2
    <3>4. QED
      BY <3>1, <3>2, <3>3 DEF TypeInv, TypeOK
  <2>4. QED
    BY <2>2, <2>3
<1>5. \A d \in Callers : call'[d].pc # "idle" => call'[d].op \in Ops /\ call'[d].h \in Made'
  BY <1>3 DEF TypeInv, TypeOK
<1>6. QED
  BY <1>2, <1>4, <1>5 DEF TypeInv, TypeOK

LEMMA TypeEnvironment ==
  ASSUME TypeInv,
         CancelHub \/ (\E p \in Procs : ProcessExits(p)) \/ UNCHANGED supVars
  PROVE  TypeInv'
<1> USE DEF handleVars, flagVars, statusVars, monVars, procVars, histVars
<1>1. CASE CancelHub
  BY <1>1 DEF CancelHub, TypeInv, TypeOK, MapMatchesEntries, Made
<1>2. CASE \E p \in Procs : ProcessExits(p)
  <2>1. procState' \in [Procs -> {"free", "alive", "clean", "failed"}]
    <3>1. PICK p \in Procs : ProcessExits(p)
      BY <1>2
    <3>2. PICK how \in {"clean", "failed"} : procState' = [procState EXCEPT ![p] = how]
      BY <3>1 DEF ProcessExits
    <3>3. QED
      BY <3>2 DEF TypeInv, TypeOK
  <2>2. UNCHANGED <<handleVars, flagVars, statusVars, monVars, signalled, call, hub, histVars>>
    BY <1>2 DEF ProcessExits
  <2>3. QED
    BY <2>1, <2>2 DEF TypeInv, TypeOK, MapMatchesEntries, Made
<1>3. CASE UNCHANGED supVars
  BY <1>3 DEF supVars, TypeInv, TypeOK, MapMatchesEntries, Made
<1>4. QED
  BY <1>1, <1>2, <1>3

LEMMA TypeNext == TypeInv /\ [SupervisorNext]_supVars => TypeInv'
<1> SUFFICES ASSUME TypeInv, [SupervisorNext]_supVars PROVE TypeInv'
  OBVIOUS
<1>1. CASE \E h \in Handles : Monitor(h)
  BY <1>1, TypeMonitor
<1>2. CASE \E c \in Callers : Caller(c) /\ ~ClosePanics(c)
  BY <1>2, TypeCaller
<1>3. CASE \E c \in Callers : ClosePanics(c)
  BY <1>3, TypeGone DEF ClosePanics
<1>4. CASE \E c \in Callers, a \in AgentNames, op \in Ops : Begin(c, op, a)
  BY <1>4, TypeBegin
<1>5. CASE \E c \in Callers, a \in AgentNames, h \in Handles, pol \in Policies : SpawnHandle(c, a, h, pol)
  BY <1>5, TypeSpawn
<1>6. CASE HubExits
  BY <1>6, TypeGone DEF HubExits
<1>7. CASE CancelHub \/ (\E p \in Procs : ProcessExits(p)) \/ UNCHANGED supVars
  BY <1>7, TypeEnvironment
<1>8. QED
  BY <1>1, <1>2, <1>3, <1>4, <1>5, <1>6, <1>7 DEF SupervisorNext

\* Every variable keeps its type, and a call in progress works on a created
\* managedAgent (supervisor.go, all operations).
THEOREM TypeCorrect == SupervisorSpec => []TypeOK
<1>1. SupervisorSpec => []TypeInv
  BY TypeInit, TypeNext, PTL DEF SupervisorSpec
<1>2. TypeInv => TypeOK
  BY DEF TypeInv
<1>3. QED
  BY <1>1, <1>2, PTL

----------------------------------------------------------------------------
(* The safety invariants.  Each is inductive relative to TypeInv, and the  *)
(* ones about the monitor also relative to FreshHandles.  The last one is  *)
(* about calls that do not overlap.                                        *)


\* A managedAgent that does not exist yet has no goroutine (Spawn).
FreshHandles ==
  \A h \in Handles : entry[h] = NoAgent => mon[h] = "none" /\ attempt[h] = 0

\* AtMostOneLateStart, strengthened by where the monitor must then be: it has
\* not been at the top of its loop since the late launch, or leaves there.
LateStartInv ==
  \A h \in Handles :
    StopClosed(h) =>
      \/ late[h] = 0
      \/ late[h] = 1 /\ mon[h] \in {"started", "wait", "reap", "check", "exited"}

\* Channels are closed only once made.
ChannelsInOrder == \A h \in Handles : \A n \in closed[h] : n <= stopCh[h]

\* ma.mu is held by at most one Restart.
OneResetAtATime ==
  \A c, d \in Callers :
    CallAt(c, "remake") /\ CallAt(d, "remake") /\ call[c].h = call[d].h => c = d

Closing(c, h) == CallAt(c, "close") /\ call[c].h = h

\* OnceMatchesChannel, strengthened by who is inside stopOnce.Do: without an
\* overlap at most one caller runs f, and none while a Restart holds ma.mu.
HandleAgrees(h) ==
  /\ \A c \in Callers : Closing(c, h) => once[h] = "busy"
  /\ \A c, d \in Callers : Closing(c, h) /\ Closing(d, h) => c = d
  /\ Locked(h) => once[h] = "idle"
  /\ ~Locked(h) => (once[h] = "done" <=> StopClosed(h))

StopHandshake ==
  /\ ChannelsInOrder
  /\ OneResetAtATime
  /\ \A h \in Handles : ~resetOverlapped[h] => HandleAgrees(h)
  /\ hub = "panicked" => \E h \in Handles : resetOverlapped[h]

----------------------------------------------------------------------------
(* Frames: what the monitor and the API calls leave alone. *)

LEMMA MonitorFrame ==
  ASSUME NEW h \in Handles, Monitor(h)
  PROVE  /\ HubAlive /\ mon[h] \notin {"none", "exited"}
         /\ UNCHANGED <<agents, entry, policy, once, stopCh, closed, call, hub, resetOverlapped>>
  BY DEF Monitor, MonitorStops, MonitorProceeds, BackoffInterrupted, BackoffElapses,
         BuildCmd, BuildFails, StartProcess, StartFails, SetRunning, WaitReturns,
         SetStopped, Goto, handleVars, flagVars, histVars

LEMMA CallerFrame ==
  ASSUME NEW c \in Callers, Caller(c), ~ClosePanics(c)
  PROVE  UNCHANGED <<entry, policy, cmd, running, mon, attempt, sel, child, exitErr,
                     procState, hub>>
  BY DEF Caller, OnceEnter, OnceSkip, CloseStopCh, KillNotRunning, KillReads, Signal,
         StopReturns, ResetOnce, RemakeStopCh, DeleteEntry,
         handleVars, statusVars, monVars, procVars

LEMMA BeginFrame ==
  ASSUME NEW c \in Callers, NEW a \in AgentNames, NEW op \in Ops, Begin(c, op, a)
  PROVE  UNCHANGED <<handleVars, flagVars, statusVars, monVars, procVars, hub, histVars>>
  BY DEF Begin

\* A property that holds when the hub has gone, and that every action
\* preserves, is an invariant: the cases of SupervisorNext.
LEMMA NextCases ==
  ASSUME [SupervisorNext]_supVars
  PROVE  \/ \E h \in Handles : Monitor(h)
         \/ \E c \in Callers : Caller(c) /\ ~ClosePanics(c)
         \/ HubGone /\ hub' \in {"exited", "panicked"}
         \/ \E c \in Callers, a \in AgentNames, op \in Ops : Begin(c, op, a)
         \/ \E c \in Callers, a \in AgentNames, h \in Handles, pol \in Policies : SpawnHandle(c, a, h, pol)
         \/ \E p \in Procs : ProcessExits(p)
         \/ CancelHub
         \/ UNCHANGED supVars
  BY DEF SupervisorNext, ClosePanics, HubExits

----------------------------------------------------------------------------

LEMMA FreshNext == TypeInv /\ FreshHandles /\ [SupervisorNext]_supVars => FreshHandles'
<1> SUFFICES ASSUME TypeInv, FreshHandles, [SupervisorNext]_supVars, NEW k \in Handles, entry'[k] = NoAgent
             PROVE  mon'[k] = "none" /\ attempt'[k] = 0
  BY DEF FreshHandles
<1>0. mon \in [Handles -> MonPC] /\ attempt \in [Handles -> 0..MaxAttempt]
  BY DEF TypeInv, TypeOK
<1>1. ASSUME NEW h \in Handles, Monitor(h)
      PROVE  mon'[k] = "none" /\ attempt'[k] = 0
  <2>1. entry' = entry /\ k # h
    BY <1>1, MonitorFrame DEF FreshHandles
  <2>2. mon'[k] = mon[k] /\ attempt'[k] = attempt[k]
    BY <1>0, <1>1, <2>1
    DEF Monitor, MonitorStops, MonitorProceeds, BackoffInterrupted, BackoffElapses,
        BuildCmd, BuildFails, StartProcess, StartFails, SetRunning, WaitReturns,
        SetStopped, Goto
  <2>3. QED
    BY <2>1, <2>2 DEF FreshHandles
<1>2. ASSUME NEW c \in Callers, Caller(c), ~ClosePanics(c)
      PROVE  mon'[k] = "none" /\ attempt'[k] = 0
  BY <1>2, CallerFrame DEF FreshHandles
<1>3. CASE HubGone
  BY <1>3 DEF HubGone
<1>4. ASSUME NEW c \in Callers, NEW a \in AgentNames, NEW op \in Ops, Begin(c, op, a)
      PROVE  mon'[k] = "none" /\ attempt'[k] = 0
  BY <1>4, BeginFrame DEF FreshHandles, handleVars, monVars
<1>5. ASSUME NEW c \in Callers, NEW a \in AgentNames, NEW h \in Handles, NEW pol \in Policies,
             SpawnHandle(c, a, h, pol)
      PROVE  mon'[k] = "none" /\ attempt'[k] = 0
  <2>1. entry' = [entry EXCEPT ![h] = a] /\ mon' = [mon EXCEPT ![h] = "check"]
        /\ attempt' = attempt
    BY <1>5 DEF SpawnHandle
  <2>2. k # h
    BY <2>1, ConfiguredAssumption DEF TypeInv, TypeOK
  <2>3. QED
    BY <1>0, <2>1, <2>2 DEF FreshHandles, TypeInv, TypeOK
<1>6. CASE CancelHub \/ (\E p \in Procs : ProcessExits(p)) \/ UNCHANGED supVars
  BY <1>6 DEF CancelHub, ProcessExits, supVars, handleVars, monVars, FreshHandles
<1>7. QED
  BY <1>1, <1>2, <1>3, <1>4, <1>5, <1>6, NextCases

LEMMA TypesAndFresh == SupervisorSpec => [](TypeInv /\ FreshHandles)
<1>1. SupervisorInit => FreshHandles
  <2>1. SUFFICES ASSUME SupervisorInit, NEW h \in Handles, entry[h] = NoAgent
                 PROVE  mon[h] = "none" /\ attempt[h] = 0
    BY DEF FreshHandles
  <2>2. entry[h] = IF h <= NumConfigured THEN ConfiguredAgents[h] ELSE NoAgent
    BY <2>1 DEF SupervisorInit
  <2>3. ~(h <= NumConfigured)
    BY <2>1, <2>2, HandleFacts, ConfiguredAssumption
  <2>4. QED
    BY <2>1, <2>3 DEF SupervisorInit
<1>2. QED
  BY <1>1, TypeInit, TypeNext, FreshNext, PTL DEF SupervisorSpec

\* A monitor works on its own managedAgent only.
LEMMA MonitorOthers ==
  ASSUME TypeInv, NEW h \in Handles, Monitor(h), NEW k \in Handles, k # h
  PROVE  /\ mon'[k] = mon[k] /\ attempt'[k] = attempt[k] /\ exitErr'[k] = exitErr[k]
         /\ cmd'[k] = cmd[k] /\ running'[k] = running[k] /\ child'[k] = child[k]
         /\ late'[k] = late[k]
<1>1. /\ mon \in [Handles -> MonPC] /\ attempt \in [Handles -> 0..MaxAttempt]
      /\ exitErr \in [Handles -> BOOLEAN] /\ running \in [Handles -> BOOLEAN]
      /\ cmd \in [Handles -> Procs \union {NoProc}]
      /\ child \in [Handles -> Procs \union {NoProc}]
      /\ late \in [Handles -> Nat]
  BY DEF TypeInv, TypeOK
<1>2. QED
  BY <1>1 DEF Monitor, MonitorStops, MonitorProceeds, BackoffInterrupted, BackoffElapses,
              BuildCmd, BuildFails, StartProcess, StartFails, SetRunning, WaitReturns,
              SetStopped, Goto, statusVars, histVars

LEMMA StatusNext ==
  TypeInv /\ FreshHandles /\ StatusMatchesMonitor /\ [SupervisorNext]_supVars => StatusMatchesMonitor'
<1> SUFFICES ASSUME TypeInv, FreshHandles, StatusMatchesMonitor, [SupervisorNext]_supVars, NEW k \in Handles
             PROVE  /\ running'[k] <=> mon'[k] \in {"wait", "reap"}
                    /\ mon'[k] = "wait" => cmd'[k] = child'[k]
  BY DEF StatusMatchesMonitor
<1> DEFINE Goal == /\ running'[k] <=> mon'[k] \in {"wait", "reap"}
                   /\ mon'[k] = "wait" => cmd'[k] = child'[k]
<1>0. /\ running[k] <=> mon[k] \in {"wait", "reap"}
      /\ mon[k] = "wait" => cmd[k] = child[k]
  BY DEF StatusMatchesMonitor
<1>1. ASSUME Monitor(k) PROVE Goal
  <2>1. /\ mon \in [Handles -> MonPC]
        /\ running \in [Handles -> BOOLEAN]
        /\ cmd \in [Handles -> Procs \union {NoProc}]
        /\ child \in [Handles -> Procs \union {NoProc}]
    BY DEF TypeInv, TypeOK
  <2> USE <1>0, <2>1 DEF Goto, statusVars
  <2>2. CASE MonitorStops(k) \/ MonitorProceeds(k) \/ BackoffInterrupted(k)
             \/ BackoffElapses(k) \/ BuildCmd(k)
    BY <2>2 DEF MonitorStops, MonitorProceeds, BackoffInterrupted, BackoffElapses, BuildCmd
  <2>3. CASE BuildFails(k) \/ StartFails(k)
    BY <2>3 DEF BuildFails, StartFails
  <2>4. CASE \E p \in Procs : StartProcess(k, p)
    BY <2>4 DEF StartProcess
  <2>5. CASE SetRunning(k)
    BY <2>5 DEF SetRunning
  <2>6. CASE WaitReturns(k)
    BY <2>6 DEF WaitReturns
  <2>7. CASE SetStopped(k)
    BY <2>7 DEF SetStopped
  <2>8. QED
    BY <1>1, <2>2, <2>3, <2>4, <2>5, <2>6, <2>7 DEF Monitor
<1>2. ASSUME NEW h \in Handles, Monitor(h), h # k PROVE Goal
  BY <1>0, <1>2, MonitorOthers
<1>3. ASSUME NEW c \in Callers, Caller(c), ~ClosePanics(c) PROVE Goal
  BY <1>0, <1>3, CallerFrame
<1>4. CASE HubGone
  BY <1>4 DEF HubGone
<1>5. ASSUME NEW c \in Callers, NEW a \in AgentNames, NEW op \in Ops, Begin(c, op, a)
      PROVE  Goal
  BY <1>0, <1>5, BeginFrame DEF monVars, statusVars
<1>6. ASSUME NEW c \in Callers, NEW a \in AgentNames, NEW h \in Handles, NEW pol \in Policies,
             SpawnHandle(c, a, h, pol)
      PROVE  Goal
  <2>1. mon' = [mon EXCEPT ![h] = "check"] /\ mon[h] = "none"
        /\ running' = running /\ cmd' = cmd /\ child' = child
    BY <1>6 DEF SpawnHandle, NextHandle, FreshHandles, statusVars
  <2>2. QED
    BY <1>0, <2>1 DEF TypeInv, TypeOK
<1>7. CASE CancelHub \/ (\E p \in Procs : ProcessExits(p)) \/ UNCHANGED supVars
  BY <1>0, <1>7 DEF CancelHub, ProcessExits, supVars, monVars, statusVars
<1>8. QED
  BY <1>1, <1>2, <1>3, <1>4, <1>5, <1>6, <1>7, NextCases

\* The status the API reports and kill acts on (running, cmd) always agrees
\* with the monitor goroutine: the process named is the one it waits for.
THEOREM StatusCorrect == SupervisorSpec => []StatusMatchesMonitor
<1>1. SupervisorInit => StatusMatchesMonitor
  BY DEF SupervisorInit, StatusMatchesMonitor
<1>2. QED
  BY <1>1, StatusNext, TypesAndFresh, PTL DEF SupervisorSpec

LEMMA JustifiedNext ==
  TypeInv /\ FreshHandles /\ RestartsJustified /\ [SupervisorNext]_supVars => RestartsJustified'
<1> DEFINE Launching == {"check", "backoff", "build", "start", "started", "wait"}
           Just(k) == attempt[k] > 0 /\ mon[k] \in Launching =>
                        ShouldRestart(policy[k], exitErr[k])
<1> SUFFICES ASSUME TypeInv, FreshHandles, RestartsJustified, [SupervisorNext]_supVars, NEW k \in Handles
             PROVE  Just(k)'
  BY DEF RestartsJustified, ShouldRestart
<1>0. Just(k)
  BY DEF RestartsJustified, ShouldRestart
<1>1. ASSUME Monitor(k) PROVE Just(k)'
  <2>1. /\ mon \in [Handles -> MonPC]
        /\ attempt \in [Handles -> 0..MaxAttempt]
        /\ exitErr \in [Handles -> BOOLEAN]
        /\ policy' = policy
    BY <1>1, MonitorFrame DEF TypeInv, TypeOK
  <2> USE <1>0, <2>1 DEF Goto
  <2>2. CASE MonitorStops(k) \/ MonitorProceeds(k) \/ BackoffInterrupted(k)
             \/ BackoffElapses(k) \/ BuildCmd(k) \/ SetRunning(k)
    BY <2>2 DEF MonitorStops, MonitorProceeds, BackoffInterrupted, BackoffElapses, BuildCmd,
                SetRunning
  <2>3. CASE BuildFails(k) \/ WaitReturns(k)
    BY <2>3 DEF BuildFails, WaitReturns
  <2>4. CASE \E p \in Procs : StartProcess(k, p)
    BY <2>4 DEF StartProcess
  <2>5. CASE StartFails(k)
    <3>1. exitErr'[k] = TRUE
      BY <2>5 DEF StartFails
    <3>2. mon'[k] = IF ShouldRestart(policy[k], TRUE) THEN "check" ELSE "exited"
      BY <2>5 DEF StartFails
    <3>3. QED
      BY <3>1, <3>2
  <2>6. CASE SetStopped(k)
    <3>1. mon'[k] = IF ShouldRestart(policy[k], exitErr[k]) THEN "check" ELSE "exited"
      BY <2>6 DEF SetStopped
    <3>2. exitErr' = exitErr
      BY <2>6 DEF SetStopped
    <3>3. QED
      BY <3>1, <3>2
  <2>7. QED
    BY <1>1, <2>2, <2>3, <2>4, <2>5, <2>6 DEF Monitor
<1>2. ASSUME NEW h \in Handles, Monitor(h), h # k PROVE Just(k)'
  BY <1>0, <1>2, MonitorOthers, MonitorFrame
<1>3. ASSUME NEW c \in Callers, Caller(c), ~ClosePanics(c) PROVE Just(k)'
  BY <1>0, <1>3, CallerFrame
<1>4. CASE HubGone
  BY <1>4 DEF HubGone
<1>5. ASSUME NEW c \in Callers, NEW a \in AgentNames, NEW op \in Ops, Begin(c, op, a)
      PROVE  Just(k)'
  BY <1>0, <1>5, BeginFrame DEF monVars, handleVars
<1>6. ASSUME NEW c \in Callers, NEW a \in AgentNames, NEW h \in Handles, NEW pol \in Policies,
             SpawnHandle(c, a, h, pol)
      PROVE  Just(k)'
  <2>1. mon' = [mon EXCEPT ![h] = "check"] /\ attempt[h] = 0
        /\ attempt' = attempt /\ exitErr' = exitErr /\ policy' = [policy EXCEPT ![h] = pol]
    BY <1>6 DEF SpawnHandle, NextHandle, FreshHandles
  <2>2. CASE k = h
    <3>1. attempt'[k] = 0
      BY <2>1, <2>2
    <3>2. QED
      BY <3>1
  <2>3. CASE k # h
    <3>1. mon'[k] = mon[k] /\ policy'[k] = policy[k]
      BY <2>1, <2>3 DEF TypeInv, TypeOK
    <3>2. QED
      BY <1>0, <2>1, <3>1
  <2>4. QED
    BY <2>2, <2>3
<1>7. CASE CancelHub \/ (\E p \in Procs : ProcessExits(p)) \/ UNCHANGED supVars
  BY <1>0, <1>7 DEF CancelHub, ProcessExits, supVars, monVars, handleVars
<1>8. QED
  BY <1>1, <1>2, <1>3, <1>4, <1>5, <1>6, <1>7, NextCases

\* No process is launched again against its restart policy (monitor's two
\* uses of shouldRestart).
THEOREM RestartsCorrect == SupervisorSpec => []RestartsJustified
<1>1. SupervisorInit => RestartsJustified
  <2>1. ASSUME SupervisorInit, NEW h \in Handles PROVE ~(attempt[h] > 0)
    <3>1. attempt[h] = 0
      BY <2>1 DEF SupervisorInit
    <3>2. QED
      BY <3>1
  <2>2. QED
    BY <2>1 DEF RestartsJustified
<1>2. QED
  BY <1>1, JustifiedNext, TypesAndFresh, PTL DEF SupervisorSpec

LEMMA LateNext == TypeInv /\ LateStartInv /\ [SupervisorNext]_supVars => LateStartInv'
<1> DEFINE Past == {"started", "wait", "reap", "check", "exited"}
           Good(k) == StopClosed(k) => late[k] = 0 \/ (late[k] = 1 /\ mon[k] \in Past)
<1> SUFFICES ASSUME TypeInv, LateStartInv, [SupervisorNext]_supVars, NEW k \in Handles
             PROVE  Good(k)'
  BY DEF LateStartInv
<1>0. Good(k)
  BY DEF LateStartInv, StopClosed
<1>t. /\ mon \in [Handles -> MonPC] /\ late \in [Handles -> Nat]
      /\ stopCh \in [Handles -> Nat] /\ closed \in [Handles -> SUBSET Nat]
  BY DEF TypeInv, TypeOK
<1>1. ASSUME Monitor(k) PROVE Good(k)'
  <2>1. StopClosed(k)' = StopClosed(k)
    BY <1>1, MonitorFrame DEF StopClosed
  <2> USE <1>0, <1>t, <2>1 DEF Goto, histVars
  <2>2. CASE MonitorProceeds(k)
    BY <2>2 DEF MonitorProceeds, StopRequested
  <2>3. CASE MonitorStops(k) \/ BackoffInterrupted(k) \/ BackoffElapses(k) \/ BuildCmd(k)
             \/ SetRunning(k)
    BY <2>3 DEF MonitorStops, BackoffInterrupted, BackoffElapses, BuildCmd, SetRunning
  <2>4. CASE BuildFails(k) \/ StartFails(k) \/ WaitReturns(k) \/ SetStopped(k)
    BY <2>4 DEF BuildFails, StartFails, WaitReturns, SetStopped
  <2>5. ASSUME NEW p \in Procs, StartProcess(k, p) PROVE Good(k)'
    <3>1. mon[k] = "start" /\ mon'[k] = "started" /\ late'[k] = LateStarts(k)
      BY <2>5 DEF StartProcess
    <3>2. StopClosed(k) => late'[k] = 1
      BY <3>1 DEF LateStarts
    <3>3. QED
      BY <3>1, <3>2
  <2>6. QED
    BY <1>1, <2>2, <2>3, <2>4, <2>5 DEF Monitor
<1>2. ASSUME NEW h \in Handles, Monitor(h), h # k PROVE Good(k)'
  BY <1>0, <1>2, MonitorOthers, MonitorFrame DEF StopClosed
<1>3. ASSUME NEW c \in Callers, Caller(c), ~ClosePanics(c) PROVE Good(k)'
  <2> DEFINE h == call[c].h
  <2>1. mon' = mon
    BY <1>3, CallerFrame
  <2>2. CASE CloseStopCh(c)
    <3>1. /\ late' = [late EXCEPT ![h] = 0] /\ stopCh' = stopCh
          /\ closed' = [closed EXCEPT ![h] = @ \union {stopCh[h]}]
      BY <2>2 DEF CloseStopCh
    <3>2. CASE k = h
      <4>1. late'[k] = 0
        BY <1>t, <3>1, <3>2
      <4>2. QED
        BY <4>1
    <3>3. CASE k # h
      BY <1>0, <1>t, <2>1, <3>1, <3>3 DEF StopClosed
    <3>4. QED
      BY <3>2, <3>3
  <2>3. CASE RemakeStopCh(c)
    <3>1. /\ late' = [late EXCEPT ![h] = 0] /\ closed' = closed
          /\ stopCh' = [stopCh EXCEPT ![h] = @ + 1]
      BY <2>3 DEF RemakeStopCh
    <3>2. CASE k = h
      <4>1. late'[k] = 0
        BY <1>t, <3>1, <3>2
      <4>2. QED
        BY <4>1
    <3>3. CASE k # h
      BY <1>0, <1>t, <2>1, <3>1, <3>3 DEF StopClosed
    <3>4. QED
      BY <3>2, <3>3
  <2>4. CASE ~CloseStopCh(c) /\ ~RemakeStopCh(c)
    <3>1. stopCh' = stopCh /\ closed' = closed /\ late' = late
      BY <1>3, <2>4 DEF Caller, OnceEnter, OnceSkip, KillNotRunning, KillReads, Signal,
             StopReturns, ResetOnce, DeleteEntry, flagVars, histVars
    <3>2. QED
      BY <1>0, <2>1, <3>1 DEF StopClosed
  <2>5. QED
    BY <2>2, <2>3, <2>4
<1>4. CASE HubGone
  <2>1. late'[k] = 0
    BY <1>4 DEF HubGone
  <2>2. QED
    BY <2>1
<1>5. ASSUME NEW c \in Callers, NEW a \in AgentNames, NEW op \in Ops, Begin(c, op, a)
      PROVE  Good(k)'
  BY <1>0, <1>5, BeginFrame DEF monVars, flagVars, histVars, StopClosed
<1>6. ASSUME NEW c \in Callers, NEW a \in AgentNames, NEW h \in Handles, NEW pol \in Policies,
             SpawnHandle(c, a, h, pol)
      PROVE  Good(k)'
  <2>1. mon' = [mon EXCEPT ![h] = "check"] /\ UNCHANGED <<flagVars, histVars>>
    BY <1>6 DEF SpawnHandle
  <2>2. QED
    BY <1>0, <1>t, <2>1 DEF StopClosed, flagVars, histVars
<1>7. CASE CancelHub \/ (\E p \in Procs : ProcessExits(p)) \/ UNCHANGED supVars
  BY <1>0, <1>7 DEF CancelHub, ProcessExits, supVars, monVars, flagVars, histVars, StopClosed
<1>8. QED
  BY <1>1, <1>2, <1>3, <1>4, <1>5, <1>6, <1>7, NextCases

\* However Stop, Restart and Remove interleave with the monitor, closing the
\* stop channel leaves at most one launch in flight.
THEOREM LateStartCorrect == SupervisorSpec => []AtMostOneLateStart
<1>1. SupervisorInit => LateStartInv
  <2>1. ASSUME SupervisorInit, NEW h \in Handles PROVE late[h] = 0
    BY <2>1 DEF SupervisorInit
  <2>2. QED
    BY <2>1 DEF LateStartInv
<1>2. TypeInv /\ LateStartInv => AtMostOneLateStart
  <2>1. SUFFICES ASSUME LateStartInv, NEW h \in Handles, StopClosed(h)
                 PROVE  late[h] <= 1
    BY DEF AtMostOneLateStart
  <2>2. late[h] = 0 \/ late[h] = 1
    BY <2>1 DEF LateStartInv
  <2>3. QED
    BY <2>2
<1>3. QED
  BY <1>1, <1>2, LateNext, TypesAndFresh, PTL DEF SupervisorSpec

----------------------------------------------------------------------------
(* Processes and monitors *)

\* MonitorOwnsProcess only reads these variables.
LEMMA OwnsFrame ==
  ASSUME MonitorOwnsProcess, UNCHANGED <<procState, child>>, HubAlive' => HubAlive,
         \A h \in Handles : mon'[h] = mon[h] \/ {mon[h], mon'[h]} \cap {"started", "wait"} = {}
  PROVE  MonitorOwnsProcess'
<1>1. \A h \in Handles : mon'[h] \in {"started", "wait"} <=> mon[h] \in {"started", "wait"}
  OBVIOUS
<1>2. QED
  BY <1>1 DEF MonitorOwnsProcess

LEMMA OwnsStart ==
  ASSUME TypeInv, MonitorOwnsProcess, NEW h \in Handles, NEW p \in Procs, StartProcess(h, p)
  PROVE  MonitorOwnsProcess'
<1>1. /\ mon \in [Handles -> MonPC] /\ procState \in [Procs -> {"free", "alive", "clean", "failed"}]
      /\ child \in [Handles -> Procs \union {NoProc}]
  BY DEF TypeInv, TypeOK
<1>2. /\ mon[h] = "start" /\ mon' = [mon EXCEPT ![h] = "started"]
      /\ procState[p] = "free" /\ procState' = [procState EXCEPT ![p] = "alive"]
      /\ child' = [child EXCEPT ![h] = p] /\ hub' = hub
  BY DEF StartProcess, Goto, FirstFree, Free
<1>3. child[h] = NoProc /\ p # NoProc /\ \A k \in Handles : child[k] # p
  BY <1>1, <1>2, HandleFacts DEF MonitorOwnsProcess
<1>4. /\ child'[h] = p /\ mon'[h] = "started" /\ procState'[p] = "alive"
      /\ \A k \in Handles \ {h} : child'[k] = child[k] /\ mon'[k] = mon[k]
      /\ \A q \in Procs \ {p} : procState'[q] = procState[q]
  BY <1>1, <1>2
<1>5. \A q \in Procs : procState'[q] # "free" /\ HubAlive' => \E k \in Handles : child'[k] = q
  <2>1. SUFFICES ASSUME NEW q \in Procs, procState'[q] # "free", HubAlive', q # p
                 PROVE  \E k \in Handles : child'[k] = q
    BY <1>4
  <2>2. PICK k \in Handles : child[k] = q
    BY <1>2, <1>4, <2>1 DEF MonitorOwnsProcess, HubAlive
  <2>3. k # h
    BY <1>3, <2>2, HandleFacts
  <2>4. QED
    BY <1>4, <2>2, <2>3
<1>6. \A k \in Handles : child'[k] # NoProc <=> mon'[k] \in {"started", "wait"}
  BY <1>3, <1>4 DEF MonitorOwnsProcess
<1>7. \A k \in Handles : child'[k] # NoProc => procState'[child'[k]] # "free"
  <2>1. SUFFICES ASSUME NEW k \in Handles, k # h, child'[k] # NoProc
                 PROVE  procState'[child'[k]] # "free"
    BY <1>4
  <2>2. child'[k] = child[k] /\ child[k] \in Procs /\ child[k] # p
    BY <1>1, <1>3, <1>4, <2>1
  <2>3. QED
    BY <1>4, <2>1, <2>2 DEF MonitorOwnsProcess
<1>8. \A k, l \in Handles : child'[k] # NoProc /\ child'[k] = child'[l] => k = l
  BY <1>3, <1>4 DEF MonitorOwnsProcess
<1>9. QED
  BY <1>5, <1>6, <1>7, <1>8 DEF MonitorOwnsProcess

LEMMA OwnsReap ==
  ASSUME TypeInv, MonitorOwnsProcess, NEW h \in Handles, WaitReturns(h)
  PROVE  MonitorOwnsProcess'
<1> DEFINE p == child[h]
<1>1. /\ mon \in [Handles -> MonPC] /\ procState \in [Procs -> {"free", "alive", "clean", "failed"}]
      /\ child \in [Handles -> Procs \union {NoProc}]
  BY DEF TypeInv, TypeOK
<1>2. /\ mon[h] = "wait" /\ mon' = [mon EXCEPT ![h] = "reap"]
      /\ procState' = [procState EXCEPT ![p] = "free"]
      /\ child' = [child EXCEPT ![h] = NoProc] /\ hub' = hub
  BY DEF WaitReturns, Goto
<1>3. /\ p # NoProc /\ p \in Procs
      /\ \A k \in Handles \ {h} : child[k] # p
  BY <1>1, <1>2 DEF MonitorOwnsProcess
<1>4. /\ child'[h] = NoProc /\ mon'[h] = "reap"
      /\ \A k \in Handles \ {h} : child'[k] = child[k] /\ mon'[k] = mon[k]
      /\ procState'[p] = "free" /\ \A q \in Procs \ {p} : procState'[q] = procState[q]
  BY <1>1, <1>2, <1>3
<1> HIDE DEF p
<1>5. \A q \in Procs : procState'[q] # "free" /\ HubAlive' => \E k \in Handles : child'[k] = q
  <2>1. SUFFICES ASSUME NEW q \in Procs, procState'[q] # "free", HubAlive'
                 PROVE  \E k \in Handles : child'[k] = q
    OBVIOUS
  <2>2. q # p /\ procState[q] # "free" /\ HubAlive
    BY <1>2, <1>4, <2>1 DEF HubAlive
  <2>3. PICK k \in Handles : child[k] = q
    BY <2>2 DEF MonitorOwnsProcess
  <2>4. k # h
    BY <2>2, <2>3 DEF p
  <2>5. QED
    BY <1>4, <2>3, <2>4
<1>6. \A k \in Handles : child'[k] # NoProc <=> mon'[k] \in {"started", "wait"}
  BY <1>4 DEF MonitorOwnsProcess
<1>7. \A k \in Handles : child'[k] # NoProc => procState'[child'[k]] # "free"
  <2>1. SUFFICES ASSUME NEW k \in Handles, child'[k] # NoProc
                 PROVE  procState'[child'[k]] # "free"
    OBVIOUS
  <2>2. k # h /\ child'[k] = child[k]
    BY <1>4, <2>1
  <2>3. child[k] \in Procs /\ child[k] # p
    BY <1>1, <1>3, <2>1, <2>2
  <2>4. QED
    BY <1>4, <2>1, <2>2, <2>3 DEF MonitorOwnsProcess
<1>8. \A k, l \in Handles : child'[k] # NoProc /\ child'[k] = child'[l] => k = l
  BY <1>4 DEF MonitorOwnsProcess
<1>9. QED
  BY <1>5, <1>6, <1>7, <1>8 DEF MonitorOwnsProcess

LEMMA OwnsMonitor ==
  ASSUME TypeInv, MonitorOwnsProcess, NEW h \in Handles, Monitor(h)
  PROVE  MonitorOwnsProcess'
<1>1. CASE WaitReturns(h)
  BY <1>1, OwnsReap
<1>2. CASE \E p \in Procs : StartProcess(h, p)
  BY <1>2, OwnsStart
<1>3. CASE SetRunning(h)
  <2>1. /\ mon[h] = "started" /\ mon' = [mon EXCEPT ![h] = "wait"]
        /\ UNCHANGED <<procState, child, hub>>
    BY <1>3 DEF SetRunning, Goto, procVars
  <2>2. \A k \in Handles : mon'[k] \in {"started", "wait"} <=> mon[k] \in {"started", "wait"}
    BY <2>1 DEF TypeInv, TypeOK
  <2>3. QED
    BY <2>1, <2>2 DEF MonitorOwnsProcess, HubAlive
<1>4. CASE MonitorStops(h) \/ MonitorProceeds(h) \/ BackoffInterrupted(h)
           \/ BackoffElapses(h) \/ BuildCmd(h) \/ BuildFails(h) \/ StartFails(h)
           \/ SetStopped(h)
  <2>1. /\ UNCHANGED <<procState, child, hub>>
        /\ mon[h] \notin {"started", "wait"}
        /\ \E to \in {"check", "backoff", "build", "start", "exited"} :
             mon' = [mon EXCEPT ![h] = to]
    BY <1>4 DEF MonitorStops, MonitorProceeds, BackoffInterrupted, BackoffElapses,
                BuildCmd, BuildFails, StartFails, SetStopped, Goto, procVars
  <2>2. \A k \in Handles :
          mon'[k] = mon[k] \/ {mon[k], mon'[k]} \cap {"started", "wait"} = {}
    <3>1. mon \in [Handles -> MonPC]
      BY DEF TypeInv, TypeOK
    <3>2. mon'[h] \notin {"started", "wait"} /\ \A k \in Handles \ {h} : mon'[k] = mon[k]
      BY <2>1, <3>1
    <3>3. QED
      BY <2>1, <3>2
  <2>3. QED
    BY <2>1, <2>2, OwnsFrame DEF HubAlive
<1>5. QED
  BY <1>1, <1>2, <1>3, <1>4 DEF Monitor

LEMMA OwnsNext ==
  TypeInv /\ FreshHandles /\ MonitorOwnsProcess /\ [SupervisorNext]_supVars => MonitorOwnsProcess'
<1> SUFFICES ASSUME TypeInv, FreshHandles, MonitorOwnsProcess, [SupervisorNext]_supVars
             PROVE  MonitorOwnsProcess'
  OBVIOUS
<1>1. CASE \E h \in Handles : Monitor(h)
  BY <1>1, OwnsMonitor
<1>2. CASE \E c \in Callers : Caller(c) /\ ~ClosePanics(c)
  BY <1>2, CallerFrame, OwnsFrame DEF HubAlive
<1>3. CASE HubGone /\ hub' \in {"exited", "panicked"}
  BY <1>3, HandleFacts DEF HubGone, MonitorOwnsProcess, HubAlive
<1>4. CASE \E c \in Callers, a \in AgentNames, op \in Ops : Begin(c, op, a)
  BY <1>4, BeginFrame, OwnsFrame DEF HubAlive, monVars, procVars
<1>5. CASE \E c \in Callers, a \in AgentNames, h \in Handles, pol \in Policies : SpawnHandle(c, a, h, pol)
  <2>1. PICK h \in Handles :
          /\ mon[h] = "none" /\ mon' = [mon EXCEPT ![h] = "check"]
          /\ UNCHANGED <<procState, child, hub>>
    BY <1>5 DEF SpawnHandle, NextHandle, FreshHandles, procVars
  <2>2. \A k \in Handles :
          mon'[k] = mon[k] \/ {mon[k], mon'[k]} \cap {"started", "wait"} = {}
    BY <2>1 DEF TypeInv, TypeOK
  <2>3. QED
    BY <2>1, <2>2, OwnsFrame DEF HubAlive
<1>6. ASSUME NEW p \in Procs, ProcessExits(p)
      PROVE  MonitorOwnsProcess'
  <2>1. \A q \in Procs : procState'[q] = "free" <=> procState[q] = "free"
    BY <1>6 DEF ProcessExits, TypeInv, TypeOK
  <2>2. UNCHANGED <<mon, child, hub>> /\ child \in [Handles -> Procs \union {NoProc}]
    BY <1>6 DEF ProcessExits, monVars, TypeInv, TypeOK
  <2>3. QED
    BY <2>1, <2>2 DEF MonitorOwnsProcess, HubAlive
<1>7. CASE CancelHub \/ UNCHANGED supVars
  BY <1>7, OwnsFrame DEF CancelHub, HubAlive, supVars, monVars, procVars
<1>8. QED
  BY <1>1, <1>2, <1>3, <1>4, <1>5, <1>6, <1>7, NextCases

\* Every agent process has exactly one monitor between cmd.Start and the
\* return of cmd.Wait, for as long as the hub lives.
THEOREM OwnershipCorrect == SupervisorSpec => []MonitorOwnsProcess
<1>1. SupervisorInit => MonitorOwnsProcess
  <2>1. ASSUME SupervisorInit
        PROVE  /\ \A p \in Procs : procState[p] = "free"
               /\ \A h \in Handles : child[h] = NoProc /\ mon[h] \notin {"started", "wait"}
    BY <2>1 DEF SupervisorInit
  <2>2. QED
    BY <2>1 DEF MonitorOwnsProcess
<1>2. QED
  BY <1>1, OwnsNext, TypesAndFresh, PTL DEF SupervisorSpec

----------------------------------------------------------------------------
(* stopOnce and stopCh *)

\* Who is where, after a step of c: the other calls do not move.
LEMMA CallMoves ==
  ASSUME TypeInv, NEW c \in Callers, NEW from \in CallPC \ {"idle"}, NEW to \in CallPC,
         \/ \E t : MoveTo(c, from, to, t)
         \/ to = "idle" /\ Return(c, from)
  PROVE  /\ call[c].pc = from /\ call[c].h \in Handles
         /\ call'[c].pc = to
         /\ to # "idle" => call'[c].h = call[c].h
         /\ \A d \in Callers \ {c} : call'[d] = call[d]
<1>1. call \in [Callers -> Calls]
  BY DEF TypeInv, TypeOK
<1>2. call[c].pc = from /\ from # "idle"
  BY DEF MoveTo, Return, CallAt
<1>3. call[c].h \in Handles
  BY <1>2 DEF TypeInv, TypeOK, Made
<1>4. Idle.pc = "idle"
  BY DEF Idle
<1>5. CASE \E t : MoveTo(c, from, to, t)
  <2>1. PICK t : call' = [call EXCEPT ![c] = [call[c] EXCEPT !.pc = to, !.tgt = t]]
    BY <1>5 DEF MoveTo
  <2>2. call'[c] = [call[c] EXCEPT !.pc = to, !.tgt = t]
    BY <1>1, <2>1
  <2>3. call'[c].pc = to /\ call'[c].h = call[c].h
    BY <1>1, <2>2 DEF Calls
  <2>4. QED
    BY <1>1, <1>2, <1>3, <2>1, <2>3
<1>6. CASE to = "idle" /\ Return(c, from)
  <2>1. call' = [call EXCEPT ![c] = Idle]
    BY <1>6 DEF Return
  <2>2. QED
    BY <1>1, <1>2, <1>3, <1>4, <1>6, <2>1
<1>7. QED
  BY <1>5, <1>6

\* A step that moves nobody into or out of the critical places, and leaves
\* the flags alone.
LEMMA HandshakeFrame ==
  ASSUME StopHandshake, UNCHANGED <<flagVars, resetOverlapped>>,
         hub' = "panicked" => hub = "panicked",
         \A c \in Callers :
           \/ call'[c] = call[c]
           \/ {call[c].pc, call'[c].pc} \cap {"close", "remake"} = {}
  PROVE  StopHandshake'
<1>1. \A h \in Handles :
        /\ Locked(h)' = Locked(h)
        /\ \A c \in Callers : Closing(c, h)' = Closing(c, h)
  BY DEF Closing, Locked, CallAt
<1>2. \A h \in Handles : StopClosed(h)' = StopClosed(h) /\ once'[h] = once[h]
  BY DEF StopClosed, flagVars
<1>3. ASSUME NEW h \in Handles, ~resetOverlapped'[h] PROVE HandleAgrees(h)'
  BY <1>1, <1>2, <1>3 DEF StopHandshake, HandleAgrees
<1>4. OneResetAtATime' /\ ChannelsInOrder'
  BY DEF StopHandshake, OneResetAtATime, ChannelsInOrder, CallAt, flagVars
<1>5. QED
  BY <1>3, <1>4 DEF StopHandshake

LEMMA HandshakeEnter ==
  ASSUME TypeInv, StopHandshake, NEW c \in Callers, OnceEnter(c)
  PROVE  StopHandshake'
<1>a. call[c].h \in Handles
  BY CallMoves DEF OnceEnter, Step, CallPC
<1>0. PICK h \in Handles : h = call[c].h
  BY <1>a
<1>1. /\ call[c].pc = "once" /\ call[c].h = h /\ call'[c].pc = "close" /\ call'[c].h = h
      /\ \A d \in Callers \ {c} : call'[d] = call[d]
  BY <1>0, CallMoves DEF OnceEnter, Step, CallPC
<1>2. /\ once[h] = "idle" /\ once' = [once EXCEPT ![h] = "busy"]
      /\ resetOverlapped' = [resetOverlapped EXCEPT ![h] = @ \/ Locked(h)]
      /\ UNCHANGED <<stopCh, closed, hub>>
  BY <1>0 DEF OnceEnter
<1>3. once \in [Handles -> {"idle", "busy", "done"}] /\ resetOverlapped \in [Handles -> BOOLEAN]
  BY DEF TypeInv, TypeOK
<1>4. /\ \A k \in Handles \ {h} : once'[k] = once[k] /\ resetOverlapped'[k] = resetOverlapped[k]
      /\ once'[h] = "busy"
  BY <1>1, <1>2, <1>3
<1>5. resetOverlapped'[h] = (resetOverlapped[h] \/ Locked(h))
  BY <1>1, <1>2, <1>3
<1>6. \A k \in Handles : Locked(k)' = Locked(k) /\ StopClosed(k)' = StopClosed(k)
  BY <1>1, <1>2 DEF Locked, StopClosed, CallAt
<1>7. \A k \in Handles \ {h} : \A d \in Callers : Closing(d, k)' <=> Closing(d, k)
  BY <1>1 DEF Closing, CallAt
<1>8. \A d \in Callers \ {c} : Closing(d, h)' <=> Closing(d, h)
  BY <1>1 DEF Closing, CallAt
<1>9. ASSUME NEW k \in Handles, ~resetOverlapped'[k] PROVE HandleAgrees(k)'
  <2>1. CASE k = h
    <3>1. HandleAgrees(h) /\ ~Locked(h)
      BY <1>1, <1>5, <1>9, <2>1 DEF StopHandshake
    <3>2. \A d \in Callers : ~Closing(d, h)
      BY <1>2, <3>1 DEF HandleAgrees
    <3>3. \A d \in Callers : Closing(d, h)' => d = c
      BY <1>8, <3>2
    <3>4. ~StopClosed(h)
      BY <1>2, <3>1 DEF HandleAgrees
    <3>5. QED
      BY <1>4, <1>6, <2>1, <3>1, <3>3, <3>4 DEF HandleAgrees
  <2>2. CASE k # h
    <3>1. HandleAgrees(k)
      BY <1>4, <1>9, <2>2 DEF StopHandshake
    <3>2. QED
      BY <1>4, <1>6, <1>7, <2>2, <3>1 DEF HandleAgrees
  <2>3. QED
    BY <2>1, <2>2
<1>10. OneResetAtATime' /\ ChannelsInOrder'
  BY <1>1, <1>2 DEF StopHandshake, OneResetAtATime, ChannelsInOrder, CallAt
<1>11. hub' = "panicked" => \E k \in Handles : resetOverlapped'[k]
  <2>1. \A k \in Handles : resetOverlapped[k] => resetOverlapped'[k]
    BY <1>4, <1>5
  <2>2. QED
    BY <1>2, <2>1 DEF StopHandshake
<1>12. QED
  BY <1>9, <1>10, <1>11 DEF StopHandshake

LEMMA HandshakeClose ==
  ASSUME TypeInv, StopHandshake, NEW c \in Callers, CloseStopCh(c)
  PROVE  StopHandshake'
<1>a. call[c].h \in Handles
  BY CallMoves DEF CloseStopCh, Step, CallPC
<1>0. PICK h \in Handles : h = call[c].h
  BY <1>a
<1>1. /\ call[c].pc = "close" /\ call[c].h = h /\ call'[c].pc = "kill" /\ call'[c].h = h
      /\ \A d \in Callers \ {c} : call'[d] = call[d]
  BY <1>0, CallMoves DEF CloseStopCh, Step, CallPC
<1>2. /\ once[h] = "busy" /\ once' = [once EXCEPT ![h] = "done"]
      /\ closed' = [closed EXCEPT ![h] = @ \union {stopCh[h]}]
      /\ resetOverlapped' = [resetOverlapped EXCEPT ![h] = @ \/ Locked(h)]
      /\ UNCHANGED <<stopCh, hub>>
  BY <1>0 DEF CloseStopCh
<1>3. /\ once \in [Handles -> {"idle", "busy", "done"}] /\ resetOverlapped \in [Handles -> BOOLEAN]
      /\ closed \in [Handles -> SUBSET Nat] /\ stopCh \in [Handles -> Nat]
  BY DEF TypeInv, TypeOK
<1>4. /\ \A k \in Handles \ {h} : once'[k] = once[k] /\ resetOverlapped'[k] = resetOverlapped[k]
      /\ \A k \in Handles \ {h} : closed'[k] = closed[k]
      /\ once'[h] = "done" /\ closed'[h] = closed[h] \union {stopCh[h]}
  BY <1>1, <1>2, <1>3
<1>5. resetOverlapped'[h] = (resetOverlapped[h] \/ Locked(h))
  BY <1>1, <1>2, <1>3
<1>6. /\ \A k \in Handles : Locked(k)' = Locked(k)
      /\ \A k \in Handles \ {h} : StopClosed(k)' = StopClosed(k)
  BY <1>1, <1>2, <1>4 DEF Locked, StopClosed, CallAt
<1>7. \A k \in Handles \ {h} : \A d \in Callers : Closing(d, k)' <=> Closing(d, k)
  BY <1>1 DEF Closing, CallAt
<1>8. /\ StopClosed(h)' /\ Closing(c, h) /\ ~Closing(c, h)'
      /\ \A d \in Callers \ {c} : Closing(d, h)' <=> Closing(d, h)
  BY <1>1, <1>2, <1>4 DEF Closing, CallAt, StopClosed
<1>9. ASSUME NEW k \in Handles, ~resetOverlapped'[k] PROVE HandleAgrees(k)'
  <2>1. CASE k = h
    <3>1. HandleAgrees(h) /\ ~Locked(h)
      BY <1>1, <1>5, <1>9, <2>1 DEF StopHandshake
    <3>2. \A d \in Callers : ~Closing(d, h)'
      BY <1>8, <3>1 DEF HandleAgrees
    <3>3. QED
      BY <1>4, <1>6, <1>8, <2>1, <3>1, <3>2 DEF HandleAgrees
  <2>2. CASE k # h
    <3>1. HandleAgrees(k)
      BY <1>4, <1>9, <2>2 DEF StopHandshake
    <3>2. QED
      BY <1>4, <1>6, <1>7, <2>2, <3>1 DEF HandleAgrees
  <2>3. QED
    BY <2>1, <2>2
<1>10. OneResetAtATime'
  BY <1>1 DEF StopHandshake, OneResetAtATime, CallAt
<1>11. ChannelsInOrder'
  <2>1. SUFFICES ASSUME NEW k \in Handles, NEW n \in closed'[k] PROVE n <= stopCh[k]
    BY <1>2 DEF ChannelsInOrder
  <2>2. n \in closed[k] \/ n = stopCh[k]
    BY <1>4
  <2>3. n \in closed[k] => n <= stopCh[k]
    BY DEF StopHandshake, ChannelsInOrder
  <2>4. stopCh[k] \in Nat
    BY <1>3
  <2>5. QED
    BY <2>2, <2>3, <2>4
<1>12. hub' = "panicked" => \E k \in Handles : resetOverlapped'[k]
  <2>1. \A k \in Handles : resetOverlapped[k] => resetOverlapped'[k]
    BY <1>4, <1>5
  <2>2. QED
    BY <1>2, <2>1 DEF StopHandshake
<1>13. QED
  BY <1>9, <1>10, <1>11, <1>12 DEF StopHandshake

\* The hub panics only after an overlap; then nothing is left of the calls.
LEMMA HandshakeGone ==
  ASSUME TypeInv, StopHandshake, HubGone,
         hub' = "panicked" => \E c \in Callers : ClosePanics(c)
  PROVE  StopHandshake'
<1>1. \A c \in Callers : call'[c].pc = "idle"
  BY DEF HubGone, Idle
<1>2. /\ \A h \in Handles : once'[h] = "idle" /\ closed'[h] = {}
      /\ resetOverlapped' = resetOverlapped
  BY DEF HubGone
<1>3. \A h \in Handles : HandleAgrees(h)'
  BY <1>1, <1>2 DEF HandleAgrees, Closing, Locked, CallAt, StopClosed
<1>4. OneResetAtATime' /\ ChannelsInOrder'
  BY <1>1, <1>2 DEF OneResetAtATime, ChannelsInOrder, CallAt
<1>5. ASSUME NEW c \in Callers, ClosePanics(c) PROVE \E h \in Handles : resetOverlapped[h]
  <2> DEFINE h == call[c].h
  <2>1. call[c].pc = "close" /\ (once[h] # "busy" \/ StopClosed(h))
    BY <1>5 DEF ClosePanics, CallAt
  <2>2. h \in Handles
    BY <2>1 DEF TypeInv, TypeOK, Made
  <2> HIDE DEF h
  <2>3. Closing(c, h)
    BY <2>1 DEF Closing, CallAt, h
  <2>4. SUFFICES ASSUME HandleAgrees(h) PROVE FALSE
    BY <2>2 DEF StopHandshake
  <2>5. once[h] = "busy"
    BY <2>3, <2>4 DEF HandleAgrees
  <2>6. QED
    BY <2>1, <2>4, <2>5 DEF HandleAgrees
<1>6. QED
  BY <1>2, <1>3, <1>4, <1>5 DEF StopHandshake

LEMMA HandshakeReset ==
  ASSUME TypeInv, StopHandshake, NEW c \in Callers, ResetOnce(c)
  PROVE  StopHandshake'
<1>a. call[c].h \in Handles
  BY CallMoves DEF ResetOnce, Step, CallPC
<1>0. PICK h \in Handles : h = call[c].h
  BY <1>a
<1>1. /\ call[c].pc = "reset" /\ call[c].h = h /\ call'[c].pc = "remake" /\ call'[c].h = h
      /\ \A d \in Callers \ {c} : call'[d] = call[d]
  BY <1>0, CallMoves DEF ResetOnce, Step, CallPC
<1>2. /\ ~Locked(h) /\ once' = [once EXCEPT ![h] = "idle"]
      /\ resetOverlapped' = [resetOverlapped EXCEPT ![h] = @ \/ once[h] = "busy"]
      /\ UNCHANGED <<stopCh, closed, hub>>
  BY <1>0 DEF ResetOnce
<1>3. once \in [Handles -> {"idle", "busy", "done"}] /\ resetOverlapped \in [Handles -> BOOLEAN]
  BY DEF TypeInv, TypeOK
<1>4. /\ \A k \in Handles \ {h} : once'[k] = once[k] /\ resetOverlapped'[k] = resetOverlapped[k]
      /\ once'[h] = "idle"
  BY <1>1, <1>2, <1>3
<1>5. resetOverlapped'[h] = (resetOverlapped[h] \/ once[h] = "busy")
  BY <1>1, <1>2, <1>3
<1>6. /\ \A k \in Handles \ {h} : Locked(k)' <=> Locked(k)
      /\ Locked(h)'
      /\ \A k \in Handles : StopClosed(k)' = StopClosed(k)
      /\ \A k \in Handles : \A d \in Callers : Closing(d, k)' <=> Closing(d, k)
  BY <1>1, <1>2 DEF Locked, StopClosed, Closing, CallAt
<1>7. ASSUME NEW k \in Handles, ~resetOverlapped'[k] PROVE HandleAgrees(k)'
  <2>1. CASE k = h
    <3>1. HandleAgrees(h) /\ once[h] # "busy"
      BY <1>5, <1>7, <2>1 DEF StopHandshake
    <3>2. \A d \in Callers : ~Closing(d, h)'
      BY <1>6, <3>1 DEF HandleAgrees
    <3>3. QED
      BY <1>4, <1>6, <2>1, <3>2 DEF HandleAgrees
  <2>2. CASE k # h
    <3>1. HandleAgrees(k)
      BY <1>4, <1>7, <2>2 DEF StopHandshake
    <3>2. QED
      BY <1>4, <1>6, <2>2, <3>1 DEF HandleAgrees
  <2>3. QED
    BY <2>1, <2>2
<1>8. OneResetAtATime'
  BY <1>1, <1>2 DEF StopHandshake, OneResetAtATime, CallAt, Locked
<1>9. ChannelsInOrder'
  BY <1>2 DEF StopHandshake, ChannelsInOrder
<1>10. hub' = "panicked" => \E k \in Handles : resetOverlapped'[k]
  <2>1. \A k \in Handles : resetOverlapped[k] => resetOverlapped'[k]
    BY <1>4, <1>5
  <2>2. QED
    BY <1>2, <2>1 DEF StopHandshake
<1>11. QED
  BY <1>7, <1>8, <1>9, <1>10 DEF StopHandshake

LEMMA HandshakeRemake ==
  ASSUME TypeInv, StopHandshake, NEW c \in Callers, RemakeStopCh(c)
  PROVE  StopHandshake'
<1>a. call[c].h \in Handles
  BY CallMoves DEF RemakeStopCh, CallPC
<1>0. PICK h \in Handles : h = call[c].h
  BY <1>a
<1>1. /\ call[c].pc = "remake" /\ call[c].h = h /\ call'[c].pc = "idle"
      /\ \A d \in Callers \ {c} : call'[d] = call[d]
  BY <1>0, CallMoves DEF RemakeStopCh, CallPC
<1>2. /\ stopCh' = [stopCh EXCEPT ![h] = @ + 1]
      /\ UNCHANGED <<once, closed, resetOverlapped, hub>>
  BY <1>0 DEF RemakeStopCh
<1>3. closed \in [Handles -> SUBSET Nat] /\ stopCh \in [Handles -> Nat]
  BY DEF TypeInv, TypeOK
<1>4. /\ \A k \in Handles \ {h} : stopCh'[k] = stopCh[k]
      /\ stopCh'[h] = stopCh[h] + 1
  BY <1>2, <1>3
<1>5. /\ \A k \in Handles \ {h} : Locked(k)' <=> Locked(k)
      /\ \A k \in Handles \ {h} : StopClosed(k)' <=> StopClosed(k)
      /\ \A k \in Handles : \A d \in Callers : Closing(d, k)' <=> Closing(d, k)
      /\ Locked(h)
  BY <1>1, <1>2, <1>4 DEF Locked, StopClosed, Closing, CallAt
<1>6. ~StopClosed(h)'
  <2>1. \A n \in closed[h] : n <= stopCh[h]
    BY DEF StopHandshake, ChannelsInOrder
  <2>2. stopCh[h] + 1 \notin closed[h]
    BY <1>3, <2>1
  <2>3. QED
    BY <1>2, <1>4, <2>2 DEF StopClosed
<1>7. ASSUME NEW k \in Handles, ~resetOverlapped'[k] PROVE HandleAgrees(k)'
  <2>1. HandleAgrees(k)
    BY <1>2, <1>7 DEF StopHandshake
  <2>2. CASE k = h
    <3>1. once'[h] = "idle" /\ \A d \in Callers : ~Closing(d, h)'
      BY <1>2, <1>5, <2>1, <2>2 DEF HandleAgrees
    <3>2. QED
      BY <1>6, <2>2, <3>1 DEF HandleAgrees
  <2>3. CASE k # h
    BY <1>2, <1>5, <2>1, <2>3 DEF HandleAgrees
  <2>4. QED
    BY <2>2, <2>3
<1>8. OneResetAtATime'
  BY <1>1, <1>2 DEF StopHandshake, OneResetAtATime, CallAt
<1>9. ChannelsInOrder'
  <2>1. SUFFICES ASSUME NEW k \in Handles, NEW n \in closed[k] PROVE n <= stopCh'[k]
    BY <1>2 DEF ChannelsInOrder
  <2>2. n <= stopCh[k] /\ n \in Nat /\ stopCh[k] \in Nat
    BY <1>3 DEF StopHandshake, ChannelsInOrder
  <2>3. QED
    BY <1>4, <2>2
<1>10. QED
  BY <1>2, <1>7, <1>8, <1>9 DEF StopHandshake

LEMMA HandshakeCaller ==
  ASSUME TypeInv, StopHandshake, NEW c \in Callers, Caller(c), ~ClosePanics(c)
  PROVE  StopHandshake'
<1>1. CASE OnceEnter(c)
  BY <1>1, HandshakeEnter
<1>2. CASE CloseStopCh(c)
  BY <1>2, HandshakeClose
<1>3. CASE ResetOnce(c)
  BY <1>3, HandshakeReset
<1>4. CASE RemakeStopCh(c)
  BY <1>4, HandshakeRemake
<1>5. CASE OnceSkip(c) \/ KillNotRunning(c) \/ KillReads(c) \/ Signal(c) \/ StopReturns(c)
           \/ DeleteEntry(c)
  <2>1. UNCHANGED <<flagVars, hub, resetOverlapped>>
    BY <1>5 DEF OnceSkip, KillNotRunning, KillReads, Signal, StopReturns, DeleteEntry, histVars
  <2>2. call[c].pc # "idle" => call[c].op \in Ops
    BY DEF TypeInv, TypeOK
  <2>3. call[c].pc # "idle" => AfterKill(call[c].op) \in {"return", "reset", "delete"}
    BY <2>2 DEF AfterKill, Ops
  <2> DEFINE Quiet == /\ {call[c].pc, call'[c].pc} \cap {"close", "remake"} = {}
                      /\ \A d \in Callers \ {c} : call'[d] = call[d]
  <2>6. ASSUME OnceSkip(c) PROVE Quiet
    BY <2>6, CallMoves DEF OnceSkip, Step, CallPC
  <2>7. ASSUME KillNotRunning(c) \/ Signal(c) PROVE Quiet
    <3>1. PICK from \in {"kill", "signal"} : Step(c, from, AfterKill(call[c].op))
      BY <2>7 DEF KillNotRunning, Signal
    <3>2. AfterKill(call[c].op) \in {"return", "reset", "delete"}
      BY <2>3, <3>1 DEF Step, MoveTo, CallAt
    <3>3. QED
      BY <3>1, <3>2, CallMoves DEF Step, CallPC
  <2>8. ASSUME KillReads(c) PROVE Quiet
    BY <2>8, CallMoves DEF KillReads, CallPC
  <2>9. ASSUME StopReturns(c) \/ DeleteEntry(c) PROVE Quiet
    BY <2>9, CallMoves DEF StopReturns, DeleteEntry, CallPC
  <2>4. Quiet
    BY <1>5, <2>6, <2>7, <2>8, <2>9
  <2>5. QED
    BY <2>1, <2>4, HandshakeFrame
<1>6. QED
  BY <1>1, <1>2, <1>3, <1>4, <1>5 DEF Caller

LEMMA HandshakeNext == TypeInv /\ StopHandshake /\ [SupervisorNext]_supVars => StopHandshake'
<1> SUFFICES ASSUME TypeInv, StopHandshake, [SupervisorNext]_supVars PROVE StopHandshake'
  OBVIOUS
<1>1. CASE \E h \in Handles : Monitor(h)
  BY <1>1, MonitorFrame, HandshakeFrame DEF flagVars
<1>2. CASE \E c \in Callers : Caller(c) /\ ~ClosePanics(c)
  BY <1>2, HandshakeCaller
<1>3. CASE (\E c \in Callers : ClosePanics(c)) \/ HubExits
  BY <1>3, HandshakeGone DEF ClosePanics, HubExits
<1>4. ASSUME NEW c \in Callers, NEW a \in AgentNames, NEW op \in Ops, Begin(c, op, a)
      PROVE  StopHandshake'
  <2>1. /\ call[c].pc = "idle" /\ call'[c].pc \in {"kill", "once"}
        /\ \A d \in Callers \ {c} : call'[d] = call[d]
    <3>1. call \in [Callers -> Calls]
      BY DEF TypeInv, TypeOK
    <3>2. QED
      BY <1>4, <3>1 DEF Begin, CallAt
  <2>2. QED
    BY <1>4, <2>1, BeginFrame, HandshakeFrame DEF histVars
<1>5. CASE \/ \E c \in Callers, a \in AgentNames, h \in Handles, pol \in Policies : SpawnHandle(c, a, h, pol)
           \/ \E p \in Procs : ProcessExits(p)
           \/ CancelHub
           \/ UNCHANGED supVars
  BY <1>5, HandshakeFrame DEF SpawnHandle, ProcessExits, CancelHub, supVars, histVars
<1>6. QED
  BY <1>1, <1>2, <1>3, <1>4, <1>5 DEF SupervisorNext

\* Unless a Stop or Remove has run through a Restart's two assignments,
\* stopOnce and stopCh agree, and the hub never panics on close(stopCh).
THEOREM HandshakeCorrect == SupervisorSpec => []OnceMatchesChannel
<1>1. SupervisorInit => StopHandshake
  <2>1. SUFFICES ASSUME SupervisorInit PROVE StopHandshake
    OBVIOUS
  <2>2. /\ \A c \in Callers : call[c].pc = "idle"
        /\ \A h \in Handles : once[h] = "idle" /\ closed[h] = {}
        /\ hub = "up"
    BY <2>1 DEF SupervisorInit, Idle
  <2>3. QED
    BY <2>2 DEF StopHandshake, ChannelsInOrder, OneResetAtATime, HandleAgrees, Closing,
                Locked, CallAt, StopClosed
<1>2. StopHandshake => OnceMatchesChannel
  BY DEF StopHandshake, HandleAgrees, OnceMatchesChannel
<1>3. QED
  BY <1>1, <1>2, HandshakeNext, TypesAndFresh, PTL DEF SupervisorSpec

----------------------------------------------------------------------------
(* Calls that do not overlap: RemovedAreStopped *)

\* One caller, and every agent listed once in zlaw.toml.
OneAtATime ==
  /\ \A c, d \in Callers : c = d
  /\ \A i, j \in 1..NumConfigured : ConfiguredAgents[i] = ConfiguredAgents[j] => i = j

\* What a call in progress relies on: its name still leads to its handle, a
\* Remove that is past stopOnce has closed the channel, and only a channel that
\* is closed has a Once that is done.
CallOwnsHandle(c) ==
  /\ call[c].pc # "idle" => agents[entry[call[c].h]] = call[c].h
  /\ call[c].pc \in {"kill", "signal"} /\ call[c].op = "Remove" => StopClosed(call[c].h)
  /\ call[c].pc = "delete" => StopClosed(call[c].h)
  /\ call[c].pc = "remake" => once[call[c].h] # "done"
  /\ call[c].pc \in {"reset", "remake"} => call[c].op = "Restart"

RemoveInv ==
  /\ RemovedAreStopped
  /\ \A h \in Handles : once[h] = "done" => StopClosed(h)
  /\ \A c \in Callers : CallOwnsHandle(c)

\* A step that leaves the map, the Once and the channel alone, and no call at a
\* place with more to rely on, keeps RemoveInv.
LEMMA RemoveFrame ==
  ASSUME RemoveInv, UNCHANGED <<agents, entry, once, stopCh, closed>>,
         \A c \in Callers : call'[c] = call[c] \/ CallOwnsHandle(c)'
  PROVE  RemoveInv'
<1>1. \A h \in Handles : StopClosed(h)' = StopClosed(h)
  BY DEF StopClosed
<1>2. RemovedAreStopped'
  BY <1>1 DEF RemoveInv, RemovedAreStopped, Orphans, Made, StopClosed
<1>3. ASSUME NEW c \in Callers PROVE CallOwnsHandle(c)'
  BY <1>1, <1>3 DEF RemoveInv, CallOwnsHandle, StopClosed
<1> QED
  BY <1>1, <1>2, <1>3 DEF RemoveInv

\* The handle and the operation of a call do not change until it returns.
LEMMA CallKeeps ==
  ASSUME TypeInv, NEW c \in Callers, NEW from \in CallPC \ {"idle"}, NEW to \in CallPC,
         NEW t, MoveTo(c, from, to, t)
  PROVE  /\ call[c].pc = from /\ call[c].op \in Ops /\ call[c].h \in Made
         /\ call'[c].pc = to /\ call'[c].op = call[c].op /\ call'[c].h = call[c].h
         /\ \A d \in Callers \ {c} : call'[d] = call[d]
<1>1. call \in [Callers -> Calls] /\ call[c].pc = from
  BY DEF TypeInv, TypeOK, MoveTo, CallAt
<1>2. call[c].op \in Ops /\ call[c].h \in Made
  BY <1>1 DEF TypeInv, TypeOK
<1>3. call' = [call EXCEPT ![c] = [call[c] EXCEPT !.pc = to, !.tgt = t]]
  BY DEF MoveTo
<1>4. call'[c] = [call[c] EXCEPT !.pc = to, !.tgt = t]
  BY <1>1, <1>3
<1>5. call'[c].pc = to /\ call'[c].op = call[c].op /\ call'[c].h = call[c].h
  BY <1>1, <1>4 DEF Calls
<1> QED
  BY <1>1, <1>2, <1>3, <1>5

\* A call that has returned relies on nothing.
LEMMA CallReturns ==
  ASSUME TypeInv, NEW c \in Callers, NEW from, Return(c, from)
  PROVE  /\ call'[c].pc = "idle" /\ CallOwnsHandle(c)'
         /\ \A d \in Callers \ {c} : call'[d] = call[d]
<1>1. call' = [call EXCEPT ![c] = Idle] /\ call \in [Callers -> Calls]
  BY DEF Return, TypeInv, TypeOK
<1>2. call'[c] = Idle /\ call'[c].pc = "idle"
  BY <1>1 DEF Idle
<1>3. CallOwnsHandle(c)'
  BY <1>2 DEF CallOwnsHandle
<1> QED
  BY <1>1, <1>2, <1>3

\* The steps of a call that change neither the map nor the flags.
LEMMA RemoveQuiet ==
  ASSUME TypeInv, RemoveInv, NEW c \in Callers,
         OnceSkip(c) \/ KillNotRunning(c) \/ KillReads(c) \/ Signal(c) \/ StopReturns(c)
  PROVE  RemoveInv'
<1>1. UNCHANGED <<agents, entry, once, stopCh, closed>>
  BY DEF OnceSkip, KillNotRunning, KillReads, Signal, StopReturns, handleVars, flagVars
<1>2. CallOwnsHandle(c)
  BY DEF RemoveInv
<1>3. CASE StopReturns(c)
  BY <1>1, <1>3, CallReturns, RemoveFrame DEF StopReturns
<1>4. CASE OnceSkip(c)
  <2>1. MoveTo(c, "once", "kill", NoProc) /\ once[call[c].h] = "done"
    BY <1>4 DEF OnceSkip, Step
  <2>2. /\ call[c].pc = "once" /\ call[c].h \in Made
        /\ call'[c].pc = "kill" /\ call'[c].op = call[c].op /\ call'[c].h = call[c].h
        /\ \A d \in Callers \ {c} : call'[d] = call[d]
    BY <2>1, CallKeeps DEF CallPC
  <2>3. StopClosed(call[c].h)
    BY <2>1, <2>2 DEF RemoveInv, Made
  <2>4. CallOwnsHandle(c)'
    BY <1>1, <1>2, <2>2, <2>3 DEF CallOwnsHandle, StopClosed
  <2> QED
    BY <1>1, <2>2, <2>4, RemoveFrame
<1>5. CASE KillReads(c)
  <2>1. MoveTo(c, "kill", "signal", cmd[call[c].h])
    BY <1>5 DEF KillReads
  <2>2. /\ call[c].pc = "kill"
        /\ call'[c].pc = "signal" /\ call'[c].op = call[c].op /\ call'[c].h = call[c].h
        /\ \A d \in Callers \ {c} : call'[d] = call[d]
    BY <2>1, CallKeeps DEF CallPC
  <2>3. CallOwnsHandle(c)'
    BY <1>1, <1>2, <2>2 DEF CallOwnsHandle, StopClosed
  <2> QED
    BY <1>1, <2>2, <2>3, RemoveFrame
<1>6. CASE KillNotRunning(c) \/ Signal(c)
  <2>1. PICK from \in {"kill", "signal"} : MoveTo(c, from, AfterKill(call[c].op), NoProc)
    BY <1>6 DEF KillNotRunning, Signal, Step
  <2>2. call[c].pc = from /\ call[c].op \in Ops
    BY <2>1 DEF MoveTo, CallAt, TypeInv, TypeOK
  <2>3. /\ AfterKill(call[c].op) \in {"return", "reset", "delete"}
        /\ AfterKill(call[c].op) = "delete" => call[c].op = "Remove"
        /\ AfterKill(call[c].op) = "reset" => call[c].op = "Restart"
    BY <2>2 DEF AfterKill, Ops
  <2> DEFINE to == AfterKill(call[c].op)
  <2>4. to \in CallPC /\ from \in CallPC \ {"idle"}
    BY <2>3 DEF CallPC
  <2>5. MoveTo(c, from, to, NoProc)
    BY <2>1
  <2> HIDE DEF to
  <2>6. /\ call'[c].pc = to /\ call'[c].op = call[c].op /\ call'[c].h = call[c].h
        /\ \A d \in Callers \ {c} : call'[d] = call[d]
    BY <2>4, <2>5, CallKeeps
  <2>7. /\ to \in {"return", "reset", "delete"} /\ (to = "delete" => call[c].op = "Remove")
        /\ (to = "reset" => call[c].op = "Restart")
    BY <2>3 DEF to
  <2>8. CallOwnsHandle(c)'
    BY <1>1, <1>2, <2>2, <2>6, <2>7 DEF CallOwnsHandle, StopClosed
  <2> QED
    BY <1>1, <2>6, <2>8, RemoveFrame
<1> QED
  BY <1>3, <1>4, <1>5, <1>6

\* Entering and leaving stopOnce.Do closes a channel or leaves it as it is.
LEMMA RemoveStops ==
  ASSUME TypeInv, RemoveInv, OneAtATime, NEW c \in Callers, OnceEnter(c) \/ CloseStopCh(c)
  PROVE  RemoveInv'
<1>0. PICK h \in Made : h = call[c].h
  BY DEF OnceEnter, CloseStopCh, Step, MoveTo, CallAt, TypeInv, TypeOK
<1>1. PICK from \in {"once", "close"}, to \in {"close", "kill"} :
        /\ MoveTo(c, from, to, NoProc)
        /\ from = "once" => to = "close" /\ once' = [once EXCEPT ![h] = "busy"] /\ closed' = closed
        /\ from = "close" => /\ to = "kill" /\ once' = [once EXCEPT ![h] = "done"]
                             /\ closed' = [closed EXCEPT ![h] = @ \union {stopCh[h]}]
  BY <1>0 DEF OnceEnter, CloseStopCh, Step
<1>2. UNCHANGED <<agents, entry, stopCh>>
  BY DEF OnceEnter, CloseStopCh, handleVars
<1>3. /\ call[c].pc = from /\ CallOwnsHandle(c)
      /\ call'[c].pc = to /\ call'[c].op = call[c].op /\ call'[c].h = h
  BY <1>0, <1>1, CallKeeps DEF CallPC, RemoveInv
<1>4. /\ once \in [Handles -> {"idle", "busy", "done"}] /\ closed \in [Handles -> SUBSET Nat]
      /\ h \in Handles
  BY DEF TypeInv, TypeOK, Made
<1>5. /\ \A k \in Handles : StopClosed(k) => StopClosed(k)'
      /\ from = "close" => StopClosed(h)'
  BY <1>1, <1>2, <1>4 DEF StopClosed
<1>6. RemovedAreStopped'
  BY <1>2, <1>5 DEF RemoveInv, RemovedAreStopped, Orphans, Made
<1>7. ASSUME NEW k \in Handles, once'[k] = "done" PROVE StopClosed(k)'
  BY <1>1, <1>4, <1>5, <1>7 DEF RemoveInv
<1>8. CallOwnsHandle(c)'
  BY <1>0, <1>1, <1>2, <1>3, <1>5 DEF CallOwnsHandle, StopClosed
<1>9. \A d \in Callers : d = c
  BY DEF OneAtATime
<1> QED
  BY <1>6, <1>7, <1>8, <1>9 DEF RemoveInv

\* The new channel of a Restart is open, and its handle is in the map.
LEMMA RemoveResets ==
  ASSUME TypeInv, RemoveInv, OneAtATime, NEW c \in Callers, ResetOnce(c) \/ RemakeStopCh(c)
  PROVE  RemoveInv'
<1> DEFINE h == call[c].h
<1>1. UNCHANGED <<agents, entry, closed>>
  BY DEF ResetOnce, RemakeStopCh, handleVars
<1>2. call[c].pc # "idle" /\ CallOwnsHandle(c)
  BY DEF ResetOnce, RemakeStopCh, Step, MoveTo, Return, CallAt, RemoveInv
<1>3. h \in Handles /\ agents[entry[h]] = h
  BY <1>2 DEF TypeInv, TypeOK, Made, CallOwnsHandle
<1>4. /\ once \in [Handles -> {"idle", "busy", "done"}] /\ stopCh \in [Handles -> Nat]
  BY DEF TypeInv, TypeOK
<1>5. \A d \in Callers : d = c
  BY DEF OneAtATime
<1>6. CASE ResetOnce(c)
  <2>1. MoveTo(c, "reset", "remake", NoProc) /\ once' = [once EXCEPT ![h] = "idle"]
        /\ stopCh' = stopCh
    BY <1>6 DEF ResetOnce, Step
  <2>2. call[c].pc = "reset" /\ call'[c].pc = "remake" /\ call'[c].op = call[c].op /\ call'[c].h = h
    BY <2>1, CallKeeps DEF CallPC
  <2> HIDE DEF h
  <2>3. \A k \in Handles : StopClosed(k)' = StopClosed(k)
    BY <1>1, <2>1 DEF StopClosed
  <2>4. RemovedAreStopped'
    BY <1>1, <2>1 DEF RemoveInv, RemovedAreStopped, Orphans, Made, StopClosed
  <2>5. \A k \in Handles : once'[k] = "done" => StopClosed(k)'
    BY <1>3, <1>4, <2>1, <2>3 DEF RemoveInv
  <2>6. CallOwnsHandle(c)'
    BY <1>1, <1>2, <1>3, <1>4, <2>1, <2>2 DEF CallOwnsHandle
  <2> QED
    BY <1>5, <2>4, <2>5, <2>6 DEF RemoveInv
<1>7. CASE RemakeStopCh(c)
  <2>1. Return(c, "remake") /\ stopCh' = [stopCh EXCEPT ![h] = @ + 1] /\ once' = once
    BY <1>7 DEF RemakeStopCh
  <2>2. call[c].pc = "remake"
    BY <2>1 DEF Return, CallAt
  <2>3. once[h] # "done"
    BY <1>2, <2>2 DEF CallOwnsHandle
  <2> HIDE DEF h
  <2>4. \A k \in Handles \ {h} : StopClosed(k)' = StopClosed(k)
    BY <1>1, <1>3, <1>4, <2>1 DEF StopClosed
  <2>5. RemovedAreStopped'
    BY <1>1, <1>3, <2>4 DEF RemoveInv, RemovedAreStopped, Orphans, Made
  <2>6. \A k \in Handles : once'[k] = "done" => StopClosed(k)'
    BY <2>1, <2>3, <2>4 DEF RemoveInv
  <2>7. CallOwnsHandle(c)'
    BY <2>1, CallReturns
  <2> QED
    BY <1>5, <2>5, <2>6, <2>7 DEF RemoveInv
<1> QED
  BY <1>6, <1>7

\* What Remove deletes is the handle it has stopped, and no other.
LEMMA RemoveDeletes ==
  ASSUME TypeInv, RemoveInv, OneAtATime, NEW c \in Callers, DeleteEntry(c)
  PROVE  RemoveInv'
<1> DEFINE h == call[c].h
<1>1. /\ Return(c, "delete") /\ agents' = [agents EXCEPT ![entry[h]] = NoHandle]
      /\ UNCHANGED <<entry, once, stopCh, closed>>
  BY DEF DeleteEntry, flagVars
<1>2. call[c].pc = "delete" /\ CallOwnsHandle(c)
  BY <1>1 DEF Return, CallAt, RemoveInv
<1>3. StopClosed(h) /\ agents[entry[h]] = h
  BY <1>2 DEF CallOwnsHandle
<1>4. /\ agents \in [AgentNames -> Handles \union {NoHandle}]
      /\ entry \in [Handles -> AgentNames \union {NoAgent}]
  BY DEF TypeInv, TypeOK
<1> HIDE DEF h
<1>5. \A k \in Handles : StopClosed(k)' = StopClosed(k)
  BY <1>1 DEF StopClosed
<1>6. ASSUME NEW k \in Made, agents'[entry[k]] # k PROVE StopClosed(k)
  <2>1. CASE agents[entry[k]] # k
    BY <2>1 DEF RemoveInv, RemovedAreStopped, Orphans
  <2>2. CASE agents[entry[k]] = k
    <3>1. entry[k] \in AgentNames
      BY <1>4 DEF Made
    <3>2. entry[k] = entry[h]
      BY <1>1, <1>4, <1>6, <2>2, <3>1
    <3> QED
      BY <1>3, <2>2, <3>2
  <2> QED
    BY <2>1, <2>2
<1>7. RemovedAreStopped'
  BY <1>1, <1>5, <1>6 DEF RemovedAreStopped, Orphans, Made, StopClosed
<1>8. CallOwnsHandle(c)' /\ \A d \in Callers : d = c
  BY <1>1, CallReturns DEF OneAtATime
<1> QED
  BY <1>1, <1>5, <1>7, <1>8 DEF RemoveInv

\* The hub's end leaves no handle, and no call.
LEMMA RemoveGone == ASSUME HubGone PROVE RemoveInv'
<1>1. \A c \in Callers : call'[c].pc = "idle"
  BY DEF HubGone, Idle
<1>2. \A h \in Handles : entry'[h] = NoAgent /\ once'[h] = "idle"
  BY DEF HubGone
<1> QED
  BY <1>1, <1>2 DEF RemoveInv, RemovedAreStopped, Orphans, Made, CallOwnsHandle

\* A new call has just found its handle under its name.
LEMMA RemoveBegins ==
  ASSUME TypeInv, RemoveInv, NEW c \in Callers, NEW a \in AgentNames, NEW op \in Ops, Begin(c, op, a)
  PROVE  RemoveInv'
<1>1. UNCHANGED <<agents, entry, once, stopCh, closed>>
  BY DEF Begin, handleVars, flagVars
<1>2. agents[a] # NoHandle /\ entry[agents[a]] = a
  BY DEF Begin, TypeInv, MapMatchesEntries
<1>3. /\ call \in [Callers -> Calls]
      /\ call' = [call EXCEPT ![c] = [pc |-> IF op = "Restart" THEN "kill" ELSE "once",
                                      op |-> op, h |-> agents[a], tgt |-> NoProc]]
  BY DEF Begin, TypeInv, TypeOK
<1>4. /\ call'[c].pc \in {"kill", "once"} /\ (call'[c].pc = "kill" => call'[c].op = "Restart")
      /\ call'[c].h = agents[a]
  BY <1>3
<1>5. CallOwnsHandle(c)'
  BY <1>1, <1>2, <1>4 DEF CallOwnsHandle
<1> QED
  BY <1>1, <1>3, <1>5, RemoveFrame

\* Spawn maps a name that no handle had, and runs while no call is in progress.
LEMMA RemoveSpawns ==
  ASSUME TypeInv, RemoveInv, OneAtATime, NEW c \in Callers, NEW a \in AgentNames, NEW h \in Handles,
         NEW pol \in Policies, SpawnHandle(c, a, h, pol)
  PROVE  RemoveInv'
<1>1. /\ agents[a] = NoHandle /\ entry[h] = NoAgent /\ agents' = [agents EXCEPT ![a] = h]
      /\ entry' = [entry EXCEPT ![h] = a] /\ call[c].pc = "idle"
      /\ UNCHANGED <<once, stopCh, closed, call>>
  BY DEF SpawnHandle, NextHandle, CallAt, flagVars
<1>2. /\ agents \in [AgentNames -> Handles \union {NoHandle}]
      /\ entry \in [Handles -> AgentNames \union {NoAgent}]
  BY DEF TypeInv, TypeOK
<1>3. ASSUME NEW k \in Handles, entry'[k] # NoAgent, agents'[entry'[k]] # k PROVE StopClosed(k)
  <2>1. k # h
    BY <1>1, <1>2, <1>3
  <2>2. entry'[k] = entry[k] /\ entry[k] \in AgentNames /\ k \in Made
    BY <1>1, <1>2, <1>3, <2>1 DEF Made
  <2>3. agents[entry[k]] # k
    <3>1. CASE entry[k] = a
      BY <1>1, <3>1, HandleFacts
    <3>2. CASE entry[k] # a
      BY <1>1, <1>2, <1>3, <2>2, <3>2
    <3> QED
      BY <3>1, <3>2
  <2> QED
    BY <2>2, <2>3 DEF RemoveInv, RemovedAreStopped, Orphans
<1>4. RemovedAreStopped'
  BY <1>1, <1>3 DEF RemovedAreStopped, Orphans, Made, StopClosed
<1>5. \A d \in Callers : call'[d].pc = "idle"
  BY <1>1 DEF OneAtATime
<1> QED
  BY <1>1, <1>4, <1>5 DEF RemoveInv, CallOwnsHandle, StopClosed

\* Every step keeps RemoveInv.
LEMMA RemoveNext == ASSUME TypeInv, RemoveInv, OneAtATime, [SupervisorNext]_supVars PROVE RemoveInv'
<1>1. CASE \E h \in Handles : Monitor(h)
  BY <1>1, MonitorFrame, RemoveFrame
<1>2. CASE \E c \in Callers : Caller(c) /\ ~ClosePanics(c)
  BY <1>2, RemoveQuiet, RemoveStops, RemoveResets, RemoveDeletes DEF Caller
<1>3. CASE HubGone
  BY <1>3, RemoveGone
<1>4. CASE \E c \in Callers, a \in AgentNames, op \in Ops : Begin(c, op, a)
  BY <1>4, RemoveBegins
<1>5. CASE \E c \in Callers, a \in AgentNames, h \in Handles, pol \in Policies : SpawnHandle(c, a, h, pol)
  BY <1>5, RemoveSpawns
<1>6. CASE (\E p \in Procs : ProcessExits(p)) \/ CancelHub \/ UNCHANGED supVars
  BY <1>6, RemoveFrame DEF ProcessExits, CancelHub, supVars, handleVars, flagVars
<1> QED
  BY <1>1, <1>2, <1>3, <1>4, <1>5, <1>6, NextCases

\* RemoveInv holds of the first state: every configured entry has its own name.
LEMMA RemoveInit == ASSUME SupervisorInit, OneAtATime PROVE RemoveInv
<1>1. ASSUME NEW h \in Made PROVE agents[entry[h]] = h
  <2>1. h \in 1..NumConfigured /\ entry[h] = ConfiguredAgents[h] /\ ConfiguredAgents[h] \in AgentNames
    BY HandleFacts DEF SupervisorInit, Made
  <2>2. LastConfigured(ConfiguredAgents[h], agents[ConfiguredAgents[h]])
    BY <2>1 DEF SupervisorInit
  <2>3. h \in ConfigIndexes(ConfiguredAgents[h])
    BY <2>1 DEF ConfigIndexes
  <2>4. /\ agents[ConfiguredAgents[h]] \in 1..NumConfigured
        /\ ConfiguredAgents[agents[ConfiguredAgents[h]]] = ConfiguredAgents[h]
    BY <2>2, <2>3 DEF LastConfigured, ConfigIndexes
  <2> QED
    BY <2>1, <2>4 DEF OneAtATime
<1>2. \A c \in Callers : call[c].pc = "idle"
  BY DEF SupervisorInit, Idle
<1>3. \A h \in Handles : once[h] = "idle"
  BY DEF SupervisorInit
<1> QED
  BY <1>1, <1>2, <1>3 DEF RemoveInv, RemovedAreStopped, Orphans, CallOwnsHandle

\* Calls that come one after the other never leave a monitor behind that could
\* relaunch an agent no longer in the map, however often the agent is removed
\* and spawned again (Supervisor.Remove, Spawn).
THEOREM RemovalCorrect == ASSUME OneAtATime PROVE SupervisorSpec => []RemovedAreStopped
<1>1. SupervisorInit => RemoveInv
  BY RemoveInit
<1>2. TypeInv /\ RemoveInv /\ [SupervisorNext]_supVars => RemoveInv'
  BY RemoveNext
<1>3. SupervisorSpec => []TypeInv
  BY TypesAndFresh, PTL
<1>4. RemoveInv => RemovedAreStopped
  BY DEF RemoveInv
<1> QED
  BY <1>1, <1>2, <1>3, <1>4, PTL DEF SupervisorSpec
=============================================================================
