----------------------------- MODULE Supervisor -----------------------------
(***************************************************************************)
(* The process supervisor of the hub (src/internal/hub/supervisor.go).     *)
(*                                                                         *)
(* Supervisor.agents maps an agent ID to a *managedAgent (a "handle" here).*)
(* One monitor goroutine per handle runs check -> backoff -> build ->      *)
(* start -> wait; API callers (control-socket connections, the NATS        *)
(* management handler, the config watcher) run Stop, Restart, Remove and   *)
(* Spawn concurrently.  Steps are split where the code takes or releases a *)
(* lock, or reads a field it does not protect: stopCh and stopOnce are     *)
(* written by Restart under ma.mu and read everywhere else without it.     *)
(*                                                                         *)
(* Signal delivery to a child can only fail with os.ErrProcessDone, so the *)
(* error return of kill is left out.                                       *)
(***************************************************************************)
EXTENDS Naturals, FiniteSets

CONSTANTS
  AgentNames,   \* agent IDs
  Policies,     \* restart policies found in zlaw.toml
  ConfiguredAgents, \* function 1..n -> AgentNames: the entries of zlaw.toml, in order
  MaxHandles,   \* bound: managedAgent objects ever created
  Procs,        \* operating-system processes (a subset of Nat)
  Callers,      \* goroutines that call the supervisor's API
  MaxAttempt,   \* bound: the attempt counter saturates here
  MaxResets,    \* bound: Restart calls per handle
  Faults,       \* subset of {"build", "start"}: which launch steps may fail
  NoAgent       \* not an agent ID

NumConfigured == Cardinality(DOMAIN ConfiguredAgents)
Handles == 1..MaxHandles
NoHandle == 0
NoProc == 0

ASSUME ConfiguredAssumption ==
  /\ MaxHandles \in Nat /\ MaxAttempt \in Nat \ {0} /\ MaxResets \in Nat
  /\ NumConfigured \in 0..MaxHandles
  /\ ConfiguredAgents \in [1..NumConfigured -> AgentNames]
  /\ Procs \subseteq Nat \ {0}
  /\ Faults \subseteq {"build", "start"}
  /\ NoAgent \notin AgentNames

VARIABLES
  agents,     \* Supervisor.agents: agent ID -> handle, NoHandle when absent
  entry,      \* managedAgent.entry.ID, NoAgent while the object does not exist
  policy,     \* managedAgent.entry.RestartPolicy
  cmd,        \* managedAgent.cmd
  running,    \* managedAgent.running
  once,       \* managedAgent.stopOnce: "idle", "busy" (f is running), "done"
  stopCh,     \* managedAgent.stopCh: which channel, 0 the first one
  closed,     \* the channels of the handle that have been closed
  mon,        \* program counter of the handle's monitor goroutine
  attempt,    \* local of monitor
  sel,        \* the channel the monitor's backoff select listens to
  child,      \* the monitor's local cmd while its process is not reaped
  exitErr,    \* local of monitor: the last launch or exit ended in an error
  procState,  \* process -> "free", "alive", "clean" or "failed" (exited, not reaped)
  signalled,  \* processes that have received os.Interrupt
  call,       \* caller -> the API call it is executing
  hub,        \* "up", "cancelled" (ctx done), "exited", "panicked"
  late,       \* history: processes started since the current channel was closed
  resetOverlapped \* history: a Stop or Remove ran through a Restart's channel reset

handleVars == <<agents, entry, policy>>
flagVars   == <<once, stopCh, closed>>
statusVars == <<cmd, running>>
monVars    == <<mon, attempt, sel, child, exitErr>>
procVars   == <<procState, signalled>>
histVars   == <<late, resetOverlapped>>
supVars == <<handleVars, flagVars, statusVars, monVars, procVars, call, hub, histVars>>

MonPC == {"none", "check", "backoff", "build", "start", "started",
          "wait", "reap", "exited"}
Ops == {"Stop", "Restart", "Remove"}
Idle == [pc |-> "idle", op |-> "none", h |-> NoHandle, tgt |-> NoProc]

----------------------------------------------------------------------------
(* Helpers *)

HubAlive == hub \in {"up", "cancelled"}
StopClosed(h) == stopCh[h] \in closed[h]

\* Mutant of StopRequested: only the context ends the loop.
StopRequestedByContext(h) == hub = "cancelled"

\* A case of monitor's select is ready.
StopRequested(h) == hub = "cancelled" \/ StopClosed(h)
CallAt(c, loc) == call[c].pc = loc

\* Restart holds ma.mu between its two assignments.
Locked(h) == \E c \in Callers : CallAt(c, "remake") /\ call[c].h = h

\* A process slot no handle or caller can still reach: PIDs are reused, but
\* an os.Process never is.
Free(p) == procState[p] = "free" /\ \A c \in Callers : call[c].tgt # p
FirstFree(p) == Free(p) /\ \A q \in Procs : Free(q) => p <= q

\* Mutant of ShouldRestart: on-failure ignores the exit status.
ShouldRestartAnyExit(pol, failed) == pol \in {"always", "", "on-failure"}

\* Mutant of ShouldRestart: always is treated like on-failure.
ShouldRestartFailedOnly(pol, failed) == pol # "never" /\ failed

ShouldRestart(pol, failed) ==
  \/ pol = "always"
  \/ pol \in {"", "on-failure"} /\ failed

Made == {h \in Handles : entry[h] # NoAgent}
NextHandle(h) == entry[h] = NoAgent /\ \A k \in Handles : k < h => entry[k] # NoAgent

----------------------------------------------------------------------------
(* Supervisor.Start has registered every configured entry; a later entry   *)
(* with the same ID replaces the earlier one in the map.                   *)

ConfigIndexes(a) == {i \in 1..NumConfigured : ConfiguredAgents[i] = a}
LastConfigured(a, h) ==
  IF ConfigIndexes(a) = {}
  THEN h = NoHandle
  ELSE h \in ConfigIndexes(a) /\ \A i \in ConfigIndexes(a) : i <= h

SupervisorInit ==
  /\ agents \in [AgentNames -> Handles \union {NoHandle}]
  /\ \A a \in AgentNames : LastConfigured(a, agents[a])
  /\ entry = [h \in Handles |-> IF h <= NumConfigured THEN ConfiguredAgents[h] ELSE NoAgent]
  /\ \E pol \in [1..NumConfigured -> Policies] :
       policy = [h \in Handles |-> IF h <= NumConfigured THEN pol[h] ELSE ""]
  /\ cmd = [h \in Handles |-> NoProc]
  /\ running = [h \in Handles |-> FALSE]
  /\ once = [h \in Handles |-> "idle"]
  /\ stopCh = [h \in Handles |-> 0]
  /\ closed = [h \in Handles |-> {}]
  /\ mon = [h \in Handles |-> IF h <= NumConfigured THEN "check" ELSE "none"]
  /\ attempt = [h \in Handles |-> 0]
  /\ sel = [h \in Handles |-> 0]
  /\ child = [h \in Handles |-> NoProc]
  /\ exitErr = [h \in Handles |-> FALSE]
  /\ procState = [p \in Procs |-> "free"]
  /\ signalled = {}
  /\ call = [c \in Callers |-> Idle]
  /\ hub = "up"
  /\ late = [h \in Handles |-> 0]
  /\ resetOverlapped = [h \in Handles |-> FALSE]

----------------------------------------------------------------------------
(* The monitor goroutine *)

Goto(h, from, to) ==
  /\ HubAlive
  /\ mon[h] = from
  /\ mon' = [mon EXCEPT ![h] = to]

\* Top of the loop: a ready ctx.Done or stopCh ends the goroutine.
MonitorStops(h) ==
  /\ StopRequested(h)
  /\ Goto(h, "check", "exited")
  /\ UNCHANGED <<handleVars, flagVars, statusVars, attempt, sel, child, exitErr,
                 procVars, call, hub, histVars>>

\* Mutant of MonitorProceeds: the loop looks at the context only.
MonitorIgnoresStop(h) ==
  /\ hub = "up"
  /\ Goto(h, "check", IF attempt[h] > 0 THEN "backoff" ELSE "build")
  /\ sel' = [sel EXCEPT ![h] = IF attempt[h] > 0 THEN stopCh[h] ELSE 0]
  /\ UNCHANGED <<handleVars, flagVars, statusVars, attempt, child, exitErr,
                 procVars, call, hub, histVars>>

\* Top of the loop: neither is ready; attempt 0 is launched without a delay.
MonitorProceeds(h) ==
  /\ ~StopRequested(h)
  /\ Goto(h, "check", IF attempt[h] > 0 THEN "backoff" ELSE "build")
  /\ sel' = [sel EXCEPT ![h] = IF attempt[h] > 0 THEN stopCh[h] ELSE 0]
  /\ UNCHANGED <<handleVars, flagVars, statusVars, attempt, child, exitErr,
                 procVars, call, hub, histVars>>

\* The select around time.After: every ready case may be taken.
BackoffInterrupted(h) ==
  /\ hub = "cancelled" \/ sel[h] \in closed[h]
  /\ Goto(h, "backoff", "exited")
  /\ UNCHANGED <<handleVars, flagVars, statusVars, attempt, sel, child, exitErr,
                 procVars, call, hub, histVars>>

BackoffElapses(h) ==
  /\ Goto(h, "backoff", "build")
  /\ sel' = [sel EXCEPT ![h] = 0]
  /\ UNCHANGED <<handleVars, flagVars, statusVars, attempt, child, exitErr,
                 procVars, call, hub, histVars>>

BuildCmd(h) ==
  /\ Goto(h, "build", "start")
  /\ UNCHANGED <<handleVars, flagVars, statusVars, attempt, sel, child, exitErr,
                 procVars, call, hub, histVars>>

\* buildCmd fails (no binary, unreadable credentials): supervision ends,
\* whatever the policy.
BuildFails(h) ==
  /\ "build" \in Faults
  /\ ~Locked(h)
  /\ Goto(h, "build", "exited")
  /\ running' = [running EXCEPT ![h] = FALSE]
  /\ exitErr' = [exitErr EXCEPT ![h] = TRUE]
  /\ UNCHANGED <<handleVars, flagVars, cmd, attempt, sel, child, procVars, call, hub, histVars>>

NextAttempt(h) == IF attempt[h] < MaxAttempt THEN attempt[h] + 1 ELSE MaxAttempt

LateStarts(h) == IF StopClosed(h) THEN late[h] + 1 ELSE 0

StartProcess(h, p) ==
  /\ Goto(h, "start", "started")
  /\ FirstFree(p)
  /\ procState' = [procState EXCEPT ![p] = "alive"]
  /\ child' = [child EXCEPT ![h] = p]
  /\ late' = [late EXCEPT ![h] = LateStarts(h)]
  /\ UNCHANGED <<handleVars, flagVars, statusVars, attempt, sel, exitErr, signalled,
                 call, hub, resetOverlapped>>

\* cmd.Start fails: counts as an attempt, retried if the policy says so.
StartFails(h) ==
  /\ "start" \in Faults
  /\ ~Locked(h)
  /\ Goto(h, "start", IF ShouldRestart(policy[h], TRUE) THEN "check" ELSE "exited")
  /\ running' = [running EXCEPT ![h] = FALSE]
  /\ attempt' = [attempt EXCEPT ![h] = NextAttempt(h)]
  /\ exitErr' = [exitErr EXCEPT ![h] = TRUE]
  /\ UNCHANGED <<handleVars, flagVars, cmd, sel, child, procVars, call, hub, histVars>>

\* setRunning: only from here on do Stop, Restart and Remove see the process.
SetRunning(h) ==
  /\ ~Locked(h)
  /\ Goto(h, "started", "wait")
  /\ cmd' = [cmd EXCEPT ![h] = child[h]]
  /\ running' = [running EXCEPT ![h] = TRUE]
  /\ UNCHANGED <<handleVars, flagVars, attempt, sel, child, exitErr,
                 procVars, call, hub, histVars>>

\* Mutant of WaitReturns: an interrupted process is taken for a dead one.
WaitAbandons(h) ==
  /\ Goto(h, "wait", "reap")
  /\ child[h] \in signalled
  /\ child' = [child EXCEPT ![h] = NoProc]
  /\ UNCHANGED <<handleVars, flagVars, statusVars, attempt, sel, exitErr, procVars,
                 call, hub, histVars>>

\* cmd.Wait returns: the process is reaped.
WaitReturns(h) ==
  /\ Goto(h, "wait", "reap")
  /\ procState[child[h]] \in {"clean", "failed"}
  /\ exitErr' = [exitErr EXCEPT ![h] = procState[child[h]] = "failed"]
  /\ procState' = [procState EXCEPT ![child[h]] = "free"]
  /\ signalled' = signalled \ {child[h]}
  /\ child' = [child EXCEPT ![h] = NoProc]
  /\ UNCHANGED <<handleVars, flagVars, statusVars, attempt, sel, call, hub, histVars>>

\* Mutant of SetStopped: running is left set.
SetStoppedStillRunning(h) ==
  LET again == ShouldRestart(policy[h], exitErr[h]) IN
  /\ Goto(h, "reap", IF again THEN "check" ELSE "exited")
  /\ attempt' = [attempt EXCEPT ![h] = IF again THEN NextAttempt(h) ELSE @]
  /\ UNCHANGED <<handleVars, flagVars, statusVars, sel, child, exitErr,
                 procVars, call, hub, histVars>>

\* setStopped, then the policy decides.
SetStopped(h) ==
  LET again == ShouldRestart(policy[h], exitErr[h]) IN
  /\ ~Locked(h)
  /\ Goto(h, "reap", IF again THEN "check" ELSE "exited")
  /\ running' = [running EXCEPT ![h] = FALSE]
  /\ attempt' = [attempt EXCEPT ![h] = IF again THEN NextAttempt(h) ELSE @]
  /\ UNCHANGED <<handleVars, flagVars, cmd, sel, child, exitErr,
                 procVars, call, hub, histVars>>

Monitor(h) ==
  \/ MonitorStops(h)
  \/ MonitorProceeds(h)
  \/ BackoffInterrupted(h)
  \/ BackoffElapses(h)
  \/ BuildCmd(h)
  \/ BuildFails(h)
  \/ \E p \in Procs : StartProcess(h, p)
  \/ StartFails(h)
  \/ SetRunning(h)
  \/ WaitReturns(h)
  \/ SetStopped(h)

----------------------------------------------------------------------------
(* Stop, Restart and Remove.  A call looks the handle up under s.mu and    *)
(* then works on it with s.mu released.                                    *)

ResetsBegun(h) ==
  stopCh[h] + Cardinality({c \in Callers : call[c].op = "Restart" /\ call[c].h = h})

\* Mutant of Begin: an unknown agent is not refused.
BeginUnknown(c, op, a) ==
  /\ HubAlive
  /\ CallAt(c, "idle")
  /\ op # "Restart"
  /\ call' = [call EXCEPT ![c] = [pc |-> "once", op |-> op, h |-> agents[a], tgt |-> NoProc]]
  /\ UNCHANGED <<handleVars, flagVars, statusVars, monVars, procVars, hub, histVars>>

\* Mutant of Begin: Remove goes straight to kill.
BeginWithoutStop(c, op, a) ==
  /\ HubAlive
  /\ CallAt(c, "idle")
  /\ agents[a] # NoHandle
  /\ op = "Restart" => ResetsBegun(agents[a]) < MaxResets
  /\ call' = [call EXCEPT ![c] = [pc |-> IF op = "Stop" THEN "once" ELSE "kill",
                                  op |-> op, h |-> agents[a], tgt |-> NoProc]]
  /\ UNCHANGED <<handleVars, flagVars, statusVars, monVars, procVars, hub, histVars>>

\* get(id); an unknown ID returns an error and changes nothing.
Begin(c, op, a) ==
  /\ HubAlive
  /\ CallAt(c, "idle")
  /\ agents[a] # NoHandle
  /\ op = "Restart" => ResetsBegun(agents[a]) < MaxResets
  /\ call' = [call EXCEPT ![c] = [pc |-> IF op = "Restart" THEN "kill" ELSE "once",
                                  op |-> op, h |-> agents[a], tgt |-> NoProc]]
  /\ UNCHANGED <<handleVars, flagVars, statusVars, monVars, procVars, hub, histVars>>

MoveTo(c, from, to, t) ==
  /\ HubAlive
  /\ CallAt(c, from)
  /\ call' = [call EXCEPT ![c] = [@ EXCEPT !.pc = to, !.tgt = t]]

Step(c, from, to) == MoveTo(c, from, to, NoProc)

Return(c, from) ==
  /\ HubAlive
  /\ CallAt(c, from)
  /\ call' = [call EXCEPT ![c] = Idle]

\* stopOnce.Do, entry; a caller waits here while another one runs f.
OnceEnter(c) ==
  LET h == call[c].h IN
  /\ Step(c, "once", "close")
  /\ once[h] = "idle"
  /\ once' = [once EXCEPT ![h] = "busy"]
  /\ resetOverlapped' = [resetOverlapped EXCEPT ![h] = @ \/ Locked(h)]
  /\ UNCHANGED <<handleVars, stopCh, closed, statusVars, monVars, procVars,
                 hub, late>>

\* stopOnce.Do on a Once that is done: f is not run again.
OnceSkip(c) ==
  /\ Step(c, "once", "kill")
  /\ once[call[c].h] = "done"
  /\ UNCHANGED <<handleVars, flagVars, statusVars, monVars, procVars, hub, histVars>>

\* f closes ma.stopCh, then Do marks the Once done and unlocks it.
CloseStopCh(c) ==
  LET h == call[c].h IN
  /\ Step(c, "close", "kill")
  /\ once[h] = "busy" /\ ~StopClosed(h)
  /\ closed' = [closed EXCEPT ![h] = @ \union {stopCh[h]}]
  /\ once' = [once EXCEPT ![h] = "done"]
  /\ late' = [late EXCEPT ![h] = 0]
  /\ resetOverlapped' = [resetOverlapped EXCEPT ![h] = @ \/ Locked(h)]
  /\ UNCHANGED <<handleVars, stopCh, statusVars, monVars, procVars, hub>>

\* The hub process is gone: its goroutines and its memory with it.  The agent
\* processes stay.
HubGone ==
  /\ agents' = [a \in AgentNames |-> NoHandle]
  /\ entry' = [h \in Handles |-> NoAgent]
  /\ policy' = [h \in Handles |-> ""]
  /\ cmd' = [h \in Handles |-> NoProc]
  /\ running' = [h \in Handles |-> FALSE]
  /\ once' = [h \in Handles |-> "idle"]
  /\ stopCh' = [h \in Handles |-> 0]
  /\ closed' = [h \in Handles |-> {}]
  /\ mon' = [h \in Handles |-> "none"]
  /\ attempt' = [h \in Handles |-> 0]
  /\ sel' = [h \in Handles |-> 0]
  /\ child' = [h \in Handles |-> NoProc]
  /\ exitErr' = [h \in Handles |-> FALSE]
  /\ call' = [c \in Callers |-> Idle]
  /\ late' = [h \in Handles |-> 0]
  /\ UNCHANGED <<procVars, resetOverlapped>>

\* Closing a closed channel panics; so does unlocking a Once that Restart
\* has meanwhile overwritten with a zero value.
ClosePanics(c) ==
  /\ HubAlive
  /\ CallAt(c, "close")
  /\ once[call[c].h] # "busy" \/ StopClosed(call[c].h)
  /\ hub' = "panicked"
  /\ HubGone

\* Where a call continues once kill has returned nil.
AfterKill(op) ==
  CASE op = "Stop" -> "return" [] op = "Restart" -> "reset" [] op = "Remove" -> "delete"

\* kill: read cmd and running under ma.mu; nothing to signal.
KillNotRunning(c) ==
  LET h == call[c].h IN
  /\ Step(c, "kill", AfterKill(call[c].op))
  /\ ~Locked(h)
  /\ ~running[h]
  /\ UNCHANGED <<handleVars, flagVars, statusVars, monVars, procVars, hub, histVars>>

\* kill: read cmd and running under ma.mu; the process is signalled later.
KillReads(c) ==
  LET h == call[c].h IN
  /\ MoveTo(c, "kill", "signal", cmd[h])
  /\ ~Locked(h)
  /\ running[h]
  /\ UNCHANGED <<handleVars, flagVars, statusVars, monVars, procVars, hub, histVars>>

\* kill: Process.Signal(os.Interrupt); ErrProcessDone is ignored.
Signal(c) ==
  /\ Step(c, "signal", AfterKill(call[c].op))
  /\ signalled' = signalled \union {p \in Procs : p = call[c].tgt /\ procState[p] = "alive"}
  /\ UNCHANGED <<handleVars, flagVars, statusVars, monVars, procState, hub, histVars>>

StopReturns(c) ==
  /\ Return(c, "return")
  /\ UNCHANGED <<handleVars, flagVars, statusVars, monVars, procVars, hub, histVars>>

\* Mutant of ResetOnce: the Once is kept.
ResetNothing(c) ==
  /\ Step(c, "reset", "remake")
  /\ ~Locked(call[c].h)
  /\ UNCHANGED <<handleVars, flagVars, statusVars, monVars, procVars, hub, histVars>>

\* Restart takes ma.mu and overwrites stopOnce, which Stop does not lock.
ResetOnce(c) ==
  LET h == call[c].h IN
  /\ Step(c, "reset", "remake")
  /\ ~Locked(h)
  /\ once' = [once EXCEPT ![h] = "idle"]
  /\ resetOverlapped' = [resetOverlapped EXCEPT ![h] = @ \/ once[h] = "busy"]
  /\ UNCHANGED <<handleVars, stopCh, closed, statusVars, monVars, procVars, hub, late>>

\* Restart installs a fresh channel and releases ma.mu.
RemakeStopCh(c) ==
  LET h == call[c].h IN
  /\ Return(c, "remake")
  /\ stopCh' = [stopCh EXCEPT ![h] = @ + 1]
  /\ late' = [late EXCEPT ![h] = 0]
  /\ UNCHANGED <<handleVars, once, closed, statusVars, monVars, procVars, hub, resetOverlapped>>

\* Remove deletes whatever handle the name maps to by now.
DeleteEntry(c) ==
  /\ Return(c, "delete")
  /\ agents' = [agents EXCEPT ![entry[call[c].h]] = NoHandle]
  /\ UNCHANGED <<entry, policy, flagVars, statusVars, monVars, procVars, hub, histVars>>

\* Spawn: check and insert under s.mu, then start the monitor.
SpawnHandle(c, a, h, pol) ==
  /\ HubAlive
  /\ CallAt(c, "idle")
  /\ agents[a] = NoHandle
  /\ NextHandle(h)
  /\ agents' = [agents EXCEPT ![a] = h]
  /\ entry' = [entry EXCEPT ![h] = a]
  /\ policy' = [policy EXCEPT ![h] = pol]
  /\ mon' = [mon EXCEPT ![h] = "check"]
  /\ UNCHANGED <<flagVars, statusVars, attempt, sel, child, exitErr,
                 procVars, call, hub, histVars>>

Caller(c) ==
  \/ OnceEnter(c)
  \/ OnceSkip(c)
  \/ CloseStopCh(c)
  \/ ClosePanics(c)
  \/ KillNotRunning(c)
  \/ KillReads(c)
  \/ Signal(c)
  \/ StopReturns(c)
  \/ ResetOnce(c)
  \/ RemakeStopCh(c)
  \/ DeleteEntry(c)

----------------------------------------------------------------------------
(* The environment: agent processes exit, the hub is told to stop.         *)

\* An agent exits on its own or because of the signal, with either status.
ProcessExits(p) ==
  /\ procState[p] = "alive"
  /\ \E status \in {"clean", "failed"} : procState' = [procState EXCEPT ![p] = status]
  /\ UNCHANGED <<handleVars, flagVars, statusVars, monVars, signalled,
                 call, hub, histVars>>

CancelHub ==
  /\ hub = "up"
  /\ hub' = "cancelled"
  /\ UNCHANGED <<handleVars, flagVars, statusVars, monVars, procVars, call, histVars>>

\* runHub returns without stopping the agents.
HubExits ==
  /\ hub = "cancelled"
  /\ hub' = "exited"
  /\ HubGone

SupervisorNext ==
  \/ \E h \in Handles : Monitor(h)
  \/ \E c \in Callers : Caller(c)
  \/ \E c \in Callers, a \in AgentNames, op \in Ops : Begin(c, op, a)
  \/ \E c \in Callers, a \in AgentNames, h \in Handles, pol \in Policies :
       SpawnHandle(c, a, h, pol)
  \/ \E p \in Procs : ProcessExits(p)
  \/ CancelHub
  \/ HubExits

SupervisorSpec == SupervisorInit /\ [][SupervisorNext]_supVars

\* Goroutines that can run eventually do, and an interrupted agent exits
\* (agent serve returns on SIGINT); nobody has to call the API, and an agent
\* that was not interrupted may run forever.
Fairness ==
  /\ \A h \in Handles : WF_supVars(Monitor(h))
  /\ \A c \in Callers : WF_supVars(Caller(c))
  /\ \A p \in Procs : WF_supVars(p \in signalled /\ ProcessExits(p))

FairSupervisorSpec == SupervisorSpec /\ Fairness

----------------------------------------------------------------------------
(* Properties *)

CallPC == {"idle", "once", "close", "kill", "signal", "return", "reset",
           "remake", "delete"}
Calls == [pc : CallPC, op : Ops \union {"none"}, h : Handles \union {NoHandle},
          tgt : Procs \union {NoProc}]

\* Every variable has its type, and a call in progress works on a created
\* handle (supervisor.go: managedAgent, Supervisor, monitor's locals).
TypeOK ==
  /\ agents \in [AgentNames -> Handles \union {NoHandle}]
  /\ entry \in [Handles -> AgentNames \union {NoAgent}]
  /\ policy \in [Handles -> Policies \union {""}]
  /\ cmd \in [Handles -> Procs \union {NoProc}]
  /\ running \in [Handles -> BOOLEAN]
  /\ once \in [Handles -> {"idle", "busy", "done"}]
  /\ stopCh \in [Handles -> Nat]
  /\ closed \in [Handles -> SUBSET Nat]
  /\ mon \in [Handles -> MonPC]
  /\ attempt \in [Handles -> 0..MaxAttempt]
  /\ sel \in [Handles -> Nat]
  /\ child \in [Handles -> Procs \union {NoProc}]
  /\ exitErr \in [Handles -> BOOLEAN]
  /\ procState \in [Procs -> {"free", "alive", "clean", "failed"}]
  /\ signalled \in SUBSET Procs
  /\ call \in [Callers -> Calls]
  /\ \A c \in Callers : call[c].pc # "idle" => call[c].op \in Ops /\ call[c].h \in Made
  /\ hub \in {"up", "cancelled", "exited", "panicked"}
  /\ late \in [Handles -> Nat]
  /\ resetOverlapped \in [Handles -> BOOLEAN]

\* Every process that exists is the child of exactly one monitor, which is
\* between cmd.Start and the return of cmd.Wait; a monitor elsewhere has no
\* child.  So a handle never has two processes, whatever Stop, Restart and
\* Remove do to it, and no process is left without a goroutine to reap it.
MonitorOwnsProcess ==
  /\ \A p \in Procs : procState[p] # "free" /\ HubAlive => \E h \in Handles : child[h] = p
  /\ \A h \in Handles : child[h] # NoProc <=> mon[h] \in {"started", "wait"}
  /\ \A h \in Handles : child[h] # NoProc => procState[child[h]] # "free"
  /\ \A h, k \in Handles : child[h] # NoProc /\ child[h] = child[k] => h = k

\* What Status and kill read (running, cmd) names a process the monitor is
\* really waiting for, or one it has just reaped and will report stopped.
StatusMatchesMonitor ==
  \A h \in Handles :
    /\ running[h] <=> mon[h] \in {"wait", "reap"}
    /\ mon[h] = "wait" => cmd[h] = child[h]

\* A relaunch is always justified by the policy and by how the last process
\* ended: never-restart agents run once, and a clean exit is final under
\* on-failure (shouldRestart, the two loop exits of monitor).
RestartsJustified ==
  \A h \in Handles :
    attempt[h] > 0 /\ mon[h] \in {"check", "backoff", "build", "start", "started", "wait"} =>
      \/ policy[h] = "always"
      \/ policy[h] \in {"", "on-failure"} /\ exitErr[h]

\* Once the current stop channel is closed the monitor starts at most one
\* more process: the one whose launch was past its last look at the channel.
AtMostOneLateStart == \A h \in Handles : StopClosed(h) => late[h] <= 1

\* As long as no Stop or Remove has run through the two unprotected
\* assignments of Restart, stopOnce and stopCh agree: a done Once means a
\* closed channel, an idle one an open channel.  A disagreement is a stop that
\* is lost or a hub that panics.
OnceMatchesChannel ==
  /\ \A h \in Handles : ~resetOverlapped[h] /\ ~Locked(h) => (once[h] = "done" <=> StopClosed(h))
  /\ hub = "panicked" => \E h \in Handles : resetOverlapped[h]

\* The monitor cannot leave its handle running once stop is certain: the
\* channel is closed and either the monitor has no process and will look at
\* the channel next, or its process has been interrupted.
Doomed(h) ==
  /\ StopClosed(h)
  /\ \/ mon[h] \in {"check", "reap"}
     \/ mon[h] \in {"started", "wait"} /\ child[h] \in signalled

\* A stop that reached the process ends supervision of the handle, unless a
\* Restart installs a new channel or the hub goes away.
StopEndsMonitor ==
  \A h \in Handles :
    Doomed(h) ~> mon[h] = "exited" \/ ~StopClosed(h) \/ ~HubAlive

\* Under policy always every exit leads to another launch attempt, unless the
\* agent is told to stop or the hub shuts down (monitor's loop and backoff).
AlwaysRelaunches ==
  \A h \in Handles :
    policy[h] = "always" /\ mon[h] = "reap" ~>
      mon[h] = "build" \/ StopClosed(h) \/ hub # "up"

\* A handle that left the map through Remove has its stop channel closed, so
\* that its monitor will not relaunch it.  It holds when API calls do not
\* overlap (Remove's DeleteEntry deletes by name whatever is there by then).
Orphans == {h \in Made : agents[entry[h]] # h}
RemovedAreStopped ==
  \A h \in Orphans : StopClosed(h)

\* "Stop signals the agent to stop and does not restart it": when Stop is
\* about to return nil the agent goes down and stays without a monitor.
StopTakesEffect ==
  \A c \in Callers, h \in Handles :
    CallAt(c, "return") /\ call[c].h = h ~> mon[h] = "exited" \/ ~StopClosed(h) \/ ~HubAlive

\* "Restart stops the named agent and spawns a fresh process": when Restart
\* completes, a process that was not interrupted eventually runs, unless the
\* agent is stopped or the hub shuts down.
RestartSpawnsFresh ==
  \A c \in Callers, h \in Handles :
    CallAt(c, "remake") /\ call[c].h = h ~>
      \/ child[h] # NoProc /\ child[h] \notin signalled
      \/ StopClosed(h)
      \/ hub # "up"
=============================================================================
