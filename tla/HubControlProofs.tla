-------------------------- MODULE HubControlProofs --------------------------
(***************************************************************************)
(* Proofs about HubControl, for any agents, connections, requests and hub  *)
(* restarts, and about Registry, for any IDs, publishers and removers.     *)
(***************************************************************************)
EXTENDS HubControl, Registry, SequenceTheorems, FunctionTheorems, FiniteSetTheorems, TLAPS

----------------------------------------------------------------------------
(* The registry *)

LEMMA TypeNext == TypeOK /\ [Next]_vars => TypeOK'
<1> SUFFICES ASSUME TypeOK, [Next]_vars PROVE TypeOK'
  OBVIOUS
<1> USE PayloadAssumption DEF TypeOK, clockVars, entryVars, checkVars
<1>1. ASSUME NEW w \in Writers, AskForLock(w) PROVE TypeOK'
  BY <1>1 DEF AskForLock, Wants
<1>2. ASSUME NEW p \in Publishers, Publish(p) PROVE TypeOK'
  BY <1>2 DEF Publish, Wants
<1>3. ASSUME NEW p \in Publishers, IgnoreMessage(p) PROVE TypeOK'
  BY <1>3 DEF IgnoreMessage, Wants
<1>4. ASSUME NEW p \in Publishers, ReceiveMessage(p) PROVE TypeOK'
  BY <1>4 DEF ReceiveMessage, Wants
<1>5. CASE Upsert
  <2>1. sub \in IDs
    BY <1>5 DEF Upsert, Locked, Wants, NoWriter
  <2>2. status' \in [IDs -> {"absent", "connected", "disconnected"}] /\ last' \in [IDs -> Nat]
    BY <1>5, <2>1 DEF Upsert
  <2>3. QED
    BY <1>5, <2>2 DEF Upsert, Locked, NoWriter
<1>6. CASE BeginCheck
  <2>1. deadline' \in Int
    <3>1. now \in Int /\ deadline' = now - 2 * 3
      BY <1>6 DEF BeginCheck, Deadline, maxMissedHeartbeats, heartbeatInterval
    <3>2. QED
      BY <3>1
  <2>2. writer # NoWriter => Wants(writer)'
    BY <1>6 DEF BeginCheck, Wants
  <2>3. QED
    BY <1>6, <2>1, <2>2 DEF BeginCheck
<1>7. CASE Sweep
  BY <1>7 DEF Sweep, Locked, NoWriter
<1>8. ASSUME NEW r \in Removers, NEW i \in IDs, BeginDeregister(r, i) PROVE TypeOK'
  <2>1. removing' \in [Removers -> IDs \union {NoId}]
    BY <1>8 DEF BeginDeregister
  <2>2. writer # NoWriter => Wants(writer)'
    BY <1>8 DEF BeginDeregister, Wants
  <2>3. QED
    BY <1>8, <2>1, <2>2 DEF BeginDeregister
<1>9. ASSUME NEW r \in Removers, EndDeregister(r) PROVE TypeOK'
  <2>1. writer' = NoWriter /\ UNCHANGED <<clockVars, wire, sub, checkVars, query>>
    BY <1>9 DEF EndDeregister, Locked
  <2>2. status' \in [IDs -> {"absent", "connected", "disconnected"}]
    BY <1>9 DEF EndDeregister
  <2>3. last' \in [IDs -> Nat]
    BY <1>9 DEF EndDeregister
  <2>4. removing' \in [Removers -> IDs \union {NoId}]
    BY <1>9 DEF EndDeregister
  <2>5. QED
    BY <2>1, <2>2, <2>3, <2>4
<1>10. CASE QueryLocks \/ QueryLists
  BY <1>10 DEF QueryLocks, QueryLists, Wants
<1>11. CASE ClockTicks
  BY <1>11 DEF ClockTicks, Wants
<1>12. CASE UNCHANGED vars
  BY <1>12 DEF vars, Wants
<1>13. QED
  BY <1>1, <1>2, <1>3, <1>4, <1>5, <1>6, <1>7, <1>8, <1>9, <1>10, <1>11, <1>12 DEF Next

\* Every variable keeps its type (registry.go, all operations).
THEOREM TypeCorrect == Spec => []TypeOK
<1>1. Init => TypeOK
  <2>1. 0 \in 0..MaxNow /\ 0 \in Int
    BY PayloadAssumption
  <2> SUFFICES ASSUME Init PROVE TypeOK
    OBVIOUS
  <2>3. /\ status \in [IDs -> {"absent", "connected", "disconnected"}]
        /\ last \in [IDs -> Nat]
        /\ removing \in [Removers -> IDs \union {NoId}]
    BY DEF Init
  <2>4. ticked \in BOOLEAN /\ wire \in SUBSET Publishers
    BY DEF Init
  <2>5. QED
    BY <2>1, <2>3, <2>4 DEF Init, TypeOK
<1>2. QED
  BY <1>1, TypeNext, PTL DEF Spec

\* What one action may do to an entry: nothing, store a heartbeat, sweep it,
\* or delete it.
LEMMA EntrySteps ==
  ASSUME TypeOK, [Next]_vars, NEW i \in IDs
  PROVE  \/ status'[i] = status[i] /\ last'[i] = last[i]
         \/ status'[i] = "connected" /\ last'[i] = now /\ now' = now
         \/ Sweep
         \/ status'[i] = "absent"
<1> USE DEF TypeOK, clockVars, entryVars, checkVars
<1>1. CASE Upsert
  <2>1. \/ status'[i] = status[i] /\ last'[i] = last[i]
        \/ status'[i] = "connected" /\ last'[i] = now
    BY <1>1 DEF Upsert
  <2>2. QED
    BY <1>1, <2>1 DEF Upsert
<1>2. CASE \E r \in Removers : EndDeregister(r)
  BY <1>2 DEF EndDeregister
<1>3. CASE \/ \E w \in Writers : AskForLock(w)
           \/ \E p \in Publishers : Publish(p) \/ IgnoreMessage(p) \/ ReceiveMessage(p)
           \/ BeginCheck \/ QueryLocks \/ QueryLists \/ ClockTicks
           \/ \E r \in Removers, k \in IDs : BeginDeregister(r, k)
           \/ UNCHANGED vars
  BY <1>3 DEF AskForLock, Publish, IgnoreMessage, ReceiveMessage, BeginCheck, QueryLocks,
              QueryLists, ClockTicks, BeginDeregister, vars
<1>4. QED
  BY <1>1, <1>2, <1>3 DEF Next

\* The clock, the ticker and the monitor: the deadline in use was computed
\* from a clock that has not run backwards since.
DeadlinePast == check = "lock" => deadline <= now - 6

LEMMA ClockSteps ==
  ASSUME TypeOK, [Next]_vars
  PROVE  /\ now' = now \/ now' = now + 1
         /\ check' = "lock" => \/ check = "lock" /\ deadline' = deadline
                               \/ BeginCheck
  BY DEF TypeOK, Next, AskForLock, Publish, IgnoreMessage, ReceiveMessage, Upsert, BeginCheck,
         Sweep, BeginDeregister, EndDeregister, QueryLocks, QueryLists, ClockTicks, vars,
         clockVars, checkVars

LEMMA DeadlinePastNext == TypeOK /\ DeadlinePast /\ [Next]_vars => DeadlinePast'
<1> SUFFICES ASSUME TypeOK, DeadlinePast, [Next]_vars, check' = "lock"
             PROVE  deadline' <= now' - 6
  BY DEF DeadlinePast
<1>1. now' = now \/ now' = now + 1
  BY ClockSteps
<1>2. now \in Nat /\ deadline \in Int
  BY PayloadAssumption DEF TypeOK
<1>3. CASE check = "lock" /\ deadline' = deadline
  BY <1>1, <1>2, <1>3 DEF DeadlinePast
<1>4. CASE BeginCheck
  BY <1>2, <1>4 DEF BeginCheck, Deadline, maxMissedHeartbeats, heartbeatInterval
<1>5. QED
  BY <1>3, <1>4, ClockSteps

LEMMA CheckLocks == TypeOK /\ Sweep => check = "lock"
<1> SUFFICES ASSUME TypeOK, Sweep PROVE check = "lock"
  OBVIOUS
<1>1. writer = "check" /\ "check" # NoWriter /\ "check" \notin Removers
  BY PayloadAssumption DEF Sweep, Locked, NoWriter
<1>2. QED
  BY <1>1 DEF TypeOK, Wants

LEMMA JustifiedNext ==
  TypeOK /\ DeadlinePast /\ DisconnectJustified /\ [Next]_vars => DisconnectJustified'
<1> SUFFICES ASSUME TypeOK, DeadlinePast, DisconnectJustified, [Next]_vars,
                    NEW i \in IDs, status'[i] = "disconnected"
             PROVE  now' - last'[i] > 6
  BY DEF DisconnectJustified, Silence, maxMissedHeartbeats, heartbeatInterval
<1>1. now \in Nat /\ last[i] \in Nat /\ deadline \in Int /\ (now' = now \/ now' = now + 1)
  BY ClockSteps, PayloadAssumption DEF TypeOK
<1>2. status[i] = "disconnected" => now - last[i] > 6
  BY DEF DisconnectJustified, Silence, maxMissedHeartbeats, heartbeatInterval
<1>3. CASE status'[i] = status[i] /\ last'[i] = last[i]
  BY <1>1, <1>2, <1>3
<1>4. CASE Sweep
  <2>1. /\ last' = last /\ now' = now
        /\ status'[i] = IF Expired(i) THEN "disconnected" ELSE status[i]
    BY <1>4 DEF Sweep, clockVars
  <2>5. check = "lock"
    BY <1>4, CheckLocks
  <2>2. CASE Expired(i)
    BY <1>1, <2>1, <2>2, <2>5 DEF Expired, DeadlinePast
  <2>3. CASE ~Expired(i)
    BY <1>1, <1>2, <2>1, <2>3
  <2>4. QED
    BY <2>2, <2>3
<1>5. QED
  BY <1>3, <1>4, EntrySteps

\* Nobody is shown as disconnected who was heard from in the last two
\* heartbeat intervals, whatever runs while checkHeartbeats waits for mu.
THEOREM JustifiedCorrect == Spec => []DisconnectJustified
<1>1. Init => DeadlinePast /\ DisconnectJustified
  BY DEF Init, DeadlinePast, DisconnectJustified
<1>2. QED
  BY <1>1, TypeCorrect, DeadlinePastNext, JustifiedNext, PTL DEF Spec

----------------------------------------------------------------------------
(* SilenceNoticed needs the ticker: the last tick up to now has been swept  *)
(* for, or its sweep is under way.                                         *)

LastTick == now - (now % 3)

SweptUpTo(t) == \A i \in IDs : status[i] = "connected" => last[i] >= t - 6

TickerInv ==
  /\ \A i \in IDs : last[i] <= now
  /\ Stuck \/ (/\ check = "idle" /\ ~ticked => SweptUpTo(LastTick)
               /\ check = "lock" \/ ticked =>
                    /\ now % 3 = 0
                    /\ SweptUpTo(now - 3)
               /\ check = "lock" => ~ticked /\ deadline = now - 6)

\* Reader and writer wait for each other: nobody else can help.
LEMMA StuckStays == TypeOK /\ Stuck /\ [Next]_vars => Stuck'
  BY DEF TypeOK, Stuck, Next, AskForLock, Publish, IgnoreMessage, ReceiveMessage, Upsert,
         BeginCheck, Sweep, BeginDeregister, EndDeregister, QueryLocks, QueryLists, ClockTicks, vars,
         Locked

\* What a step may do to the ticker and the monitor.
LEMMA TickerSteps ==
  ASSUME TypeOK, [Next]_vars, ~Stuck
  PROVE  \/ UNCHANGED <<now, ticked, check, deadline>> /\ ~Sweep
         \/ BeginCheck
         \/ Sweep
         \/ ClockTicks
  BY DEF TypeOK, Next, AskForLock, Publish, IgnoreMessage, ReceiveMessage, Upsert,
         BeginDeregister, EndDeregister, QueryLocks, QueryLists, vars, Sweep,
         clockVars, checkVars, Locked

LEMMA TickerNext == TypeOK /\ TickerInv /\ [Next]_vars => TickerInv'
<1> SUFFICES ASSUME TypeOK, TickerInv, [Next]_vars PROVE TickerInv'
  OBVIOUS
<1>1. /\ now \in Nat /\ now' \in Nat /\ (now' = now \/ now' = now + 1)
      /\ last \in [IDs -> Nat] /\ last' \in [IDs -> Nat]
      /\ ticked \in BOOLEAN /\ check \in {"idle", "lock"} /\ deadline \in Int
  BY TypeNext, ClockSteps, PayloadAssumption DEF TypeOK
<1>2. \A i \in IDs : last'[i] <= now'
  <2> SUFFICES ASSUME NEW i \in IDs PROVE last'[i] <= now'
    OBVIOUS
  <2>1. last'[i] = last[i] \/ last'[i] = now \/ last'[i] = 0
    BY <1>1 DEF Next, AskForLock, Publish, IgnoreMessage, ReceiveMessage, Upsert, BeginCheck,
           Sweep, BeginDeregister, EndDeregister, QueryLocks, QueryLists, ClockTicks, vars, entryVars
  <2>2. last[i] <= now
    BY DEF TickerInv
  <2>3. QED
    BY <1>1, <2>1, <2>2
<1>3. CASE Stuck
  BY <1>2, <1>3, StuckStays DEF TickerInv
<1>4. CASE ~Stuck
  <2>1. /\ check = "idle" /\ ~ticked => SweptUpTo(LastTick)
        /\ check = "lock" \/ ticked => now % 3 = 0 /\ SweptUpTo(now - 3)
        /\ check = "lock" => ~ticked /\ deadline = now - 6
    BY <1>4 DEF TickerInv
  <2>2. ASSUME NEW t \in Int, t <= now, SweptUpTo(t), ~Sweep PROVE SweptUpTo(t)'
    <3> SUFFICES ASSUME NEW i \in IDs, status'[i] = "connected" PROVE last'[i] >= t - 6
      BY DEF SweptUpTo
    <3>1. status[i] = "connected" => last[i] >= t - 6
      BY <2>2 DEF SweptUpTo
    <3>2. QED
      BY <1>1, <2>2, <3>1, EntrySteps
  <2>3. CASE UNCHANGED <<now, ticked, check, deadline>> /\ ~Sweep
    <3>1. LastTick \in Int /\ LastTick <= now /\ now - 3 \in Int /\ now - 3 <= now
      BY <1>1 DEF LastTick
    <3>2. /\ SweptUpTo(LastTick) => SweptUpTo(LastTick)'
          /\ SweptUpTo(now - 3) => SweptUpTo(now - 3)'
      <4>1. ASSUME NEW t \in Int, t <= now, SweptUpTo(t) PROVE SweptUpTo(t)'
        BY <2>2, <2>3, <4>1
      <4>2. LastTick' = LastTick /\ now' - 3 = now - 3
        BY <2>3 DEF LastTick
      <4>3. QED
        BY <3>1, <4>1, <4>2 DEF SweptUpTo
    <3>3. QED
      BY <1>2, <2>1, <2>3, <3>2 DEF TickerInv
  <2>4. CASE BeginCheck
    <3>1. /\ ticked /\ ~ticked' /\ check' = "lock" /\ now' = now /\ deadline' = now - 6
          /\ status' = status /\ last' = last
      BY <1>1, <2>4 DEF BeginCheck, Deadline, maxMissedHeartbeats, heartbeatInterval, entryVars
    <3>2. now' % 3 = 0 /\ SweptUpTo(now - 3)'
      BY <2>1, <3>1 DEF SweptUpTo
    <3>3. QED
      BY <1>2, <3>1, <3>2 DEF TickerInv
  <2>5. CASE Sweep
    <3>1. /\ check = "lock" /\ check' = "idle" /\ UNCHANGED <<now, ticked, last>>
          /\ \A i \in IDs : status'[i] = IF Expired(i) THEN "disconnected" ELSE status[i]
      BY <2>5, CheckLocks DEF Sweep, clockVars
    <3>2. LastTick' = now /\ ~ticked'
      BY <1>1, <2>1, <3>1 DEF LastTick
    <3>3. SweptUpTo(LastTick)'
      <4> SUFFICES ASSUME NEW i \in IDs, status'[i] = "connected" PROVE last'[i] >= now - 6
        BY <3>2 DEF SweptUpTo
      <4>1. ~Expired(i) /\ status[i] = "connected"
        BY <3>1
      <4>2. QED
        BY <1>1, <2>1, <3>1, <4>1 DEF Expired
    <3>4. QED
      BY <1>2, <3>1, <3>2, <3>3 DEF TickerInv
  <2>6. CASE ClockTicks
    <3>1. /\ check = "idle" /\ ~ticked /\ now' = now + 1
          /\ ticked' = (ticked \/ (now + 1) % 3 = 0)
          /\ UNCHANGED <<status, last, check, deadline>>
      BY <1>4, <2>6 DEF ClockTicks, heartbeatInterval, entryVars, checkVars
    <3>2. SweptUpTo(LastTick)
      BY <2>1, <3>1
    <3>3. CASE (now + 1) % 3 = 0
      <4>1. now' % 3 = 0 /\ now' - 3 = LastTick
        BY <1>1, <3>1, <3>3 DEF LastTick
      <4>2. SweptUpTo(now - 3)'
        BY <3>1, <3>2, <4>1 DEF SweptUpTo
      <4>3. QED
        BY <1>2, <3>1, <3>3, <4>1, <4>2 DEF TickerInv
    <3>4. CASE (now + 1) % 3 # 0
      <4>1. LastTick' = LastTick /\ ~ticked'
        BY <1>1, <3>1, <3>4 DEF LastTick
      <4>2. SweptUpTo(LastTick)'
        BY <3>1, <3>2, <4>1 DEF SweptUpTo
      <4>3. QED
        BY <1>2, <3>1, <4>1, <4>2 DEF TickerInv
    <3>5. QED
      BY <3>3, <3>4
  <2>7. QED
    BY <1>4, <2>3, <2>4, <2>5, <2>6, TickerSteps
<1>5. QED
  BY <1>3, <1>4

\* A silent agent is shown as connected for at most one interval longer than
\* maxMissedHeartbeats allows, unless the registry is locked up.
THEOREM NoticedCorrect == Spec => []SilenceNoticed
<1>1. Init => TickerInv
  <2> SUFFICES ASSUME Init PROVE TickerInv
    OBVIOUS
  <2>1. now = 0 /\ ticked = FALSE /\ check = "idle" /\ \A i \in IDs : last[i] = 0
    BY DEF Init
  <2>2. LastTick = 0
    BY <2>1 DEF LastTick
  <2>3. QED
    BY <2>1, <2>2 DEF TickerInv, SweptUpTo
<1>2. TypeOK /\ TickerInv => SilenceNoticed
  <2> SUFFICES ASSUME TypeOK, TickerInv, ~Stuck, NEW i \in IDs, status[i] = "connected"
               PROVE  now - last[i] <= 9
    BY DEF SilenceNoticed, Silence, maxMissedHeartbeats, heartbeatInterval
  <2>1. now \in Nat /\ last[i] \in Nat
    BY PayloadAssumption DEF TypeOK
  <2>2. CASE check = "idle" /\ ~ticked
    <3>1. last[i] >= LastTick - 6
      BY <2>2 DEF TickerInv, SweptUpTo
    <3>2. QED
      BY <2>1, <3>1 DEF LastTick
  <2>3. CASE check = "lock" \/ ticked
    <3>1. last[i] >= (now - 3) - 6
      BY <2>3 DEF TickerInv, SweptUpTo
    <3>2. QED
      BY <2>1, <3>1
  <2>4. QED
    BY <2>2, <2>3 DEF TypeOK
<1>3. QED
  BY <1>1, <1>2, TypeCorrect, TickerNext, PTL DEF Spec

----------------------------------------------------------------------------
(* The control plane *)

Handling == Conns \union {"mgmt", "tool"}
Entries == [id : AgentIDs, disabled : BOOLEAN]
Reads == {"readToAdd", "readToRemove", "readToDisable", "readToEnable"}
Finals == {"fail", "stopOrFail", "restart", "spawnOrFail"}
HandlerNames ==
  {"checkDir", "stop", "delete", "truncate", "write"} \union Reads \union Finals
ReloadNames == {"stop", "delete", "spawn"}

\* The steps a thread has left.
Left(t) == Range(steps[t])

ControlTypes ==
  /\ up \in BOOLEAN /\ pending \in BOOLEAN /\ requestsOverlapped \in BOOLEAN
  /\ file \in [entries : Seq(Entries), torn : BOOLEAN]
  /\ sup \in [AgentIDs -> {"none", "live", "stopped"}]
  /\ content \in [Threads -> Seq(Entries)]

\* What a handler has left to do, from any of its steps on: which steps come
\* last, what a deletion, a read and a truncation are followed by, what comes
\* right before a truncation, a write and the spawn of a creation, and what may
\* come before that spawn and the read of a removal at all.
HandlerShape(s) ==
  /\ s \in Seq(HandlerNames \X AgentIDs)
  /\ \A i \in DOMAIN s :
       /\ s[i][1] \in Finals => i = Len(s)
       /\ s[i][1] = "delete" => i + 1 \in DOMAIN s /\ s[i + 1] = <<"readToRemove", s[i][2]>>
       /\ s[i][1] \in Reads => i + 1 \in DOMAIN s /\ s[i + 1] = <<"truncate", s[i][2]>>
       /\ s[i][1] = "truncate" => i + 1 \in DOMAIN s /\ s[i + 1] = <<"write", s[i][2]>>
       /\ s[i][1] = "truncate" => i = 1 \/ s[i - 1][1] \in Reads
       /\ s[i][1] = "write" => i = 1 \/ s[i - 1][1] = "truncate"
       /\ s[i][1] = "spawnOrFail" => i = 1 \/ s[i - 1][1] = "write"
       /\ s[i][1] = "readToRemove" => \A j \in 1..(i - 1) : s[j][1] \in {"stop", "delete"}
       /\ s[i][1] = "spawnOrFail" =>
            \A j \in 1..(i - 1) :
              s[j][1] \in {"checkDir", "readToAdd", "truncate", "write"} /\ s[j][2] = s[i][2]

\* What a reload has left to do: every stop is followed by its deletion.
ReloadShape(s) ==
  /\ s \in Seq(ReloadNames \X AgentIDs)
  /\ \A i \in DOMAIN s :
       s[i][1] = "stop" => i + 1 \in DOMAIN s /\ s[i + 1] = <<"delete", s[i][2]>>

Shapes ==
  /\ steps = [t \in Threads |-> steps[t]]
  /\ \A t \in Handling : HandlerShape(steps[t])
  /\ \/ steps["watcher"] \in {<<<<"load", "">>>>, <<<<"snapshot", "">>>>}
     \/ ReloadShape(steps["watcher"])

Reloads == Doing("watcher", "load") \/ Doing("watcher", "snapshot")

\* An agent that is listed and not supervised is going to be: a reload is due,
\* or has it among its steps, or somebody is about to write the file.
WillSpawn(a) ==
  \/ pending \/ Reloads \/ <<"spawn", a>> \in Left("watcher")
  \/ \E t \in Handling :
       Doing(t, "truncate") \/ Doing(t, "write") \/ <<"readToRemove", a>> \in Left(t)

\* The watcher's flag, its loaded list and its deletions agree with the file
\* unless it has been told of a newer one; no listed agent is left behind.
ListedInv ==
  /\ file.torn => file.entries = <<>>
  /\ ~up => /\ ~pending
            /\ \A t \in Threads : steps[t] = <<>>
            /\ \A a \in AgentIDs : sup[a] = "none"
  /\ ~pending /\ Doing("watcher", "snapshot") => content["watcher"] = file.entries
  /\ ~pending => \A a \in AgentIDs : <<"delete", a>> \in Left("watcher") => ~IsListed(a)
  /\ up => \A a \in AgentIDs \ TomlDisabled : IsListed(a) /\ sup[a] = "none" => WillSpawn(a)

ControlInv == ControlTypes /\ Shapes /\ ListedInv

\* With one request at a time: the file is written over an empty one, a created
\* agent is in the list that is written before it is spawned, the watcher's
\* spawns are listed, and an agent supervised but not listed is going to be
\* deleted.
SerialControl ==
  /\ ~file.torn
  /\ \A t, u \in Handling : steps[t] # <<>> /\ steps[u] # <<>> => t = u
  /\ \A t \in Handling :
       /\ Doing(t, "write") => file.entries = <<>>
       /\ \A a \in AgentIDs : <<"spawnOrFail", a>> \in Left(t) =>
            /\ Doing(t, "truncate") \/ Doing(t, "write") => a \in IDsOf(content[t])
            /\ Doing(t, "spawnOrFail") => IsListed(a)
  /\ ~pending => \A a \in AgentIDs : <<"spawn", a>> \in Left("watcher") => IsListed(a)
  /\ up => \A a \in AgentIDs :
       sup[a] # "none" /\ ~IsListed(a) =>
         pending \/ Reloads \/ <<"delete", a>> \in Left("watcher")

StepInv == ControlInv /\ (~requestsOverlapped => SerialControl)

----------------------------------------------------------------------------
(* Lemmas about the operators on entries and on what is left to do *)

\* SetToSeq lists each member of a finite set.
LEMMA SetToSeqProperties ==
  ASSUME NEW S, IsFiniteSet(S)
  PROVE  /\ Cardinality(S) \in Nat
         /\ SetToSeq(S) \in [1..Cardinality(S) -> S]
         /\ \A x \in S : \E i \in 1..Cardinality(S) : SetToSeq(S)[i] = x
<1> DEFINE n == Cardinality(S)
<1>1. n \in Nat /\ ExistsBijection(1..n, S)
  BY FS_CardinalityType
<1>2. PICK f \in Bijection(1..n, S) : TRUE
  BY <1>1 DEF ExistsBijection
<1>3. f \in [1..n -> S] /\ \A i, j \in 1..n : f[i] = f[j] => i = j
  BY Fun_BijectionProperties
<1>4. IsInjective(f)
  BY <1>3 DEF IsInjective
<1>5. SetToSeq(S) \in [1..n -> S] /\ IsInjective(SetToSeq(S))
  BY <1>3, <1>4 DEF SetToSeq
<1> DEFINE g == SetToSeq(S)
<1>6. \A i, j \in 1..n : g[i] = g[j] => i = j
  BY <1>5 DEF IsInjective
<1> HIDE DEF g
<1>7. g \in Injection(1..n, S)
  BY <1>5, <1>6, Fun_IsInj DEF g
<1>8. IsFiniteSet(1..n) /\ Cardinality(1..n) = n
  BY <1>1, FS_Interval
<1>9. g \in Surjection(1..n, S)
  BY <1>7, <1>8, FS_Injection
<1>10. \A x \in S : \E i \in 1..n : g[i] = x
  BY <1>9 DEF Surjection
<1> QED
  BY <1>1, <1>5, <1>10 DEF g

\* EntriesBut keeps the entries of all other IDs, and no others.
LEMMA EntriesButProperties ==
  ASSUME NEW entries \in Seq(Entries), NEW ids
  PROVE  /\ EntriesBut(entries, ids) \in Seq(Entries)
         /\ IDsOf(EntriesBut(entries, ids)) = IDsOf(entries) \ ids
<1> DEFINE kept == {i \in DOMAIN entries : entries[i].id \notin ids}
           Before(i) == {j \in kept : j < i}
           n == Cardinality(kept)
           rank == [i \in kept |-> Cardinality(Before(i)) + 1]
           chosen == [k \in 1..n |-> CHOOSE i \in kept : Cardinality(Before(i)) = k - 1]
<1>1. PICK m \in Nat : DOMAIN entries = 1..m /\ \A i \in 1..m : entries[i] \in Entries
  BY LenProperties
<1>2. IsFiniteSet(1..m)
  BY FS_Interval
<1>3. IsFiniteSet(kept) /\ kept \subseteq 1..m
  BY <1>1, <1>2, FS_Subset
<1>4. n \in Nat
  BY <1>3, FS_CardinalityType
<1>5. \A i \in kept : /\ IsFiniteSet(Before(i)) /\ Cardinality(Before(i)) \in Nat
                      /\ Cardinality(Before(i)) < n
  <2> SUFFICES ASSUME NEW i \in kept
               PROVE  /\ IsFiniteSet(Before(i)) /\ Cardinality(Before(i)) \in Nat
                      /\ Cardinality(Before(i)) < n
    OBVIOUS
  <2>1. /\ IsFiniteSet(Before(i)) /\ Cardinality(Before(i)) <= n
        /\ n = Cardinality(Before(i)) => kept = Before(i)
    BY <1>3, FS_Subset
  <2>2. i \notin Before(i)
    BY <1>3
  <2>3. Cardinality(Before(i)) \in Nat
    BY <2>1, FS_CardinalityType
  <2> HIDE DEF kept, Before
  <2> QED
    BY <2>1, <2>2, <2>3, <1>4
<1>6. \A i, j \in kept : i < j => Cardinality(Before(i)) # Cardinality(Before(j))
  <2> SUFFICES ASSUME NEW i \in kept, NEW j \in kept, i < j
               PROVE  Cardinality(Before(i)) # Cardinality(Before(j))
    OBVIOUS
  <2>1. i \in Int /\ j \in Int /\ \A k \in kept : k \in Int
    BY <1>3
  <2>2. Before(i) \subseteq Before(j)
    BY <2>1
  <2>3. i \in Before(j) /\ i \notin Before(i)
    BY <2>1
  <2>4. Cardinality(Before(j)) = Cardinality(Before(i)) => Before(j) = Before(i)
    BY <1>5, <2>2, FS_Subset
  <2> QED
    BY <2>3, <2>4
<1>7. \A i, j \in kept : Cardinality(Before(i)) = Cardinality(Before(j)) => i = j
  <2> HIDE DEF Before
  <2> QED
    BY <1>3, <1>6
<1>8. rank \in [kept -> 1..n] /\ \A i, j \in kept : rank[i] = rank[j] => i = j
  <2> HIDE DEF kept, Before, n
  <2> QED
    BY <1>4, <1>5, <1>7
<1>9. rank \in Surjection(kept, 1..n)
  <2> HIDE DEF rank, n
  <2>1. rank \in Injection(kept, 1..n)
    BY <1>8, Fun_IsInj
  <2>2. IsFiniteSet(1..n) /\ Cardinality(1..n) = n
    BY <1>4, FS_Interval
  <2> QED
    BY <2>1, <2>2, FS_Injection DEF n
<1>10. \A k \in 1..n : \E i \in kept : Cardinality(Before(i)) = k - 1
  <2> SUFFICES ASSUME NEW k \in 1..n
               PROVE  \E i \in kept : Cardinality(Before(i)) = k - 1
    OBVIOUS
  <2> HIDE DEF n, kept, rank
  <2>1. PICK i \in kept : rank[i] = k
    BY <1>9 DEF Surjection
  <2>2. rank[i] = Cardinality(Before(i)) + 1
    BY DEF rank
  <2> HIDE DEF kept, Before
  <2>3. Cardinality(Before(i)) + 1 = k /\ Cardinality(Before(i)) \in Nat
    BY <2>1, <2>2, <1>5
  <2> QED
    BY <2>3
<1>11. \A k \in 1..n : chosen[k] \in kept /\ Cardinality(Before(chosen[k])) = k - 1
  <2> HIDE DEF kept, Before, n
  <2> QED
    BY <1>10
<1>12. EntriesBut(entries, ids) = [k \in 1..n |-> entries[chosen[k]]]
  BY DEF EntriesBut
<1> DEFINE new == EntriesBut(entries, ids)
<1>13. \A k \in 1..n : new[k] = entries[chosen[k]] /\ new[k] \in Entries
  BY <1>1, <1>11, <1>12
<1>14. DOMAIN new = 1..n
  BY <1>12
<1>15. new \in Seq(Entries)
  <2> HIDE DEF new, n
  <2>1. new \in [1..n -> Entries]
    BY <1>12, <1>13, <1>14 DEF new
  <2> QED
    BY <2>1, <1>4, SeqDef
<1>16. IDsOf(new) \subseteq IDsOf(entries) \ ids
  <2> SUFFICES ASSUME NEW k \in DOMAIN new
               PROVE  new[k].id \in IDsOf(entries) \ ids
    BY DEF IDsOf
  <2>1. chosen[k] \in kept /\ new[k] = entries[chosen[k]]
    <3> HIDE DEF n, kept, chosen, new
    <3> QED
      BY <1>11, <1>13, <1>14
  <2> HIDE DEF chosen, new, n
  <2> QED
    BY <2>1 DEF IDsOf
<1>17. ASSUME NEW x \in IDsOf(entries) \ ids
       PROVE  x \in IDsOf(new)
  <2>1. PICK i \in kept : entries[i].id = x
    BY <1>17 DEF IDsOf
  <2>2. rank[i] \in 1..n /\ Cardinality(Before(i)) = rank[i] - 1
    <3> HIDE DEF kept, Before, n
    <3> QED
      BY <1>5, <1>8
  <2>3. chosen[rank[i]] = i
    <3> HIDE DEF kept, Before, n, rank, chosen
    <3> QED
      BY <1>7, <1>11, <2>2
  <2>4. rank[i] \in DOMAIN new /\ new[rank[i]] = entries[i]
    <3> HIDE DEF kept, Before, n, rank, chosen, new
    <3> QED
      BY <1>13, <1>14, <2>2, <2>3
  <2> HIDE DEF rank, new
  <2> QED
    BY <2>1, <2>4 DEF IDsOf
<1> QED
  BY <1>15, <1>16, <1>17

\* A sequence that is not empty, its length and its tail.
LEMMA TailProperties ==
  ASSUME NEW S, NEW s \in Seq(S), s # <<>>
  PROVE  \E n \in Nat :
           /\ Len(s) = n + 1 /\ DOMAIN s = 1..(n + 1)
           /\ Tail(s) \in Seq(S) /\ Len(Tail(s)) = n /\ DOMAIN Tail(s) = 1..n
           /\ \A i \in 1..n : Tail(s)[i] = s[i + 1]
<1>1. PICK k \in Nat : Len(s) = k
  BY LenProperties
<1>2. Len(s) \in Nat \ {0} /\ DOMAIN s = 1..Len(s)
  BY EmptySeq, LenProperties
<1> DEFINE n == k - 1
<1>3. n \in Nat /\ Len(s) = n + 1 /\ DOMAIN s = 1..(n + 1)
  BY <1>1, <1>2
<1>4. Tail(s) \in Seq(S) /\ Len(Tail(s)) = Len(s) - 1
      /\ \A i \in 1..Len(Tail(s)) : Tail(s)[i] = s[i + 1]
  BY HeadTailProperties
<1>5. Len(Tail(s)) = n
  <2>1. Len(Tail(s)) = Len(s) - 1
    BY <1>4, Zenon
  <2> QED
    BY <1>1, <2>1, Zenon
<1>6. DOMAIN Tail(s) = 1..n
  BY <1>4, <1>5, LenProperties
<1>7. Tail(s) \in Seq(S) /\ \A i \in 1..n : Tail(s)[i] = s[i + 1]
  BY <1>4, <1>5, Zenon
<1> HIDE DEF n
<1> QED
  BY <1>3, <1>5, <1>6, <1>7, Zenon

\* What is left after the first step, as a set.
LEMMA TailRange ==
  ASSUME NEW S, NEW s \in Seq(S), s # <<>>
  PROVE  Range(s) = {s[1]} \union Range(Tail(s))
<1>1. PICK n \in Nat :
        /\ Len(s) = n + 1 /\ DOMAIN s = 1..(n + 1)
        /\ Tail(s) \in Seq(S) /\ Len(Tail(s)) = n /\ DOMAIN Tail(s) = 1..n
        /\ \A i \in 1..n : Tail(s)[i] = s[i + 1]
  BY TailProperties
<1>2. 1 \in 1..(n + 1) /\ \A i \in 1..n : i + 1 \in 1..(n + 1)
  OBVIOUS
<1>3. \A i \in 1..(n + 1) : i = 1 \/ (i - 1 \in 1..n /\ s[i] = Tail(s)[i - 1])
  BY <1>1
<1>4. ASSUME NEW i \in DOMAIN s
      PROVE  s[i] = s[1] \/ s[i] \in {Tail(s)[j] : j \in DOMAIN Tail(s)}
  BY <1>1, <1>3
<1>5. \A x \in {Tail(s)[i] : i \in DOMAIN Tail(s)} : x \in {s[i] : i \in DOMAIN s}
  BY <1>1, <1>2
<1> QED
  BY <1>1, <1>2, <1>4, <1>5 DEF Range

\* A handler that has done its first step has the shape still.
LEMMA HandlerTail ==
  ASSUME NEW s, HandlerShape(s), s # <<>>
  PROVE  HandlerShape(Tail(s))
<1>1. PICK n \in Nat :
        /\ Len(s) = n + 1 /\ DOMAIN s = 1..(n + 1)
        /\ Tail(s) \in Seq(HandlerNames \X AgentIDs) /\ Len(Tail(s)) = n /\ DOMAIN Tail(s) = 1..n
        /\ \A i \in 1..n : Tail(s)[i] = s[i + 1]
  BY TailProperties DEF HandlerShape
<1> DEFINE r == Tail(s)
<1> HIDE DEF r
<1>2. \A i \in 1..n : r[i] = s[i + 1] /\ i + 1 \in 1..(n + 1)
  BY <1>1 DEF r
<1>3. r \in Seq(HandlerNames \X AgentIDs) /\ DOMAIN r = 1..n /\ Len(r) = n
  BY <1>1 DEF r
<1>4. ASSUME NEW i \in 1..n
      PROVE  /\ r[i][1] \in Finals => i = n
             /\ r[i][1] = "delete" => i + 1 \in 1..n /\ r[i + 1] = <<"readToRemove", r[i][2]>>
             /\ r[i][1] \in Reads => i + 1 \in 1..n /\ r[i + 1] = <<"truncate", r[i][2]>>
             /\ r[i][1] = "truncate" => i + 1 \in 1..n /\ r[i + 1] = <<"write", r[i][2]>>
  <2>1. i + 1 \in DOMAIN s /\ r[i] = s[i + 1]
    BY <1>1, <1>2
  <2>2. /\ s[i + 1][1] \in Finals => i + 1 = n + 1
        /\ s[i + 1][1] = "delete" =>
             (i + 1) + 1 \in 1..(n + 1) /\ s[(i + 1) + 1] = <<"readToRemove", s[i + 1][2]>>
        /\ s[i + 1][1] \in Reads =>
             (i + 1) + 1 \in 1..(n + 1) /\ s[(i + 1) + 1] = <<"truncate", s[i + 1][2]>>
        /\ s[i + 1][1] = "truncate" =>
             (i + 1) + 1 \in 1..(n + 1) /\ s[(i + 1) + 1] = <<"write", s[i + 1][2]>>
    BY <1>1, <2>1 DEF HandlerShape
  <2>3. (i + 1) + 1 \in 1..(n + 1) => i + 1 \in 1..n /\ r[i + 1] = s[(i + 1) + 1]
    BY <1>2
  <2> QED
    BY <2>1, <2>2, <2>3
<1>5. ASSUME NEW i \in 1..n, NEW j \in 1..(i - 1)
      PROVE  /\ r[i][1] = "readToRemove" => r[j][1] \in {"stop", "delete"}
             /\ r[i][1] = "spawnOrFail" =>
                  /\ r[j][1] \in {"checkDir", "readToAdd", "truncate", "write"}
                  /\ r[j][2] = r[i][2]
  <2>1. i + 1 \in DOMAIN s /\ j + 1 \in 1..((i + 1) - 1) /\ j \in 1..n
    BY <1>1
  <2>2. r[i] = s[i + 1] /\ r[j] = s[j + 1]
    BY <1>2, <2>1
  <2> QED
    BY <2>1, <2>2 DEF HandlerShape
<1>6. ASSUME NEW i \in 1..n, i # 1
      PROVE  /\ r[i][1] = "truncate" => r[i - 1][1] \in Reads
             /\ r[i][1] = "write" => r[i - 1][1] = "truncate"
             /\ r[i][1] = "spawnOrFail" => r[i - 1][1] = "write"
  <2>1. i + 1 \in DOMAIN s /\ i + 1 # 1 /\ (i + 1) - 1 = (i - 1) + 1 /\ i - 1 \in 1..n
    BY <1>1, <1>6
  <2>2. r[i] = s[i + 1] /\ r[i - 1] = s[(i + 1) - 1]
    BY <1>2, <2>1
  <2> QED
    BY <2>1, <2>2 DEF HandlerShape
<1>7. HandlerShape(r)
  BY <1>3, <1>4, <1>5, <1>6 DEF HandlerShape
<1> QED
  BY <1>7 DEF r

\* So has a reload.
LEMMA ReloadTail ==
  ASSUME NEW s, ReloadShape(s), s # <<>>
  PROVE  ReloadShape(Tail(s))
<1>1. PICK n \in Nat :
        /\ Len(s) = n + 1 /\ DOMAIN s = 1..(n + 1)
        /\ Tail(s) \in Seq(ReloadNames \X AgentIDs) /\ Len(Tail(s)) = n /\ DOMAIN Tail(s) = 1..n
        /\ \A i \in 1..n : Tail(s)[i] = s[i + 1]
  BY TailProperties DEF ReloadShape
<1> DEFINE r == Tail(s)
<1> HIDE DEF r
<1>2. \A i \in 1..n : r[i] = s[i + 1] /\ i + 1 \in 1..(n + 1)
  BY <1>1 DEF r
<1>3. r \in Seq(ReloadNames \X AgentIDs) /\ DOMAIN r = 1..n /\ Len(r) = n
  BY <1>1 DEF r
<1>4. ReloadShape(r)
  BY <1>1, <1>2, <1>3 DEF ReloadShape
<1> QED
  BY <1>4 DEF r

\* A thread that has nothing to do has both shapes.
LEMMA EmptyShapes == HandlerShape(<<>>) /\ ReloadShape(<<>>)
<1>1. DOMAIN <<>> = {}
  OBVIOUS
<1> QED
  BY <1>1, EmptySeq DEF HandlerShape, ReloadShape

\* c has the m elements of s and then the n elements of r.
Joins(c, S, s, m, r, n) ==
  /\ c \in Seq(S) /\ Len(c) = m + n /\ DOMAIN c = 1..(m + n)
  /\ \A i \in 1..m : c[i] = s[i]
  /\ \A i \in 1..n : c[m + i] = r[i]

\* A concatenation has the elements of the one and then those of the other.
LEMMA Concatenated ==
  ASSUME NEW S, NEW s \in Seq(S), NEW r \in Seq(S),
         NEW m \in Nat, NEW n \in Nat, Len(s) = m, Len(r) = n
  PROVE  Joins(s \o r, S, s, m, r, n)
<1>1. s \o r \in Seq(S) /\ Len(s \o r) = Len(s) + Len(r)
  BY ConcatProperties
<1>2. DOMAIN (s \o r) = 1..Len(s \o r)
  BY <1>1, LenProperties
<1>3. \A i \in 1..(m + n) : (s \o r)[i] = IF i <= m THEN s[i] ELSE r[i - m]
  BY ConcatProperties
<1> DEFINE c == s \o r
<1> HIDE DEF c
<1>4. \A i \in 1..(m + n) : c[i] = IF i <= m THEN s[i] ELSE r[i - m]
  BY <1>3 DEF c
<1>5. \A i \in 1..m : c[i] = s[i]
  BY <1>4
<1>6. \A i \in 1..n : c[m + i] = r[i]
  BY <1>4
<1> QED
  BY <1>1, <1>2, <1>5, <1>6 DEF c, Joins

\* The handlers have that shape, and begin with none of its later steps.
LEMMA HandlersShape ==
  ASSUME NEW t \in Handling, NEW a \in AgentIDs, NEW h \in Handlers(t, a)
  PROVE  HandlerShape(h) /\ h # <<>> /\ h[1][1] \notin {"truncate", "write", "spawnOrFail"}
<1> DEFINE S == HandlerNames \X AgentIDs
<1>0. 1 \in Nat /\ 2 \in Nat /\ 3 \in Nat /\ 4 \in Nat
  OBVIOUS
<1>1. t # "watcher"
  BY HubAssumption DEF Handling
<1>2. \/ h \in {<<<<x, a>>>> : x \in {"fail", "stopOrFail", "restart", "stop"}}
      \/ \E how \in Reads : h = RewriteFile(a, how)
      \/ h = agentRemove(a) \/ h = agentDisable(a) \/ h = opAgentCreate(a)
  BY <1>1 DEF Handlers, Handling, dispatch, managementDispatch, HandleToolRequest, AgentCreate,
              agentStop, agentRestart, agentEnable, opAgentStop, opAgentRestart, opAgentRemove,
              Reads
<1>3. ASSUME NEW x \in {"fail", "stopOrFail", "restart", "stop"}, h = <<<<x, a>>>>
      PROVE  HandlerShape(h) /\ h # <<>> /\ h[1][1] \notin {"truncate", "write", "spawnOrFail"}
  <2>1. h \in Seq(S) /\ Len(h) = 1 /\ DOMAIN h = 1..1 /\ h[1] = <<x, a>>
    BY <1>3 DEF HandlerNames, Finals
  <2>2. HandlerShape(h)
    BY <2>1 DEF HandlerShape, Finals, Reads
  <2>3. h # <<>> /\ h[1][1] = x
    BY <1>3
  <2> QED
    BY <2>2, <2>3
<1>4. ASSUME NEW how \in Reads
      PROVE  /\ RewriteFile(a, how) \in Seq(S) /\ Len(RewriteFile(a, how)) = 3
             /\ RewriteFile(a, how)[1] = <<how, a>> /\ RewriteFile(a, how)[2] = <<"truncate", a>>
             /\ RewriteFile(a, how)[3] = <<"write", a>>
  BY DEF RewriteFile, HandlerNames, Reads
<1>5. ASSUME NEW how \in Reads, h = RewriteFile(a, how)
      PROVE  HandlerShape(h) /\ h # <<>> /\ h[1][1] \notin {"truncate", "write", "spawnOrFail"}
  <2>1. h \in Seq(S) /\ Len(h) = 3 /\ DOMAIN h = 1..3
    BY <1>4, <1>5, LenProperties
  <2>2. h[1] = <<how, a>> /\ h[2] = <<"truncate", a>> /\ h[3] = <<"write", a>>
    BY <1>4, <1>5
  <2>3. \A i \in 1..3 : i = 1 \/ i = 2 \/ i = 3
    OBVIOUS
  <2> QED
    BY <2>1, <2>2, <2>3 DEF HandlerShape, Finals, Reads
<1>6. CASE h = agentRemove(a)
  <2> DEFINE r == SupervisorRemove(a)
  <2>1. r \in Seq(S) /\ Len(r) = 2 /\ r[1] = <<"stop", a>> /\ r[2] = <<"delete", a>>
    BY DEF SupervisorRemove, HandlerNames
  <2> DEFINE w == RewriteFile(a, "readToRemove")
  <2>2. /\ w \in Seq(S) /\ Len(w) = 3
        /\ w[1] = <<"readToRemove", a>> /\ w[2] = <<"truncate", a>> /\ w[3] = <<"write", a>>
    BY <1>4 DEF Reads
  <2> HIDE DEF r, w
  <2>3. Joins(r \o w, S, r, 2, w, 3)
    BY <2>1, <2>2, <1>0, Concatenated, Zenon
  <2>4. h = r \o w
    BY <1>6 DEF agentRemove, r, w
  <2>5. h \in Seq(S) /\ Len(h) = 5 /\ DOMAIN h = 1..5
    BY <2>3, <2>4 DEF Joins
  <2>6. /\ h[1] = <<"stop", a>> /\ h[2] = <<"delete", a>> /\ h[3] = <<"readToRemove", a>>
        /\ h[4] = <<"truncate", a>> /\ h[5] = <<"write", a>>
    <3>1. h[1] = r[1] /\ h[2] = r[2]
      BY <2>3, <2>4 DEF Joins
    <3>2. h[3] = w[1] /\ h[4] = w[2] /\ h[5] = w[3]
      BY <2>3, <2>4 DEF Joins
    <3> QED
      BY <2>1, <2>2, <3>1, <3>2
  <2>7. \A i \in 1..5 : i = 1 \/ i = 2 \/ i = 3 \/ i = 4 \/ i = 5
    OBVIOUS
  <2> QED
    BY <2>5, <2>6, <2>7 DEF HandlerShape, Finals, Reads
<1>7. CASE h = agentDisable(a)
  <2> DEFINE r == <<<<"stop", a>>>>
  <2>1. r \in Seq(S) /\ Len(r) = 1 /\ r[1] = <<"stop", a>>
    BY DEF HandlerNames
  <2> DEFINE w == RewriteFile(a, "readToDisable")
  <2>2. /\ w \in Seq(S) /\ Len(w) = 3
        /\ w[1] = <<"readToDisable", a>> /\ w[2] = <<"truncate", a>> /\ w[3] = <<"write", a>>
    BY <1>4 DEF Reads
  <2> HIDE DEF r, w
  <2>3. Joins(r \o w, S, r, 1, w, 3)
    BY <2>1, <2>2, <1>0, Concatenated, Zenon
  <2>4. h = r \o w
    BY <1>7 DEF agentDisable, r, w
  <2>5. h \in Seq(S) /\ Len(h) = 4 /\ DOMAIN h = 1..4
    BY <2>3, <2>4 DEF Joins
  <2>6. /\ h[1] = <<"stop", a>> /\ h[2] = <<"readToDisable", a>>
        /\ h[3] = <<"truncate", a>> /\ h[4] = <<"write", a>>
    BY <2>1, <2>2, <2>3, <2>4 DEF Joins
  <2>7. \A i \in 1..4 : i = 1 \/ i = 2 \/ i = 3 \/ i = 4
    OBVIOUS
  <2> QED
    BY <2>5, <2>6, <2>7 DEF HandlerShape, Finals, Reads
<1>8. CASE h = opAgentCreate(a)
  <2> DEFINE r == <<<<"checkDir", a>>>>
             w == RewriteFile(a, "readToAdd")
             e == <<<<"spawnOrFail", a>>>>
             rw == r \o w
  <2>1. r \in Seq(S) /\ Len(r) = 1 /\ r[1] = <<"checkDir", a>>
    BY DEF HandlerNames
  <2>2. /\ w \in Seq(S) /\ Len(w) = 3
        /\ w[1] = <<"readToAdd", a>> /\ w[2] = <<"truncate", a>> /\ w[3] = <<"write", a>>
    BY <1>4 DEF Reads
  <2>3. e \in Seq(S) /\ Len(e) = 1 /\ e[1] = <<"spawnOrFail", a>>
    BY DEF HandlerNames, Finals
  <2> HIDE DEF r, w, e
  <2>4. Joins(rw, S, r, 1, w, 3)
    BY <2>1, <2>2, <1>0, Concatenated, Zenon
  <2> HIDE DEF rw
  <2>5. rw \in Seq(S) /\ Len(rw) = 4
    BY <2>4 DEF Joins
  <2>6. Joins(rw \o e, S, rw, 4, e, 1)
    BY <2>3, <2>5, <1>0, Concatenated, Zenon
  <2>7. h = rw \o e
    BY <1>8 DEF opAgentCreate, r, w, e, rw
  <2>8. h \in Seq(S) /\ Len(h) = 5 /\ DOMAIN h = 1..5
    BY <2>6, <2>7 DEF Joins
  <2>a. rw[1] = r[1] /\ rw[2] = w[1] /\ rw[3] = w[2] /\ rw[4] = w[3]
    BY <2>4 DEF Joins
  <2>b. h[1] = rw[1] /\ h[2] = rw[2] /\ h[3] = rw[3] /\ h[4] = rw[4] /\ h[5] = e[1]
    <3>1. h[1] = rw[1] /\ h[2] = rw[2] /\ h[3] = rw[3]
      BY <2>6, <2>7 DEF Joins
    <3>2. h[4] = rw[4] /\ h[5] = e[1]
      BY <2>6, <2>7 DEF Joins
    <3> QED
      BY <3>1, <3>2
  <2>9. /\ h[1] = <<"checkDir", a>> /\ h[2] = <<"readToAdd", a>> /\ h[3] = <<"truncate", a>>
        /\ h[4] = <<"write", a>> /\ h[5] = <<"spawnOrFail", a>>
    BY <2>1, <2>2, <2>3, <2>a, <2>b
  <2>10. \A i \in 1..5 : i = 1 \/ i = 2 \/ i = 3 \/ i = 4 \/ i = 5
    OBVIOUS
  <2> QED
    BY <2>8, <2>9, <2>10 DEF HandlerShape, Finals, Reads
<1> QED
  BY <1>2, <1>3, <1>5, <1>6, <1>7, <1>8

\* The steps of a reload: it deletes the supervised agents that the list it
\* loaded lacks, and spawns those of the list that are not supervised.
LEMMA ReloadConfigProperties ==
  ASSUME ControlTypes
  PROVE  /\ ReloadShape(reloadConfig)
         /\ \A a \in AgentIDs :
              /\ <<"delete", a>> \in {reloadConfig[i] : i \in DOMAIN reloadConfig}
                   <=> sup[a] # "none" /\ a \notin IDsOf(content["watcher"])
              /\ <<"spawn", a>> \in {reloadConfig[i] : i \in DOMAIN reloadConfig}
                   <=> sup[a] = "none" /\ a \in IDsOf(content["watcher"]) \ TomlDisabled
<1> DEFINE S == ReloadNames \X AgentIDs
           supervised == {a \in AgentIDs : sup[a] # "none"}
           G == supervised \ IDsOf(content["watcher"])
           gone == SetToSeq(G)
           new == EntriesBut(content["watcher"], supervised \union TomlDisabled)
           f == [i \in 1..(2 * Len(gone)) |-> SupervisorRemove(gone[(i + 1) \div 2])[2 - (i % 2)]]
           g == [i \in DOMAIN new |-> <<"spawn", new[i].id>>]
<1>1. content["watcher"] \in Seq(Entries)
  BY DEF ControlTypes, Threads
<1>2. IsFiniteSet(G) /\ G \subseteq AgentIDs
  BY HubAssumption, FS_Subset
<1>3. PICK c \in Nat : /\ gone \in [1..c -> G]
                       /\ \A a \in G : \E i \in 1..c : gone[i] = a
  <2> HIDE DEF G
  <2> QED
    BY <1>2, SetToSeqProperties
<1>4. Len(gone) = c
  <2>1. gone \in Seq(G)
    <3> HIDE DEF gone
    <3> QED
      BY <1>3, SeqDef
  <2> HIDE DEF gone
  <2> QED
    BY <1>3, <2>1, LenProperties
<1>5. /\ new \in Seq(Entries)
      /\ IDsOf(new) = IDsOf(content["watcher"]) \ (supervised \union TomlDisabled)
  BY <1>1, EntriesButProperties
<1>6. PICK n \in Nat : Len(new) = n /\ DOMAIN new = 1..n /\ \A i \in 1..n : new[i] \in Entries
  <2> HIDE DEF new
  <2> QED
    BY <1>5, LenProperties
<1>7. reloadConfig = f \o g
  BY DEF reloadConfig
<1>8. \A k \in 1..c : /\ 2 * k - 1 \in 1..(2 * c) /\ 2 * k \in 1..(2 * c)
                      /\ ((2 * k - 1) + 1) \div 2 = k /\ (2 * k + 1) \div 2 = k
                      /\ (2 * k - 1) % 2 = 1 /\ (2 * k) % 2 = 0
  OBVIOUS
<1>9. \A i \in 1..(2 * c) : \E k \in 1..c : i = 2 * k - 1 \/ i = 2 * k
  <2> SUFFICES ASSUME NEW i \in 1..(2 * c)
               PROVE  \E k \in 1..c : i = 2 * k - 1 \/ i = 2 * k
    OBVIOUS
  <2>1. (i + 1) \div 2 \in 1..c /\ (i = 2 * ((i + 1) \div 2) - 1 \/ i = 2 * ((i + 1) \div 2))
    OBVIOUS
  <2> QED
    BY <2>1
<1>10. \A k \in 1..c : /\ f[2 * k - 1] = <<"stop", gone[k]>>
                       /\ f[2 * k] = <<"delete", gone[k]>>
                       /\ gone[k] \in AgentIDs
  <2> SUFFICES ASSUME NEW k \in 1..c
               PROVE  /\ f[2 * k - 1] = <<"stop", gone[k]>>
                      /\ f[2 * k] = <<"delete", gone[k]>>
                      /\ gone[k] \in AgentIDs
    OBVIOUS
  <2>1. gone[k] \in AgentIDs
    <3> HIDE DEF gone, G
    <3> QED
      BY <1>2, <1>3
  <2> HIDE DEF gone
  <2>2. f[2 * k - 1] = SupervisorRemove(gone[k])[1]
    BY <1>4, <1>8
  <2>3. f[2 * k] = SupervisorRemove(gone[k])[2]
    BY <1>4, <1>8
  <2> QED
    BY <2>1, <2>2, <2>3 DEF SupervisorRemove
<1>11. f \in Seq(S) /\ Len(f) = 2 * c
  <2>1. DOMAIN f = 1..(2 * c)
    BY <1>4
  <2> HIDE DEF f, gone
  <2>2. ASSUME NEW i \in 1..(2 * c)
        PROVE  f[i] \in S
    <3>1. PICK k \in 1..c : i = 2 * k - 1 \/ i = 2 * k
      BY <1>9
    <3>2. f[i] = <<"stop", gone[k]>> \/ f[i] = <<"delete", gone[k]>>
      BY <1>10, <3>1
    <3> QED
      BY <1>10, <3>2 DEF ReloadNames
  <2> HIDE DEF S
  <2>3. f \in [1..(2 * c) -> S]
    <3>1. f = [i \in 1..(2 * c) |-> f[i]]
      BY <2>1 DEF f
    <3> QED
      BY <2>2, <3>1
  <2>4. 2 * c \in Nat
    OBVIOUS
  <2>5. f \in Seq(S)
    BY <2>3, <2>4, SeqDef
  <2> QED
    BY <2>1, <2>4, <2>5, LenProperties
<1>12. g \in Seq(S) /\ Len(g) = n /\ \A i \in 1..n : g[i] = <<"spawn", new[i].id>>
  <2> HIDE DEF new
  <2>1. g \in [1..n -> S]
    BY <1>6 DEF ReloadNames, Entries
  <2>2. g \in Seq(S)
    <3> HIDE DEF g, S
    <3> QED
      BY <2>1, SeqDef
  <2>3. Len(g) = n
    <3> HIDE DEF g, S
    <3> QED
      BY <2>1, <2>2, LenProperties
  <2> QED
    BY <1>6, <2>2, <2>3
<1> DEFINE s == reloadConfig
<1>13. Joins(s, S, f, 2 * c, g, n)
  <2>1. 2 * c \in Nat
    OBVIOUS
  <2> HIDE DEF f, g, S
  <2> QED
    BY <1>7, <1>11, <1>12, <2>1, Concatenated, Zenon
<1> HIDE DEF s, f, g, new, gone, G
<1>14. \A k \in 1..c : /\ 2 * k \in 1..(2 * c + n) /\ 2 * k - 1 \in 1..(2 * c + n)
                       /\ s[2 * k - 1] = <<"stop", gone[k]>> /\ s[2 * k] = <<"delete", gone[k]>>
  BY <1>8, <1>10, <1>13 DEF Joins
<1>15. \A i \in 1..n : 2 * c + i \in 1..(2 * c + n) /\ s[2 * c + i] = <<"spawn", new[i].id>>
  BY <1>12, <1>13 DEF Joins
<1>16. \A i \in 1..(2 * c + n) : \/ \E k \in 1..c : i = 2 * k - 1 \/ i = 2 * k
                                 \/ \E j \in 1..n : i = 2 * c + j
  <2> SUFFICES ASSUME NEW i \in 1..(2 * c + n)
               PROVE  \/ \E k \in 1..c : i = 2 * k - 1 \/ i = 2 * k
                      \/ \E j \in 1..n : i = 2 * c + j
    OBVIOUS
  <2>1. CASE i <= 2 * c
    <3>1. i \in 1..(2 * c)
      BY <2>1
    <3>2. PICK k \in 1..c : i = 2 * k - 1 \/ i = 2 * k
      BY <1>9, <3>1
    <3> QED
      BY <3>2
  <2>2. CASE i > 2 * c
    <3>1. i - 2 * c \in 1..n /\ i = 2 * c + (i - 2 * c)
      BY <2>2
    <3> QED
      BY <3>1
  <2> QED
    BY <2>1, <2>2
<1>17. DOMAIN s = 1..(2 * c + n) /\ s \in Seq(S)
  BY <1>13 DEF Joins
<1>18. \A i \in DOMAIN s :
          \/ \E k \in 1..c : /\ s[i] = <<"stop", gone[k]>> /\ i + 1 \in DOMAIN s
                              /\ s[i + 1] = <<"delete", gone[k]>>
          \/ \E k \in 1..c : s[i] = <<"delete", gone[k]>>
          \/ \E j \in 1..n : s[i] = <<"spawn", new[j].id>>
  <2> SUFFICES ASSUME NEW i \in DOMAIN s
               PROVE  \/ \E k \in 1..c : /\ s[i] = <<"stop", gone[k]>> /\ i + 1 \in DOMAIN s
                                          /\ s[i + 1] = <<"delete", gone[k]>>
                      \/ \E k \in 1..c : s[i] = <<"delete", gone[k]>>
                      \/ \E j \in 1..n : s[i] = <<"spawn", new[j].id>>
    OBVIOUS
  <2>1. ASSUME NEW k \in 1..c, i = 2 * k - 1
        PROVE  /\ s[i] = <<"stop", gone[k]>> /\ i + 1 \in DOMAIN s
               /\ s[i + 1] = <<"delete", gone[k]>>
    <3>1. s[2 * k - 1] = <<"stop", gone[k]>> /\ s[2 * k] = <<"delete", gone[k]>>
          /\ 2 * k \in DOMAIN s
      BY <1>14, <1>17
    <3>2. i + 1 = 2 * k
      BY <2>1
    <3> QED
      BY <2>1, <3>1, <3>2
  <2>2. ASSUME NEW k \in 1..c, i = 2 * k
        PROVE  s[i] = <<"delete", gone[k]>>
    <3>1. s[2 * k] = <<"delete", gone[k]>>
      BY <1>14
    <3> QED
      BY <2>2, <3>1
  <2>3. ASSUME NEW j \in 1..n, i = 2 * c + j
        PROVE  s[i] = <<"spawn", new[j].id>>
    <3>1. s[2 * c + j] = <<"spawn", new[j].id>>
      BY <1>15
    <3> QED
      BY <2>3, <3>1
  <2>4. \/ \E k \in 1..c : i = 2 * k - 1 \/ i = 2 * k
        \/ \E j \in 1..n : i = 2 * c + j
    BY <1>16, <1>17
  <2> QED
    BY <2>1, <2>2, <2>3, <2>4
<1>a. ReloadShape(s)
  <2> SUFFICES ASSUME NEW i \in DOMAIN s, s[i][1] = "stop"
               PROVE  i + 1 \in DOMAIN s /\ s[i + 1] = <<"delete", s[i][2]>>
    BY <1>17 DEF ReloadShape
  <2> QED
    BY <1>18
<1>19. ASSUME NEW a \in AgentIDs
       PROVE  <<"delete", a>> \in {s[i] : i \in DOMAIN s} <=> a \in G
  <2>1. ASSUME NEW i \in DOMAIN s, s[i] = <<"delete", a>>
        PROVE  a \in G
    <3>1. PICK k \in 1..c : s[i] = <<"delete", gone[k]>>
      BY <1>18, <2>1
    <3> QED
      BY <1>3, <2>1, <3>1
  <2>2. ASSUME a \in G
        PROVE  \E i \in DOMAIN s : s[i] = <<"delete", a>>
    <3>1. PICK k \in 1..c : gone[k] = a
      BY <1>3, <2>2
    <3>2. 2 * k \in DOMAIN s /\ s[2 * k] = <<"delete", a>>
      BY <1>14, <1>17, <3>1
    <3> QED
      BY <3>2
  <2> QED
    BY <2>1, <2>2
<1>20. ASSUME NEW a \in AgentIDs
       PROVE  <<"spawn", a>> \in {s[i] : i \in DOMAIN s} <=> a \in IDsOf(new)
  <2>1. ASSUME NEW i \in DOMAIN s, s[i] = <<"spawn", a>>
        PROVE  a \in IDsOf(new)
    <3>1. PICK j \in 1..n : s[i] = <<"spawn", new[j].id>>
      BY <1>18, <2>1
    <3> QED
      BY <1>6, <2>1, <3>1 DEF IDsOf
  <2>2. ASSUME a \in IDsOf(new)
        PROVE  \E i \in DOMAIN s : s[i] = <<"spawn", a>>
    <3>1. PICK j \in 1..n : new[j].id = a
      BY <1>6, <2>2 DEF IDsOf
    <3>2. 2 * c + j \in DOMAIN s /\ s[2 * c + j] = <<"spawn", a>>
      BY <1>15, <1>17, <3>1
    <3> QED
      BY <3>2
  <2> QED
    BY <2>1, <2>2
<1>21. \A a \in AgentIDs : a \in G <=> sup[a] # "none" /\ a \notin IDsOf(content["watcher"])
  BY DEF G
<1>22. \A a \in AgentIDs :
         a \in IDsOf(new) <=> sup[a] = "none" /\ a \in IDsOf(content["watcher"]) \ TomlDisabled
  BY <1>5
<1> QED
  BY <1>a, <1>19, <1>20, <1>21, <1>22 DEF s

----------------------------------------------------------------------------
(* The first step of a thread, and what is left after it *)

\* A handler's first step, and what it says of the steps that are left.
LEMMA FirstStep ==
  ASSUME NEW s, HandlerShape(s), s # <<>>
  PROVE  /\ s[1] \in HandlerNames \X AgentIDs
         /\ HandlerShape(Tail(s))
         /\ Range(s) = {s[1]} \union Range(Tail(s))
         /\ s[1][1] \in Finals => Tail(s) = <<>>
         /\ s[1][1] = "delete" => <<"readToRemove", s[1][2]>> \in Range(Tail(s))
         /\ s[1][1] \in Reads => Tail(s) # <<>> /\ Tail(s)[1] = <<"truncate", s[1][2]>>
         /\ s[1][1] = "truncate" => Tail(s) # <<>> /\ Tail(s)[1] = <<"write", s[1][2]>>
         /\ Tail(s) # <<>> =>
              /\ Tail(s)[1][1] = "truncate" => s[1][1] \in Reads
              /\ Tail(s)[1][1] = "write" => s[1][1] = "truncate"
              /\ Tail(s)[1][1] = "spawnOrFail" => s[1][1] = "write"
         /\ \A a : <<"readToRemove", a>> \in Range(Tail(s)) => s[1][1] \in {"stop", "delete"}
         /\ \A a : <<"spawnOrFail", a>> \in Range(Tail(s)) =>
              s[1][1] \in {"checkDir", "readToAdd", "truncate", "write"} /\ s[1][2] = a
<1> DEFINE r == Tail(s)
<1>1. PICK n \in Nat :
        /\ Len(s) = n + 1 /\ DOMAIN s = 1..(n + 1)
        /\ r \in Seq(HandlerNames \X AgentIDs) /\ Len(r) = n /\ DOMAIN r = 1..n
        /\ \A i \in 1..n : r[i] = s[i + 1]
  BY TailProperties DEF HandlerShape
<1>2. HandlerShape(r)
  BY HandlerTail
<1>3. Range(s) = {s[1]} \union Range(r)
  BY TailRange DEF HandlerShape
<1>4. 1 \in DOMAIN s
  BY <1>1
<1>5. s[1] \in HandlerNames \X AgentIDs
  BY <1>1, <1>4, LenProperties DEF HandlerShape
<1>6. s[1][1] \in Finals => r = <<>>
  <2> SUFFICES ASSUME s[1][1] \in Finals
               PROVE  r = <<>>
    OBVIOUS
  <2>1. Len(s) = 1
    BY <1>4 DEF HandlerShape
  <2> HIDE DEF r
  <2>a. n + 1 = 1
    BY <1>1, <2>1, Zenon
  <2>2. n = 0
    BY <2>a
  <2>3. Len(r) = 0
    BY <1>1, <2>2
  <2> QED
    BY <1>1, <2>3, EmptySeq
<1>7. ASSUME s[1][1] \in Reads \union {"delete", "truncate"}
      PROVE  1 \in DOMAIN r /\ r # <<>> /\ r[1] = s[2]
  <2>1. 1 + 1 \in DOMAIN s
    BY <1>4, <1>7 DEF HandlerShape
  <2>2. 1 \in 1..n
    BY <1>1, <2>1
  <2> HIDE DEF r
  <2>3. r # <<>>
    BY <1>1, <2>2
  <2>4. r[1] = s[1 + 1]
    BY <1>1, <2>2
  <2> QED
    BY <1>1, <2>2, <2>3, <2>4
<1>8. /\ s[1][1] = "delete" => s[1 + 1] = <<"readToRemove", s[1][2]>>
      /\ s[1][1] \in Reads => s[1 + 1] = <<"truncate", s[1][2]>>
      /\ s[1][1] = "truncate" => s[1 + 1] = <<"write", s[1][2]>>
  BY <1>4 DEF HandlerShape
<1>9. s[1 + 1] = s[2]
  OBVIOUS
<1>10. ASSUME NEW x \in Range(r)
       PROVE  /\ x[1] = "readToRemove" => s[1][1] \in {"stop", "delete"}
              /\ x[1] = "spawnOrFail" =>
                   s[1][1] \in {"checkDir", "readToAdd", "truncate", "write"} /\ s[1][2] = x[2]
  <2>1. PICK i \in 1..n : x = r[i]
    BY <1>1, <1>10 DEF Range
  <2>2. x = s[i + 1] /\ i + 1 \in DOMAIN s /\ 1 \in 1..((i + 1) - 1)
    BY <1>1, <2>1
  <2> QED
    BY <2>2 DEF HandlerShape
<1>11. \A a : <<"readToRemove", a>> \in Range(r) => s[1][1] \in {"stop", "delete"}
  BY <1>10
<1>12. \A a : <<"spawnOrFail", a>> \in Range(r) =>
         s[1][1] \in {"checkDir", "readToAdd", "truncate", "write"} /\ s[1][2] = a
  BY <1>10
<1>13. s[1][1] = "delete" => <<"readToRemove", s[1][2]>> \in Range(r)
  BY <1>7, <1>8, <1>9 DEF Range
<1>14. r # <<>> =>
         /\ r[1][1] = "truncate" => s[1][1] \in Reads
         /\ r[1][1] = "write" => s[1][1] = "truncate"
         /\ r[1][1] = "spawnOrFail" => s[1][1] = "write"
  <2> SUFFICES ASSUME r # <<>>
               PROVE  /\ r[1][1] = "truncate" => s[1][1] \in Reads
                      /\ r[1][1] = "write" => s[1][1] = "truncate"
                      /\ r[1][1] = "spawnOrFail" => s[1][1] = "write"
    OBVIOUS
  <2> HIDE DEF r
  <2>1. n # 0
    BY <1>1, EmptySeq
  <2>2. 1 \in 1..n /\ 2 \in DOMAIN s /\ 2 - 1 = 1 /\ 2 # 1 /\ 1 + 1 = 2
    BY <1>1, <2>1
  <2>3. r[1] = s[2]
    BY <1>1, <2>2
  <2>4. /\ s[2][1] = "truncate" => s[2 - 1][1] \in Reads
        /\ s[2][1] = "write" => s[2 - 1][1] = "truncate"
        /\ s[2][1] = "spawnOrFail" => s[2 - 1][1] = "write"
    BY <2>2 DEF HandlerShape
  <2> QED
    BY <2>2, <2>3, <2>4
<1> HIDE DEF r
<1> QED
  BY <1>2, <1>3, <1>5, <1>6, <1>7, <1>8, <1>9, <1>11, <1>12, <1>13, <1>14 DEF r

\* A reload's first step, and what it says of the steps that are left.
LEMMA FirstReload ==
  ASSUME NEW s, ReloadShape(s), s # <<>>
  PROVE  /\ s[1] \in ReloadNames \X AgentIDs
         /\ ReloadShape(Tail(s))
         /\ Range(s) = {s[1]} \union Range(Tail(s))
         /\ s[1][1] = "stop" =>
              Len(s) > 1 /\ s[2] = <<"delete", s[1][2]>> /\ Tail(s) # <<>> /\ Tail(s)[1] = s[2]
<1> DEFINE r == Tail(s)
<1>1. PICK n \in Nat :
        /\ Len(s) = n + 1 /\ DOMAIN s = 1..(n + 1)
        /\ r \in Seq(ReloadNames \X AgentIDs) /\ Len(r) = n /\ DOMAIN r = 1..n
        /\ \A i \in 1..n : r[i] = s[i + 1]
  BY TailProperties DEF ReloadShape
<1>2. ReloadShape(r)
  BY ReloadTail
<1>3. Range(s) = {s[1]} \union Range(r)
  BY TailRange DEF ReloadShape
<1>4. 1 \in DOMAIN s
  BY <1>1
<1>5. s[1] \in ReloadNames \X AgentIDs
  BY <1>1, <1>4, LenProperties DEF ReloadShape
<1>6. ASSUME s[1][1] = "stop"
      PROVE  Len(s) > 1 /\ s[2] = <<"delete", s[1][2]>> /\ r # <<>> /\ r[1] = s[2]
  <2>1. 1 + 1 \in DOMAIN s /\ s[1 + 1] = <<"delete", s[1][2]>>
    BY <1>4, <1>6 DEF ReloadShape
  <2>2. 1 \in 1..n
    BY <1>1, <2>1
  <2> HIDE DEF r
  <2>3. r # <<>> /\ r[1] = s[1 + 1] /\ Len(s) > 1
    BY <1>1, <2>2
  <2> QED
    BY <2>1, <2>3
<1> HIDE DEF r
<1> QED
  BY <1>2, <1>3, <1>5, <1>6 DEF r

----------------------------------------------------------------------------
(* The contents of zlaw.toml *)

\* Each way of changing the list of entries gives such a list; an agent that is
\* added is in it.
LEMMA ChangedEntries ==
  ASSUME NEW entries \in Seq(Entries), NEW a \in AgentIDs, NEW d \in BOOLEAN
  PROVE  /\ AddAgent(entries, a) \in Seq(Entries) /\ a \in IDsOf(AddAgent(entries, a))
         /\ RemoveAgent(entries, a) \in Seq(Entries)
         /\ SetAgentDisabled(entries, a, d) \in Seq(Entries)
<1>1. Entry(a, FALSE) \in Entries /\ Entry(a, FALSE).id = a
  BY DEF Entry, Entries
<1>2. PICK n \in Nat : Len(entries) = n /\ entries \in [1..n -> Entries]
  BY LenProperties
<1>3. AddAgent(entries, a) \in Seq(Entries) /\ a \in IDsOf(AddAgent(entries, a))
  <2> DEFINE e == Entry(a, FALSE)
  <2> HIDE DEF e
  <2>1. /\ Append(entries, e) \in Seq(Entries) /\ Len(Append(entries, e)) = Len(entries) + 1
        /\ Append(entries, e)[Len(entries) + 1] = e
    BY <1>1, AppendProperties DEF e
  <2> DEFINE s == Append(entries, e)
  <2> HIDE DEF s
  <2>2. s \in Seq(Entries) /\ Len(s) = n + 1 /\ s[n + 1] = e
    BY <1>2, <2>1 DEF s
  <2>3. n + 1 \in DOMAIN s
    <3>1. DOMAIN s = 1..Len(s)
      BY <2>2, LenProperties
    <3> QED
      BY <2>2, <3>1
  <2>4. a \in IDsOf(s)
    BY <1>1, <2>2, <2>3 DEF IDsOf, e
  <2> QED
    BY <2>2, <2>4 DEF AddAgent, s, e
<1>4. RemoveAgent(entries, a) \in Seq(Entries)
  BY EntriesButProperties DEF RemoveAgent
<1>5. ASSUME NEW i
      PROVE  [entries EXCEPT ![i].disabled = d] \in Seq(Entries)
  <2>1. [entries EXCEPT ![i].disabled = d] \in [1..n -> Entries]
    BY <1>2 DEF Entries
  <2> QED
    BY <2>1, SeqDef
<1>6. SetAgentDisabled(entries, a, d) \in Seq(Entries)
  BY <1>5 DEF SetAgentDisabled
<1> QED
  BY <1>3, <1>4, <1>6

\* Writing over a truncated file writes it whole.
LEMMA OverwrittenProperties ==
  ASSUME NEW old \in Seq(Entries), NEW new \in Seq(Entries), NEW f \in Overwritten(old, new)
  PROVE  /\ f \in [entries : Seq(Entries), torn : BOOLEAN]
         /\ f.torn => f.entries = <<>>
         /\ old = <<>> => f.entries = new /\ ~f.torn
<1>1. PICK m \in Nat : Len(old) = m /\ old \in [1..m -> Entries]
  BY LenProperties
<1>2. PICK n \in Nat : Len(new) = n /\ new \in [1..n -> Entries]
  BY LenProperties
<1> DEFINE rest == SubSeq(old, Len(new) + 1, Len(old))
<1>3. rest \in Seq(Entries)
  <2>1. n + 1 \in Int /\ m \in Int /\ \A i \in (n + 1)..m : old[i] \in Entries
    BY <1>1
  <2>2. SubSeq(old, n + 1, m) \in Seq(Entries)
    BY <2>1, SubSeqProperties
  <2> QED
    BY <1>1, <1>2, <2>2
<1> HIDE DEF rest
<1>4. new \o rest \in Seq(Entries)
  BY <1>3, ConcatProperties
<1>5. <<>> \in Seq(Entries)
  BY EmptySeq
<1>6. \/ f = [entries |-> new, torn |-> FALSE]
      \/ ~(Size(old) <= Size(new)) /\ f = [entries |-> <<>>, torn |-> TRUE]
      \/ ~(Size(old) <= Size(new)) /\ f = [entries |-> new \o rest, torn |-> FALSE]
  BY DEF Overwritten, rest
<1>7. ASSUME old = <<>>
      PROVE  Size(old) <= Size(new)
  <2> DEFINE D(s) == {i \in DOMAIN s : s[i].disabled}
  <2>1. D(old) = {}
    BY <1>7
  <2>2. Cardinality(D(old)) = 0 /\ Len(old) = 0
    BY <1>7, <2>1, FS_EmptySet, EmptySeq
  <2>3. D(new) \subseteq 1..n /\ IsFiniteSet(1..n)
    BY <1>2, FS_Interval
  <2>4. Cardinality(D(new)) \in Nat
    BY <2>3, FS_Subset, FS_CardinalityType
  <2>5. Size(old) = Len(old) + Cardinality(D(old)) /\ Size(new) = Len(new) + Cardinality(D(new))
    BY DEF Size
  <2> HIDE DEF D
  <2>6. Size(old) = 0 + 0 /\ Size(new) = n + Cardinality(D(new))
    BY <1>2, <2>2, <2>5, Zenon
  <2> QED
    BY <2>4, <2>6
<1> DEFINE both == new \o rest
           fits == Size(old) <= Size(new)
<1> HIDE DEF both, fits
<1>8. both \in Seq(Entries)
  BY <1>4 DEF both
<1>9. \/ f = [entries |-> new, torn |-> FALSE]
      \/ ~fits /\ f = [entries |-> <<>>, torn |-> TRUE]
      \/ ~fits /\ f = [entries |-> both, torn |-> FALSE]
  BY <1>6 DEF both, fits
<1>10. f \in [entries : Seq(Entries), torn : BOOLEAN] /\ (f.torn => f.entries = <<>>)
  <2> DEFINE S == Seq(Entries)
             empty == <<>>
  <2> HIDE DEF S, empty
  <2>1. empty \in S /\ both \in S /\ new \in S
    BY <1>5, <1>8 DEF S, empty
  <2>2. \E e \in S, b \in BOOLEAN : f = [entries |-> e, torn |-> b] /\ (b => e = empty)
    BY <1>9, <2>1 DEF empty
  <2>3. f \in [entries : S, torn : BOOLEAN] /\ (f.torn => f.entries = empty)
    BY <2>2
  <2> QED
    BY <2>3 DEF S, empty
<1>11. old = <<>> => fits
  BY <1>7 DEF fits
<1>12. old = <<>> => f.entries = new /\ ~f.torn
  BY <1>9, <1>11
<1> QED
  BY <1>10, <1>12

----------------------------------------------------------------------------
(* Types and shapes *)

\* The second step is the first of those that are left.
LEMMA SecondStep ==
  ASSUME NEW S, NEW s \in Seq(S), Len(s) > 1
  PROVE  s # <<>> /\ Tail(s) # <<>> /\ Tail(s)[1] = s[2]
<1>1. s # <<>>
  BY EmptySeq
<1> DEFINE r == Tail(s)
<1> HIDE DEF r
<1>2. PICK n \in Nat :
        /\ Len(s) = n + 1 /\ DOMAIN s = 1..(n + 1)
        /\ r \in Seq(S) /\ Len(r) = n /\ DOMAIN r = 1..n
        /\ \A i \in 1..n : r[i] = s[i + 1]
  BY <1>1, TailProperties DEF r
<1>3. n + 1 > 1
  BY <1>2, Zenon
<1>4. 1 \in 1..n
  BY <1>3
<1>5. r # <<>> /\ r[1] = s[1 + 1]
  BY <1>2, <1>4
<1> QED
  BY <1>1, <1>5 DEF r

LEMMA SecondOfHandler ==
  ASSUME NEW s, HandlerShape(s), Len(s) > 1
  PROVE  s # <<>> /\ Tail(s) # <<>> /\ Tail(s)[1] = s[2] /\ HandlerShape(Tail(s))
<1>1. s \in Seq(HandlerNames \X AgentIDs)
  BY DEF HandlerShape
<1>2. s # <<>> /\ Tail(s) # <<>> /\ Tail(s)[1] = s[2]
  BY <1>1, SecondStep
<1> QED
  BY <1>2, HandlerTail

\* A watcher that is to load or to take its snapshot is Doing just that.
LEMMA ReloadDue ==
  steps["watcher"] \in {<<<<"load", "">>>>, <<<<"snapshot", "">>>>} =>
    Doing("watcher", "load") \/ Doing("watcher", "snapshot")
<1>1. \A x : <<<<x, "">>>> # <<>> /\ <<<<x, "">>>>[1] = <<x, "">> /\ <<x, "">>[1] = x
  OBVIOUS
<1> QED
  BY <1>1 DEF Doing

\* A handler's step takes the first of the steps that are left, a stop that
\* fails the deletion with it, an error all of them.
LEMMA HandlerStepTakes ==
  ASSUME Shapes, NEW t \in Threads, HandlerStep(t)
  PROVE  /\ steps[t] # <<>>
         /\ \E r : /\ steps' = [steps EXCEPT ![t] = r]
                   /\ t \in Handling => HandlerShape(r)
                   /\ t = "watcher" => ReloadShape(r)
<1> DEFINE s == steps[t]
<1>1. s # <<>>
  BY DEF HandlerStep, FailEarly, DirExists, Stop, Delete, Restart, SupervisorSpawn, ReadConfig,
         Truncate, Write, Doing
<1>2. \E r : /\ steps' = [steps EXCEPT ![t] = r]
             /\ \/ r = <<>> \/ r = Tail(s)
                \/ r = Tail(Tail(s)) /\ Len(s) > 1
  BY DEF HandlerStep, FailEarly, DirExists, Stop, Delete, Restart, SupervisorSpawn, ReadConfig,
         Truncate, Write, Fail, StepDone, Leave
<1>3. CASE t \in Handling
  <2>1. HandlerShape(s) /\ t # "watcher"
    BY <1>3, HubAssumption DEF Shapes, Handling
  <2>2. HandlerShape(Tail(s)) /\ HandlerShape(<<>>)
    BY <1>1, <2>1, HandlerTail, EmptyShapes
  <2> HIDE DEF s
  <2>a. s \in Seq(HandlerNames \X AgentIDs)
    BY <2>1 DEF HandlerShape
  <2>b. Len(s) > 1 => Tail(s) # <<>>
    BY <2>a, SecondStep
  <2>3. Len(s) > 1 => HandlerShape(Tail(Tail(s)))
    BY <2>2, <2>b, HandlerTail
  <2> QED
    BY <1>1, <1>2, <2>1, <2>2, <2>3 DEF s
<1>4. CASE t = "watcher"
  <2>1. Doing(t, "load") \/ Doing(t, "snapshot") => FALSE
    BY DEF HandlerStep, FailEarly, DirExists, Stop, Delete, Restart, SupervisorSpawn, ReadConfig,
           Truncate, Write, Doing
  <2>2. ReloadShape(s)
    BY <1>4, <2>1, <1>1, ReloadDue DEF Shapes
  <2>3. ReloadShape(Tail(s)) /\ ReloadShape(<<>>)
    BY <1>1, <2>2, ReloadTail, EmptyShapes
  <2>5. t \notin Handling
    BY <1>4, HubAssumption DEF Handling
  <2> HIDE DEF s
  <2>a. s \in Seq(ReloadNames \X AgentIDs)
    BY <2>2 DEF ReloadShape
  <2>b. Len(s) > 1 => Tail(s) # <<>>
    BY <2>a, SecondStep
  <2>4. Len(s) > 1 => ReloadShape(Tail(Tail(s)))
    BY <2>3, <2>b, ReloadTail
  <2> QED
    BY <1>1, <1>2, <2>3, <2>4, <2>5 DEF s
<1> QED
  BY <1>3, <1>4 DEF Threads, Handling

\* The handlers name agents, and only reloads have steps of their own.
LEMMA SubjectType ==
  ASSUME Shapes, NEW t \in Threads, HandlerStep(t)
  PROVE  Subject(t) \in AgentIDs
<1> DEFINE s == steps[t]
<1>1. s # <<>>
  BY DEF HandlerStep, FailEarly, DirExists, Stop, Delete, Restart, SupervisorSpawn, ReadConfig,
         Truncate, Write, Doing
<1>2. Doing(t, "load") \/ Doing(t, "snapshot") => FALSE
  BY DEF HandlerStep, FailEarly, DirExists, Stop, Delete, Restart, SupervisorSpawn, ReadConfig,
         Truncate, Write, Doing
<1>3. HandlerShape(s) \/ ReloadShape(s)
  BY <1>1, <1>2, ReloadDue DEF Shapes, Threads, Handling
<1>4. s[1] \in HandlerNames \X AgentIDs \/ s[1] \in ReloadNames \X AgentIDs
  BY <1>1, <1>3, FirstStep, FirstReload
<1> QED
  BY <1>4 DEF Subject

\* When the hub first starts.
LEMMA ShapesInit == ControlInit => ControlTypes /\ Shapes
<1> SUFFICES ASSUME ControlInit
             PROVE  ControlTypes /\ Shapes
  OBVIOUS
<1>1. PICK n \in Nat : Configured \in [1..n -> AgentIDs]
  BY HubAssumption, LenProperties
<1>2. file.entries \in Seq(Entries)
  <2>1. file.entries \in [1..n -> Entries]
    BY <1>1 DEF ControlInit, Entry, Entries
  <2> QED
    BY <2>1, SeqDef
<1>3. file \in [entries : Seq(Entries), torn : BOOLEAN]
  <2> DEFINE S == Seq(Entries)
             e == [i \in DOMAIN Configured |-> Entry(Configured[i], FALSE)]
  <2>1. file = [entries |-> e, torn |-> FALSE]
    BY DEF ControlInit
  <2> HIDE DEF S, e
  <2>2. e \in S
    BY <1>2, <2>1 DEF S
  <2>3. file \in [entries : S, torn : BOOLEAN]
    BY <2>1, <2>2
  <2> QED
    BY <2>3 DEF S
<1>4. <<>> \in Seq(Entries)
  BY EmptySeq
<1>5. ControlTypes
  BY <1>3, <1>4 DEF ControlInit, ControlTypes
<1>6. Shapes
  <2>1. \A t \in Threads : steps[t] = <<>>
    BY DEF ControlInit
  <2>2. Handling \subseteq Threads /\ "watcher" \in Threads
    BY DEF Handling, Threads
  <2>3. steps = [t \in Threads |-> <<>>]
    BY DEF ControlInit
  <2> QED
    BY <2>1, <2>2, <2>3, EmptyShapes DEF Shapes
<1> QED
  BY <1>5, <1>6

\* Every step preserves the types,
LEMMA TypesNext ==
  ASSUME ControlTypes, Shapes, [ControlNext]_controlVars
  PROVE  ControlTypes'
<1> USE DEF ControlTypes
<1>1. ASSUME NEW t \in Threads, NEW a \in Requested, Request(t, a)
      PROVE  ControlTypes'
  BY <1>1 DEF Request
<1>2. ASSUME NEW t \in Threads, HandlerStep(t)
      PROVE  ControlTypes'
  <2>0. Subject(t) \in AgentIDs
    BY <1>2, SubjectType
  <2>1. CASE FailEarly(t) \/ DirExists(t) \/ Stop(t) \/ Delete(t) \/ Restart(t) \/ SupervisorSpawn(t)
    BY <2>0, <2>1 DEF FailEarly, DirExists, Stop, Delete, Restart, SupervisorSpawn
  <2>2. CASE ReadConfig(t)
    <3>1. \A d \in BOOLEAN :
            /\ AddAgent(file.entries, Subject(t)) \in Seq(Entries)
            /\ RemoveAgent(file.entries, Subject(t)) \in Seq(Entries)
            /\ SetAgentDisabled(file.entries, Subject(t), d) \in Seq(Entries)
      BY <2>0, ChangedEntries
    <3>2. content' = content \/ \E c \in Seq(Entries) : content' = [content EXCEPT ![t] = c]
      BY <2>2, <3>1 DEF ReadConfig
    <3> QED
      BY <2>2, <3>2 DEF ReadConfig
  <2>3. CASE Truncate(t)
    <3>1. <<>> \in Seq(Entries)
      BY EmptySeq
    <3>2. file' \in [entries : Seq(Entries), torn : BOOLEAN]
      BY <2>3, <3>1 DEF Truncate
    <3> QED
      BY <2>3, <3>2 DEF Truncate
  <2>4. CASE Write(t)
    <3>1. <<>> \in Seq(Entries) /\ file.entries \in Seq(Entries) /\ content[t] \in Seq(Entries)
      BY EmptySeq
    <3>2. file' \in [entries : Seq(Entries), torn : BOOLEAN]
      BY <2>4, <3>1, OverwrittenProperties DEF Write
    <3> QED
      BY <2>4, <3>1, <3>2 DEF Write
  <2> QED
    BY <1>2, <2>1, <2>2, <2>3, <2>4 DEF HandlerStep
<1>3. CASE Tick \/ Load \/ Snapshot
  <2>1. <<>> \in Seq(Entries) /\ file.entries \in Seq(Entries)
    BY EmptySeq
  <2>2. content' = content \/ content' = [content EXCEPT !["watcher"] = file.entries]
          \/ content' = [content EXCEPT !["watcher"] = <<>>]
    BY <1>3 DEF Tick, Load, Snapshot
  <2>3. content' \in [Threads -> Seq(Entries)]
    BY <2>1, <2>2
  <2>4. pending' \in BOOLEAN /\ UNCHANGED <<up, file, sup, requestsOverlapped>>
    BY <1>3 DEF Tick, Load, Snapshot
  <2> QED
    BY <2>3, <2>4
<1>4. ASSUME NEW a \in AgentIDs, MonitorEnds(a)
      PROVE  ControlTypes'
  BY <1>4 DEF MonitorEnds
<1>5. CASE HubStops
  <2>1. <<>> \in Seq(Entries)
    BY EmptySeq
  <2> QED
    BY <1>5, <2>1 DEF HubStops
<1>6. CASE runHub
  BY <1>6 DEF runHub
<1>7. CASE UNCHANGED controlVars
  BY <1>7 DEF controlVars
<1> QED
  BY <1>1, <1>2, <1>3, <1>4, <1>5, <1>6, <1>7 DEF ControlNext, WatcherStep

\* and the shapes: handlers and reloads are taken up whole and done in order.
LEMMA ShapesNext ==
  ASSUME ControlTypes, Shapes, [ControlNext]_controlVars
  PROVE  Shapes'
<1>0. Handling \subseteq Threads /\ "watcher" \in Threads /\ "watcher" \notin Handling
  BY HubAssumption DEF Handling, Threads
<1>1. ASSUME NEW t \in Threads, NEW a \in Requested, Request(t, a)
      PROVE  Shapes'
  <2>1. PICK h \in Handlers(t, a) : steps' = [steps EXCEPT ![t] = h]
    BY <1>1 DEF Request
  <2>2. t \in Handling
    BY DEF Handlers, Handling, Threads
  <2>3. a \in AgentIDs /\ HandlerShape(h)
    BY <2>2, HandlersShape, HubAssumption
  <2> QED
    BY <1>0, <2>1, <2>2, <2>3 DEF Shapes
<1>2. ASSUME NEW t \in Threads, HandlerStep(t)
      PROVE  Shapes'
  <2>1. PICK r : /\ steps' = [steps EXCEPT ![t] = r]
                 /\ t \in Handling => HandlerShape(r)
                 /\ t = "watcher" => ReloadShape(r)
    BY <1>2, HandlerStepTakes
  <2>2. t \in Handling \/ t = "watcher"
    BY DEF Handling, Threads
  <2> QED
    BY <1>0, <2>1, <2>2 DEF Shapes
<1>3. ASSUME NEW r, steps' = [steps EXCEPT !["watcher"] = r],
             r \in {<<<<"load", "">>>>, <<<<"snapshot", "">>>>} \/ ReloadShape(r)
      PROVE  Shapes'
  BY <1>0, <1>3 DEF Shapes
<1>4. CASE Tick \/ Load \/ Snapshot
  <2>1. CASE Tick
    BY <1>3, <2>1 DEF Tick
  <2>2. CASE Load
    BY <1>3, <2>2, EmptyShapes DEF Load
  <2>3. CASE Snapshot
    <3>1. ReloadShape(reloadConfig)
      BY ReloadConfigProperties
    <3> QED
      BY <1>3, <2>3, <3>1 DEF Snapshot
  <2> QED
    BY <1>4, <2>1, <2>2, <2>3
<1>5. ASSUME NEW a \in AgentIDs, MonitorEnds(a)
      PROVE  Shapes'
  BY <1>5 DEF MonitorEnds, Shapes
<1>6. CASE HubStops
  <2>1. steps' = [t \in Threads |-> <<>>]
    BY <1>6 DEF HubStops
  <2>2. \A t \in Threads : steps'[t] = <<>>
    BY <2>1
  <2> QED
    BY <1>0, <2>1, <2>2, EmptyShapes DEF Shapes
<1>7. CASE runHub \/ UNCHANGED controlVars
  BY <1>7 DEF runHub, controlVars, Shapes
<1> QED
  BY <1>1, <1>2, <1>4, <1>5, <1>6, <1>7 DEF ControlNext, WatcherStep

----------------------------------------------------------------------------
(* A step of a handler, or of a reload *)

\* What it leaves alone.
LEMMA StepFrame ==
  ASSUME ControlTypes, Shapes, NEW t \in Threads, HandlerStep(t)
  PROVE  /\ steps[t] # <<>>
         /\ UNCHANGED <<up, requestsOverlapped>>
         /\ \A u \in Threads \ {t} : steps'[u] = steps[u] /\ content'[u] = content[u]
         /\ pending' \in {pending, TRUE}
         /\ Truncate(t) \/ Write(t) => pending'
         /\ file' = file \/ Truncate(t) \/ Write(t)
         /\ sup' = sup \/ Stop(t) \/ Delete(t) \/ SupervisorSpawn(t)
<1>1. steps[t] # <<>>
  BY HandlerStepTakes
<1>2. \A u \in Threads \ {t} : steps'[u] = steps[u]
  BY HandlerStepTakes DEF Shapes
<1>3. content' = content \/ \E c : content' = [content EXCEPT ![t] = c]
  BY DEF HandlerStep, FailEarly, DirExists, Stop, Delete, Restart, SupervisorSpawn, ReadConfig,
         Truncate, Write
<1>4. \A u \in Threads \ {t} : content'[u] = content[u]
  BY <1>3 DEF ControlTypes
<1>5. /\ UNCHANGED <<up, requestsOverlapped>>
      /\ pending' \in {pending, TRUE} /\ (Truncate(t) \/ Write(t) => pending')
      /\ file' = file \/ Truncate(t) \/ Write(t)
      /\ sup' = sup \/ Stop(t) \/ Delete(t) \/ SupervisorSpawn(t)
  <2>1. CASE FailEarly(t)
    BY <2>1 DEF FailEarly, Truncate, Write, Doing
  <2>2. CASE DirExists(t)
    BY <2>2 DEF DirExists, Truncate, Write, Doing
  <2>3. CASE Stop(t)
    BY <2>3 DEF Stop, Truncate, Write, Doing
  <2>4. CASE Delete(t)
    BY <2>4 DEF Delete, Truncate, Write, Doing
  <2>5. CASE Restart(t)
    BY <2>5 DEF Restart, Truncate, Write, Doing
  <2>6. CASE SupervisorSpawn(t)
    BY <2>6 DEF SupervisorSpawn, Truncate, Write, Doing
  <2>7. CASE ReadConfig(t)
    BY <2>7 DEF ReadConfig, Truncate, Write, Doing
  <2>8. CASE Truncate(t) \/ Write(t)
    BY <2>8 DEF Truncate, Write
  <2> QED
    BY <2>1, <2>2, <2>3, <2>4, <2>5, <2>6, <2>7, <2>8 DEF HandlerStep
<1> QED
  BY <1>1, <1>2, <1>4, <1>5

\* Which steps it takes: the first one; all of them, after a directory that is
\* not there or a read that fails; a failed stop and its deletion.
LEMMA StepsTaken ==
  ASSUME Shapes, NEW t \in Threads, HandlerStep(t)
  PROVE  \/ steps'[t] = Tail(steps[t])
         \/ steps'[t] = <<>> /\ steps[t][1][1] \in {"checkDir"} \union Finals
         \/ /\ steps'[t] = <<>> /\ steps[t][1][1] \in Reads
            /\ file.torn \/ (steps[t][1][1] # "readToAdd" => ~HasAgentsSection \/ ~IsListed(Subject(t)))
         \/ /\ steps'[t] = Tail(Tail(steps[t])) /\ steps[t][1][1] = "stop"
            /\ sup[Subject(t)] = "none" /\ Len(steps[t]) > 1 /\ steps[t][2][1] = "delete"
<1>1. t \in DOMAIN steps
  BY DEF Shapes
<1>2. CASE FailEarly(t)
  BY <1>1, <1>2 DEF FailEarly, Fail, Leave, Doing, Finals
<1>3. CASE DirExists(t)
  BY <1>1, <1>3 DEF DirExists, StepDone, Leave
<1>4. CASE Stop(t)
  BY <1>1, <1>4 DEF Stop, StepDone, Fail, Leave, Doing, Finals
<1>5. CASE Delete(t)
  BY <1>1, <1>5 DEF Delete, StepDone, Leave
<1>6. CASE Restart(t)
  BY <1>1, <1>6 DEF Restart, Fail, StepDone, Leave, Doing, Finals
<1>7. CASE SupervisorSpawn(t)
  BY <1>1, <1>7 DEF SupervisorSpawn, Fail, StepDone, Leave, Doing, Finals
<1>8. CASE ReadConfig(t)
  BY <1>1, <1>8 DEF ReadConfig, Fail, StepDone, Leave, Doing, Reads
<1>9. CASE Truncate(t) \/ Write(t)
  BY <1>1, <1>9 DEF Truncate, Write, StepDone, Leave
<1> QED
  BY <1>2, <1>3, <1>4, <1>5, <1>6, <1>7, <1>8, <1>9 DEF HandlerStep

\* A handler that is between its two halves of a write, or has the removal of a
\* listed agent from the file ahead of it, still is and has after a step that is
\* not the write's second half.
LEMMA RewriteGoesOn ==
  ASSUME ControlTypes, Shapes, ListedInv, NEW t \in Handling, HandlerStep(t), ~Write(t),
         NEW a \in AgentIDs, IsListed(a),
         Doing(t, "truncate") \/ Doing(t, "write") \/ <<"readToRemove", a>> \in Left(t)
  PROVE  (Doing(t, "truncate") \/ Doing(t, "write") \/ <<"readToRemove", a>> \in Left(t))'
<1> DEFINE s == steps[t]
           r == steps'[t]
<1>1. t \in Threads /\ s # <<>> /\ HandlerShape(s)
  BY StepFrame DEF Handling, Threads, Shapes
<1>2. ~Doing(t, "write")
  BY <1>1 DEF HandlerStep, FailEarly, DirExists, Stop, Delete, Restart, SupervisorSpawn,
              ReadConfig, Truncate, Doing
<1>3. file.entries # <<>> /\ ~file.torn /\ HasAgentsSection
  <2>1. file.entries # <<>>
    BY EmptySeq DEF IsListed, IDsOf
  <2> QED
    BY <2>1 DEF ListedInv, HasAgentsSection
<1>4. /\ s[1] \in HandlerNames \X AgentIDs
      /\ Range(s) = {s[1]} \union Range(Tail(s))
      /\ s[1][1] \in Finals => Tail(s) = <<>>
      /\ s[1][1] \in Reads => Tail(s) # <<>> /\ Tail(s)[1] = <<"truncate", s[1][2]>>
      /\ s[1][1] = "truncate" => Tail(s) # <<>> /\ Tail(s)[1] = <<"write", s[1][2]>>
      /\ \A x : <<"readToRemove", x>> \in Range(Tail(s)) => s[1][1] \in {"stop", "delete"}
  BY <1>1, FirstStep
<1>5. CASE Doing(t, "truncate")
  <2>1. r = Tail(s)
    BY <1>1, <1>5, StepsTaken DEF Doing, Finals, Reads
  <2>2. r # <<>> /\ r[1][1] = "write"
    BY <1>4, <1>5, <2>1 DEF Doing
  <2> QED
    BY <2>2 DEF Doing
<1>6. CASE <<"readToRemove", a>> \in Left(t)
  <2>1. CASE s[1] = <<"readToRemove", a>>
    <3>1. r = Tail(s)
      BY <1>1, <1>3, <2>1, StepsTaken DEF Finals, Subject
    <3> QED
      BY <1>4, <2>1, <3>1 DEF Reads, Doing
  <2>2. CASE <<"readToRemove", a>> \in Range(Tail(s))
    <3>1. s[1][1] \in {"stop", "delete"}
      BY <1>4, <2>2
    <3>2. CASE r = Tail(s)
      BY <2>2, <3>2 DEF Left
    <3>3. CASE /\ r = Tail(Tail(s)) /\ Len(s) > 1 /\ s[2][1] = "delete"
      <4>1. Tail(s) # <<>> /\ Tail(s)[1] = s[2] /\ HandlerShape(Tail(s))
        BY <1>1, <3>3, SecondOfHandler
      <4>2. Range(Tail(s)) = {s[2]} \union Range(Tail(Tail(s)))
        BY <4>1, FirstStep
      <4>3. <<"readToRemove", a>> \in Range(Tail(Tail(s)))
        BY <2>2, <3>3, <4>2
      <4> QED
        BY <3>3, <4>3 DEF Left
    <3> QED
      BY <1>1, <3>1, <3>2, <3>3, StepsTaken DEF Finals, Reads
  <2> QED
    BY <1>4, <1>6, <2>1, <2>2 DEF Left
<1> QED
  BY <1>2, <1>5, <1>6

\* A reload stops, deletes and spawns; it leaves out a deletion only of a name
\* that is not supervised.
LEMMA ReloadTakes ==
  ASSUME ControlTypes, Shapes, HandlerStep("watcher")
  PROVE  /\ ReloadShape(steps["watcher"]) /\ steps["watcher"] # <<>>
         /\ Stop("watcher") \/ Delete("watcher") \/ SupervisorSpawn("watcher")
         /\ ~Reloads /\ ~Reloads'
         /\ Left("watcher")' \subseteq Left("watcher")
         /\ \A x \in Left("watcher") :
              \/ x \in Left("watcher")' \/ x = steps["watcher"][1]
              \/ x = <<"delete", Subject("watcher")>> /\ sup[Subject("watcher")] = "none"
<1> DEFINE t == "watcher"
           s == steps[t]
           r == steps'[t]
<1>1. t \in Threads /\ t \notin Handling
  BY HubAssumption DEF Threads, Handling
<1>2. s # <<>>
  BY <1>1, StepFrame
<1>3. ~Reloads
  BY DEF Reloads, HandlerStep, FailEarly, DirExists, Stop, Delete, Restart, SupervisorSpawn,
         ReadConfig, Truncate, Write, Doing
<1>4. ReloadShape(s)
  BY <1>3, ReloadDue DEF Shapes, Reloads
<1>5. ReloadShape(r)
  <2>1. PICK q : steps' = [steps EXCEPT ![t] = q] /\ ReloadShape(q)
    BY <1>1, HandlerStepTakes
  <2> QED
    BY <1>1, <2>1 DEF Shapes
<1>6. /\ s[1] \in ReloadNames \X AgentIDs
      /\ ReloadShape(Tail(s))
      /\ Range(s) = {s[1]} \union Range(Tail(s))
      /\ s[1][1] = "stop" =>
              Len(s) > 1 /\ s[2] = <<"delete", s[1][2]>> /\ Tail(s) # <<>> /\ Tail(s)[1] = s[2]
  BY <1>2, <1>4, FirstReload
<1>7. Stop(t) \/ Delete(t) \/ SupervisorSpawn(t)
  BY <1>6 DEF HandlerStep, FailEarly, DirExists, Restart, ReadConfig, Truncate, Write, Doing,
              ReloadNames
<1>8. ~Reloads'
  <2>1. CASE r = <<>>
    BY <2>1 DEF Reloads, Doing
  <2>2. CASE r # <<>>
    <3>1. r[1] \in ReloadNames \X AgentIDs
      BY <1>5, <2>2, FirstReload
    <3> QED
      BY <3>1 DEF Reloads, Doing, ReloadNames
  <2> QED
    BY <2>1, <2>2
<1>9. \/ r = Tail(s)
      \/ r = Tail(Tail(s)) /\ s[1][1] = "stop" /\ sup[Subject(t)] = "none"
  BY <1>1, <1>6, StepsTaken DEF Finals, Reads, ReloadNames
<1>10. CASE r = Tail(s)
  BY <1>2, <1>3, <1>4, <1>6, <1>7, <1>8, <1>10 DEF Left
<1>11. CASE r = Tail(Tail(s)) /\ s[1][1] = "stop" /\ sup[Subject(t)] = "none"
  <2>1. Range(Tail(s)) = {<<"delete", s[1][2]>>} \union Range(Tail(Tail(s)))
    BY <1>6, <1>11, FirstReload
  <2> QED
    BY <1>2, <1>3, <1>4, <1>6, <1>7, <1>8, <1>11, <2>1 DEF Left, Subject
<1> QED
  BY <1>9, <1>10, <1>11

----------------------------------------------------------------------------
(* Listed agents are supervised, or going to be *)

\* When the hub first starts, each agent listed is supervised.
LEMMA ListedInit == ControlInit => ListedInv
<1> SUFFICES ASSUME ControlInit
             PROVE  ListedInv
  OBVIOUS
<1>1. ~file.torn /\ up /\ \A t \in Threads : steps[t] = <<>>
  BY DEF ControlInit
<1>2. Left("watcher") = {} /\ ~Doing("watcher", "snapshot")
  BY <1>1 DEF Left, Range, Doing, Threads
<1>3. \A a \in AgentIDs : IsListed(a) => sup[a] = "live"
  BY DEF ControlInit
<1> QED
  BY <1>1, <1>2, <1>3 DEF ListedInv

\* An agent that is going to be spawned stays so when the file, the watcher
\* and its flag stay as they are and every handler goes on.
LEMMA SpawnStillDue ==
  ASSUME NEW a \in AgentIDs, WillSpawn(a), UNCHANGED pending,
         steps'["watcher"] = steps["watcher"],
         \A t \in Handling :
           Doing(t, "truncate") \/ Doing(t, "write") \/ <<"readToRemove", a>> \in Left(t) =>
             (Doing(t, "truncate") \/ Doing(t, "write") \/ <<"readToRemove", a>> \in Left(t))'
  PROVE  WillSpawn(a)'
BY DEF WillSpawn, Reloads, Doing, Left

\* A request that arrives changes nothing yet.
LEMMA ListedRequest ==
  ASSUME ControlTypes, Shapes, ListedInv,
         NEW t \in Threads, NEW a \in Requested, Request(t, a)
  PROVE  ListedInv'
<1>1. t \in Handling /\ t # "watcher" /\ up
  BY HubAssumption DEF Request, Handlers, Handling, Threads
<1>2. \A u \in Threads \ {t} : steps'[u] = steps[u]
  BY DEF Request, Shapes
<1>3. steps'["watcher"] = steps["watcher"]
  BY <1>1, <1>2 DEF Threads
<1>4. steps[t] = <<>> /\ Left(t) = {}
  BY DEF Request, Left, Range
<1>5. \A u \in Handling : u # t => steps'[u] = steps[u]
  BY <1>2 DEF Handling, Threads
<1>6. ASSUME NEW x \in AgentIDs, WillSpawn(x)
      PROVE  WillSpawn(x)'
  <2>1. ASSUME NEW u \in Handling,
               Doing(u, "truncate") \/ Doing(u, "write") \/ <<"readToRemove", x>> \in Left(u)
        PROVE  (Doing(u, "truncate") \/ Doing(u, "write") \/ <<"readToRemove", x>> \in Left(u))'
    BY <1>4, <1>5, <2>1 DEF Doing, Left
  <2>2. UNCHANGED pending
    BY DEF Request
  <2> QED
    BY <1>3, <1>6, <2>1, <2>2, SpawnStillDue
<1>7. UNCHANGED <<up, file, sup, pending, content>>
  BY DEF Request
<1> QED
  BY <1>1, <1>3, <1>6, <1>7 DEF ListedInv, Doing, Left, IsListed

\* A handler rewrites the file, and leaves that to the watcher; it deletes an agent
\* only with the rewriting of the file ahead of it.
LEMMA ListedHandler ==
  ASSUME ControlTypes, Shapes, ListedInv, NEW t \in Handling, HandlerStep(t)
  PROVE  ListedInv'
<1>1. t \in Threads /\ t # "watcher" /\ "watcher" \in Threads
  BY HubAssumption DEF Handling, Threads
<1>2. /\ steps[t] # <<>>
      /\ UNCHANGED up
      /\ \A u \in Threads \ {t} : steps'[u] = steps[u] /\ content'[u] = content[u]
      /\ pending' \in {pending, TRUE}
      /\ Truncate(t) \/ Write(t) => pending'
      /\ file' = file \/ Truncate(t) \/ Write(t)
      /\ sup' = sup \/ Stop(t) \/ Delete(t) \/ SupervisorSpawn(t)
  BY <1>1, StepFrame
<1>3. steps'["watcher"] = steps["watcher"] /\ content'["watcher"] = content["watcher"]
  BY <1>1, <1>2
<1>4. up
  BY <1>1, <1>2 DEF ListedInv
<1>5. file'.torn => file'.entries = <<>>
  <2>1. CASE Truncate(t)
    BY <2>1 DEF Truncate
  <2>2. CASE Write(t)
    <3>1. file.entries \in Seq(Entries) /\ content[t] \in Seq(Entries)
      BY <1>1 DEF ControlTypes
    <3> QED
      BY <2>2, <3>1, OverwrittenProperties DEF Write
  <2> QED
    BY <1>2, <2>1, <2>2 DEF ListedInv
<1>6. ~pending' => ~pending /\ file' = file
  BY <1>2
<1>7. ASSUME NEW a \in AgentIDs \ TomlDisabled, IsListed(a)', sup'[a] = "none", ~pending'
      PROVE  WillSpawn(a)'
  <2>1. file' = file /\ pending' = pending /\ ~Truncate(t) /\ ~Write(t) /\ IsListed(a)
    BY <1>2, <1>7 DEF ControlTypes, IsListed
  <2>2. CASE sup[a] = "none"
    <3>1. WillSpawn(a)
      BY <1>4, <2>1, <2>2 DEF ListedInv
    <3>2. ASSUME NEW u \in Handling,
                 Doing(u, "truncate") \/ Doing(u, "write") \/ <<"readToRemove", a>> \in Left(u)
          PROVE  (Doing(u, "truncate") \/ Doing(u, "write") \/ <<"readToRemove", a>> \in Left(u))'
      <4>1. CASE u = t
        BY <2>1, <3>2, <4>1, RewriteGoesOn
      <4>2. CASE u # t
        <5>1. steps'[u] = steps[u]
          BY <1>2, <4>2 DEF Handling, Threads
        <5> QED
          BY <3>2, <5>1 DEF Doing, Left
      <4> QED
        BY <4>1, <4>2
    <3> QED
      BY <1>3, <2>1, <3>1, <3>2, SpawnStillDue
  <2>3. CASE sup[a] # "none"
    <3>1. Delete(t) /\ a = Subject(t)
      BY <1>2, <1>7, <2>3 DEF Stop, Delete, SupervisorSpawn, ControlTypes
    <3>2. <<"readToRemove", a>> \in Range(Tail(steps[t]))
      BY <1>2, <3>1, FirstStep DEF Delete, Doing, Subject, Shapes
    <3>3. steps'[t] = Tail(steps[t])
      BY <1>1, <3>1 DEF Delete, StepDone, Leave, Shapes
    <3> QED
      BY <3>2, <3>3 DEF WillSpawn, Left
  <2> QED
    BY <2>2, <2>3
<1>8. pending' => \A a \in AgentIDs : WillSpawn(a)'
  BY DEF WillSpawn
<1>9. up' => \A a \in AgentIDs \ TomlDisabled : IsListed(a)' /\ sup'[a] = "none" => WillSpawn(a)'
  BY <1>7, <1>8
<1>10. ~pending' /\ Doing("watcher", "snapshot")' => content'["watcher"] = file'.entries
  <2>1. Doing("watcher", "snapshot")' <=> Doing("watcher", "snapshot")
    BY <1>3 DEF Doing
  <2> QED
    BY <1>3, <1>6, <2>1 DEF ListedInv
<1>11. ~pending' => \A a \in AgentIDs : <<"delete", a>> \in Left("watcher")' => ~IsListed(a)'
  <2>1. Left("watcher")' = Left("watcher")
    BY <1>3 DEF Left
  <2> QED
    BY <1>6, <2>1 DEF ListedInv, IsListed
<1> QED
  BY <1>2, <1>4, <1>5, <1>9, <1>10, <1>11 DEF ListedInv

\* A reload deletes what the file does not list, unless the watcher was told of a
\* newer file.
LEMMA ListedReload ==
  ASSUME ControlTypes, Shapes, ListedInv, HandlerStep("watcher")
  PROVE  ListedInv'
<1> DEFINE w == "watcher"
<1>1. w \in Threads /\ w \notin Handling
  BY HubAssumption DEF Handling, Threads
<1>2. /\ steps[w] # <<>>
      /\ UNCHANGED up
      /\ \A u \in Threads \ {w} : steps'[u] = steps[u]
  BY <1>1, StepFrame
<1>3. /\ Stop(w) \/ Delete(w) \/ SupervisorSpawn(w)
      /\ ~Reloads /\ ~Reloads'
      /\ Left(w)' \subseteq Left(w)
      /\ \A x \in Left(w) :
           \/ x \in Left(w)' \/ x = steps[w][1]
           \/ x = <<"delete", Subject(w)>> /\ sup[Subject(w)] = "none"
      /\ ReloadShape(steps[w])
  BY ReloadTakes
<1>4. up /\ UNCHANGED <<file, pending, content>>
  BY <1>1, <1>2, <1>3 DEF ListedInv, Stop, Delete, SupervisorSpawn
<1>5. ASSUME NEW a \in AgentIDs \ TomlDisabled, IsListed(a), sup'[a] = "none"
      PROVE  WillSpawn(a)'
  <2>1. CASE pending
    BY <1>4, <2>1 DEF WillSpawn
  <2>2. CASE ~pending
    <3>1. sup[a] = "none"
      <4>1. SUFFICES ASSUME sup[a] # "none"
                     PROVE  FALSE
        OBVIOUS
      <4>2. Delete(w) /\ a = Subject(w)
        BY <1>3, <1>5, <4>1 DEF Stop, Delete, SupervisorSpawn, ControlTypes
      <4>3. <<"delete", a>> = steps[w][1] /\ steps[w][1] \in Left(w)
        BY <1>2, <1>3, <4>2, FirstReload DEF Delete, Doing, Subject, Left, ReloadNames
      <4> QED
        BY <1>5, <2>2, <4>3 DEF ListedInv
    <3>2. WillSpawn(a)
      BY <1>4, <1>5, <3>1 DEF ListedInv
    <3>3. CASE <<"spawn", a>> \in Left(w)
      <4>1. steps[w][1] # <<"spawn", a>>
        <5>1. SUFFICES ASSUME steps[w][1] = <<"spawn", a>>
                       PROVE  FALSE
          OBVIOUS
        <5>2. SupervisorSpawn(w) /\ Subject(w) = a
          BY <1>3, <5>1 DEF Stop, Delete, Doing, Subject
        <5> QED
          BY <1>5, <3>1, <5>2 DEF SupervisorSpawn, ControlTypes
      <4> QED
        BY <1>3, <3>3, <4>1 DEF WillSpawn
    <3>4. CASE \E t \in Handling :
                 Doing(t, "truncate") \/ Doing(t, "write") \/ <<"readToRemove", a>> \in Left(t)
      <4>1. \A t \in Handling : steps'[t] = steps[t]
        BY <1>1, <1>2 DEF Handling, Threads
      <4> QED
        BY <3>4, <4>1 DEF WillSpawn, Doing, Left
    <3> QED
      BY <1>3, <2>2, <3>2, <3>3, <3>4 DEF WillSpawn
  <2> QED
    BY <2>1, <2>2
<1> QED
  BY <1>1, <1>2, <1>3, <1>4, <1>5 DEF ListedInv, Reloads, IsListed

\* The watcher with a single step left.
LEMMA SingleStep ==
  ASSUME NEW x
  PROVE  steps'["watcher"] = <<<<x, "">>>> =>
           /\ \A y, a : <<y, a>> \in Left("watcher")' => y = x
           /\ \A y : Doing("watcher", y)' <=> y = x
<1> DEFINE s == <<<<x, "">>>>
<1>1. DOMAIN s = 1..1
  OBVIOUS
<1>2. s[1] = <<x, "">> /\ s # <<>> /\ <<x, "">>[1] = x
  OBVIOUS
<1>3. \A j \in 1..1 : j = 1
  OBVIOUS
<1> SUFFICES ASSUME steps'["watcher"] = s
             PROVE  /\ \A y, a : <<y, a>> \in Left("watcher")' => y = x
                    /\ \A y : Doing("watcher", y)' <=> y = x
  OBVIOUS
<1>4. ASSUME NEW y, NEW a, <<y, a>> \in Left("watcher")'
      PROVE  y = x
  <2>1. PICK i \in DOMAIN s : <<y, a>> = s[i]
    BY <1>4 DEF Left, Range
  <2> HIDE DEF s
  <2>2. i = 1
    BY <1>1, <1>3, Zenon
  <2>3. <<y, a>> = <<x, "">>
    BY <1>2, <2>1, <2>2
  <2> QED
    BY <2>3
<1>5. ASSUME NEW y
      PROVE  Doing("watcher", y)' <=> y = x
  <2>1. Doing("watcher", y)' <=> steps'["watcher"] # <<>> /\ steps'["watcher"][1][1] = y
    BY DEF Doing
  <2> QED
    BY <1>2, <2>1
<1> QED
  BY <1>4, <1>5

\* The watcher takes up a reload, and finds what it has to spawn and to delete.
LEMMA ListedWatcher ==
  ASSUME ControlTypes, Shapes, ListedInv, WatcherStep
  PROVE  ListedInv'
<1> DEFINE w == "watcher"
<1>1. w \in Threads /\ w \notin Handling
  BY HubAssumption DEF Handling, Threads
<1>2. up /\ UNCHANGED <<up, file, sup>>
  BY <1>1 DEF WatcherStep, Tick, Load, Snapshot, ListedInv, Doing
<1>3. ASSUME NEW x \in {"load", "snapshot"}, steps'[w] = <<<<x, "">>>>
      PROVE  (\A a \in AgentIDs : <<"delete", a>> \notin Left(w)') /\ Reloads'
  <2>1. /\ \A y, a : <<y, a>> \in Left(w)' => y = x
        /\ \A y : Doing(w, y)' <=> y = x
    BY <1>3, SingleStep
  <2>2. Reloads'
    BY <2>1 DEF Reloads
  <2>3. x # "delete"
    OBVIOUS
  <2> QED
    BY <2>1, <2>2, <2>3
<1>4. CASE Tick
  <2>1. steps'[w] = <<<<"load", "">>>>
    BY <1>1, <1>4 DEF Tick, Shapes
  <2>2. ~Doing(w, "snapshot")'
    BY <2>1, SingleStep
  <2>3. \A a : WillSpawn(a)'
    BY <1>3, <2>1 DEF WillSpawn
  <2> QED
    BY <1>2, <1>3, <2>1, <2>2, <2>3 DEF ListedInv
<1>5. CASE Load
  <2>1. steps'[w] = IF file.torn THEN <<>> ELSE <<<<"snapshot", "">>>>
    BY <1>1, <1>5 DEF Load, Shapes
  <2>2. content'[w] = file.entries
    BY <1>1, <1>5 DEF Load, ControlTypes
  <2>3. CASE file.torn
    <3>1. \A a : ~IsListed(a)
      BY <2>3 DEF ListedInv, IsListed, IDsOf
    <3>2. Left(w)' = {}
      BY <2>1, <2>3 DEF Left, Range
    <3> QED
      BY <1>2, <2>2, <3>1, <3>2 DEF ListedInv, IsListed
  <2>4. CASE ~file.torn
    <3>1. steps'[w] = <<<<"snapshot", "">>>>
      BY <2>1, <2>4
    <3>2. \A a : WillSpawn(a)'
      BY <1>3, <3>1 DEF WillSpawn
    <3> QED
      BY <1>2, <1>3, <2>2, <2>4, <3>1, <3>2 DEF ListedInv
  <2> QED
    BY <2>3, <2>4
<1>6. CASE Snapshot
  <2>1. steps'[w] = reloadConfig /\ pending' = pending
    BY <1>1, <1>6 DEF Snapshot, Shapes
  <2>2. /\ ReloadShape(reloadConfig)
        /\ \A a \in AgentIDs :
             /\ <<"delete", a>> \in Range(reloadConfig)
                  <=> sup[a] # "none" /\ a \notin IDsOf(content[w])
             /\ <<"spawn", a>> \in Range(reloadConfig)
                  <=> sup[a] = "none" /\ a \in IDsOf(content[w]) \ TomlDisabled
    BY ReloadConfigProperties DEF Range
  <2>3. ~Doing(w, "snapshot")'
    <3>1. CASE reloadConfig = <<>>
      BY <2>1, <3>1 DEF Doing
    <3>2. CASE reloadConfig # <<>>
      BY <2>1, <2>2, <3>2, FirstReload DEF Doing, ReloadNames
    <3> QED
      BY <3>1, <3>2
  <2>4. CASE pending
    BY <1>2, <2>1, <2>3, <2>4 DEF ListedInv, WillSpawn
  <2>5. CASE ~pending
    <3>1. content[w] = file.entries
      BY <1>6, <2>5 DEF Snapshot, ListedInv
    <3>2. \A a \in AgentIDs : <<"delete", a>> \in Left(w)' => ~IsListed(a)
      BY <2>1, <2>2, <3>1 DEF Left, IsListed
    <3>3. \A a \in AgentIDs \ TomlDisabled : IsListed(a) /\ sup[a] = "none" => WillSpawn(a)'
      BY <2>1, <2>2, <3>1 DEF Left, IsListed, WillSpawn
    <3> QED
      BY <1>2, <2>1, <2>3, <2>5, <3>2, <3>3 DEF ListedInv, IsListed
  <2> QED
    BY <2>4, <2>5
<1> QED
  BY <1>4, <1>5, <1>6 DEF WatcherStep

\* Every step preserves it.
LEMMA ListedNext ==
  ASSUME ControlTypes, Shapes, ListedInv, [ControlNext]_controlVars
  PROVE  ListedInv'
<1>0. ASSUME NEW t \in Threads, NEW a \in Requested, Request(t, a)
      PROVE  ListedInv'
  BY <1>0, ListedRequest
<1>1. ASSUME NEW t \in Threads, HandlerStep(t)
      PROVE  ListedInv'
  BY <1>1, ListedHandler, ListedReload DEF Handling, Threads
<1>2. ASSUME NEW a \in AgentIDs, MonitorEnds(a)
      PROVE  ListedInv'
  <2>1. \A x \in AgentIDs : sup'[x] = "none" <=> sup[x] = "none"
    BY <1>2 DEF MonitorEnds, ControlTypes
  <2>2. UNCHANGED <<up, file, pending, steps, content>>
    BY <1>2 DEF MonitorEnds
  <2>3. \A x : WillSpawn(x) => WillSpawn(x)'
    BY <2>2 DEF WillSpawn, Reloads, Doing, Left
  <2> QED
    BY <2>1, <2>2, <2>3 DEF ListedInv, IsListed, Doing, Left
<1>3. CASE HubStops
  <2>1. \A t \in Threads : steps'[t] = <<>>
    BY <1>3 DEF HubStops
  <2>2. Left("watcher")' = {} /\ ~Doing("watcher", "snapshot")'
    BY <2>1 DEF Left, Range, Doing, Threads
  <2> QED
    BY <1>3, <2>1, <2>2 DEF HubStops, ListedInv
<1>4. CASE runHub
  <2>1. \A a \in AgentIDs : IsListed(a)' => sup'[a] = "live"
    BY <1>4 DEF runHub, IsListed
  <2>2. UNCHANGED <<file, pending, steps, content>> /\ ~file.torn
    BY <1>4 DEF runHub
  <2>3. up' /\ \A t \in Threads : steps'[t] = <<>>
    BY <1>4 DEF runHub, ListedInv
  <2>4. Left("watcher")' = {} /\ ~Doing("watcher", "snapshot")'
    BY <2>3 DEF Left, Range, Doing, Threads
  <2> QED
    BY <2>1, <2>2, <2>3, <2>4 DEF ListedInv
<1>5. CASE UNCHANGED controlVars
  <2>1. \A x : WillSpawn(x) => WillSpawn(x)'
    BY <1>5 DEF controlVars, WillSpawn, Reloads, Doing, Left
  <2> QED
    BY <1>5, <2>1 DEF controlVars, ListedInv, IsListed, Doing, Left
<1>6. CASE WatcherStep
  BY <1>6, ListedWatcher
<1> QED
  BY <1>0, <1>1, <1>2, <1>3, <1>4, <1>5, <1>6 DEF ControlNext

\* In every reachable state the types and shapes hold, and an agent that
\* zlaw.toml lists is supervised or going to be.
THEOREM ControlInvCorrect == ControlSpec => []ControlInv
<1>1. ControlInit => ControlInv
  BY ShapesInit, ListedInit DEF ControlInv
<1>2. ControlInv /\ [ControlNext]_controlVars => ControlInv'
  BY TypesNext, ShapesNext, ListedNext DEF ControlInv
<1> QED
  BY <1>1, <1>2, PTL DEF ControlSpec

\* When everything is quiet nothing is going to be spawned: each agent listed is
\* supervised already.
LEMMA ControlInvSupervises == ControlInv => FileAgentsSupervised
<1> SUFFICES ASSUME ControlInv, Quiet, NEW a \in IDsOf(file.entries) \ TomlDisabled
             PROVE  a \in Supervised
  BY DEF FileAgentsSupervised
<1>1. a \in AgentIDs
  <2>1. file.entries \in Seq(Entries)
    BY DEF ControlInv, ControlTypes
  <2>2. PICK i \in DOMAIN file.entries : a = file.entries[i].id
    BY DEF IDsOf
  <2>3. file.entries[i] \in Entries
    BY <2>1, <2>2, LenProperties
  <2> QED
    BY <2>2, <2>3 DEF Entries
<1>2. ~pending /\ up /\ \A t \in Threads : steps[t] = <<>>
  BY DEF Quiet
<1>3. \A t \in Threads : Left(t) = {} /\ \A x : ~Doing(t, x)
  BY <1>2 DEF Left, Range, Doing
<1>4. ~WillSpawn(a)
  BY <1>2, <1>3 DEF WillSpawn, Reloads, Threads, Handling
<1> QED
  BY <1>1, <1>2, <1>4 DEF ControlInv, ListedInv, IsListed, Supervised

\* However requests, reloads and hub restarts interleave, when everything is
\* quiet each agent that zlaw.toml lists, and its agent.toml does not disable,
\* is supervised.
THEOREM SupervisedCorrect == ControlSpec => []FileAgentsSupervised
<1> QED
  BY ControlInvCorrect, ControlInvSupervises, PTL

----------------------------------------------------------------------------
(* Requests that come one after the other *)

\* When the hub first starts.
LEMMA SerialInit == ControlInit => SerialControl
<1> SUFFICES ASSUME ControlInit
             PROVE  SerialControl
  OBVIOUS
<1>1. /\ \A t \in Threads : steps[t] = <<>>
      /\ ~file.torn
      /\ \A a \in AgentIDs : sup[a] # "none" => IsListed(a)
  BY DEF ControlInit
<1>2. Handling \subseteq Threads /\ "watcher" \in Threads
  BY DEF Handling, Threads
<1>3. \A t \in Threads : Left(t) = {} /\ \A x : ~Doing(t, x)
  BY <1>1 DEF Left, Range, Doing
<1> QED
  BY <1>1, <1>2, <1>3 DEF SerialControl

\* The hub after its end or its start.
LEMMA SerialWhenIdle ==
  ASSUME \A t \in Threads : steps'[t] = <<>>, ~file'.torn,
         up' => \A a \in AgentIDs : sup'[a] # "none" => IsListed(a)'
  PROVE  SerialControl'
<1>1. Handling \subseteq Threads /\ "watcher" \in Threads
  BY DEF Handling, Threads
<1>2. \A t \in Threads : Left(t)' = {} /\ \A x : ~Doing(t, x)'
  BY DEF Left, Range, Doing
<1> QED
  BY <1>1, <1>2 DEF SerialControl

\* The request that arrives is the only one.
LEMMA SerialRequest ==
  ASSUME ControlTypes, Shapes, SerialControl,
         NEW t \in Threads, NEW a \in Requested, Request(t, a), ~requestsOverlapped'
  PROVE  SerialControl'
<1>1. PICK h \in Handlers(t, a) : steps' = [steps EXCEPT ![t] = h]
  BY DEF Request
<1>2. t \in Handling /\ t # "watcher" /\ a \in AgentIDs
  BY <1>1, HubAssumption DEF Handlers, Handling, Threads
<1>3. \A u \in Handling : steps[u] = <<>>
  BY HubAssumption DEF Request, Handling, Threads
<1>4. /\ steps'[t] = h /\ \A u \in Handling : u # t => steps'[u] = <<>>
      /\ steps'["watcher"] = steps["watcher"]
  BY <1>1, <1>2, <1>3 DEF Shapes, Handling, Threads
<1>5. h # <<>> /\ h[1][1] \notin {"truncate", "write", "spawnOrFail"}
  BY <1>1, <1>2, HandlersShape
<1>6. \A u \in Handling : ~Doing(u, "truncate")' /\ ~Doing(u, "write")' /\ ~Doing(u, "spawnOrFail")'
  BY <1>4, <1>5 DEF Doing
<1>7. \A u, v \in Handling : steps'[u] # <<>> /\ steps'[v] # <<>> => u = v
  BY <1>4
<1>8. UNCHANGED <<up, file, sup, pending>>
  BY DEF Request
<1>9. Left("watcher")' = Left("watcher") /\ (Reloads' <=> Reloads)
  BY <1>4 DEF Left, Reloads, Doing
<1> QED
  BY <1>6, <1>7, <1>8, <1>9 DEF SerialControl, IsListed

\* The step after a deletion is neither half of a write nor a creation's spawn.
LEMMA AfterDeletion ==
  ASSUME NEW s, HandlerShape(s), Len(s) > 1, s[2][1] = "delete", Tail(Tail(s)) # <<>>
  PROVE  Tail(Tail(s))[1][1] \notin {"truncate", "write", "spawnOrFail"}
<1> DEFINE q == Tail(s)
<1>1. q # <<>> /\ q[1] = s[2] /\ HandlerShape(q)
  BY SecondOfHandler
<1> HIDE DEF q
<1>2. Tail(q) # <<>> =>
        /\ Tail(q)[1][1] = "truncate" => q[1][1] \in Reads
        /\ Tail(q)[1][1] = "write" => q[1][1] = "truncate"
        /\ Tail(q)[1][1] = "spawnOrFail" => q[1][1] = "write"
  BY <1>1, FirstStep
<1> QED
  BY <1>1, <1>2 DEF q, Reads

\* Its handler finds the file as the request before left it: the write is over an
\* empty file, and a created agent is listed before it is spawned.
LEMMA SerialHandler ==
  ASSUME ControlTypes, Shapes, ListedInv, SerialControl, NEW t \in Handling, HandlerStep(t)
  PROVE  SerialControl'
<1> DEFINE s == steps[t]
           r == steps'[t]
<1>1. t \in Threads /\ t # "watcher" /\ "watcher" \in Threads
  BY HubAssumption DEF Handling, Threads
<1>2. /\ s # <<>>
      /\ UNCHANGED up
      /\ \A u \in Threads \ {t} : steps'[u] = steps[u] /\ content'[u] = content[u]
      /\ pending' \in {pending, TRUE}
      /\ Truncate(t) \/ Write(t) => pending'
      /\ file' = file \/ Truncate(t) \/ Write(t)
      /\ sup' = sup \/ Stop(t) \/ Delete(t) \/ SupervisorSpawn(t)
  BY <1>1, StepFrame
<1>3. steps'["watcher"] = steps["watcher"]
  BY <1>1, <1>2
<1>4. \A u \in Handling : u # t => steps'[u] = <<>>
  BY <1>1, <1>2 DEF SerialControl, Handling, Threads
<1>5. HandlerShape(s)
  BY DEF Shapes
<1>6. /\ s[1] \in HandlerNames \X AgentIDs
      /\ Range(s) = {s[1]} \union Range(Tail(s))
      /\ s[1][1] \in Reads => Tail(s) # <<>> /\ Tail(s)[1] = <<"truncate", s[1][2]>>
      /\ s[1][1] = "truncate" => Tail(s) # <<>> /\ Tail(s)[1] = <<"write", s[1][2]>>
      /\ Tail(s) # <<>> =>
           /\ Tail(s)[1][1] = "truncate" => s[1][1] \in Reads
           /\ Tail(s)[1][1] = "write" => s[1][1] = "truncate"
           /\ Tail(s)[1][1] = "spawnOrFail" => s[1][1] = "write"
      /\ \A a : <<"spawnOrFail", a>> \in Range(Tail(s)) =>
           s[1][1] \in {"checkDir", "readToAdd", "truncate", "write"} /\ s[1][2] = a
  BY <1>2, <1>5, FirstStep
<1>7. Write(t) => file'.entries = content[t] /\ ~file'.torn
  <2>1. file.entries \in Seq(Entries) /\ content[t] \in Seq(Entries)
    BY <1>1 DEF ControlTypes
  <2>2. Write(t) => file.entries = <<>>
    BY DEF Write, SerialControl
  <2> QED
    BY <2>1, <2>2, OverwrittenProperties DEF Write
<1>8. ~file'.torn
  BY <1>2, <1>7 DEF Truncate, SerialControl
<1>9. \A u, v \in Handling : steps'[u] # <<>> /\ steps'[v] # <<>> => u = v
  BY <1>4
<1>10. ASSUME r = Tail(Tail(s)), Len(s) > 1, s[2][1] = "delete", r # <<>>
       PROVE  r[1][1] \notin {"truncate", "write", "spawnOrFail"}
  <2> QED
    BY <1>2, <1>5, <1>10, AfterDeletion
<1>11. ASSUME r # <<>>, r[1][1] \in {"truncate", "write", "spawnOrFail"}
       PROVE  /\ r = Tail(s)
              /\ r[1][1] = "truncate" => ReadConfig(t)
              /\ r[1][1] = "write" => Truncate(t)
              /\ r[1][1] = "spawnOrFail" => Write(t)
  <2>1. r = Tail(s)
    BY <1>1, <1>10, <1>11, StepsTaken
  <2>2. /\ r[1][1] = "truncate" => s[1][1] \in Reads
        /\ r[1][1] = "write" => s[1][1] = "truncate"
        /\ r[1][1] = "spawnOrFail" => s[1][1] = "write"
    BY <1>6, <1>11, <2>1
  <2>3. /\ s[1][1] \in Reads => ReadConfig(t)
        /\ s[1][1] = "truncate" => Truncate(t)
        /\ s[1][1] = "write" => Write(t)
    BY DEF HandlerStep, FailEarly, DirExists, Stop, Delete, Restart, SupervisorSpawn,
           ReadConfig, Truncate, Write, Doing, Reads
  <2> QED
    BY <2>1, <2>2, <2>3
<1>12. ASSUME Doing(t, "write")'
       PROVE  file'.entries = <<>>
  <2>1. Truncate(t)
    BY <1>11, <1>12 DEF Doing
  <2> QED
    BY <2>1 DEF Truncate
<1>13. ASSUME NEW a \in AgentIDs, <<"spawnOrFail", a>> \in Left(t)'
       PROVE  /\ Doing(t, "truncate")' \/ Doing(t, "write")' => a \in IDsOf(content'[t])
              /\ Doing(t, "spawnOrFail")' => IsListed(a)'
  <2>1. CASE r # <<>> /\ r[1][1] \in {"truncate", "write", "spawnOrFail"}
    <3>1. r = Tail(s) /\ <<"spawnOrFail", a>> \in Range(Tail(s))
      BY <1>11, <1>13, <2>1 DEF Left
    <3>2. s[1][1] \in {"checkDir", "readToAdd", "truncate", "write"} /\ s[1][2] = a
      BY <1>6, <3>1
    <3>3. s[1][1] \in {"truncate", "write"} => a \in IDsOf(content[t])
      BY <1>2, <1>6, <3>1 DEF SerialControl, Left, Doing
    <3>4. CASE r[1][1] = "truncate"
      <4>1. ReadConfig(t) /\ s[1][1] = "readToAdd" /\ Subject(t) = a
        <5>1. ReadConfig(t)
          BY <1>11, <2>1, <3>4
        <5>2. s[1][1] \in Reads
          BY <5>1 DEF ReadConfig, Doing, Reads
        <5> QED
          BY <3>2, <5>1, <5>2 DEF Reads, Subject
      <4>2. content' = [content EXCEPT ![t] = AddAgent(file.entries, a)]
        BY <1>1, <2>1, <4>1 DEF ReadConfig, Doing, Fail, Leave, Shapes
      <4>3. a \in IDsOf(content'[t])
        BY <1>1, <4>2, ChangedEntries DEF ControlTypes
      <4> QED
        BY <3>4, <4>3 DEF Doing
    <3>5. CASE r[1][1] = "write"
      <4>1. Truncate(t)
        BY <1>11, <3>5, <2>1
      <4> QED
        BY <3>3, <3>5, <4>1 DEF Truncate, Doing
    <3>6. CASE r[1][1] = "spawnOrFail"
      <4>1. Write(t)
        BY <1>11, <3>6, <2>1
      <4> QED
        BY <1>7, <3>3, <3>6, <4>1 DEF Write, Doing, IsListed
    <3> QED
      BY <2>1, <3>4, <3>5, <3>6
  <2>2. CASE ~(r # <<>> /\ r[1][1] \in {"truncate", "write", "spawnOrFail"})
    BY <2>2 DEF Doing
  <2> QED
    BY <2>1, <2>2
<1>14. ASSUME NEW a \in AgentIDs, sup'[a] # "none", ~IsListed(a)', ~pending'
       PROVE  sup[a] # "none" /\ ~IsListed(a)
  <2>1. file' = file
    BY <1>2, <1>14
  <2>2. sup[a] # "none"
    <3> SUFFICES ASSUME sup[a] = "none"
                 PROVE  FALSE
      OBVIOUS
    <3>1. SupervisorSpawn(t) /\ Subject(t) = a
      BY <1>2, <1>14 DEF Stop, Delete, SupervisorSpawn, ControlTypes
    <3>2. s[1] = <<"spawnOrFail", a>>
      BY <1>6, <3>1 DEF SupervisorSpawn, Doing, Subject, HandlerNames, Finals, Reads
    <3>3. IsListed(a)
      BY <1>2, <1>6, <3>2 DEF SerialControl, Left, Doing
    <3> QED
      BY <1>14, <2>1, <3>3 DEF IsListed
  <2> QED
    BY <1>14, <2>1, <2>2 DEF IsListed
<1>15. /\ Left("watcher")' = Left("watcher") /\ (Reloads' <=> Reloads)
       /\ ~pending' => ~pending /\ file' = file
  <2>1. Left("watcher")' = Left("watcher")
    BY <1>3 DEF Left
  <2>2. Reloads' <=> Reloads
    BY <1>3 DEF Reloads, Doing
  <2>3. ~pending' => ~pending /\ file' = file
    BY <1>2
  <2> QED
    BY <2>1, <2>2, <2>3
<1>16. \A u \in Handling : u # t => ~Doing(u, "write")' /\ Left(u)' = {}
  BY <1>4 DEF Doing, Left, Range
<1>17. \A u \in Handling : Doing(u, "write")' => file'.entries = <<>>
  BY <1>12, <1>16
<1>18. \A u \in Handling : \A a \in AgentIDs : <<"spawnOrFail", a>> \in Left(u)' =>
         /\ Doing(u, "truncate")' \/ Doing(u, "write")' => a \in IDsOf(content'[u])
         /\ Doing(u, "spawnOrFail")' => IsListed(a)'
  BY <1>13, <1>16
<1>19. ~pending' => \A a \in AgentIDs : <<"spawn", a>> \in Left("watcher")' => IsListed(a)'
  BY <1>15 DEF SerialControl, IsListed
<1>20. up' => \A a \in AgentIDs :
         sup'[a] # "none" /\ ~IsListed(a)' =>
           pending' \/ Reloads' \/ <<"delete", a>> \in Left("watcher")'
  BY <1>2, <1>14, <1>15 DEF SerialControl
<1> QED
  BY <1>8, <1>9, <1>17, <1>18, <1>19, <1>20 DEF SerialControl

\* A reload spawns listed agents only, unless the watcher was told of a newer file.
LEMMA SerialReload ==
  ASSUME ControlTypes, Shapes, ListedInv, SerialControl, HandlerStep("watcher")
  PROVE  SerialControl'
<1> DEFINE w == "watcher"
<1>1. w \in Threads /\ w \notin Handling
  BY HubAssumption DEF Handling, Threads
<1>2. /\ steps[w] # <<>>
      /\ UNCHANGED up
      /\ \A u \in Threads \ {w} : steps'[u] = steps[u]
  BY <1>1, StepFrame
<1>3. /\ Stop(w) \/ Delete(w) \/ SupervisorSpawn(w)
      /\ ~Reloads /\ ~Reloads'
      /\ Left(w)' \subseteq Left(w)
      /\ \A x \in Left(w) :
           \/ x \in Left(w)' \/ x = steps[w][1]
           \/ x = <<"delete", Subject(w)>> /\ sup[Subject(w)] = "none"
      /\ ReloadShape(steps[w])
  BY ReloadTakes
<1>4. UNCHANGED <<file, pending, content>>
  BY <1>3 DEF Stop, Delete, SupervisorSpawn
<1>5. \A u \in Handling :
        /\ steps'[u] = steps[u] /\ Left(u)' = Left(u) /\ \A x : Doing(u, x)' <=> Doing(u, x)
  BY <1>1, <1>2 DEF Handling, Threads, Left, Doing
<1>6. steps[w][1] \in ReloadNames \X AgentIDs /\ steps[w][1] \in Left(w)
  BY <1>2, <1>3, FirstReload DEF Left
<1>7. ASSUME NEW a \in AgentIDs, up, sup'[a] # "none", ~IsListed(a), ~pending
      PROVE  <<"delete", a>> \in Left(w)'
  <2>1. sup[a] # "none"
    <3> SUFFICES ASSUME sup[a] = "none"
                 PROVE  FALSE
      OBVIOUS
    <3>1. SupervisorSpawn(w) /\ Subject(w) = a
      BY <1>3, <1>7 DEF Stop, Delete, SupervisorSpawn, ControlTypes
    <3>2. steps[w][1] = <<"spawn", a>>
      BY <1>6, <3>1 DEF SupervisorSpawn, Doing, Subject, ReloadNames
    <3> QED
      BY <1>6, <1>7, <3>2 DEF SerialControl
  <2>2. <<"delete", a>> \in Left(w)
    BY <1>3, <1>7, <2>1 DEF SerialControl
  <2>3. steps[w][1] # <<"delete", a>>
    <3> SUFFICES ASSUME steps[w][1] = <<"delete", a>>
                 PROVE  FALSE
      OBVIOUS
    <3>1. Delete(w) /\ Subject(w) = a
      BY <1>3 DEF Stop, SupervisorSpawn, Doing, Subject
    <3> QED
      BY <1>7, <3>1 DEF Delete, ControlTypes
  <2> QED
    BY <1>3, <2>1, <2>2, <2>3
<1>8. \A a : IsListed(a)' <=> IsListed(a)
  BY <1>4 DEF IsListed
<1> QED
  BY <1>2, <1>3, <1>4, <1>5, <1>7, <1>8 DEF SerialControl

\* The watcher takes up a reload, and finds what it has to spawn and to delete.
LEMMA SerialWatcher ==
  ASSUME ControlTypes, Shapes, ListedInv, SerialControl, WatcherStep
  PROVE  SerialControl'
<1> DEFINE w == "watcher"
<1>1. w \in Threads /\ w \notin Handling
  BY HubAssumption DEF Handling, Threads
<1>2. UNCHANGED <<up, file, sup>>
  BY DEF WatcherStep, Tick, Load, Snapshot
<1>3. \A u \in Handling : steps'[u] = steps[u] /\ content'[u] = content[u]
  <2>1. /\ \E q : steps' = [steps EXCEPT ![w] = q]
        /\ content' = content \/ \E q : content' = [content EXCEPT ![w] = q]
    BY DEF WatcherStep, Tick, Load, Snapshot
  <2>2. \A u \in Handling : u \in Threads /\ u # w
    BY <1>1 DEF Handling, Threads
  <2> QED
    BY <2>1, <2>2 DEF Shapes, ControlTypes
<1>4. /\ ~file'.torn
      /\ \A u, v \in Handling : steps'[u] # <<>> /\ steps'[v] # <<>> => u = v
      /\ \A u \in Handling :
           /\ Doing(u, "write")' => file'.entries = <<>>
           /\ \A a \in AgentIDs : <<"spawnOrFail", a>> \in Left(u)' =>
                /\ Doing(u, "truncate")' \/ Doing(u, "write")' => a \in IDsOf(content'[u])
                /\ Doing(u, "spawnOrFail")' => IsListed(a)'
  BY <1>2, <1>3 DEF SerialControl, Doing, Left, IsListed
<1>5. CASE Tick \/ Load
  <2>1. steps'[w] = <<<<"load", "">>>> \/ steps'[w] = <<<<"snapshot", "">>>>
    BY <1>1, <1>5 DEF Tick, Load, Shapes, SerialControl
  <2>2. Reloads' /\ \A x, a : <<x, a>> \in Left(w)' => x \in {"load", "snapshot"}
    BY <2>1, SingleStep DEF Reloads
  <2> QED
    BY <1>4, <2>2 DEF SerialControl
<1>6. CASE Snapshot
  <2>1. steps'[w] = reloadConfig /\ pending' = pending
    BY <1>1, <1>6 DEF Snapshot, Shapes
  <2>2. \A a \in AgentIDs :
          /\ <<"delete", a>> \in Range(reloadConfig)
               <=> sup[a] # "none" /\ a \notin IDsOf(content[w])
          /\ <<"spawn", a>> \in Range(reloadConfig)
               <=> sup[a] = "none" /\ a \in IDsOf(content[w]) \ TomlDisabled
    BY ReloadConfigProperties DEF Range
  <2>3. ~pending => content[w] = file.entries
    BY <1>6 DEF Snapshot, ListedInv
  <2>4. ~pending' => \A a \in AgentIDs : <<"spawn", a>> \in Left(w)' => IsListed(a)'
    BY <1>2, <2>1, <2>2, <2>3 DEF Left, IsListed
  <2>5. \A a \in AgentIDs :
          sup'[a] # "none" /\ ~IsListed(a)' => pending' \/ <<"delete", a>> \in Left(w)'
    BY <1>2, <2>1, <2>2, <2>3 DEF Left, IsListed
  <2> QED
    BY <1>4, <2>4, <2>5 DEF SerialControl
<1> QED
  BY <1>5, <1>6 DEF WatcherStep

\* Every step preserves it, while no requests overlap; a hub that starts has none.
LEMMA SerialNext ==
  ASSUME StepInv, [ControlNext]_controlVars, ~requestsOverlapped'
  PROVE  SerialControl'
<1>1. ControlTypes /\ Shapes /\ ListedInv /\ (~requestsOverlapped => SerialControl)
  BY DEF StepInv, ControlInv
<1>2. CASE runHub
  <2>1. \A t \in Threads : steps'[t] = <<>>
    BY <1>1, <1>2 DEF runHub, ListedInv
  <2>2. ~file'.torn /\ \A a \in AgentIDs : sup'[a] # "none" => IsListed(a)'
    BY <1>2 DEF runHub, IsListed
  <2> QED
    BY <2>1, <2>2, SerialWhenIdle
<1>3. ASSUME ~requestsOverlapped, NEW t \in Threads, HandlerStep(t)
      PROVE  SerialControl'
  BY <1>1, <1>3, SerialHandler, SerialReload DEF Handling, Threads
<1>4. ASSUME ~requestsOverlapped, NEW t \in Threads, NEW a \in Requested, Request(t, a)
      PROVE  SerialControl'
  BY <1>1, <1>4, SerialRequest
<1>5. ASSUME ~requestsOverlapped, NEW a \in AgentIDs, MonitorEnds(a)
      PROVE  SerialControl'
  <2>1. \A x \in AgentIDs : sup'[x] = "none" <=> sup[x] = "none"
    BY <1>1, <1>5 DEF MonitorEnds, ControlTypes
  <2>2. UNCHANGED <<up, file, pending, steps, content>>
    BY <1>5 DEF MonitorEnds
  <2> QED
    BY <1>1, <1>5, <2>1, <2>2 DEF SerialControl, IsListed, Doing, Left, Reloads
<1>6. CASE ~requestsOverlapped /\ HubStops
  <2>1. /\ \A t \in Threads : steps'[t] = <<>>
        /\ ~up' /\ ~file'.torn
    BY <1>1, <1>6 DEF HubStops, SerialControl
  <2> QED
    BY <2>1, SerialWhenIdle
<1>7. CASE ~requestsOverlapped /\ WatcherStep
  BY <1>1, <1>7, SerialWatcher
<1>8. CASE ~requestsOverlapped /\ UNCHANGED controlVars
  BY <1>1, <1>8 DEF controlVars, SerialControl, IsListed, Doing, Left, Reloads
<1>9. runHub \/ ~requestsOverlapped
  <2>1. ASSUME NEW t \in Threads, HandlerStep(t)
        PROVE  requestsOverlapped' = requestsOverlapped
    BY <1>1, <2>1, StepFrame
  <2>2. ASSUME NEW t \in Threads, NEW a \in Requested, Request(t, a), requestsOverlapped
        PROVE  requestsOverlapped'
    BY <2>2 DEF Request
  <2>3. WatcherStep \/ HubStops \/ (\E a \in AgentIDs : MonitorEnds(a)) \/ UNCHANGED controlVars =>
          requestsOverlapped' = requestsOverlapped
    BY DEF WatcherStep, Tick, Load, Snapshot, HubStops, MonitorEnds, controlVars
  <2> QED
    BY <2>1, <2>2, <2>3 DEF ControlNext
<1> QED
  BY <1>2, <1>3, <1>4, <1>5, <1>6, <1>7, <1>8, <1>9 DEF ControlNext

\* As long as requests come one after the other, zlaw.toml parses and, when
\* everything is quiet, the supervised set is exactly its list.
THEOREM InStepCorrect == ControlSpec => []InStepWhenSerial
<1>1. ControlInit => StepInv
  BY ShapesInit, ListedInit, SerialInit DEF StepInv, ControlInv
<1>2. StepInv /\ [ControlNext]_controlVars => StepInv'
  BY TypesNext, ShapesNext, ListedNext, SerialNext DEF StepInv, ControlInv
<1>3. StepInv => InStepWhenSerial
  <2> SUFFICES ASSUME StepInv, ~requestsOverlapped
               PROVE  /\ ~file.torn
                      /\ Quiet => IDsOf(file.entries) \ TomlDisabled = Supervised \ TomlDisabled
    BY DEF InStepWhenSerial
  <2>1. SerialControl /\ ControlInv
    BY DEF StepInv
  <2>2. ASSUME Quiet
        PROVE  IDsOf(file.entries) \ TomlDisabled = Supervised \ TomlDisabled
    <3>1. IDsOf(file.entries) \ TomlDisabled \subseteq Supervised
      BY <2>1, <2>2, ControlInvSupervises DEF FileAgentsSupervised
    <3>2. up /\ ~pending /\ steps["watcher"] = <<>>
      BY <2>2 DEF Quiet, Threads
    <3>3. ~Reloads /\ Left("watcher") = {}
      BY <3>2 DEF Reloads, Doing, Left, Range
    <3>4. Supervised \subseteq IDsOf(file.entries)
      BY <2>1, <3>2, <3>3 DEF SerialControl, Supervised, IsListed
    <3> QED
      BY <3>1, <3>4
  <2> QED
    BY <2>1, <2>2 DEF SerialControl
<1> QED
  BY <1>1, <1>2, <1>3, PTL DEF ControlSpec

=============================================================================
