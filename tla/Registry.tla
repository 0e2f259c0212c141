------------------------------ MODULE Registry ------------------------------
(***************************************************************************)
(* The hub's registry of live agents (src/internal/hub/registry.go).       *)
(*                                                                         *)
(* Four kinds of goroutine share entries under one sync.RWMutex: the NATS  *)
(* subscription to zlaw.registry (handleRegistration), the 30 s ticker     *)
(* (checkHeartbeats), callers of Deregister, and the subscription to       *)
(* zlaw.registry.list (HandleQuery, which takes the read lock twice).  A   *)
(* sync.RWMutex lets no new reader in once a writer has asked for it.      *)
(*                                                                         *)
(* Time is counted in units of a third of heartbeatInterval.  Plain reads  *)
(* (List, Get) take the read lock once, change nothing and are left out.   *)
(***************************************************************************)
EXTENDS Integers

CONSTANTS
  IDs,         \* agent IDs
  Publishers,  \* who publishes to zlaw.registry
  Payload,     \* publisher -> the JSON object it sends, as a record
  Removers,    \* goroutines that call Deregister
  MaxNow,      \* bound: the clock stops here
  NoId         \* the empty agent ID

\* What HubClient publishes on connect and as a heartbeat.
hubRegistration(a) == [name |-> a]

\* What registrationMsg makes of a payload: only an "id" field is looked at.
Decoded(p) == IF "id" \in DOMAIN Payload[p] THEN Payload[p].id ELSE NoId

ASSUME PayloadAssumption ==
  /\ MaxNow \in Nat
  /\ NoId \notin IDs
  /\ \A p \in Publishers : Decoded(p) \in IDs \union {NoId}
  /\ Removers \cap {"sub", "check", "nobody"} = {}

heartbeatInterval == 3
maxMissedHeartbeats == 2
Writers == {"sub", "check"} \union Removers
NoWriter == "nobody"

VARIABLES
  now,       \* the clock
  ticked,    \* the ticker's channel (capacity 1) holds a tick
  status,    \* RegistryEntry.Status, "absent" if the map has no entry
  last,      \* RegistryEntry.LastHeartbeat
  wire,      \* publishers with a message on its way to the hub
  sub,       \* the ID handleRegistration is about to store, NoId between messages
  check,     \* the ticker goroutine: "idle", or "lock" inside checkHeartbeats
  deadline,  \* local of checkHeartbeats
  removing,  \* caller -> the ID it is deregistering, NoId if none
  writer,    \* the writer that owns or has asked for mu, NoWriter if none
  query      \* HandleQuery: "idle", or "outer" between its RLock and List's

entryVars == <<status, last>>
clockVars == <<now, ticked>>
checkVars == <<check, deadline>>
vars == <<clockVars, entryVars, wire, sub, checkVars, removing, writer, query>>

Init ==
  /\ now = 0
  /\ ticked = FALSE
  /\ status = [i \in IDs |-> "absent"]
  /\ last = [i \in IDs |-> 0]
  /\ wire = {}
  /\ sub = NoId
  /\ check = "idle"
  /\ deadline = 0
  /\ removing = [r \in Removers |-> NoId]
  /\ writer = NoWriter
  /\ query = "idle"

----------------------------------------------------------------------------
(* The write lock *)

Wants(w) ==
  \/ w = "sub" /\ sub # NoId
  \/ w = "check" /\ check = "lock"
  \/ w \in Removers /\ removing[w] # NoId

\* Mutant of AskForLock: a lock is taken on a path that has nothing to store.
AskForLockAlways(w) ==
  /\ writer = NoWriter
  /\ writer' = w
  /\ UNCHANGED <<clockVars, entryVars, wire, sub, checkVars, removing, query>>

\* mu.Lock, first half: from here on no reader gets in.
AskForLock(w) ==
  /\ writer = NoWriter
  /\ Wants(w)
  /\ writer' = w
  /\ UNCHANGED <<clockVars, entryVars, wire, sub, checkVars, removing, query>>

\* mu.Lock, second half, and the deferred Unlock after the critical section.
Locked(w) ==
  /\ writer = w
  /\ query = "idle"
  /\ writer' = NoWriter

----------------------------------------------------------------------------
(* Registrations and heartbeats *)

\* An agent publishes its registration, on connect or as a heartbeat.
Publish(p) ==
  /\ wire' = wire \union {p}
  /\ UNCHANGED <<clockVars, entryVars, sub, checkVars, removing, writer, query>>

\* handleRegistration returns early on a payload without an id.
IgnoreMessage(p) ==
  /\ sub = NoId
  /\ p \in wire /\ Decoded(p) = NoId
  /\ wire' = wire \ {p}
  /\ UNCHANGED <<clockVars, entryVars, sub, checkVars, removing, writer, query>>

ReceiveMessage(p) ==
  /\ sub = NoId
  /\ p \in wire /\ Decoded(p) # NoId
  /\ wire' = wire \ {p}
  /\ sub' = Decoded(p)
  /\ UNCHANGED <<clockVars, entryVars, checkVars, removing, writer, query>>

\* Insert or refresh the entry, time-stamped inside the lock.
Upsert ==
  /\ Locked("sub")
  /\ status' = [status EXCEPT ![sub] = "connected"]
  /\ last' = [last EXCEPT ![sub] = now]
  /\ sub' = NoId
  /\ UNCHANGED <<clockVars, wire, checkVars, removing, query>>

----------------------------------------------------------------------------
(* The heartbeat monitor *)

\* Mutant of Deadline: one missed interval is enough.
DeadlineOneMissed(t) == t - heartbeatInterval

Deadline(t) == t - maxMissedHeartbeats * heartbeatInterval

\* A tick is taken; the deadline is computed before the lock is asked for.
BeginCheck ==
  /\ check = "idle"
  /\ ticked
  /\ ticked' = FALSE
  /\ check' = "lock"
  /\ deadline' = Deadline(now)
  /\ UNCHANGED <<now, entryVars, wire, sub, removing, writer, query>>

\* Mutant of Expired: off by one.
ExpiredLate(i) == status[i] = "connected" /\ last[i] < deadline - 1

Expired(i) == status[i] = "connected" /\ last[i] < deadline

Sweep ==
  /\ Locked("check")
  /\ status' = [i \in IDs |-> IF Expired(i) THEN "disconnected" ELSE status[i]]
  /\ check' = "idle"
  /\ deadline' = 0
  /\ UNCHANGED <<clockVars, last, wire, sub, removing, query>>

----------------------------------------------------------------------------
(* Deregister and HandleQuery *)

BeginDeregister(r, i) ==
  /\ removing[r] = NoId
  /\ removing' = [removing EXCEPT ![r] = i]
  /\ UNCHANGED <<clockVars, entryVars, wire, sub, checkVars, writer, query>>

EndDeregister(r) ==
  /\ Locked(r)
  /\ status' = [status EXCEPT ![removing[r]] = "absent"]
  /\ last' = [last EXCEPT ![removing[r]] = 0]
  /\ removing' = [removing EXCEPT ![r] = NoId]
  /\ UNCHANGED <<clockVars, wire, sub, checkVars, query>>

\* HandleQuery takes the read lock ...
QueryLocks ==
  /\ query = "idle"
  /\ writer = NoWriter
  /\ query' = "outer"
  /\ UNCHANGED <<clockVars, entryVars, wire, sub, checkVars, removing, writer>>

\* ... and calls List, which takes it again; then both are released.
QueryLists ==
  /\ query = "outer"
  /\ writer = NoWriter
  /\ query' = "idle"
  /\ UNCHANGED <<clockVars, entryVars, wire, sub, checkVars, removing, writer>>

----------------------------------------------------------------------------
(* Time *)

\* The reader waits for the writer to leave and the writer for the reader.
Stuck == query = "outer" /\ writer # NoWriter

\* A unit of time passes.  A check takes far less than one, unless it cannot
\* get the lock at all.
ClockTicks ==
  /\ now < MaxNow
  /\ (check = "idle" /\ ~ticked) \/ Stuck
  /\ now' = now + 1
  /\ ticked' = (ticked \/ (now + 1) % heartbeatInterval = 0)
  /\ UNCHANGED <<entryVars, wire, sub, checkVars, removing, writer, query>>

Next ==
  \/ \E w \in Writers : AskForLock(w)
  \/ \E p \in Publishers : Publish(p)
  \/ \E p \in Publishers : IgnoreMessage(p)
  \/ \E p \in Publishers : ReceiveMessage(p)
  \/ Upsert
  \/ BeginCheck
  \/ Sweep
  \/ \E r \in Removers, i \in IDs : BeginDeregister(r, i)
  \/ \E r \in Removers : EndDeregister(r)
  \/ QueryLocks
  \/ QueryLists
  \/ ClockTicks

Spec == Init /\ [][Next]_vars

\* The hub's goroutines run when they can; sync.Mutex does not starve a
\* waiter; nobody has to publish, deregister or query.
Fairness ==
  /\ \A w \in Writers : SF_vars(AskForLock(w))
  /\ \A p \in Publishers : SF_vars(IgnoreMessage(p)) /\ SF_vars(ReceiveMessage(p))
  /\ WF_vars(Upsert) /\ WF_vars(Sweep) /\ WF_vars(BeginCheck)
  /\ \A r \in Removers : WF_vars(EndDeregister(r))
  /\ WF_vars(QueryLists)

FairSpec == Spec /\ Fairness

----------------------------------------------------------------------------
(* Properties *)

\* Every variable has its type (registry.go: Registry, RegistryEntry), and the
\* owner of the lock has something to do with it.
TypeOK ==
  /\ now \in 0..MaxNow
  /\ ticked \in BOOLEAN
  /\ status \in [IDs -> {"absent", "connected", "disconnected"}]
  /\ last \in [IDs -> Nat]
  /\ wire \in SUBSET Publishers
  /\ sub \in IDs \union {NoId}
  /\ check \in {"idle", "lock"}
  /\ deadline \in Int
  /\ removing \in [Removers -> IDs \union {NoId}]
  /\ writer \in Writers \union {NoWriter}
  /\ writer # NoWriter => Wants(writer)
  /\ query \in {"idle", "outer"}

Silence(i) == now - last[i]

\* An agent shown as disconnected has been silent for more than
\* maxMissedHeartbeats intervals: checkHeartbeats, with the deadline it
\* computed before it had the lock, never marks an agent whose heartbeat came
\* in while it waited, and a heartbeat clears the mark.
DisconnectJustified ==
  \A i \in IDs :
    status[i] = "disconnected" => Silence(i) > maxMissedHeartbeats * heartbeatInterval

\* An agent shown as connected has been heard from within one more interval
\* (the ticker's period), unless the registry is locked up.
SilenceNoticed ==
  \A i \in IDs :
    status[i] = "connected" =>
      \/ Silence(i) <= (maxMissedHeartbeats + 1) * heartbeatInterval
      \/ Stuck

\* "Agents register on connect ... Hub maintains a live registry of connected
\* agents": whatever an agent publishes, it ends up listed.
AgentsListed ==
  \A p \in Publishers :
    p \in wire ~> (\E i \in IDs : status[i] = "connected") \/ Stuck

\* "HandleQuery responds to a registry list request with the full agent list
\* ... the caller receives a point-in-time snapshot."
QueryAnswered == query = "outer" ~> query = "idle"
=============================================================================
