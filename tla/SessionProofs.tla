---------------------------- MODULE SessionProofs ----------------------------
(***************************************************************************)
(* Proofs about Session, for any command lines, chat sinks, queue capacity *)
(* and numbers of turns, deltas and disturbances.                          *)
(***************************************************************************)
EXTENDS Session, FiniteSetTheorems, TLAPS

Outcomes == {"none", "queued", "dropped", "running", "done", "error"}

\* The types of what runSession works on.
LoopTypes ==
  /\ queue \in Seq(Turns)
  /\ outcome \in [Turns -> Outcomes]
  /\ submitted \in 0..MaxTurns
  /\ running \in Turns \union {0}
  /\ inFlight \in Turns \union {0}
  /\ stage \in {"wait", "run", "send", "gone"}

\* What waits in the queue is queued, and nothing waits there twice.
QueueInv ==
  /\ \A t \in Turns : t > submitted => outcome[t] = "none"
  /\ \A i \in 1..Len(queue) : outcome[queue[i]] = "queued"
  /\ \A i, j \in 1..Len(queue) : queue[i] = queue[j] => i = j

\* The turn that runSession works on: it has ended when its last event is sent.
RunningInv ==
  /\ stage \in {"wait", "gone"} <=> running = 0
  /\ stage = "run" => outcome[running] = "running"
  /\ stage = "send" => outcome[running] = IF event.kind = "delta" THEN "running" ELSE event.kind
  /\ stage = "send" => event.kind \in {"delta", "done", "error"}

\* The turn that was running at shutdown still is, or it has ended for good.
FlightInv ==
  /\ serve = "accept" => inFlight = 0
  /\ inFlight # 0 /\ running # inFlight => Ended(inFlight)

DrainInv == LoopTypes /\ QueueInv /\ RunningInv /\ FlightInv /\ DrainWaits

\* A session that begins has nothing queued, running or in flight.
LEMMA DrainInit == ASSUME SessionInit PROVE DrainInv
<1>1. LoopTypes
  BY SessionAssumption DEF SessionInit, LoopTypes, Turns, Outcomes
<1>2. QueueInv /\ RunningInv
  BY DEF SessionInit, QueueInv, RunningInv
<1>3. FlightInv /\ DrainWaits
  BY DEF SessionInit, FlightInv, DrainWaits
<1> QED
  BY <1>1, <1>2, <1>3 DEF DrainInv

\* A submitted turn is new to the queue.
LEMMA SubmitKeepsDrain ==
  ASSUME DrainInv, Submit,
         UNCHANGED <<event, serve, timedOut, inFlight, running>>
  PROVE  DrainInv'
<1> DEFINE new == submitted + 1
<1>1. new \in Turns /\ submitted' = new /\ outcome[new] = "none"
  BY SessionAssumption DEF Submit, DrainInv, LoopTypes, QueueInv, Turns
<1>2. UNCHANGED <<stage, running>>
  BY DEF Submit
<1>3. /\ outcome' \in [Turns -> Outcomes] /\ outcome'[new] \in {"queued", "dropped"}
      /\ \A t \in Turns \ {new} : outcome'[t] = outcome[t]
  BY <1>1 DEF Submit, DrainInv, LoopTypes, Outcomes
<1>4. \A i \in 1..Len(queue) : queue[i] \in Turns \ {new}
  BY <1>1 DEF DrainInv, LoopTypes, QueueInv
<1>5. queue' \in Seq(Turns) /\ QueueInv'
  <2>1. \A t \in Turns : t > submitted' => outcome'[t] = "none"
    BY <1>1, <1>3 DEF DrainInv, LoopTypes, QueueInv, Turns
  <2>2. CASE queue' = queue
    BY <1>3, <1>4, <2>1, <2>2 DEF DrainInv, LoopTypes, QueueInv
  <2>3. CASE queue' = Append(queue, new) /\ outcome'[new] = "queued"
    <3>1. /\ queue' \in Seq(Turns) /\ Len(queue') = Len(queue) + 1
          /\ queue'[Len(queue) + 1] = new
          /\ \A i \in 1..Len(queue) : queue'[i] = queue[i]
      BY <1>1, <2>3 DEF DrainInv, LoopTypes
    <3> QED
      BY <1>3, <1>4, <2>1, <2>3, <3>1 DEF DrainInv, LoopTypes, QueueInv
  <2> QED
    BY <1>1, <2>2, <2>3 DEF Submit, DrainInv, LoopTypes
<1>6. RunningInv'
  <2>1. stage \in {"run", "send"} => running \in Turns \ {new}
    BY <1>1 DEF DrainInv, LoopTypes, RunningInv
  <2> QED
    BY <1>2, <1>3, <2>1 DEF DrainInv, RunningInv, LoopTypes
<1>7. inFlight # 0 /\ Ended(inFlight) => Ended(inFlight)'
  BY <1>1, <1>3 DEF DrainInv, LoopTypes, Ended
<1>8. FlightInv' /\ DrainWaits'
  BY <1>2, <1>7 DEF DrainInv, FlightInv, DrainWaits
<1>9. LoopTypes'
  BY <1>1, <1>2, <1>3, <1>5, SessionAssumption DEF DrainInv, LoopTypes, Turns
<1> QED
  BY <1>5, <1>6, <1>8, <1>9 DEF DrainInv

\* The next turn is none that has ended.
LEMMA BeginKeepsDrain ==
  ASSUME DrainInv, BeginTurn, serve # "returned"
  PROVE  DrainInv'
<1> DEFINE next == Head(queue)
<1>1. next \in Turns /\ next = queue[1] /\ outcome[next] = "queued" /\ Len(queue) \in Nat \ {0}
  BY DEF BeginTurn, DrainInv, LoopTypes, QueueInv
<1>2. /\ running' = next /\ stage' = "run" /\ outcome' = [outcome EXCEPT ![next] = "running"]
      /\ queue' = Tail(queue) /\ running = 0
      /\ UNCHANGED <<submitted, serve, inFlight, timedOut, event>>
  BY DEF BeginTurn, DrainInv, RunningInv, castVars, serveVars
<1>3. queue' \in Seq(Turns) /\ Len(queue') = Len(queue) - 1
      /\ \A i \in 1..Len(queue') : queue'[i] = queue[i + 1]
  BY <1>1, <1>2 DEF DrainInv, LoopTypes
<1>4. QueueInv'
  <2>1. \A i \in 1..Len(queue') :
          i + 1 \in 1..Len(queue) /\ queue'[i] # next /\ queue'[i] \in Turns
    BY <1>1, <1>3 DEF DrainInv, LoopTypes, QueueInv
  <2> QED
    BY <1>1, <1>2, <1>3, <2>1 DEF DrainInv, LoopTypes, QueueInv
<1>5. LoopTypes' /\ RunningInv'
  BY <1>1, <1>2, <1>3 DEF DrainInv, LoopTypes, RunningInv, Outcomes, Turns
<1>6. inFlight # 0 => inFlight # next /\ Ended(inFlight) /\ Ended(inFlight)'
  BY <1>1, <1>2 DEF DrainInv, LoopTypes, FlightInv, Ended
<1> QED
  BY <1>1, <1>2, <1>4, <1>5, <1>6 DEF DrainInv, FlightInv, DrainWaits

\* The turn of a last event has ended, and goes on having ended.
LEMMA ReturnKeepsDrain ==
  ASSUME DrainInv, TurnReturns, serve # "returned"
  PROVE  DrainInv'
<1>1. PICK kind \in {"done", "error"} :
        outcome' = [outcome EXCEPT ![running] = kind] /\ event'.kind = kind
  <2>1. PICK kind \in {"done", "error"}, text \in BOOLEAN :
          /\ outcome' = [outcome EXCEPT ![running] = kind]
          /\ event' = [kind |-> kind, turn |-> running, text |-> text]
    BY Zenon DEF TurnReturns, StartBroadcast
  <2> QED
    BY <2>1
<1>2. running \in Turns /\ outcome[running] = "running" /\ stage' = "send"
      /\ UNCHANGED <<queue, submitted, running, serve, timedOut, inFlight>>
  BY DEF TurnReturns, StartBroadcast, DrainInv, LoopTypes, RunningInv, serveVars
<1>3. LoopTypes' /\ RunningInv'
  BY <1>1, <1>2 DEF DrainInv, LoopTypes, RunningInv, Outcomes, Turns
<1>4. QueueInv'
  BY <1>1, <1>2, SessionAssumption DEF DrainInv, LoopTypes, QueueInv, Turns
<1>5. inFlight # 0 /\ Ended(inFlight) => Ended(inFlight)'
  BY <1>1, <1>2 DEF DrainInv, LoopTypes, Ended
<1> QED
  BY <1>2, <1>3, <1>4, <1>5 DEF DrainInv, FlightInv, DrainWaits

\* Once the last event is sent the turn is no longer in flight, and has ended.
LEMMA EndKeepsDrain ==
  ASSUME DrainInv, EndBroadcast, serve # "returned"
  PROVE  DrainInv'
<1>1. UNCHANGED <<queue, submitted, outcome, serve, timedOut, inFlight>> /\ stage = "send"
  BY DEF EndBroadcast, serveVars
<1>2. LoopTypes' /\ QueueInv' /\ RunningInv'
  BY <1>1 DEF EndBroadcast, DrainInv, LoopTypes, QueueInv, RunningInv
<1>3. running' # running => running' = 0 /\ (running # 0 => Ended(running))
  BY <1>1 DEF EndBroadcast, DrainInv, RunningInv, Ended
<1> QED
  BY <1>1, <1>2, <1>3 DEF DrainInv, FlightInv, DrainWaits, Ended

\* Every step of the loop, a client, the chat or the shutdown keeps DrainInv.
LEMMA DrainNext ==
  ASSUME DrainInv, [SessionNext]_sessionVars
  PROVE  DrainInv'
<1> USE DEF managerVars, castVars, connVars, chatVars, serveVars
<1>1. ASSUME Turn, serve # "returned"
      PROVE  DrainInv'
  <2>1. CASE LoopEnds
    BY <2>1, <1>1 DEF LoopEnds, DrainInv, LoopTypes, QueueInv, RunningInv, FlightInv, DrainWaits,
                Ended
  <2>2. CASE Delta
    BY <2>2, <1>1 DEF Delta, StartBroadcast, DrainInv, LoopTypes, QueueInv, RunningInv, FlightInv,
                DrainWaits, Ended
  <2> QED
    BY <1>1, <2>1, <2>2, BeginKeepsDrain, ReturnKeepsDrain, EndKeepsDrain DEF Turn
<1>2. ASSUME NEW c \in Conns, UserTurn(c)
      PROVE  DrainInv'
  BY <1>2, SubmitKeepsDrain DEF UserTurn, Submit
<1>3. CASE SubmitMessage
  BY <1>3, SubmitKeepsDrain DEF SubmitMessage, Submit
<1>4. CASE Cancel
  <2>1. inFlight' = running /\ serve' = "notify"
        /\ UNCHANGED <<queue, submitted, outcome, stage, running, event>>
    BY <1>4 DEF Cancel
  <2> QED
    BY <2>1 DEF DrainInv, LoopTypes, QueueInv, RunningInv, FlightInv, DrainWaits, Ended
<1>5. CASE NotifyShutdown
  BY <1>5 DEF NotifyShutdown, DrainInv, LoopTypes, QueueInv, RunningInv, FlightInv, DrainWaits,
              Ended
<1>6. CASE ServeReturns
  <2>1. /\ ~timedOut' => running = 0
        /\ serve' = "returned"
        /\ UNCHANGED <<queue, submitted, outcome, stage, running, event, inFlight>>
    BY <1>6 DEF ServeReturns
  <2> QED
    BY <1>6, <2>1 DEF ServeReturns, DrainInv, LoopTypes, QueueInv, RunningInv, FlightInv,
                DrainWaits, Ended
<1>7. CASE UNCHANGED <<managerVars, event, serveVars>>
  BY <1>7 DEF DrainInv, LoopTypes, QueueInv, RunningInv, FlightInv, DrainWaits, Ended
<1>8. ASSUME NEW c \in Conns, Connection(c), ~UserTurn(c)
      PROVE  UNCHANGED <<managerVars, event, serveVars>>
  BY <1>8 DEF Connection, Attach, Shut, Detach, Stall, SendConn
<1>9. ASSUME Chat, ~SubmitMessage
      PROVE  UNCHANGED <<managerVars, event, serveVars>>
  BY <1>9 DEF Chat, Register, ClearCommand, SendChat
<1> QED
  BY <1>1, <1>2, <1>3, <1>4, <1>5, <1>6, <1>7, <1>8, <1>9 DEF SessionNext, sessionVars

\* Daemon.Serve drains (adapters/daemon/daemon.go, Manager.Drain): unless its
\* timeout passes first, the turn that was running when the context was cancelled
\* has ended, and its sinks were told so, for any number of sinks and turns.
THEOREM DrainCorrect == SessionSpec => []DrainWaits
<1>1. DrainInv => DrainWaits
  BY DEF DrainInv
<1> QED
  BY <1>1, DrainInit, DrainNext, PTL DEF SessionSpec

----------------------------------------------------------------------------
(* Clients *)

\* The types of the broadcast and its sinks; what chat sinks the adapter has not
\* made yet the broadcaster does not have.
CastTypes ==
  /\ event \in Events /\ (stage = "send" => event.turn = running)
  /\ sinks \subseteq Conns \union 1..made /\ snapshot \subseteq Conns \union 1..made
  /\ failed \subseteq Conns \union 1..made
  /\ made \in 0..Cardinality(ChatSinks)
  /\ conn \in [Conns -> {"new", "open", "shut", "gone"}]
  /\ received \in [Conns -> Seq(Events)]
  /\ since \in [Conns -> SUBSET Turns]

\* Turns are begun in the order of their numbers.
OrderInv ==
  /\ \A i, j \in 1..Len(queue) : i < j => queue[i] < queue[j]
  /\ \A t \in Begun : \A i \in 1..Len(queue) : t < queue[i]
  /\ running # 0 => running \in Begun /\ \A t \in Begun : t <= running

\* The events that a client got are in the order of their turns.
InOrder(c) ==
  \A i, j \in 1..Len(received[c]) :
    LET earlier == received[c][i]  later == received[c][j]
    IN  i < j /\ earlier.kind # "shutdown" /\ later.kind # "shutdown" =>
          \/ earlier.turn < later.turn
          \/ earlier.turn = later.turn /\ earlier.kind = "delta"

\* Those of the running turn are deltas, unless the client has got its end.
ReceivedInv(c) ==
  \A i \in 1..Len(received[c]) :
    LET e == received[c][i] IN
    e.kind # "shutdown" =>
      /\ e.turn \in Begun
      /\ e.turn = running =>
           e.kind = "delta" \/ (stage = "send" /\ event.kind # "delta" /\ c \notin snapshot)

\* A client that is attached is among the sinks and has seen the end of every
\* turn that began after it came, or is about to.
SawEnd(c, t) ==
  \E i \in 1..Len(received[c]) : received[c][i].turn = t /\ received[c][i].kind # "delta"
AttachedInv(c) ==
  /\ conn[c] = "new" => c \notin sinks /\ c \notin snapshot /\ c \notin failed
  /\ conn[c] = "open" =>
       /\ c \in sinks /\ c \notin failed
       /\ \A t \in Turns \ since[c] : Ended(t) =>
            SawEnd(c, t) \/ (t = running /\ c \in snapshot)

ClientInv(c) == InOrder(c) /\ ReceivedInv(c) /\ AttachedInv(c)
ClientsInv == CastTypes /\ OrderInv /\ \A c \in Conns : ClientInv(c)

\* A session that begins has no client and no event.
LEMMA ClientsInit == ASSUME SessionInit PROVE ClientsInv
<1>1. CastTypes
  BY SessionAssumption, FS_CardinalityType
  DEF SessionInit, CastTypes, Events, NoEvent
<1>2. OrderInv
  BY DEF SessionInit, OrderInv, Begun
<1>3. ASSUME NEW c \in Conns PROVE ClientInv(c)
  BY <1>3 DEF SessionInit, ClientInv, InOrder, ReceivedInv, AttachedInv
<1> QED
  BY <1>1, <1>2, <1>3 DEF ClientsInv

\* What a client got stays in place when it gets one more event.
LEMMA Got ==
  ASSUME NEW s \in Seq(Events), NEW e \in Events
  PROVE  /\ Append(s, e) \in Seq(Events) /\ Len(Append(s, e)) = Len(s) + 1
         /\ Len(s) \in Nat /\ Append(s, e)[Len(s) + 1] = e
         /\ \A i \in 1..Len(s) : Append(s, e)[i] = s[i]
  OBVIOUS

\* A submitted turn is behind all others.
LEMMA SubmitKeepsClients ==
  ASSUME DrainInv, ClientsInv, Submit,
         UNCHANGED <<castVars, connVars, made>>
  PROVE  ClientsInv'
<1> USE DEF castVars, connVars
<1> DEFINE new == submitted + 1
<1>1. new \in Turns /\ outcome[new] = "none"
  BY SessionAssumption DEF Submit, DrainInv, LoopTypes, QueueInv, Turns
<1>2. /\ outcome' \in [Turns -> Outcomes] /\ outcome'[new] \in {"queued", "dropped"}
      /\ \A t \in Turns \ {new} : outcome'[t] = outcome[t]
  BY <1>1 DEF Submit, DrainInv, LoopTypes, Outcomes
<1>3. Begun' = Begun /\ \A t \in Turns : Ended(t)' = Ended(t)
  BY <1>1, <1>2 DEF Begun, Ended
<1>4. OrderInv'
  <2>1. /\ \A t \in Begun : t < new
        /\ \A i \in 1..Len(queue) : queue[i] < new
    <3>1. \A t \in Turns : outcome[t] # "none" => t \in Nat /\ t <= submitted
      BY <1>1 DEF DrainInv, LoopTypes, QueueInv, Turns
    <3>2. \A i \in 1..Len(queue) : queue[i] \in Turns /\ outcome[queue[i]] = "queued"
      BY DEF DrainInv, LoopTypes, QueueInv
    <3>3. submitted \in Nat
      BY DEF DrainInv, LoopTypes
    <3> QED
      BY <3>1, <3>2, <3>3 DEF Begun
  <2>2. \/ queue' = queue
        \/ /\ Len(queue') = Len(queue) + 1 /\ Len(queue) \in Nat
           /\ queue'[Len(queue) + 1] = new
           /\ \A i \in 1..Len(queue) : queue'[i] = queue[i]
    BY <1>1 DEF Submit, DrainInv, LoopTypes
  <2>3. running' = running
    BY DEF Submit
  <2> QED
    BY <1>3, <2>1, <2>2, <2>3 DEF OrderInv, ClientsInv
<1>5. CastTypes'
  BY DEF ClientsInv, CastTypes, Submit
<1>6. ASSUME NEW c \in Conns PROVE ClientInv(c)'
  <2>1. ClientInv(c) /\ UNCHANGED <<stage, running>>
    BY <1>6 DEF ClientsInv, Submit
  <2> QED
    BY <1>3, <2>1 DEF ClientInv, InOrder, ReceivedInv, AttachedInv, SawEnd
<1> QED
  BY <1>4, <1>5, <1>6 DEF ClientsInv

\* A turn that begins comes after all that anybody has heard of.
LEMMA BeginKeepsClients ==
  ASSUME DrainInv, ClientsInv, BeginTurn
  PROVE  ClientsInv'
<1> USE DEF castVars, connVars
<1> DEFINE next == Head(queue)
<1>1. next \in Turns /\ next = queue[1] /\ outcome[next] = "queued" /\ Len(queue) \in Nat \ {0}
  BY DEF BeginTurn, DrainInv, LoopTypes, QueueInv
<1>2. /\ running' = next /\ stage = "wait" /\ stage' = "run" /\ running = 0
      /\ outcome' = [outcome EXCEPT ![next] = "running"] /\ queue' = Tail(queue)
      /\ UNCHANGED <<castVars, connVars, made>>
  BY DEF BeginTurn, DrainInv, RunningInv, chatVars
<1>3. Len(queue') = Len(queue) - 1 /\ \A i \in 1..Len(queue') : queue'[i] = queue[i + 1]
  BY <1>1, <1>2 DEF DrainInv, LoopTypes
<1>4. Begun' = Begun \union {next} /\ \A t \in Turns : Ended(t)' = Ended(t)
  BY <1>1, <1>2 DEF Begun, Ended, DrainInv, LoopTypes
<1>5. \A t \in Begun : t \in Turns /\ t < next
  BY <1>1 DEF ClientsInv, OrderInv, Begun
<1>6. OrderInv'
  <2>1. \A i \in 1..Len(queue') : i + 1 \in 1..Len(queue) /\ next < queue'[i]
    BY <1>1, <1>3 DEF ClientsInv, OrderInv
  <2> QED
    BY <1>1, <1>2, <1>3, <1>4, <1>5, <2>1 DEF ClientsInv, OrderInv, Turns
<1>7. CastTypes'
  BY <1>2 DEF ClientsInv, CastTypes
<1>8. ASSUME NEW c \in Conns PROVE ClientInv(c)'
  <2>1. ClientInv(c)
    BY <1>8 DEF ClientsInv
  <2>2. InOrder(c)'
    BY <1>2, <2>1 DEF ClientInv, InOrder
  <2>3. ReceivedInv(c)'
    BY <1>1, <1>2, <1>4, <1>5, <2>1 DEF ClientInv, ReceivedInv, Turns
  <2>4. AttachedInv(c)'
    BY <1>2, <1>4, <2>1 DEF ClientInv, AttachedInv, SawEnd, Turns
  <2> QED
    BY <2>2, <2>3, <2>4 DEF ClientInv
<1> QED
  BY <1>6, <1>7, <1>8 DEF ClientsInv

\* A broadcast goes to every client that is attached when it starts.
LEMMA CastKeepsClients ==
  ASSUME DrainInv, ClientsInv, Delta \/ TurnReturns
  PROVE  ClientsInv'
<1> USE DEF castVars, connVars
<1>1. /\ stage = "run" /\ stage' = "send" /\ snapshot' = sinks /\ failed' = {}
      /\ UNCHANGED <<queue, running, sinks, connVars, made>>
  BY DEF Delta, TurnReturns, StartBroadcast, chatVars
<1>2. running \in Turns /\ outcome[running] = "running"
  BY <1>1 DEF DrainInv, LoopTypes, RunningInv
<1>3. /\ event'.turn = running /\ event' \in Events
      /\ \/ event'.kind = "delta" /\ outcome' = outcome
         \/ /\ event'.kind \in {"done", "error"}
            /\ outcome' = [outcome EXCEPT ![running] = event'.kind]
  <2>0. running \in 0..MaxTurns
    BY <1>2, SessionAssumption DEF Turns
  <2>1. CASE Delta
    <3>1. event' = [kind |-> "delta", turn |-> running, text |-> TRUE] /\ outcome' = outcome
      BY <2>1 DEF Delta, StartBroadcast
    <3> QED
      BY <2>0, <3>1 DEF Events
  <2>2. CASE TurnReturns
    <3>1. PICK kind \in {"done", "error"}, text \in BOOLEAN :
            /\ outcome' = [outcome EXCEPT ![running] = kind]
            /\ event' = [kind |-> kind, turn |-> running, text |-> text]
      BY <2>2, Zenon DEF TurnReturns, StartBroadcast
    <3>2. event'.kind = kind /\ event'.turn = running /\ event' \in Events
      BY <2>0, <3>1 DEF Events
    <3> QED
      BY <3>1, <3>2
  <2> QED
    BY <2>1, <2>2
<1>4. Begun' = Begun /\ \A t \in Turns \ {running} : Ended(t)' = Ended(t)
  BY <1>2, <1>3 DEF Begun, Ended, DrainInv, LoopTypes
<1>5. event'.kind = "delta" => Ended(running)' = Ended(running) /\ ~Ended(running)
  BY <1>1, <1>2, <1>3 DEF Ended
<1>6. CastTypes'
  BY <1>1, <1>3 DEF ClientsInv, CastTypes
<1>7. OrderInv'
  BY <1>1, <1>4 DEF ClientsInv, OrderInv
<1>8. ASSUME NEW c \in Conns PROVE ClientInv(c)'
  <2>1. ClientInv(c)
    BY <1>8 DEF ClientsInv
  <2>2. InOrder(c)'
    BY <1>1, <2>1 DEF ClientInv, InOrder
  <2>3. ReceivedInv(c)'
    BY <1>1, <1>4, <2>1 DEF ClientInv, ReceivedInv
  <2>4. AttachedInv(c)'
    BY <1>1, <1>2, <1>4, <1>5, <2>1 DEF ClientInv, AttachedInv, SawEnd
  <2> QED
    BY <2>2, <2>3, <2>4 DEF ClientInv
<1> QED
  BY <1>6, <1>7, <1>8 DEF ClientsInv

\* Nobody waits for the event any more when a broadcast ends.
LEMMA EndKeepsClients ==
  ASSUME DrainInv, ClientsInv, EndBroadcast
  PROVE  ClientsInv'
<1> USE DEF castVars, connVars
<1>1. /\ stage = "send" /\ snapshot = {} /\ snapshot' = {} /\ failed' = {} /\ event' = NoEvent
      /\ sinks' = sinks \ failed
      /\ UNCHANGED <<queue, outcome, received, since, made>>
      /\ \/ event.kind = "delta" /\ stage' = "run" /\ running' = running
         \/ stage' = "wait" /\ running' = 0
  BY DEF EndBroadcast, chatVars
<1>2. /\ conn' \in [Conns -> {"new", "open", "shut", "gone"}]
      /\ \A c \in Conns : \/ conn'[c] = conn[c] /\ (conn[c] = "open" => c \notin failed)
                          \/ conn'[c] = "shut"
  BY DEF EndBroadcast, ClientsInv, CastTypes
<1>3. Begun' = Begun /\ \A t \in Turns : Ended(t)' = Ended(t)
  BY <1>1 DEF Begun, Ended
<1>4. CastTypes'
  <2>1. NoEvent \in Events
    BY SessionAssumption DEF NoEvent, Events
  <2> QED
    BY <1>1, <1>2, <2>1 DEF ClientsInv, CastTypes
<1>5. OrderInv'
  BY <1>1, <1>3 DEF ClientsInv, OrderInv
<1>6. ASSUME NEW c \in Conns PROVE ClientInv(c)'
  <2>1. ClientInv(c)
    BY <1>6 DEF ClientsInv
  <2>2. InOrder(c)'
    BY <1>1, <2>1 DEF ClientInv, InOrder
  <2>3. ReceivedInv(c)'
    BY <1>1, <1>3, <2>1 DEF ClientInv, ReceivedInv, Begun, Turns
  <2>4. AttachedInv(c)'
    BY <1>1, <1>2, <1>3, <1>6, <2>1 DEF ClientInv, AttachedInv, SawEnd
  <2> QED
    BY <2>2, <2>3, <2>4 DEF ClientInv
<1> QED
  BY <1>4, <1>5, <1>6 DEF ClientsInv

\* connSink.Send: what a client gets is its last event yet, and no turn's that
\* has ended.
LEMMA SendKeepsClients ==
  ASSUME DrainInv, ClientsInv, NEW c \in Conns, SendConn(c)
  PROVE  ClientsInv'
<1> USE DEF castVars, connVars, managerVars
<1>1. /\ stage = "send" /\ c \in snapshot /\ snapshot' = snapshot \ {c}
      /\ UNCHANGED <<queue, outcome, stage, running, event, sinks, conn, since, made>>
      /\ failed' = IF conn[c] = "open" THEN failed ELSE failed \union {c}
      /\ received' = IF conn[c] = "open"
                     THEN [received EXCEPT ![c] = Append(@, event)] ELSE received
  BY DEF SendConn, Sent, chatVars
<1>2. /\ event \in Events /\ event.turn = running /\ running \in Turns
      /\ event.kind \in {"delta", "done", "error"}
      /\ Ended(running) => event.kind # "delta"
  BY <1>1 DEF DrainInv, LoopTypes, RunningInv, ClientsInv, CastTypes, Ended
<1>3. Begun' = Begun /\ \A t \in Turns : Ended(t)' = Ended(t)
  BY <1>1 DEF Begun, Ended
<1>4. /\ received' \in [Conns -> Seq(Events)]
      /\ \A d \in Conns \ {c} : received'[d] = received[d]
      /\ received'[c] = IF conn[c] = "open" THEN Append(received[c], event) ELSE received[c]
  BY <1>1, <1>2 DEF ClientsInv, CastTypes
<1>5. CastTypes' /\ OrderInv'
  BY <1>1, <1>3, <1>4 DEF ClientsInv, CastTypes, OrderInv
<1>6. ASSUME NEW d \in Conns, d # c \/ conn[d] # "open" PROVE ClientInv(d)'
  <2>1. ClientInv(d) /\ received'[d] = received[d]
    BY <1>4, <1>6 DEF ClientsInv
  <2>2. InOrder(d)'
    BY <2>1 DEF ClientInv, InOrder
  <2>3. ReceivedInv(d)'
    <3>1. /\ d \notin snapshot => d \notin snapshot'
          /\ UNCHANGED <<running, stage, event>>
      BY <1>1
    <3> QED
      BY <1>3, <2>1, <3>1 DEF ClientInv, ReceivedInv
  <2>4. AttachedInv(d)'
    BY <1>1, <1>3, <1>6, <2>1 DEF ClientInv, AttachedInv, SawEnd
  <2> QED
    BY <2>2, <2>3, <2>4 DEF ClientInv
<1>7. ASSUME conn[c] = "open" PROVE ClientInv(c)'
  <2> DEFINE n == Len(received[c])
  <2>1. ClientInv(c) /\ received[c] \in Seq(Events) /\ received'[c] = Append(received[c], event)
    BY <1>4, <1>7 DEF ClientsInv, CastTypes
  <2>2. /\ n \in Nat /\ Len(received'[c]) = n + 1 /\ received'[c][n + 1] = event
        /\ \A i \in 1..n : received'[c][i] = received[c][i]
    BY <1>2, <2>1, Got
  <2>3. \A i \in 1..n : received[c][i].kind # "shutdown" =>
          /\ received[c][i].turn \in Turns
          /\ \/ received[c][i].turn < running
             \/ received[c][i].turn = running /\ received[c][i].kind = "delta"
    BY <1>1, <1>2, <2>1 DEF ClientInv, ReceivedInv, ClientsInv, OrderInv, Begun, Turns
  <2> HIDE DEF n
  <2>4. InOrder(c)'
    BY <1>2, <2>1, <2>2, <2>3 DEF ClientInv, InOrder, n
  <2>5. ReceivedInv(c)'
    <3>1. running \in Begun
      BY <1>2 DEF ClientsInv, OrderInv, Turns
    <3>2. \A i \in 1..(n + 1) : i \in 1..n \/ i = n + 1
      BY <2>2
    <3> QED
      BY <1>1, <1>2, <1>3, <2>1, <2>2, <2>3, <3>1, <3>2 DEF ClientInv, ReceivedInv, n
  <2>6. AttachedInv(c)'
    <3>1. \A t \in Turns : SawEnd(c, t) => SawEnd(c, t)'
      BY <2>2 DEF SawEnd, n
    <3>2. event.kind # "delta" => SawEnd(c, running)'
      BY <1>1, <1>2, <2>2 DEF SawEnd
    <3> QED
      BY <1>1, <1>2, <1>3, <1>7, <2>1, <3>1, <3>2 DEF ClientInv, AttachedInv
  <2> QED
    BY <2>4, <2>5, <2>6 DEF ClientInv
<1> QED
  BY <1>5, <1>6, <1>7 DEF ClientsInv

\* BroadcastAll(EventShutdown) is about no turn.
LEMMA NotifyKeepsClients ==
  ASSUME DrainInv, ClientsInv, NotifyShutdown
  PROVE  ClientsInv'
<1> USE DEF castVars, connVars, managerVars
<1> DEFINE shutdown == [kind |-> "shutdown", turn |-> 0, text |-> FALSE]
<1>1. /\ UNCHANGED <<queue, outcome, stage, running, event, snapshot, failed, conn, since, made>>
      /\ sinks' = sinks \ {c \in Conns : conn[c] # "open"}
      /\ received' = [c \in Conns |-> IF c \in sinks /\ conn[c] = "open"
                                      THEN Append(received[c], shutdown) ELSE received[c]]
  BY DEF NotifyShutdown, chatVars
<1>2. shutdown \in Events /\ shutdown.kind = "shutdown" /\ shutdown.turn = 0
  BY SessionAssumption DEF Events
<1>3. Begun' = Begun /\ \A t \in Turns : Ended(t)' = Ended(t)
  BY <1>1 DEF Begun, Ended
<1> HIDE DEF shutdown
<1>4. \A c \in Conns :
        /\ received[c] \in Seq(Events) /\ received'[c] \in Seq(Events)
        /\ received'[c] \in {received[c], Append(received[c], shutdown)}
  BY <1>1, <1>2, Got DEF ClientsInv, CastTypes
<1>5. CastTypes' /\ OrderInv'
  <2>1. received' \in [Conns -> Seq(Events)]
    BY <1>1, <1>4
  <2> QED
    BY <1>1, <1>3, <2>1 DEF ClientsInv, CastTypes, OrderInv
<1>6. ASSUME NEW c \in Conns PROVE ClientInv(c)'
  <2> DEFINE n == Len(received[c])
  <2>1. ClientInv(c) /\ received[c] \in Seq(Events)
    BY <1>4, <1>6 DEF ClientsInv
  <2>2. /\ n \in Nat /\ Len(received'[c]) \in {n, n + 1}
        /\ \A i \in 1..n : received'[c][i] = received[c][i]
        /\ \A i \in 1..Len(received'[c]) : i \in 1..n \/ received'[c][i] = shutdown
    BY <1>2, <1>4, <1>6, Got
  <2>3. 1..n \subseteq 1..Len(received'[c])
    BY <2>2
  <2> HIDE DEF n
  <2>4. InOrder(c)' /\ ReceivedInv(c)'
    BY <1>1, <1>2, <1>3, <2>1, <2>2 DEF ClientInv, InOrder, ReceivedInv, n
  <2>5. \A t \in Turns : SawEnd(c, t) => SawEnd(c, t)'
    BY <2>2, <2>3 DEF SawEnd, n
  <2>6. AttachedInv(c)'
    BY <1>1, <1>3, <1>6, <2>1, <2>5 DEF ClientInv, AttachedInv
  <2> QED
    BY <2>4, <2>6 DEF ClientInv
<1> QED
  BY <1>5, <1>6 DEF ClientsInv

\* A client comes, or goes for good.
LEMMA ComingKeepsClients ==
  ASSUME DrainInv, ClientsInv, NEW c \in Conns, Attach(c) \/ Shut(c) \/ Detach(c)
  PROVE  ClientsInv'
<1> USE DEF managerVars
<1>1. /\ UNCHANGED <<queue, outcome, stage, running, event, snapshot, failed, received, made>>
      /\ \A d \in Conns \ {c} : conn'[d] = conn[d] /\ since'[d] = since[d]
      /\ \/ /\ conn[c] = "new" /\ conn'[c] = "open" /\ sinks' = sinks \union {c}
            /\ since'[c] = Begun
         \/ conn'[c] \in {"shut", "gone"} /\ sinks' \in {sinks, sinks \ {c}}
  BY DEF Attach, Shut, Detach, castVars, connVars, chatVars, ClientsInv, CastTypes
<1>2. Begun' = Begun /\ \A t \in Turns : Ended(t)' = Ended(t)
  BY <1>1 DEF Begun, Ended
<1>3. \A t \in Turns : Ended(t) => t \in Begun
  BY DEF Ended, Begun
<1>4. conn' \in [Conns -> {"new", "open", "shut", "gone"}] /\ since' \in [Conns -> SUBSET Turns]
  BY DEF Attach, Shut, Detach, connVars, ClientsInv, CastTypes, Begun
<1>5. CastTypes' /\ OrderInv'
  BY <1>1, <1>2, <1>4 DEF ClientsInv, CastTypes, OrderInv
<1>6. ASSUME NEW d \in Conns PROVE ClientInv(d)'
  <2>1. ClientInv(d)
    BY <1>6 DEF ClientsInv
  <2>2. InOrder(d)' /\ ReceivedInv(d)'
    BY <1>1, <1>2, <2>1 DEF ClientInv, InOrder, ReceivedInv
  <2>3. AttachedInv(d)'
    BY <1>1, <1>2, <1>3, <1>6, <2>1 DEF ClientInv, AttachedInv, SawEnd
  <2> QED
    BY <2>2, <2>3 DEF ClientInv
<1> QED
  BY <1>5, <1>6 DEF ClientsInv

\* The chat's sinks are no client's.
LEMMA ChatKeepsClients ==
  ASSUME DrainInv, ClientsInv, Register \/ \E s \in ChatSinks : SendChat(s)
  PROVE  ClientsInv'
<1>1. /\ UNCHANGED <<queue, outcome, stage, running, event, conn, received, since>>
      /\ snapshot' \subseteq snapshot /\ snapshot \subseteq snapshot' \union ChatSinks
      /\ failed \subseteq failed' /\ failed' \subseteq failed \union (snapshot \cap ChatSinks)
      /\ \/ UNCHANGED <<sinks, made>>
         \/ made < Cardinality(ChatSinks) /\ made' = made + 1 /\ sinks' = sinks \union {made'}
  <2>1. CASE Register
    BY <2>1 DEF Register, managerVars, connVars
  <2>2. ASSUME NEW s \in ChatSinks, SendChat(s)
        PROVE  /\ UNCHANGED <<queue, outcome, stage, running, event, conn, received, since, sinks,
                              made>>
               /\ snapshot' = snapshot \ {s} /\ s \in snapshot
               /\ failed' \in {failed, failed \union {s}}
    BY <2>2 DEF SendChat, handleDelta, handleDone, Sent, managerVars, connVars
  <2> QED
    BY <2>1, <2>2
<1>2. Begun' = Begun /\ \A t \in Turns : Ended(t)' = Ended(t)
  BY <1>1 DEF Begun, Ended
<1>3. CastTypes' /\ OrderInv'
  <2>1. Cardinality(ChatSinks) \in Nat
    BY SessionAssumption, FS_CardinalityType
  <2> QED
    BY <1>1, <1>2, <2>1 DEF ClientsInv, CastTypes, OrderInv
<1>4. ASSUME NEW c \in Conns PROVE ClientInv(c)'
  <2>1. ClientInv(c)
    BY <1>4 DEF ClientsInv
  <2>2. c \notin ChatSinks
    BY <1>4, SessionAssumption
  <2>3. /\ c \in snapshot' <=> c \in snapshot
        /\ c \in failed' <=> c \in failed
    BY <1>1, <2>2
  <2>4. c \in sinks' <=> c \in sinks
    BY <1>1, <2>2, SessionAssumption, FS_CardinalityType DEF ClientsInv, CastTypes
  <2>5. InOrder(c)' /\ ReceivedInv(c)'
    BY <1>1, <1>2, <2>1, <2>3 DEF ClientInv, InOrder, ReceivedInv
  <2>6. AttachedInv(c)'
    BY <1>1, <1>2, <2>1, <2>3, <2>4 DEF ClientInv, AttachedInv, SawEnd
  <2> QED
    BY <2>5, <2>6 DEF ClientInv
<1> QED
  BY <1>3, <1>4 DEF ClientsInv

\* Every step of the loop, a client, the chat or the shutdown keeps ClientsInv.
LEMMA ClientsNext ==
  ASSUME DrainInv, ClientsInv, [SessionNext]_sessionVars
  PROVE  ClientsInv'
<1> USE DEF managerVars, castVars, connVars, chatVars, serveVars
<1>1. ASSUME Turn
      PROVE  ClientsInv'
  <2>1. CASE LoopEnds
    <3>1. /\ stage' = "gone" /\ running = 0
          /\ UNCHANGED <<queue, outcome, running, castVars, connVars, made>>
      BY <2>1 DEF LoopEnds, DrainInv, RunningInv
    <3>2. Begun' = Begun /\ \A t \in Turns : Ended(t)' = Ended(t)
      BY <3>1 DEF Begun, Ended
    <3>3. CastTypes' /\ OrderInv'
      BY <3>1, <3>2 DEF ClientsInv, CastTypes, OrderInv
    <3>4. ASSUME NEW c \in Conns PROVE ClientInv(c)'
      <4>1. ClientInv(c) /\ \A t \in Begun : t # 0
        BY <3>4 DEF ClientsInv, Begun, Turns
      <4> QED
        BY <3>1, <3>2, <4>1 DEF ClientInv, InOrder, ReceivedInv, AttachedInv, SawEnd
    <3> QED
      BY <3>3, <3>4 DEF ClientsInv
  <2> QED
    BY <1>1, <2>1, BeginKeepsClients, CastKeepsClients, EndKeepsClients DEF Turn
<1>2. ASSUME NEW c \in Conns, UserTurn(c)
      PROVE  ClientsInv'
  BY <1>2, SubmitKeepsClients DEF UserTurn
<1>3. CASE SubmitMessage
  BY <1>3, SubmitKeepsClients DEF SubmitMessage
<1>4. CASE UNCHANGED <<managerVars, castVars, conn, received, since, made>>
  <2>1. Begun' = Begun /\ \A t \in Turns : Ended(t)' = Ended(t)
    BY <1>4 DEF Begun, Ended
  <2>2. CastTypes' /\ OrderInv'
    BY <1>4, <2>1 DEF ClientsInv, CastTypes, OrderInv
  <2>3. ASSUME NEW c \in Conns PROVE ClientInv(c)'
    <3>1. ClientInv(c)
      BY <2>3 DEF ClientsInv
    <3> QED
      BY <1>4, <2>1, <3>1 DEF ClientInv, InOrder, ReceivedInv, AttachedInv, SawEnd
  <2> QED
    BY <2>2, <2>3 DEF ClientsInv
<1>5. ASSUME Cancel \/ ServeReturns \/ ClearCommand \/ UNCHANGED sessionVars
      PROVE  UNCHANGED <<managerVars, castVars, conn, received, since, made>>
  BY <1>5 DEF Cancel, ServeReturns, ClearCommand, sessionVars
<1>6. ASSUME NEW c \in Conns, Connection(c)
      PROVE  ClientsInv'
  <2>1. CASE Stall(c)
    BY <1>4, <2>1 DEF Stall
  <2> QED
    BY <1>2, <1>6, <2>1, ComingKeepsClients, SendKeepsClients DEF Connection
<1>7. ASSUME Chat
      PROVE  ClientsInv'
  BY <1>3, <1>4, <1>5, <1>7, ChatKeepsClients DEF Chat
<1> QED
  BY <1>1, <1>4, <1>5, <1>6, <1>7, NotifyKeepsClients DEF SessionNext

\* The broadcaster and the connections' sinks (session/sink.go,
\* adapters/daemon/daemon.go): a client gets whole turns, in the order they were
\* queued, and one that stays attached sees the end of every turn that began
\* after it came, whatever other sinks come, stall, fail and go meanwhile.
THEOREM ClientsCorrect == SessionSpec => []ClientsFollowTurns
<1>1. DrainInv /\ ClientsInv => ClientsFollowTurns
  <2> SUFFICES ASSUME DrainInv, ClientsInv
               PROVE  EventsInTurnOrder /\ AttachedSeeEnds
    BY DEF ClientsFollowTurns
  <2>1. \A c \in Conns : DOMAIN received[c] = 1..Len(received[c])
    BY DEF ClientsInv, CastTypes
  <2>2. DOMAIN received = Conns
    BY DEF ClientsInv, CastTypes
  <2>3. EventsInTurnOrder
    BY <2>1, <2>2 DEF ClientsInv, ClientInv, InOrder, EventsInTurnOrder
  <2>4. stage = "wait" => running \notin Turns
    BY DEF DrainInv, RunningInv, Turns
  <2>5. AttachedSeeEnds
    BY <2>1, <2>2, <2>4 DEF ClientsInv, ClientInv, AttachedInv, SawEnd, AttachedSeeEnds
  <2> QED
    BY <2>3, <2>5
<1> QED
  BY <1>1, DrainInit, DrainNext, ClientsInit, ClientsNext, PTL DEF SessionSpec

----------------------------------------------------------------------------
(* The chat *)

NoTurnFailed == \A t \in Turns : outcome[t] # "error"

\* The types of the chat and its sinks; only connections are removed from the
\* sinks in the middle of a broadcast.
ChatTypes ==
  /\ chat \in Seq(ChatMessages)
  /\ msgID \in [ChatSinks -> 0..Len(chat)]
  /\ buf \in [ChatSinks -> SUBSET Turns]
  /\ chatSink \in 0..made /\ clearCommands \in Nat
  /\ snapshot \cap ChatSinks \subseteq sinks

\* As long as no turn has failed, a chat sink buffers text of the running turn
\* only, and has nothing left of it once it has been sent the turn's end.
BufferInv(s) ==
  /\ buf[s] \subseteq {running}
  /\ buf[s] # {} \/ msgID[s] # 0 => s \in sinks
  /\ running = 0 => buf[s] = {} /\ msgID[s] = 0
  /\ stage = "send" /\ event.kind = "done" /\ s \notin snapshot => buf[s] = {} /\ msgID[s] = 0
  /\ stage = "send" /\ event.kind = "delta" => s \notin failed

\* A message is made of one turn's text.
OneTurn(m) == Cardinality(m.turns) <= 1 /\ (m.final # 0 => m.turns = {m.final})
OfOneTurn == \A i \in 1..Len(chat) : OneTurn(chat[i])

\* As long as /clear was not used either, there is one chat sink; its message in
\* progress is the chat's last, and the running turn's answer comes after all
\* others.
AnswersInv ==
  /\ made = chatSink /\ made <= 1
  /\ \A s \in ChatSinks : msgID[s] # 0 => msgID[s] = Len(chat) /\ chat[Len(chat)].final = 0
  /\ \A i \in 1..Len(chat) : chat[i].final # 0 =>
       /\ chat[i].final \in Begun
       /\ chat[i].final = running => stage = "send" /\ event.kind = "done" /\ 1 \notin snapshot
  /\ \A i, j \in 1..Len(chat) :
       i < j /\ chat[i].final # 0 /\ chat[j].final # 0 => chat[i].final < chat[j].final

ChatInv ==
  /\ ChatTypes
  /\ NoTurnFailed => OfOneTurn /\ \A s \in ChatSinks : BufferInv(s)
  /\ NoTurnFailed /\ clearCommands = 0 => AnswersInv

\* A session that begins has no chat.
LEMMA ChatInit == ASSUME SessionInit PROVE ChatInv
<1>1. ChatTypes
  BY DEF SessionInit, ChatTypes
<1>2. OfOneTurn /\ AnswersInv
  BY DEF SessionInit, OfOneTurn, AnswersInv
<1>3. ASSUME NEW s \in ChatSinks PROVE BufferInv(s)
  BY <1>3 DEF SessionInit, BufferInv
<1> QED
  BY <1>1, <1>2, <1>3 DEF ChatInv

\* What the connections and the shutdown do is nothing to the chat.
LEMMA OthersKeepChat ==
  ASSUME ChatInv,
         UNCHANGED <<outcome, running, stage, event, chatSink, made, msgID, buf, chat,
                     clearCommands>>,
         snapshot' \subseteq snapshot, snapshot \cap ChatSinks \subseteq snapshot',
         sinks \cap ChatSinks \subseteq sinks', failed' \cap ChatSinks \subseteq failed
  PROVE  ChatInv'
<1>1. Begun' = Begun /\ NoTurnFailed' = NoTurnFailed
  BY DEF Begun, NoTurnFailed
<1>2. ChatTypes'
  BY DEF ChatInv, ChatTypes
<1>3. ASSUME NoTurnFailed PROVE OfOneTurn' /\ \A s \in ChatSinks : BufferInv(s)'
  <2>1. ASSUME NEW s \in ChatSinks PROVE BufferInv(s)'
    BY <1>3, <2>1 DEF ChatInv, BufferInv
  <2> QED
    BY <1>3, <2>1 DEF ChatInv, OfOneTurn
<1>4. ASSUME NoTurnFailed, clearCommands = 0 PROVE AnswersInv'
  BY <1>1, <1>4 DEF ChatInv, AnswersInv
<1> QED
  BY <1>1, <1>2, <1>3, <1>4 DEF ChatInv

\* A submitted turn shows nowhere.
LEMMA SubmitKeepsChat ==
  ASSUME DrainInv, ChatInv, Submit,
         UNCHANGED <<castVars, chatSink, made, msgID, buf, chat, clearCommands>>
  PROVE  ChatInv'
<1> USE DEF castVars
<1> DEFINE new == submitted + 1
<1>1. new \in Turns /\ outcome[new] = "none"
  BY SessionAssumption DEF Submit, DrainInv, LoopTypes, QueueInv, Turns
<1>2. /\ outcome' \in [Turns -> Outcomes] /\ outcome'[new] \in {"queued", "dropped"}
      /\ \A t \in Turns \ {new} : outcome'[t] = outcome[t]
  BY <1>1 DEF Submit, DrainInv, LoopTypes, Outcomes
<1>3. Begun' = Begun /\ NoTurnFailed' = NoTurnFailed /\ UNCHANGED <<stage, running>>
  BY <1>1, <1>2 DEF Begun, NoTurnFailed, Submit
<1>4. ChatTypes'
  BY DEF ChatInv, ChatTypes
<1>5. ASSUME NoTurnFailed PROVE OfOneTurn' /\ \A s \in ChatSinks : BufferInv(s)'
  <2>1. ASSUME NEW s \in ChatSinks PROVE BufferInv(s)'
    BY <1>3, <1>5, <2>1 DEF ChatInv, BufferInv
  <2> QED
    BY <1>5, <2>1 DEF ChatInv, OfOneTurn
<1>6. ASSUME NoTurnFailed, clearCommands = 0 PROVE AnswersInv'
  BY <1>3, <1>6 DEF ChatInv, AnswersInv
<1> QED
  BY <1>3, <1>4, <1>5, <1>6 DEF ChatInv

\* A turn that begins finds the buffers empty and the answers of other turns only.
LEMMA BeginKeepsChat ==
  ASSUME DrainInv, ClientsInv, ChatInv, BeginTurn
  PROVE  ChatInv'
<1> USE DEF castVars, chatVars
<1> DEFINE next == Head(queue)
<1>1. next \in Turns /\ next = queue[1] /\ outcome[next] = "queued" /\ Len(queue) \in Nat \ {0}
  BY DEF BeginTurn, DrainInv, LoopTypes, QueueInv
<1>2. /\ running' = next /\ stage' = "run" /\ running = 0
      /\ outcome' = [outcome EXCEPT ![next] = "running"]
      /\ UNCHANGED <<castVars, chatVars>>
  BY DEF BeginTurn, DrainInv, RunningInv
<1>3. Begun' = Begun \union {next} /\ NoTurnFailed' = NoTurnFailed
  BY <1>1, <1>2 DEF Begun, NoTurnFailed, DrainInv, LoopTypes
<1>4. \A t \in Begun : t \in Turns /\ t < next
  BY <1>1 DEF ClientsInv, OrderInv, Begun
<1>5. ChatTypes'
  BY <1>2 DEF ChatInv, ChatTypes
<1>6. ASSUME NoTurnFailed PROVE OfOneTurn' /\ \A s \in ChatSinks : BufferInv(s)'
  <2>1. ASSUME NEW s \in ChatSinks PROVE BufferInv(s)'
    BY <1>1, <1>2, <1>6, <2>1 DEF ChatInv, BufferInv, Turns
  <2> QED
    BY <1>2, <1>6, <2>1 DEF ChatInv, OfOneTurn
<1>7. ASSUME NoTurnFailed, clearCommands = 0 PROVE AnswersInv'
  BY <1>1, <1>2, <1>3, <1>4, <1>7 DEF ChatInv, AnswersInv, Turns
<1> QED
  BY <1>2, <1>3, <1>5, <1>6, <1>7 DEF ChatInv

\* A broadcast finds no answer of the running turn, and takes the end of a turn
\* to every sink with text of it.
LEMMA CastKeepsChat ==
  ASSUME DrainInv, ChatInv, Delta \/ TurnReturns
  PROVE  ChatInv'
<1> USE DEF castVars, chatVars
<1>1. /\ stage = "run" /\ stage' = "send" /\ snapshot' = sinks /\ failed' = {}
      /\ UNCHANGED <<running, sinks, chatVars>>
  BY DEF Delta, TurnReturns, StartBroadcast
<1>2. running \in Turns /\ outcome[running] = "running"
  BY <1>1 DEF DrainInv, LoopTypes, RunningInv
<1>3. \/ event'.kind = "delta" /\ outcome' = outcome
      \/ /\ event'.kind \in {"done", "error"}
         /\ outcome' = [outcome EXCEPT ![running] = event'.kind]
  <2>1. CASE Delta
    BY <2>1 DEF Delta, StartBroadcast
  <2>2. CASE TurnReturns
    <3>1. PICK kind \in {"done", "error"}, text \in BOOLEAN :
            /\ outcome' = [outcome EXCEPT ![running] = kind]
            /\ event' = [kind |-> kind, turn |-> running, text |-> text]
      BY <2>2, Zenon DEF TurnReturns, StartBroadcast
    <3> QED
      BY <3>1
  <2> QED
    BY <2>1, <2>2
<1>4. Begun' = Begun /\ (NoTurnFailed' => NoTurnFailed)
  BY <1>2, <1>3 DEF Begun, NoTurnFailed, DrainInv, LoopTypes
<1>5. ChatTypes'
  BY <1>1 DEF ChatInv, ChatTypes
<1>6. ASSUME NoTurnFailed PROVE OfOneTurn' /\ \A s \in ChatSinks : BufferInv(s)'
  <2>1. ASSUME NEW s \in ChatSinks PROVE BufferInv(s)'
    BY <1>1, <1>2, <1>6, <2>1 DEF ChatInv, BufferInv
  <2> QED
    BY <1>1, <1>6, <2>1 DEF ChatInv, OfOneTurn
<1>7. ASSUME NoTurnFailed, clearCommands = 0 PROVE AnswersInv'
  BY <1>1, <1>4, <1>7 DEF ChatInv, AnswersInv
<1> QED
  BY <1>1, <1>4, <1>5, <1>6, <1>7 DEF ChatInv

\* The sinks that a broadcast removes have no text.
LEMMA EndKeepsChat ==
  ASSUME DrainInv, ChatInv, EndBroadcast
  PROVE  ChatInv'
<1> USE DEF chatVars
<1>1. /\ stage = "send" /\ snapshot = {} /\ snapshot' = {} /\ sinks' = sinks \ failed
      /\ UNCHANGED <<outcome, chatVars>>
      /\ \/ event.kind = "delta" /\ stage' = "run" /\ running' = running
         \/ event.kind # "delta" /\ stage' = "wait" /\ running' = 0
  BY DEF EndBroadcast
<1>2. Begun' = Begun /\ NoTurnFailed' = NoTurnFailed
  BY <1>1 DEF Begun, NoTurnFailed
<1>3. NoTurnFailed => event.kind \in {"delta", "done"}
  BY <1>1 DEF DrainInv, LoopTypes, RunningInv, NoTurnFailed
<1>4. ChatTypes'
  BY <1>1 DEF ChatInv, ChatTypes
<1>5. ASSUME NoTurnFailed PROVE OfOneTurn' /\ \A s \in ChatSinks : BufferInv(s)'
  <2>1. ASSUME NEW s \in ChatSinks PROVE BufferInv(s)'
    BY <1>1, <1>3, <1>5, <2>1 DEF ChatInv, BufferInv
  <2> QED
    BY <1>1, <1>5, <2>1 DEF ChatInv, OfOneTurn
<1>6. ASSUME NoTurnFailed, clearCommands = 0 PROVE AnswersInv'
  BY <1>1, <1>2, <1>6 DEF ChatInv, AnswersInv
<1> QED
  BY <1>1, <1>2, <1>4, <1>5, <1>6 DEF ChatInv

\* The adapter's first sink is its only one unless the chat is cleared.
LEMMA RegisterKeepsChat ==
  ASSUME DrainInv, ClientsInv, ChatInv, Register
  PROVE  ChatInv'
<1>1. /\ UNCHANGED <<outcome, running, stage, event, snapshot, failed, msgID, buf, chat,
                     clearCommands>>
      /\ \/ UNCHANGED <<sinks, made, chatSink>>
         \/ /\ chatSink = 0 /\ made' = made + 1 /\ chatSink' = made + 1
            /\ sinks' = sinks \union {made'}
  BY DEF Register, managerVars
<1>2. Begun' = Begun /\ NoTurnFailed' = NoTurnFailed
  BY <1>1 DEF Begun, NoTurnFailed
<1>3. made \in Nat
  BY FS_CardinalityType, SessionAssumption DEF ClientsInv, CastTypes
<1>4. ChatTypes'
  BY <1>1, <1>3 DEF ChatInv, ChatTypes
<1>5. ASSUME NoTurnFailed PROVE OfOneTurn' /\ \A s \in ChatSinks : BufferInv(s)'
  <2>1. ASSUME NEW s \in ChatSinks PROVE BufferInv(s)'
    BY <1>1, <1>5, <2>1 DEF ChatInv, BufferInv
  <2> QED
    BY <1>1, <1>5, <2>1 DEF ChatInv, OfOneTurn
<1>6. ASSUME NoTurnFailed, clearCommands = 0 PROVE AnswersInv'
  BY <1>1, <1>2, <1>3, <1>6 DEF ChatInv, AnswersInv
<1> QED
  BY <1>1, <1>2, <1>4, <1>5, <1>6 DEF ChatInv

\* The chat after a new message, and after an edited one.
LEMMA Posted ==
  ASSUME NEW s \in Seq(ChatMessages), NEW m \in ChatMessages
  PROVE  /\ Append(s, m) \in Seq(ChatMessages) /\ Len(Append(s, m)) = Len(s) + 1
         /\ Len(s) \in Nat /\ Append(s, m)[Len(s) + 1] = m
         /\ \A i \in 1..Len(s) : Append(s, m)[i] = s[i]
  OBVIOUS

LEMMA Edited ==
  ASSUME NEW s \in Seq(ChatMessages), NEW m \in ChatMessages, NEW k \in 1..Len(s)
  PROVE  /\ [s EXCEPT ![k] = m] \in Seq(ChatMessages) /\ Len([s EXCEPT ![k] = m]) = Len(s)
         /\ Len(s) \in Nat /\ [s EXCEPT ![k] = m][k] = m
         /\ \A i \in 1..Len(s) : i # k => [s EXCEPT ![k] = m][i] = s[i]
  OBVIOUS

\* What the chat becomes: what it is, or that with one message more or edited.
ChatBecomes(k, m) ==
  /\ k \in 1..(Len(chat) + 1) /\ m \in ChatMessages
  /\ chat' \in Seq(ChatMessages)
  /\ Len(chat) \in Nat
  /\ Len(chat') = IF k = Len(chat) + 1 THEN Len(chat) + 1 ELSE Len(chat)
  /\ chat'[k] = m
  /\ \A i \in 1..Len(chat) : i # k => chat'[i] = chat[i]

\* handleDelta
DeltaShown(s, k, m) ==
  /\ m.turns = buf[s] \union {running} /\ m.final = 0
  /\ \/ ChatBecomes(k, m) /\ k = Len(chat) + 1 /\ msgID[s] = 0 /\ msgID' = [msgID EXCEPT ![s] = k]
     \/ ChatBecomes(k, m) /\ k = msgID[s] /\ msgID[s] # 0 /\ msgID' = msgID
     \/ chat' = chat /\ msgID' = msgID
  /\ buf' = [buf EXCEPT ![s] = @ \union {running}]
  /\ failed' = failed

LEMMA DeltaShows ==
  ASSUME ChatInv, NEW s \in ChatSinks, NEW ok \in BOOLEAN, handleDelta(s, ok),
         event.turn = running, running \in Turns
  PROVE  \E k \in Nat, m \in ChatMessages : DeltaShown(s, k, m)
<1>1. /\ chat \in Seq(ChatMessages) /\ Len(chat) \in Nat /\ msgID[s] \in 0..Len(chat)
      /\ buf \in [ChatSinks -> SUBSET Turns] /\ msgID \in [ChatSinks -> 0..Len(chat)]
  BY DEF ChatInv, ChatTypes
<1>2. /\ buf' = [buf EXCEPT ![s] = @ \union {running}] /\ buf'[s] = buf[s] \union {running}
      /\ failed' = failed
  BY <1>1 DEF handleDelta, Sent
<1> DEFINE m == Shows(buf[s] \union {running}, 0)
<1>3. m \in ChatMessages /\ m.turns = buf[s] \union {running} /\ m.final = 0
  BY <1>1, SessionAssumption DEF Shows, ChatMessages
<1>4. CASE msgID[s] = 0
  <2>1. \/ chat' = Append(chat, m) /\ msgID' = [msgID EXCEPT ![s] = Len(chat')]
        \/ chat' = chat /\ msgID' = msgID
    BY <1>2, <1>4 DEF handleDelta, Post
  <2> HIDE DEF m
  <2>2. CASE chat' = Append(chat, m) /\ msgID' = [msgID EXCEPT ![s] = Len(chat')]
    <3>1. ChatBecomes(Len(chat) + 1, m) /\ Len(chat') = Len(chat) + 1
      BY <1>1, <1>3, <2>2, Posted DEF ChatBecomes
    <3>2. msgID' = [msgID EXCEPT ![s] = Len(chat) + 1] /\ Len(chat) + 1 \in Nat
      BY <1>1, <2>2, <3>1
    <3>3. DeltaShown(s, Len(chat) + 1, m)
      BY <1>2, <1>3, <1>4, <3>1, <3>2 DEF DeltaShown
    <3> QED
      BY <1>3, <3>2, <3>3
  <2> QED
    BY <1>1, <1>2, <1>3, <2>1, <2>2 DEF DeltaShown
<1>5. CASE msgID[s] # 0
  <2>1. msgID' = msgID /\ (chat' = chat \/ chat' = [chat EXCEPT ![msgID[s]] = m])
    BY <1>2, <1>5 DEF handleDelta, Edit
  <2> HIDE DEF m
  <2>2. CASE chat' = [chat EXCEPT ![msgID[s]] = m]
    <3>1. msgID[s] \in 1..Len(chat)
      BY <1>1, <1>5
    <3>2. ChatBecomes(msgID[s], m)
      BY <1>1, <1>3, <2>2, <3>1, Edited DEF ChatBecomes
    <3> QED
      BY <1>1, <1>2, <1>3, <1>5, <2>1, <3>2 DEF DeltaShown
  <2> QED
    BY <1>1, <1>2, <1>3, <2>1, <2>2 DEF DeltaShown
<1> QED
  BY <1>4, <1>5

\* handleDone
DoneShown(s, k, m) ==
  /\ m.turns # {} /\ m.turns \subseteq buf[s] \union {running} /\ m.final = running
  /\ \/ ChatBecomes(k, m) /\ (k = Len(chat) + 1 \/ k = msgID[s])
     \/ chat' = chat
  /\ msgID' = [msgID EXCEPT ![s] = 0] /\ buf' = [buf EXCEPT ![s] = {}]

LEMMA DoneShows ==
  ASSUME ChatInv, NEW s \in ChatSinks, NEW ok \in BOOLEAN, handleDone(s, ok),
         event.turn = running, running \in Turns
  PROVE  \E k \in Nat, m \in ChatMessages : DoneShown(s, k, m)
<1>1. /\ chat \in Seq(ChatMessages) /\ Len(chat) \in Nat /\ msgID[s] \in 0..Len(chat)
      /\ buf[s] \subseteq Turns
  BY DEF ChatInv, ChatTypes
<1>2. msgID' = [msgID EXCEPT ![s] = 0] /\ buf' = [buf EXCEPT ![s] = {}]
  BY DEF handleDone
<1> DEFINE text == IF event.text THEN {running} ELSE buf[s]
           m == Shows(text, running)
<1>3. running \in 0..MaxTurns
  BY SessionAssumption DEF Turns
<1>4. m \in ChatMessages /\ m.turns = text /\ m.final = running
  BY <1>1, <1>3 DEF Shows, ChatMessages
<1>5. \/ chat' = chat
      \/ text # {} /\ msgID[s] # 0 /\ chat' = [chat EXCEPT ![msgID[s]] = m]
      \/ text # {} /\ chat' = Append(chat, m)
  BY DEF handleDone, Edit, Post
<1>6. text \subseteq buf[s] \union {running}
  OBVIOUS
<1> HIDE DEF m, text
<1>7. CASE chat' = chat
  <2>1. /\ Shows({running}, running) \in ChatMessages
        /\ Shows({running}, running).turns = {running}
        /\ Shows({running}, running).final = running
    BY <1>3 DEF Shows, ChatMessages
  <2> QED
    BY <1>2, <1>7, <2>1 DEF DoneShown
<1>8. CASE text # {} /\ msgID[s] # 0 /\ chat' = [chat EXCEPT ![msgID[s]] = m]
  <2>1. msgID[s] \in 1..Len(chat)
    BY <1>1, <1>8
  <2>2. ChatBecomes(msgID[s], m)
    BY <1>1, <1>4, <1>8, <2>1, Edited DEF ChatBecomes
  <2> QED
    BY <1>1, <1>2, <1>4, <1>6, <1>8, <2>2 DEF DoneShown
<1>9. CASE text # {} /\ chat' = Append(chat, m)
  <2>1. ChatBecomes(Len(chat) + 1, m)
    BY <1>1, <1>4, <1>9, Posted DEF ChatBecomes
  <2> QED
    BY <1>1, <1>2, <1>4, <1>6, <1>9, <2>1 DEF DoneShown
<1> QED
  BY <1>5, <1>7, <1>8, <1>9

\* chatSink.Send: the running turn's text goes to the message in progress, its
\* answer to a message that no other answer comes after.
LEMMA SendKeepsChat ==
  ASSUME DrainInv, ClientsInv, ChatInv, NEW s \in ChatSinks, SendChat(s)
  PROVE  ChatInv'
<1>1. /\ stage = "send" /\ s \in snapshot /\ snapshot' = snapshot \ {s}
      /\ failed' \in {failed, failed \union {s}}
      /\ UNCHANGED <<outcome, running, stage, event, sinks, made, chatSink, clearCommands>>
  BY DEF SendChat, handleDelta, handleDone, Sent, managerVars
<1>2. /\ event.turn = running /\ running \in Turns
      /\ event.kind \in {"delta", "done", "error"}
      /\ NoTurnFailed => event.kind # "error"
  BY <1>1 DEF DrainInv, LoopTypes, RunningInv, ClientsInv, CastTypes, NoTurnFailed
<1>3. Begun' = Begun /\ NoTurnFailed' = NoTurnFailed /\ running \in Begun
  BY <1>1, <1>2 DEF Begun, NoTurnFailed, ClientsInv, OrderInv, Turns
<1>4. /\ chat \in Seq(ChatMessages) /\ Len(chat) \in Nat
      /\ msgID \in [ChatSinks -> 0..Len(chat)] /\ buf \in [ChatSinks -> SUBSET Turns]
  BY DEF ChatInv, ChatTypes
<1>5. /\ event.kind = "delta" => \E k \in Nat, m \in ChatMessages : DeltaShown(s, k, m)
      /\ event.kind = "done" => \E k \in Nat, m \in ChatMessages : DoneShown(s, k, m)
  <2>1. PICK ok \in BOOLEAN : /\ event.kind = "delta" => handleDelta(s, ok)
                              /\ event.kind = "done" => handleDone(s, ok)
    BY DEF SendChat, TelegramAnswers
  <2> QED
    BY <1>2, <2>1, DeltaShows, DoneShows
<1>6. ASSUME NEW r \in ChatSinks, r # s, NoTurnFailed,
             msgID'[r] = msgID[r], buf'[r] = buf[r]
      PROVE  BufferInv(r)'
  BY <1>1, <1>2, <1>6 DEF ChatInv, BufferInv
<1>7. ASSUME NoTurnFailed, clearCommands = 0, NEW r \in ChatSinks, msgID[r] # 0
      PROVE  r = s /\ s = 1 /\ msgID[r] = Len(chat)
  <2>1. {r, s} \subseteq 1..made /\ made <= 1
    BY <1>1, <1>7, SessionAssumption DEF ChatInv, BufferInv, AnswersInv, ClientsInv, CastTypes
  <2>2. made \in Nat
    BY SessionAssumption, FS_CardinalityType DEF ClientsInv, CastTypes
  <2> QED
    BY <1>7, <2>1, <2>2 DEF ChatInv, AnswersInv
<1>8. ASSUME NoTurnFailed, clearCommands = 0
      PROVE  /\ s = 1
             /\ \A i \in 1..Len(chat) : chat[i].final # 0 =>
                  chat[i].final \in Begun /\ chat[i].final < running
  <2>1. s \in 1..made /\ made <= 1
    BY <1>1, <1>8, SessionAssumption DEF ChatInv, AnswersInv, ClientsInv, CastTypes
  <2>2. made \in Nat
    BY SessionAssumption, FS_CardinalityType DEF ClientsInv, CastTypes
  <2>3. s = 1
    BY <2>1, <2>2
  <2>4. \A t \in Begun : t \in Turns /\ t <= running
    BY <1>2 DEF ClientsInv, OrderInv, Begun, Turns
  <2> QED
    BY <1>1, <1>2, <1>8, <2>3, <2>4 DEF ChatInv, AnswersInv, Turns
<1>9. CASE event.kind = "delta"
  <2>1. PICK k \in Nat, m \in ChatMessages : DeltaShown(s, k, m)
    BY <1>5, <1>9
  <2>2. ChatTypes'
    BY <1>1, <1>2, <1>4, <2>1 DEF ChatInv, ChatTypes, DeltaShown, ChatBecomes
  <2>3. ASSUME NoTurnFailed PROVE OfOneTurn' /\ \A r \in ChatSinks : BufferInv(r)'
    <3>1. buf[s] \subseteq {running} /\ buf'[s] = {running} /\ s \in sinks /\ s \notin failed
      BY <1>1, <1>4, <1>9, <2>1, <2>3 DEF ChatInv, ChatTypes, BufferInv, DeltaShown
    <3>2. BufferInv(s)'
      BY <1>1, <1>2, <1>9, <2>1, <3>1 DEF BufferInv, DeltaShown, Turns
    <3>3. \A r \in ChatSinks \ {s} : BufferInv(r)'
      BY <1>4, <1>6, <2>1, <2>3 DEF DeltaShown
    <3>4. m.final = 0 /\ m.turns = {running} /\ Cardinality(m.turns) = 1
      <4>1. m.final = 0 /\ m.turns = {running}
        BY <2>1, <3>1 DEF DeltaShown
      <4>2. Cardinality({running}) = 1
        BY FS_Singleton
      <4> QED
        BY <4>1, <4>2
    <3>5. OfOneTurn'
      <4>1. OfOneTurn
        BY <2>3 DEF ChatInv
      <4>2. chat' = chat \/ ChatBecomes(k, m)
        BY <2>1 DEF DeltaShown
      <4>3. OneTurn(m)
        BY <3>4 DEF OneTurn
      <4> QED
        BY <1>4, <4>1, <4>2, <4>3 DEF OfOneTurn, ChatBecomes
    <3> QED
      BY <3>2, <3>3, <3>5
  <2>4. ASSUME NoTurnFailed, clearCommands = 0 PROVE AnswersInv'
    <3>1. m.final = 0
      BY <2>1 DEF DeltaShown
    <3>2. \A i \in 1..Len(chat') : chat'[i].final # 0 => i \in 1..Len(chat) /\ chat'[i] = chat[i]
      BY <1>4, <2>1, <3>1 DEF DeltaShown, ChatBecomes
    <3>3. \A r \in ChatSinks :
            msgID'[r] # 0 => msgID'[r] = Len(chat') /\ chat'[Len(chat')].final = 0
      <4>1. \A r \in ChatSinks : r # s => msgID'[r] = 0
        BY <1>4, <1>7, <2>1, <2>4 DEF DeltaShown
      <4>2. msgID[s] # 0 => msgID[s] = Len(chat) /\ chat[Len(chat)].final = 0
        BY <2>4 DEF ChatInv, AnswersInv
      <4> QED
        BY <1>4, <2>1, <3>1, <4>1, <4>2 DEF DeltaShown, ChatBecomes
    <3> QED
      BY <1>1, <1>2, <1>3, <1>8, <2>4, <3>2, <3>3 DEF ChatInv, AnswersInv, Turns
  <2> QED
    BY <1>1, <1>3, <2>2, <2>3, <2>4 DEF ChatInv
<1>10. CASE event.kind = "done"
  <2>1. PICK k \in Nat, m \in ChatMessages : DoneShown(s, k, m)
    BY <1>5, <1>10
  <2>2. ChatTypes'
    BY <1>1, <1>2, <1>4, <2>1 DEF ChatInv, ChatTypes, DoneShown, ChatBecomes
  <2>3. ASSUME NoTurnFailed PROVE OfOneTurn' /\ \A r \in ChatSinks : BufferInv(r)'
    <3>1. buf[s] \subseteq {running} /\ buf'[s] = {} /\ msgID'[s] = 0
      BY <1>4, <2>1, <2>3 DEF ChatInv, BufferInv, DoneShown
    <3>2. BufferInv(s)'
      BY <1>1, <1>10, <3>1 DEF BufferInv
    <3>3. \A r \in ChatSinks \ {s} : BufferInv(r)'
      BY <1>4, <1>6, <2>1, <2>3 DEF DoneShown
    <3>4. m.final = running /\ m.turns = {running} /\ Cardinality(m.turns) = 1
      <4>1. m.final = running /\ m.turns # {} /\ m.turns \subseteq {running}
        BY <2>1, <3>1 DEF DoneShown
      <4>2. m.turns = {running}
        BY <4>1
      <4> QED
        BY <4>1, <4>2, FS_Singleton
    <3>5. OfOneTurn'
      <4>1. OfOneTurn
        BY <2>3 DEF ChatInv
      <4>2. chat' = chat \/ ChatBecomes(k, m)
        BY <2>1 DEF DoneShown
      <4>3. OneTurn(m)
        BY <3>4 DEF OneTurn
      <4> QED
        BY <1>4, <4>1, <4>2, <4>3 DEF OfOneTurn, ChatBecomes
    <3> QED
      BY <3>2, <3>3, <3>5
  <2>4. ASSUME NoTurnFailed, clearCommands = 0 PROVE AnswersInv'
    <3>1. \A r \in ChatSinks : msgID'[r] = 0
      BY <1>4, <1>7, <2>1, <2>4 DEF DoneShown
    <3>2. CASE chat' = chat
      BY <1>1, <1>3, <1>8, <1>10, <2>4, <3>1, <3>2 DEF ChatInv, AnswersInv
    <3>3. CASE ChatBecomes(k, m) /\ (k = Len(chat) + 1 \/ k = msgID[s])
      <4>1. k = Len(chat') /\ k \in Nat
        BY <1>4, <1>7, <2>4, <3>3 DEF ChatBecomes
      <4>2. \A i \in 1..Len(chat') :
              \/ i = k /\ chat'[i].final = running
              \/ i < k /\ i \in 1..Len(chat) /\ chat'[i] = chat[i]
        BY <1>4, <2>1, <3>3, <4>1 DEF ChatBecomes, DoneShown
      <4>3. 1 \notin snapshot'
        BY <1>1, <1>8, <2>4
      <4> QED
        BY <1>1, <1>2, <1>3, <1>8, <1>10, <2>4, <3>1, <4>1, <4>2, <4>3
        DEF ChatInv, AnswersInv, Turns
    <3> QED
      BY <2>1, <3>2, <3>3 DEF DoneShown
  <2> QED
    BY <1>1, <1>3, <2>2, <2>3, <2>4 DEF ChatInv
<1>11. CASE event.kind = "error"
  <2>1. msgID' = msgID /\ buf' = buf /\ chat' \in {chat, Append(chat, Shows({}, running))}
    BY <1>2, <1>11 DEF SendChat, Post
  <2>2. Shows({}, running) \in ChatMessages
    BY <1>2, SessionAssumption DEF Shows, ChatMessages, Turns
  <2>3. ChatTypes'
    <3>1. chat' \in Seq(ChatMessages) /\ Len(chat) <= Len(chat') /\ Len(chat') \in Nat
      BY <1>4, <2>1, <2>2, Posted
    <3>2. msgID' \in [ChatSinks -> 0..Len(chat')]
      BY <1>4, <2>1, <3>1
    <3> QED
      BY <1>1, <2>1, <3>1, <3>2 DEF ChatInv, ChatTypes
  <2> QED
    BY <1>2, <1>3, <1>11, <2>3 DEF ChatInv
<1> QED
  BY <1>2, <1>9, <1>10, <1>11

\* Every step of the loop, a client, the chat or the shutdown keeps ChatInv.
LEMMA ChatNext ==
  ASSUME DrainInv, ClientsInv, ChatInv, [SessionNext]_sessionVars
  PROVE  ChatInv'
<1> USE DEF managerVars, castVars, connVars, chatVars, serveVars
<1>1. \A c \in Conns : c \notin ChatSinks
  BY SessionAssumption
<1>2. ASSUME Turn
      PROVE  ChatInv'
  <2>1. CASE LoopEnds
    <3>1. /\ stage = "wait" /\ stage' = "gone"
          /\ UNCHANGED <<outcome, running, castVars, chatVars>>
      BY <2>1 DEF LoopEnds
    <3>2. Begun' = Begun /\ NoTurnFailed' = NoTurnFailed
      BY <3>1 DEF Begun, NoTurnFailed
    <3> QED
      BY <3>1, <3>2 DEF ChatInv, ChatTypes, OfOneTurn, BufferInv, AnswersInv
  <2> QED
    BY <1>2, <2>1, BeginKeepsChat, CastKeepsChat, EndKeepsChat DEF Turn
<1>3. CASE ClearCommand
  <2>1. /\ clearCommands' = clearCommands + 1 /\ chatSink' = 0
        /\ UNCHANGED <<managerVars, castVars, made, msgID, buf, chat>>
    BY <1>3 DEF ClearCommand
  <2>2. NoTurnFailed' = NoTurnFailed
    BY <2>1 DEF NoTurnFailed
  <2>3. ChatTypes' /\ clearCommands' # 0
    BY <2>1, SessionAssumption, FS_CardinalityType
    DEF ChatInv, ChatTypes, ClientsInv, CastTypes
  <2> QED
    BY <2>1, <2>2, <2>3 DEF ChatInv, OfOneTurn, BufferInv
<1>4. CASE SubmitMessage
  BY <1>4, SubmitKeepsChat DEF SubmitMessage
<1>5. ASSUME Chat
      PROVE  ChatInv'
  BY <1>3, <1>4, <1>5, RegisterKeepsChat, SendKeepsChat DEF Chat
<1>6. ASSUME NEW c \in Conns, Connection(c)
      PROVE  ChatInv'
  <2>1. CASE UserTurn(c)
    BY <2>1, SubmitKeepsChat DEF UserTurn
  <2>2. ASSUME ~UserTurn(c)
        PROVE  /\ UNCHANGED <<managerVars, event, chatVars>>
               /\ sinks' \in {sinks, sinks \union {c}, sinks \ {c}}
               /\ snapshot' \in {snapshot, snapshot \ {c}}
               /\ failed' \in {failed, failed \union {c}}
    BY <1>6, <2>2 DEF Connection, Attach, Shut, Detach, Stall, SendConn, Sent
  <2> QED
    BY <1>1, <2>1, <2>2, OthersKeepChat
<1>7. ASSUME Cancel \/ ServeReturns \/ NotifyShutdown \/ UNCHANGED sessionVars
      PROVE  ChatInv'
  <2>1. /\ UNCHANGED <<managerVars, event, chatVars, snapshot, failed>>
        /\ sinks' = sinks \/ sinks' = sinks \ {c \in Conns : conn[c] # "open"}
    BY <1>7 DEF Cancel, ServeReturns, NotifyShutdown, sessionVars
  <2> QED
    BY <1>1, <2>1, OthersKeepChat
<1> QED
  BY <1>2, <1>5, <1>6, <1>7 DEF SessionNext

\* The Telegram adapter (adapters/telegram/sink.go): as long as no turn has failed
\* a message of the chat is made of one turn's text, and if /clear was not used
\* either the answers are in the order of their turns, each there once, whatever
\* calls to Telegram fail.
THEOREM ChatCorrect == SessionSpec => []ChatShowsTurns
<1>1. ChatInv => ChatShowsTurns
  <2> SUFFICES ASSUME ChatInv
               PROVE  MessagesOfOneTurn /\ ChatInOrder
    BY DEF ChatShowsTurns
  <2>1. DOMAIN chat = 1..Len(chat)
    BY DEF ChatInv, ChatTypes
  <2>2. MessagesOfOneTurn
    BY <2>1 DEF ChatInv, NoTurnFailed, OfOneTurn, OneTurn, MessagesOfOneTurn
  <2>3. ChatInOrder
    BY <2>1 DEF ChatInv, NoTurnFailed, AnswersInv, ChatInOrder
  <2> QED
    BY <2>2, <2>3
<1> QED
  BY <1>1, DrainInit, DrainNext, ClientsInit, ClientsNext, ChatInit, ChatNext, PTL
  DEF SessionSpec

=============================================================================
