------------------------------- MODULE Session -------------------------------
(***************************************************************************)
(* One live session of `zlaw agent serve`: its queue of turns and event    *)
(* loop (session/manager.go), its broadcaster (session/sink.go), attached  *)
(* command lines (adapters/daemon/daemon.go, adapters/cli/attach.go), one  *)
(* Telegram chat (adapters/telegram/adapter.go, sink.go) and the drain at  *)
(* shutdown.                                                               *)
(*                                                                         *)
(* Turns are numbered as they are submitted.  What a chat message shows is *)
(* the set of turns its text comes from.  Typing indicators change nothing *)
(* and are left out.                                                       *)
(***************************************************************************)
EXTENDS Integers, SequencesExt

CONSTANTS
  Conns,     \* attached command lines
  ChatSinks, \* 1..n, the chat sinks the adapter may create
  QueueCap,  \* capacity of inputCh (8 in the code)
  MaxTurns, MaxDeltas,
  MaxDisturbances \* bound on /clear, failed calls, stalled clients and shutdown together

Turns == 1..MaxTurns

\* Turns and chat sinks are numbered from 1; 0 is none of them.
ASSUME SessionAssumption ==
  /\ MaxTurns \in Nat /\ QueueCap \in Nat
  /\ IsFiniteSet(ChatSinks) /\ ChatSinks = 1..Cardinality(ChatSinks)
  /\ Conns \cap ChatSinks = {}

VARIABLES
  queue,      \* inputCh
  outcome,    \* turn -> "none", "queued", "dropped", "running", "done" or "error"
  submitted,  \* turns submitted so far
  stage,      \* runSession: "wait", "run", "send" or "gone"
  running,    \* the turn processTurn works on, 0 if none
  deltas,     \* deltas of that turn so far
  event,      \* the event being broadcast
  snapshot,   \* sinks Broadcast has still to send it to
  failed,     \* sinks that returned an error
  sinks,      \* the broadcaster's
  conn,       \* connection -> "new", "open", "shut" or "gone"
  stalled,    \* connections whose client does not read
  received,   \* connection -> events its client got
  since,      \* connection -> turns begun when its sink was added
  poller,     \* Telegram's handleMessage: "idle" or "submit"
  chatSink,   \* a.sinks[chatID], 0 if there is none
  made,       \* chat sinks created so far
  msgID,      \* chat sink -> its message in progress, 0 if there is none
  buf,        \* chat sink -> the turns its buffered deltas come from
  chat,       \* the chat's messages
  clearCommands, failures,
  serve,      \* Daemon.Serve: "accept", "notify", "drain" or "returned"
  timedOut,   \* the drain's timeout passed
  inFlight    \* the turn that was running at shutdown, 0 if none

managerVars == <<queue, outcome, submitted, stage, running, deltas>>
castVars == <<event, snapshot, failed, sinks>>
connVars == <<conn, stalled, received, since>>
chatVars == <<poller, chatSink, made, msgID, buf, chat, clearCommands, failures>>
serveVars == <<serve, timedOut, inFlight>>
sessionVars == <<managerVars, castVars, connVars, chatVars, serveVars>>

NoEvent == [kind |-> "none", turn |-> 0, text |-> FALSE]

SessionInit ==
  /\ queue = <<>> /\ submitted = 0
  /\ outcome = [t \in Turns |-> "none"]
  /\ stage = "wait" /\ running = 0 /\ deltas = 0
  /\ event = NoEvent /\ snapshot = {} /\ failed = {} /\ sinks = {}
  /\ conn = [c \in Conns |-> "new"] /\ stalled = {}
  /\ received = [c \in Conns |-> <<>>]
  /\ since = [c \in Conns |-> {}]
  /\ poller = "idle" /\ chatSink = 0 /\ made = 0
  /\ msgID = [s \in ChatSinks |-> 0]
  /\ buf = [s \in ChatSinks |-> {}]
  /\ chat = <<>>
  /\ clearCommands = 0 /\ failures = 0
  /\ serve = "accept" /\ timedOut = FALSE /\ inFlight = 0

cancelled == serve # "accept"
Disturbable ==
  clearCommands + failures + Cardinality(stalled) + (IF cancelled THEN 1 ELSE 0) < MaxDisturbances
Begun == {t \in Turns : outcome[t] \in {"running", "done", "error"}}

----------------------------------------------------------------------------
(* Manager *)

\* Without waiting: a turn that finds the queue full is dropped.
Submit ==
  /\ submitted < MaxTurns
  /\ submitted' = submitted + 1
  /\ IF Len(queue) < QueueCap
     THEN /\ queue' = Append(queue, submitted')
          /\ outcome' = [outcome EXCEPT ![submitted'] = "queued"]
     ELSE /\ outcome' = [outcome EXCEPT ![submitted'] = "dropped"]
          /\ UNCHANGED queue
  /\ UNCHANGED <<stage, running, deltas>>

\* runSession takes the next turn; its select may do so after the shutdown.
BeginTurn ==
  /\ stage = "wait" /\ queue # <<>>
  /\ running' = Head(queue)
  /\ queue' = Tail(queue)
  /\ outcome' = [outcome EXCEPT ![Head(queue)] = "running"]
  /\ stage' = "run"
  /\ UNCHANGED <<submitted, deltas, castVars, connVars, chatVars, serveVars>>

LoopEnds ==
  /\ stage = "wait" /\ cancelled
  /\ stage' = "gone"
  /\ UNCHANGED <<queue, outcome, submitted, running, deltas, castVars, connVars, chatVars,
                 serveVars>>

\* Broadcast copies the sinks and lets go of the lock.
StartBroadcast(e) ==
  /\ stage' = "send"
  /\ event' = e
  /\ snapshot' = sinks
  /\ failed' = {}
  /\ UNCHANGED sinks

Delta ==
  /\ stage = "run" /\ deltas < MaxDeltas
  /\ deltas' = deltas + 1
  /\ StartBroadcast([kind |-> "delta", turn |-> running, text |-> TRUE])
  /\ UNCHANGED <<queue, outcome, submitted, running, connVars, chatVars, serveVars>>

\* Mutant of TurnReturns: a cancelled turn ends without an event.
TurnReturnsSilently ==
  /\ stage = "run"
  /\ \E kind \in {"done", "error"}, text \in BOOLEAN :
       /\ outcome' = [outcome EXCEPT ![running] = IF kind = "error" THEN "running" ELSE kind]
       /\ IF kind = "done" THEN StartBroadcast([kind |-> kind, turn |-> running, text |-> text])
          ELSE stage' = "wait" /\ UNCHANGED castVars
  /\ deltas' = 0
  /\ UNCHANGED <<queue, submitted, running, connVars, chatVars, serveVars>>

\* RunStream returns, maybe with an empty text; a cancelled turn may still do so.
TurnReturns ==
  /\ stage = "run"
  /\ \E kind \in {"done", "error"}, text \in BOOLEAN :
       /\ text => kind = "done"
       /\ outcome' = [outcome EXCEPT ![running] = kind]
       /\ StartBroadcast([kind |-> kind, turn |-> running, text |-> text])
  /\ deltas' = 0
  /\ UNCHANGED <<queue, submitted, running, connVars, chatVars, serveVars>>

\* Mutant of EndBroadcast: no return after a turn's error.
EndBroadcastGoesOn ==
  /\ stage = "send" /\ snapshot = {}
  /\ sinks' = sinks \ failed
  /\ conn' = [c \in Conns |-> IF c \in failed /\ conn[c] = "open" THEN "shut" ELSE conn[c]]
  /\ event' = NoEvent /\ failed' = {}
  /\ stage' = IF event.kind = "done" THEN "wait" ELSE "run"
  /\ running' = IF event.kind = "done" THEN 0 ELSE running
  /\ UNCHANGED <<queue, outcome, submitted, deltas, snapshot, stalled, received, since,
                 chatVars, serveVars>>

\* Failed sinks are closed and removed; after a turn's last event
\* activeTurns.Done is called.
EndBroadcast ==
  /\ stage = "send" /\ snapshot = {}
  /\ sinks' = sinks \ failed
  /\ conn' = [c \in Conns |-> IF c \in failed /\ conn[c] = "open" THEN "shut" ELSE conn[c]]
  /\ event' = NoEvent /\ failed' = {}
  /\ stage' = IF event.kind = "delta" THEN "run" ELSE "wait"
  /\ running' = IF event.kind = "delta" THEN running ELSE 0
  /\ UNCHANGED <<queue, outcome, submitted, deltas, snapshot, stalled, received, since,
                 chatVars, serveVars>>

Sent(s, ok) ==
  /\ snapshot' = snapshot \ {s}
  /\ failed' = IF ok THEN failed ELSE failed \union {s}

----------------------------------------------------------------------------
(* An attached command line *)

\* handleConn reads the subscription.
Attach(c) ==
  /\ conn[c] = "new" /\ ~cancelled
  /\ conn' = [conn EXCEPT ![c] = "open"]
  /\ sinks' = sinks \union {c}
  /\ since' = [since EXCEPT ![c] = Begun]
  /\ UNCHANGED <<managerVars, event, snapshot, failed, stalled, received, chatVars, serveVars>>

UserTurn(c) ==
  /\ conn[c] = "open"
  /\ Submit
  /\ UNCHANGED <<castVars, connVars, chatVars, serveVars>>

\* The client goes away, or is closed at shutdown.
Shut(c) ==
  /\ conn[c] = "open"
  /\ conn' = [conn EXCEPT ![c] = "shut"]
  /\ stalled' = stalled \ {c}
  /\ UNCHANGED <<managerVars, castVars, received, since, chatVars, serveVars>>

\* handleConn's read fails, and its deferred function removes the sink.
Detach(c) ==
  /\ conn[c] = "shut"
  /\ conn' = [conn EXCEPT ![c] = "gone"]
  /\ sinks' = sinks \ {c}
  /\ UNCHANGED <<managerVars, event, snapshot, failed, stalled, received, since, chatVars,
                 serveVars>>

\* The client stops reading; a connection has no write deadline.
Stall(c) ==
  /\ conn[c] = "open" /\ Disturbable
  /\ stalled' = stalled \union {c}
  /\ UNCHANGED <<managerVars, castVars, conn, received, since, chatVars, serveVars>>

\* connSink.Send.
SendConn(c) ==
  /\ stage = "send" /\ c \in snapshot /\ c \notin stalled
  /\ Sent(c, conn[c] = "open")
  /\ received' = IF conn[c] = "open"
                 THEN [received EXCEPT ![c] = Append(@, event)] ELSE received
  /\ UNCHANGED <<managerVars, event, sinks, conn, stalled, since, chatVars, serveVars>>

----------------------------------------------------------------------------
(* The Telegram chat *)

\* handleMessage ensures a chat sink, looking at the adapter's own map only.
Register ==
  /\ poller = "idle" /\ ~cancelled /\ submitted < MaxTurns
  /\ poller' = "submit"
  /\ IF chatSink = 0
     THEN /\ made < Cardinality(ChatSinks)
          /\ made' = made + 1 /\ chatSink' = made' /\ sinks' = sinks \union {made'}
     ELSE UNCHANGED <<made, chatSink, sinks>>
  /\ UNCHANGED <<managerVars, event, snapshot, failed, connVars, msgID, buf, chat,
                 clearCommands, failures, serveVars>>

SubmitMessage ==
  /\ poller = "submit"
  /\ poller' = "idle"
  /\ Submit
  /\ UNCHANGED <<castVars, connVars, chatSink, made, msgID, buf, chat, clearCommands, failures,
                 serveVars>>

\* /clear forgets the sink, which stays on the broadcaster.
ClearCommand ==
  /\ poller = "idle" /\ ~cancelled
  /\ chatSink # 0 /\ Disturbable
  /\ clearCommands' = clearCommands + 1
  /\ chatSink' = 0
  /\ UNCHANGED <<managerVars, castVars, connVars, poller, made, msgID, buf, chat, failures,
                 serveVars>>

\* Calls to Telegram may fail, and do once the context is cancelled.
TelegramAnswers ==
  IF cancelled THEN {FALSE} ELSE IF Disturbable THEN BOOLEAN ELSE {TRUE}

Shows(turns, final) == [turns |-> turns, final |-> final]

\* SendMessage(ctx, chatID, text)
Post(m, ok) == chat' = IF ok THEN Append(chat, m) ELSE chat
Edit(s, m) == chat' = [chat EXCEPT ![msgID[s]] = m]

\* A delta is posted the first time; later ones edit the message unless that is
\* throttled.  Failures are not propagated.
handleDelta(s, ok) ==
  /\ buf' = [buf EXCEPT ![s] = @ \union {event.turn}]
  /\ LET m == Shows(buf'[s], 0) IN
     IF msgID[s] = 0
     THEN /\ Post(m, ok)
          /\ msgID' = IF ok THEN [msgID EXCEPT ![s] = Len(chat')] ELSE msgID
     ELSE /\ \E edited \in IF ok THEN BOOLEAN ELSE {FALSE} :
               IF edited THEN Edit(s, m) ELSE UNCHANGED chat
          /\ UNCHANGED msgID
  /\ Sent(s, TRUE)

\* Mutant of handleDone: the buffer and the message are kept.
handleDoneKeeps(s, ok) ==
  /\ IF msgID[s] = 0 THEN Post(Shows({event.turn}, event.turn), ok)
                     ELSE Edit(s, Shows({event.turn}, event.turn))
  /\ UNCHANGED <<msgID, buf>>
  /\ Sent(s, ok)

\* The last edit, or a new message where there is none to edit or the edit
\* fails; the sink is ready for the next turn whatever happens.
handleDone(s, ok) ==
  LET text == IF event.text THEN {event.turn} ELSE buf[s]
      m == Shows(text, event.turn)
  IN /\ msgID' = [msgID EXCEPT ![s] = 0]
     /\ buf' = [buf EXCEPT ![s] = {}]
     /\ \/ text = {} /\ UNCHANGED chat /\ Sent(s, TRUE)
        \/ text # {} /\ msgID[s] # 0 /\ ok /\ Edit(s, m) /\ Sent(s, TRUE)
        \/ text # {} /\ Post(m, ok) /\ Sent(s, ok)

\* chatSink.Send.  An error is a message of its own; buffer and message in
\* progress stay.
SendChat(s) ==
  /\ stage = "send" /\ s \in snapshot
  /\ \E ok \in TelegramAnswers :
       /\ CASE event.kind = "delta" -> handleDelta(s, ok)
            [] event.kind = "done" -> handleDone(s, ok)
            [] OTHER -> Post(Shows({}, event.turn), ok) /\ Sent(s, ok) /\ UNCHANGED <<msgID, buf>>
       /\ failures' = IF ok \/ cancelled THEN failures ELSE failures + 1
  /\ UNCHANGED <<managerVars, event, sinks, connVars, poller, chatSink, made, clearCommands,
                 serveVars>>

----------------------------------------------------------------------------
(* Shutdown *)

\* The context is cancelled; the listener and every connection are closed.
Cancel ==
  /\ serve = "accept" /\ Disturbable
  /\ serve' = "notify"
  /\ inFlight' = running
  /\ UNCHANGED <<managerVars, castVars, connVars, chatVars, timedOut>>

\* BroadcastAll(EventShutdown), to the connections that are not closed yet.
NotifyShutdown ==
  /\ serve = "notify"
  /\ sinks \cap stalled = {}
  /\ serve' = "drain"
  /\ received' = [c \in Conns |->
       IF c \in sinks /\ conn[c] = "open"
       THEN Append(received[c], [kind |-> "shutdown", turn |-> 0, text |-> FALSE])
       ELSE received[c]]
  /\ sinks' = sinks \ {c \in Conns : conn[c] # "open"}
  /\ UNCHANGED <<managerVars, event, snapshot, failed, conn, stalled, since, chatVars,
                 timedOut, inFlight>>

\* Mutant of ServeReturns: turns in flight are not counted.
ServeReturnsAtOnce ==
  /\ serve = "drain"
  /\ serve' = "returned" /\ timedOut' = FALSE
  /\ UNCHANGED <<managerVars, castVars, connVars, chatVars, inFlight>>

\* Drain: no turn is in flight, or the timeout passes.
ServeReturns ==
  /\ serve = "drain"
  /\ \E timeout \in BOOLEAN :
       /\ timeout \/ running = 0
       /\ timedOut' = timeout
  /\ serve' = "returned"
  /\ UNCHANGED <<managerVars, castVars, connVars, chatVars, inFlight>>

Turn == BeginTurn \/ LoopEnds \/ Delta \/ TurnReturns \/ EndBroadcast
Connection(c) == Attach(c) \/ UserTurn(c) \/ Shut(c) \/ Detach(c) \/ Stall(c) \/ SendConn(c)
Chat == Register \/ SubmitMessage \/ ClearCommand \/ \E s \in ChatSinks : SendChat(s)

\* The process ends when Serve has returned.
SessionNext ==
  /\ serve # "returned"
  /\ Turn \/ Chat \/ Cancel \/ NotifyShutdown \/ ServeReturns \/ \E c \in Conns : Connection(c)

SessionSpec == SessionInit /\ [][SessionNext]_sessionVars

\* The agent's own loops and calls go on; so do clients, unless they stall.
LoopGoesOn == serve # "returned" /\ (BeginTurn \/ TurnReturns \/ EndBroadcast)
ConnGoesOn(c) == serve # "returned" /\ SendConn(c)
ChatGoesOn(s) == serve # "returned" /\ SendChat(s)
FairSessionSpec ==
  /\ SessionSpec
  /\ WF_sessionVars(LoopGoesOn)
  /\ \A c \in Conns : WF_sessionVars(ConnGoesOn(c))
  /\ \A s \in ChatSinks : WF_sessionVars(ChatGoesOn(s))

----------------------------------------------------------------------------
(* Properties *)

Events == [kind : {"delta", "done", "error", "shutdown", "none"}, turn : 0..MaxTurns,
           text : BOOLEAN]
ChatMessages == [turns : SUBSET Turns, final : 0..MaxTurns]

\* The variables have their types; what is sent is sent for the running turn.
SessionTypeOK ==
  /\ queue \in Seq(Turns) /\ Len(queue) <= QueueCap
  /\ outcome \in [Turns -> {"none", "queued", "dropped", "running", "done", "error"}]
  /\ submitted \in 0..MaxTurns /\ running \in 0..submitted
  /\ stage \in {"wait", "run", "send", "gone"} /\ deltas \in 0..MaxDeltas
  /\ event \in Events /\ (stage = "send" => event.turn = running /\ running # 0)
  /\ snapshot \union failed \union sinks \subseteq Conns \union ChatSinks
  /\ conn \in [Conns -> {"new", "open", "shut", "gone"}] /\ stalled \subseteq Conns
  /\ received \in [Conns -> Seq(Events)]
  /\ since \in [Conns -> SUBSET Turns]
  /\ poller \in {"idle", "submit"} /\ chatSink \in 0..made
  /\ chat \in Seq(ChatMessages)
  /\ msgID \in [ChatSinks -> 0..Len(chat)] /\ buf \in [ChatSinks -> SUBSET Turns]
  /\ serve \in {"accept", "notify", "drain", "returned"} /\ timedOut \in BOOLEAN
  /\ inFlight \in 0..submitted

Ended(t) == outcome[t] \in {"done", "error"}

\* A client sees one turn after the other, in the order they were queued, and
\* nothing of a turn after its end: the loop waits for a broadcast before it
\* goes on, whatever sinks come, stall, fail and go.
EventsInTurnOrder ==
  \A c \in DOMAIN received :
    \A i, j \in DOMAIN received[c] :
      LET earlier == received[c][i]  later == received[c][j]
      IN  i < j /\ earlier.kind # "shutdown" /\ later.kind # "shutdown" =>
            \/ earlier.turn < later.turn
            \/ earlier.turn = later.turn /\ earlier.kind = "delta"

\* Between turns, a client that is still attached got the end of every turn that
\* began after it subscribed; another sink's failure does not cost it an event.
AttachedSeeEnds ==
  stage = "wait" =>
    \A c \in DOMAIN received, t \in Turns :
      conn[c] = "open" /\ Ended(t) /\ t \notin since[c] =>
        \E i \in DOMAIN received[c] :
          received[c][i].turn = t /\ received[c][i].kind # "delta"

\* A client gets whole turns, in their order, and one that stays attached sees
\* every turn end.
ClientsFollowTurns == EventsInTurnOrder /\ AttachedSeeEnds

\* As long as no turn has failed, a message of the chat is made of one turn's
\* text, though one buffer and one message ID serve all of them.
MessagesOfOneTurn ==
  (\A t \in Turns : outcome[t] # "error") =>
    \A i \in DOMAIN chat :
      /\ Cardinality(chat[i].turns) <= 1
      /\ chat[i].final # 0 => chat[i].turns = {chat[i].final}

\* As long as no turn has failed and /clear was not used, the chat shows the
\* answers in the order of their turns, each of them once.
ChatInOrder ==
  clearCommands = 0 /\ (\A t \in Turns : outcome[t] # "error") =>
    \A i, j \in DOMAIN chat :
      i < j /\ chat[i].final # 0 /\ chat[j].final # 0 => chat[i].final < chat[j].final

\* The chat shows each turn's answer in a message of its own, in order.
ChatShowsTurns == MessagesOfOneTurn /\ ChatInOrder

\* Serve has returned before its timeout: the turn in flight at shutdown has
\* ended and told its sinks so.
DrainWaits ==
  serve = "returned" /\ ~timedOut /\ inFlight # 0 =>
    Ended(inFlight) /\ running # inFlight

\* A queued turn is run to its end, unless the agent is shut down or a client
\* does not read: Broadcast waits for it without a deadline, and the session
\* for Broadcast.
QueuedTurnsEnd ==
  \A t \in Turns :
    outcome[t] = "queued" ~> Ended(t) \/ cancelled \/ stalled # {}
=============================================================================
