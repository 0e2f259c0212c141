----------------------------- MODULE Delegation -----------------------------
(***************************************************************************)
(* Task delegation between agents: the agent_delegate tool of the caller   *)
(* (src/internal/tools/builtin/delegate.go), the hub's JetStream work      *)
(* queue (src/internal/hub/stream.go), and the inbox loop of the target    *)
(* (src/internal/agent/hubclient.go).                                      *)
(*                                                                         *)
(* A task stands for one Execute of agent_delegate.  It is called from a   *)
(* session or cron run, or from inside the run of another task, so that    *)
(* inbox loops can wait for each other.  Agent processes die and are       *)
(* relaunched; deliveries, acks and replies can be lost.  Whether          *)
(* RegistryCache knows the target is left open (module Registry is about   *)
(* what gets registered).  Execute always fills in the fields whose        *)
(* absence makes the target drop an envelope without a reply.              *)
(***************************************************************************)
EXTENDS Integers

CONSTANTS
  Agents,      \* agent IDs, one process each
  Tasks,       \* calls of agent_delegate
  From, To,    \* task -> TaskEnvelope.From and .To
  NoTask,      \* not a task: a session or cron run
  Outcomes,    \* how a run may end: "ok", "error"
  MaxDeliver,  \* consumer setting: deliveries of one message
  MaxDeaths    \* bound: how many times agent processes die

ASSUME DelegationAssumption ==
  /\ MaxDeliver \in Nat \ {0} /\ MaxDeaths \in Nat
  /\ NoTask \notin Tasks
  /\ "ok" \in Outcomes /\ Outcomes \subseteq {"ok", "error"}
  /\ From \in [Tasks -> Agents] /\ To \in [Tasks -> Agents]

VARIABLES
  within,      \* task -> the task whose run makes the call, or NoTask
  call,        \* task -> Execute: "none", "waiting", or how it ended
  replyCh,     \* task -> the reply channel of capacity 1: "empty" or an outcome
  replies,     \* core NATS messages on their way to a reply subject
  inbox,       \* task -> its message in AGENT_INBOX
  tries,       \* task -> deliveries of that message so far
  up,          \* agent -> its process runs
  loop,        \* agent -> HubClient's loop: "idle", "run", "reply", "ack"
  cur,         \* agent -> the task the loop is working on
  outcome,     \* agent -> how the run ended
  deaths,      \* processes that have died
  performed,   \* history: task -> outcomes of its completed runs
  credit       \* history: task -> one, plus acks lost, minus completed runs

callVars   == <<call, replyCh>>
streamVars == <<inbox, tries>>
loopVars   == <<loop, cur, outcome>>
histVars   == <<performed, credit>>
vars == <<within, callVars, replies, streamVars, up, loopVars, deaths, histVars>>

Finished == {"failed"} \union Outcomes

Init ==
  /\ within = [t \in Tasks |-> NoTask]
  /\ call = [t \in Tasks |-> "none"]
  /\ replyCh = [t \in Tasks |-> "empty"]
  /\ replies = {}
  /\ inbox = [t \in Tasks |-> "none"]
  /\ tries = [t \in Tasks |-> 0]
  /\ up = [a \in Agents |-> TRUE]
  /\ loop = [a \in Agents |-> "idle"]
  /\ cur = [a \in Agents |-> NoTask]
  /\ outcome = [a \in Agents |-> "ok"]
  /\ deaths = 0
  /\ performed = [t \in Tasks |-> {}]
  /\ credit = [t \in Tasks |-> 1]

----------------------------------------------------------------------------
(* The caller: AgentDelegate.Execute *)

\* Mutant of ReplySubject: the time stamp is left out.
ReplySubjectPerAgent(t) == From[t]

\* The reply subject carries the caller's ID and the time in nanoseconds,
\* which is taken to differ from call to call.
ReplySubject(t) == <<From[t], t>>

Subscribed(t) == call[t] = "waiting"

\* Where the call is made: any session of the agent, or the task it runs.
CallSite(a, p) == p = NoTask \/ (loop[a] = "run" /\ p = cur[a])

\* RegistryCache does not know the target, or Publish fails: nothing is sent.
Refuse(t) ==
  /\ call[t] = "none" /\ up[From[t]]
  /\ call' = [call EXCEPT ![t] = "failed"]
  /\ UNCHANGED <<within, replyCh, replies, streamVars, up, loopVars, deaths, histVars>>

\* Subscribe to the reply subject, then publish the envelope to the inbox
\* subject; the work queue stores it, but Execute does not wait to be told so.
Delegate(t, p, stored) ==
  /\ call[t] = "none" /\ up[From[t]]
  /\ CallSite(From[t], p)
  /\ within' = [within EXCEPT ![t] = p]
  /\ call' = [call EXCEPT ![t] = "waiting"]
  /\ inbox' = [inbox EXCEPT ![t] = IF stored THEN "ready" ELSE @]
  /\ UNCHANGED <<replyCh, replies, tries, up, loopVars, deaths, histVars>>

\* A reply reaches the subscriptions to its subject; a full channel or a
\* subject nobody listens to drops it.
DeliverReply(m) ==
  /\ replies' = replies \ {m}
  /\ replyCh' = [t \in Tasks |->
       IF Subscribed(t) /\ ReplySubject(t) = m.subject /\ replyCh[t] = "empty"
       THEN m.out ELSE replyCh[t]]
  /\ UNCHANGED <<within, call, streamVars, up, loopVars, deaths, histVars>>

\* The reply is decoded; its error, if any, is what Execute returns.
Returns(t) ==
  /\ call[t] = "waiting" /\ replyCh[t] # "empty"
  /\ call' = [call EXCEPT ![t] = replyCh[t]]
  /\ replyCh' = [replyCh EXCEPT ![t] = "empty"]
  /\ within' = [within EXCEPT ![t] = NoTask]
  /\ UNCHANGED <<replies, streamVars, up, loopVars, deaths, histVars>>

\* Mutant of TimesOut: a call made by the run of another task has no timeout.
TimesOutAtTopLevel(t) ==
  /\ call[t] = "waiting" /\ within[t] = NoTask
  /\ call' = [call EXCEPT ![t] = "failed"]
  /\ replyCh' = [replyCh EXCEPT ![t] = "empty"]
  /\ within' = [within EXCEPT ![t] = NoTask]
  /\ UNCHANGED <<replies, streamVars, up, loopVars, deaths, histVars>>

\* delegateTimeout passes, or the run is cancelled; select may prefer it to a
\* reply that is already there.
TimesOut(t) ==
  /\ call[t] = "waiting"
  /\ call' = [call EXCEPT ![t] = "failed"]
  /\ replyCh' = [replyCh EXCEPT ![t] = "empty"]
  /\ within' = [within EXCEPT ![t] = NoTask]
  /\ UNCHANGED <<replies, streamVars, up, loopVars, deaths, histVars>>

----------------------------------------------------------------------------
(* The target: HubClient.runJetStreamInbox and processInboxMessage *)

\* Mutant of Fetch: the message is acked on receipt.
FetchAndAck(a, t) ==
  /\ up[a] /\ loop[a] = "idle" /\ To[t] = a
  /\ inbox[t] = "ready"
  /\ inbox' = [inbox EXCEPT ![t] = "acked"]
  /\ tries' = [tries EXCEPT ![t] = @ + 1]
  /\ loop' = [loop EXCEPT ![a] = "run"]
  /\ cur' = [cur EXCEPT ![a] = t]
  /\ UNCHANGED <<within, callVars, replies, up, outcome, deaths, histVars>>

\* The loop fetches one message at a time and runs it in place.
Fetch(a, t) ==
  /\ up[a] /\ loop[a] = "idle" /\ To[t] = a
  /\ inbox[t] = "ready"
  /\ inbox' = [inbox EXCEPT ![t] = "taken"]
  /\ tries' = [tries EXCEPT ![t] = @ + 1]
  /\ loop' = [loop EXCEPT ![a] = "run"]
  /\ cur' = [cur EXCEPT ![a] = t]
  /\ UNCHANGED <<within, callVars, replies, up, outcome, deaths, histVars>>

\* Calls the current run of a is waiting for (ExecuteAll waits for all).
Nested(a) ==
  {t \in Tasks : From[t] = a /\ within[t] = cur[a] /\ call[t] = "waiting"}

\* runner.Run returns: the model, a tool or the context may make it fail.
RunEnds(a, o) ==
  /\ up[a] /\ loop[a] = "run" /\ Nested(a) = {}
  /\ outcome' = [outcome EXCEPT ![a] = o]
  /\ loop' = [loop EXCEPT ![a] = "reply"]
  /\ performed' = [performed EXCEPT ![cur[a]] = @ \union {o}]
  /\ credit' = [credit EXCEPT ![cur[a]] = @ - 1]
  /\ UNCHANGED <<within, callVars, replies, streamVars, up, cur, deaths>>

\* The TaskReply is published; a failure is only logged, and a reply that is
\* lost is one that DeliverReply never takes.
Reply(a) ==
  /\ up[a] /\ loop[a] = "reply"
  /\ replies' = replies \union {[subject |-> ReplySubject(cur[a]), out |-> outcome[a]]}
  /\ loop' = [loop EXCEPT ![a] = "ack"]
  /\ UNCHANGED <<within, callVars, streamVars, up, cur, outcome, deaths, histVars>>

\* Mutant of Ack: a failed run is not acked.
AckOnlySuccess(a, arrives) ==
  /\ up[a] /\ loop[a] = "ack"
  /\ inbox' = [inbox EXCEPT ![cur[a]] =
       IF arrives /\ outcome[a] = "ok" /\ @ # "dropped" THEN "acked" ELSE @]
  /\ credit' = [credit EXCEPT ![cur[a]] = IF arrives THEN @ ELSE @ + 1]
  /\ loop' = [loop EXCEPT ![a] = "idle"]
  /\ cur' = [cur EXCEPT ![a] = NoTask]
  /\ outcome' = [outcome EXCEPT ![a] = "ok"]
  /\ UNCHANGED <<within, callVars, replies, tries, up, deaths, performed>>

\* msg.Ack whatever the outcome was; its error is ignored.  An ack that comes
\* after AckWait still counts, as nothing has fetched the message since.
Ack(a, arrives) ==
  /\ up[a] /\ loop[a] = "ack"
  /\ inbox' = [inbox EXCEPT ![cur[a]] = IF arrives /\ @ # "dropped" THEN "acked" ELSE @]
  /\ credit' = [credit EXCEPT ![cur[a]] = IF arrives THEN @ ELSE @ + 1]
  /\ loop' = [loop EXCEPT ![a] = "idle"]
  /\ cur' = [cur EXCEPT ![a] = NoTask]
  /\ outcome' = [outcome EXCEPT ![a] = "ok"]
  /\ UNCHANGED <<within, callVars, replies, tries, up, deaths, performed>>

----------------------------------------------------------------------------
(* The stream and the processes *)

\* A delivery arrives after the 500 ms of the fetch that asked for it.
DeliveryMissed(t) ==
  /\ inbox[t] = "ready" /\ up[To[t]] /\ loop[To[t]] = "idle"
  /\ inbox' = [inbox EXCEPT ![t] = "taken"]
  /\ tries' = [tries EXCEPT ![t] = @ + 1]
  /\ UNCHANGED <<within, callVars, replies, up, loopVars, deaths, histVars>>

\* Mutant of AckWaitPasses: the consumer has no MaxDeliver.
AckWaitPassesForever(t) ==
  /\ inbox[t] = "taken"
  /\ inbox' = [inbox EXCEPT ![t] = "ready"]
  /\ UNCHANGED <<within, callVars, replies, tries, up, loopVars, deaths, histVars>>

\* AckWait passes without an ack: the message is offered again, unless it has
\* been delivered MaxDeliver times.
AckWaitPasses(t) ==
  /\ inbox[t] = "taken"
  /\ inbox' = [inbox EXCEPT ![t] = IF tries[t] < MaxDeliver THEN "ready" ELSE "dropped"]
  /\ UNCHANGED <<within, callVars, replies, tries, up, loopVars, deaths, histVars>>

\* The stream's MaxAge removes a message that has not been acked.
Expires(t) ==
  /\ inbox[t] \in {"ready", "taken"}
  /\ inbox' = [inbox EXCEPT ![t] = "dropped"]
  /\ UNCHANGED <<within, callVars, replies, tries, up, loopVars, deaths, histVars>>

\* The process ends, whatever its goroutines are doing.
Dies(a) ==
  /\ up[a] /\ deaths < MaxDeaths
  /\ up' = [up EXCEPT ![a] = FALSE]
  /\ deaths' = deaths + 1
  /\ loop' = [loop EXCEPT ![a] = "idle"]
  /\ cur' = [cur EXCEPT ![a] = NoTask]
  /\ outcome' = [outcome EXCEPT ![a] = "ok"]
  /\ call' = [t \in Tasks |-> IF From[t] = a /\ call[t] = "waiting" THEN "failed" ELSE call[t]]
  /\ replyCh' = [t \in Tasks |-> IF From[t] = a THEN "empty" ELSE replyCh[t]]
  /\ within' = [t \in Tasks |-> IF From[t] = a THEN NoTask ELSE within[t]]
  /\ credit' = [t \in Tasks |->
       IF loop[a] \in {"reply", "ack"} /\ cur[a] = t THEN credit[t] + 1 ELSE credit[t]]
  /\ UNCHANGED <<replies, streamVars, performed>>

\* The supervisor relaunches it (module Supervisor).
Relaunched(a) ==
  /\ ~up[a]
  /\ up' = [up EXCEPT ![a] = TRUE]
  /\ UNCHANGED <<within, callVars, replies, streamVars, loopVars, deaths, histVars>>

Target(a) ==
  \/ \E o \in Outcomes : RunEnds(a, o)
  \/ Reply(a)
  \/ \E arrives \in BOOLEAN : Ack(a, arrives)

Next ==
  \/ \E t \in Tasks : Refuse(t)
  \/ \E t \in Tasks, p \in Tasks \union {NoTask}, stored \in BOOLEAN : Delegate(t, p, stored)
  \/ \E m \in replies : DeliverReply(m)
  \/ \E t \in Tasks : Returns(t)
  \/ \E t \in Tasks : TimesOut(t)
  \/ \E a \in Agents, t \in Tasks : Fetch(a, t)
  \/ \E a \in Agents : Target(a)
  \/ \E t \in Tasks : DeliveryMissed(t)
  \/ \E t \in Tasks : AckWaitPasses(t)
  \/ \E t \in Tasks : Expires(t)
  \/ \E a \in Agents : Dies(a)
  \/ \E a \in Agents : Relaunched(a)

Spec == Init /\ [][Next]_vars

\* Timers fire, runs end (the LLM client has a timeout and the ReAct loop a
\* bound), the fetch loop keeps polling, and a dead agent is relaunched.
Fairness ==
  /\ \A t \in Tasks : WF_vars(TimesOut(t)) /\ WF_vars(AckWaitPasses(t))
  /\ \A a \in Agents, t \in Tasks : SF_vars(Fetch(a, t))
  /\ \A a \in Agents : WF_vars(Target(a)) /\ WF_vars(Relaunched(a))

FairSpec == Spec /\ Fairness

----------------------------------------------------------------------------
(* Properties *)

InboxStates == {"none", "ready", "taken", "acked", "dropped"}

\* Every variable has its type; a busy loop has a task addressed to its agent.
TypeOK ==
  /\ within \in [Tasks -> Tasks \union {NoTask}]
  /\ call \in [Tasks -> {"none", "waiting"} \union Finished]
  /\ replyCh \in [Tasks -> {"empty"} \union Outcomes]
  /\ replies \subseteq [subject : {ReplySubject(t) : t \in Tasks}, out : Outcomes]
  /\ inbox \in [Tasks -> InboxStates]
  /\ tries \in [Tasks -> 0..MaxDeliver]
  /\ up \in [Agents -> BOOLEAN]
  /\ loop \in [Agents -> {"idle", "run", "reply", "ack"}]
  /\ cur \in [Agents -> Tasks \union {NoTask}]
  /\ outcome \in [Agents -> Outcomes]
  /\ deaths \in 0..MaxDeaths
  /\ performed \in [Tasks -> SUBSET Outcomes]
  /\ credit \in [Tasks -> Int]
  /\ \A a \in Agents : IF loop[a] = "idle" THEN cur[a] = NoTask
                       ELSE up[a] /\ cur[a] \in Tasks /\ To[cur[a]] = a

\* How the state of a call looks to who made it.
Told(c) ==
  CASE c = "waiting" -> "asked"
    [] c \in {"none"} \union Finished -> c

\* Tools, queue, loops and processes together keep the contract of a call.
Contract == INSTANCE DelegationContract WITH
  answer <- [t \in Tasks |-> Told(call[t])],
  performed <- performed

ContractKept == Contract!Spec

\* Messages leave the work queue through an ack only after a run of the task
\* has ended, whatever was lost or died on the way.
AckedWasRun == \A t \in Tasks : inbox[t] = "acked" => performed[t] # {}

\* A task is run to its end once, and once more for every ack that was lost:
\* a run that takes longer than AckWait is not repeated for that reason.
RepeatedOnlyAfterLostAck == \A t \in Tasks : credit[t] >= 0

\* Every call returns, even one that only the loop waiting for it could serve.
CallsReturn == \A t \in Tasks : call[t] = "waiting" ~> call[t] \in Finished

\* "Unacked messages are redelivered": a task in the queue is run to its end,
\* unless its message outlives MaxAge or MaxDeliver.
QueuedTasksRun ==
  \A t \in Tasks :
    inbox[t] = "ready" ~> performed[t] # {} \/ inbox[t] = "dropped"
=============================================================================
