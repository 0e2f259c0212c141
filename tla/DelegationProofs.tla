-------------------------- MODULE DelegationProofs --------------------------
(***************************************************************************)
(* Proofs about Delegation, for any agents and tasks: types, the work      *)
(* queue, and that it implements DelegationContract.                       *)
(***************************************************************************)
EXTENDS Delegation, TLAPS

Running(t) == loop[To[t]] = "run" /\ cur[To[t]] = t
Done(t) == loop[To[t]] \in {"reply", "ack"} /\ cur[To[t]] = t

\* A message offered by the queue may still be delivered; a call that has not
\* been made has no message, and a loop works on no other.
DeliveriesLeft ==
  \A t \in Tasks :
    /\ call[t] = "none" => inbox[t] = "none"
    /\ inbox[t] = "none" => tries[t] = 0
    /\ inbox[t] = "ready" => tries[t] < MaxDeliver
    /\ Running(t) \/ Done(t) => inbox[t] # "none"

TypeInv == TypeOK /\ DeliveriesLeft

\* A run in progress, and a message that can still be fetched, may complete
\* once more; the run that waits for its ack is already counted.
RunsAccounted ==
  \A t \in Tasks :
    /\ credit[t] >= 0
    /\ Running(t) => credit[t] >= 1
    /\ inbox[t] \in {"none", "ready", "taken"} /\ ~Done(t) => credit[t] >= 1

\* An outcome, wherever it is on its way back, is that of a run of its task.
OutcomesAreRuns ==
  \A t \in Tasks :
    /\ Done(t) => outcome[To[t]] \in performed[t]
    /\ \A m \in replies : m.subject = ReplySubject(t) => m.out \in performed[t]
    /\ replyCh[t] # "empty" => replyCh[t] \in performed[t]

----------------------------------------------------------------------------
(* Types *)

LEMMA TypeInvInit == Init => TypeInv
<1> SUFFICES ASSUME Init PROVE TypeInv
  OBVIOUS
<1> USE DelegationAssumption DEF Init
<1>1. 0 \in 0..MaxDeliver /\ 0 \in 0..MaxDeaths /\ 0 < MaxDeliver
  OBVIOUS
<1>2. TypeOK
  <2>1. /\ tries \in [Tasks -> 0..MaxDeliver]
        /\ deaths \in 0..MaxDeaths
        /\ credit \in [Tasks -> Int]
    BY <1>1
  <2>2. up \in [Agents -> BOOLEAN]
    OBVIOUS
  <2>3. QED
    BY <2>1, <2>2 DEF TypeOK, InboxStates
<1>3. DeliveriesLeft
  BY <1>1 DEF DeliveriesLeft, Running, Done
<1>4. QED
  BY <1>2, <1>3 DEF TypeInv

LEMMA AckCases ==
  ASSUME NEW a \in Agents, \E arrives \in BOOLEAN : Ack(a, arrives)
  PROVE  Ack(a, TRUE) \/ Ack(a, FALSE)
OBVIOUS

\* An ack that arrives takes the message from the queue, nothing else does.
LEMMA AckEffect ==
  ASSUME TypeOK, NEW a \in Agents, \E arrives \in BOOLEAN : Ack(a, arrives), NEW t \in Tasks
  PROVE  \/ inbox'[t] = inbox[t] /\ t # cur[a] /\ credit'[t] = credit[t]
         \/ inbox'[t] = inbox[t] /\ t = cur[a] /\ credit'[t] = credit[t] + 1
         \/ /\ t = cur[a] /\ credit'[t] = credit[t]
            /\ inbox'[t] = IF inbox[t] # "dropped" THEN "acked" ELSE inbox[t]
<1>1. cur[a] \in Tasks /\ inbox \in [Tasks -> InboxStates] /\ credit \in [Tasks -> Int]
  BY DEF TypeOK, Ack
<1>2. CASE Ack(a, TRUE)
  BY <1>1, <1>2 DEF Ack
<1>3. CASE Ack(a, FALSE)
  BY <1>1, <1>3 DEF Ack
<1>4. QED
  BY <1>2, <1>3, AckCases

LEMMA TypeInvNext == TypeInv /\ [Next]_vars => TypeInv'
<1> SUFFICES ASSUME TypeInv, [Next]_vars PROVE TypeInv'
  OBVIOUS
<1> USE DelegationAssumption
    DEF TypeInv, TypeOK, DeliveriesLeft, Running, Done, InboxStates, Finished,
        callVars, streamVars, loopVars, histVars
<1>1. ASSUME NEW t \in Tasks, Refuse(t) PROVE TypeInv'
  BY <1>1 DEF Refuse
<1>2. ASSUME NEW t \in Tasks, NEW p \in Tasks \union {NoTask}, NEW stored \in BOOLEAN,
             Delegate(t, p, stored)
      PROVE TypeInv'
  BY <1>2 DEF Delegate
<1>3. ASSUME NEW m \in replies, DeliverReply(m) PROVE TypeInv'
  BY <1>3 DEF DeliverReply
<1>4. ASSUME NEW t \in Tasks, Returns(t) PROVE TypeInv'
  BY <1>4 DEF Returns
<1>5. ASSUME NEW t \in Tasks, TimesOut(t) PROVE TypeInv'
  BY <1>5 DEF TimesOut
<1>6. ASSUME NEW a \in Agents, NEW t \in Tasks, Fetch(a, t) PROVE TypeInv'
  BY <1>6 DEF Fetch
<1>7. ASSUME NEW a \in Agents, NEW o \in Outcomes, RunEnds(a, o) PROVE TypeInv'
  BY <1>7 DEF RunEnds
<1>8. ASSUME NEW a \in Agents, Reply(a) PROVE TypeInv'
  BY <1>8 DEF Reply
<1>9. ASSUME NEW a \in Agents, \E arrives \in BOOLEAN : Ack(a, arrives) PROVE TypeInv'
  <2>1. CASE Ack(a, TRUE)
    BY <2>1 DEF Ack
  <2>2. CASE Ack(a, FALSE)
    <3>1. inbox' = inbox /\ credit' \in [Tasks -> Int]
      BY <2>2 DEF Ack
    <3>2. QED
      BY <2>2, <3>1 DEF Ack
  <2>3. QED
    BY <1>9, <2>1, <2>2, AckCases
<1>10. ASSUME NEW t \in Tasks, DeliveryMissed(t) PROVE TypeInv'
  BY <1>10 DEF DeliveryMissed
<1>11. ASSUME NEW t \in Tasks, AckWaitPasses(t) PROVE TypeInv'
  BY <1>11 DEF AckWaitPasses
<1>12. ASSUME NEW t \in Tasks, Expires(t) PROVE TypeInv'
  BY <1>12 DEF Expires
<1>13. ASSUME NEW a \in Agents, Dies(a) PROVE TypeInv'
  BY <1>13 DEF Dies
<1>14. ASSUME NEW a \in Agents, Relaunched(a) PROVE TypeInv'
  BY <1>14 DEF Relaunched
<1>15. CASE UNCHANGED vars
  BY <1>15 DEF vars
<1>16. QED
  BY <1>1, <1>2, <1>3, <1>4, <1>5, <1>6, <1>7, <1>8, <1>9, <1>10, <1>11, <1>12, <1>13,
     <1>14, <1>15 DEF Next, Target

\* Every variable keeps its type, no message is delivered more than MaxDeliver
\* times, and a busy inbox loop works on a task addressed to its agent.
THEOREM TypeCorrect == Spec => []TypeOK
<1>1. TypeInv => TypeOK
  BY DEF TypeInv
<1>2. QED
  BY TypeInvInit, TypeInvNext, <1>1, PTL DEF Spec

----------------------------------------------------------------------------
(* The work queue *)

LEMMA RunsAccountedNext == TypeInv /\ RunsAccounted /\ [Next]_vars => RunsAccounted'
<1> SUFFICES ASSUME TypeInv, RunsAccounted, [Next]_vars, NEW u \in Tasks
             PROVE  /\ credit'[u] >= 0
                    /\ Running(u)' => credit'[u] >= 1
                    /\ inbox'[u] \in {"none", "ready", "taken"} /\ ~Done(u)' => credit'[u] >= 1
  BY DEF RunsAccounted
<1> DEFINE Goal == /\ credit'[u] >= 0
                   /\ Running(u)' => credit'[u] >= 1
                   /\ inbox'[u] \in {"none", "ready", "taken"} /\ ~Done(u)' => credit'[u] >= 1
<1>a. /\ credit \in [Tasks -> Int] /\ credit[u] >= 0
      /\ Running(u) => credit[u] >= 1
      /\ inbox[u] \in {"none", "ready", "taken"} /\ ~Done(u) => credit[u] >= 1
  BY DEF RunsAccounted, TypeInv, TypeOK
<1>b. /\ loop \in [Agents -> {"idle", "run", "reply", "ack"}]
      /\ cur \in [Agents -> Tasks \union {NoTask}]
      /\ inbox \in [Tasks -> InboxStates]
      /\ \A a \in Agents : loop[a] # "idle" => cur[a] \in Tasks /\ To[cur[a]] = a
      /\ To[u] \in Agents
  BY DelegationAssumption DEF TypeInv, TypeOK
<1> USE DEF Running, Done
<1>1. CASE \/ \E t \in Tasks : Refuse(t) \/ Returns(t) \/ TimesOut(t)
           \/ \E m \in replies : DeliverReply(m)
           \/ \E a \in Agents : Relaunched(a)
           \/ UNCHANGED vars
  BY <1>1, <1>a DEF Refuse, Returns, TimesOut, DeliverReply, Relaunched, vars,
                    callVars, streamVars, loopVars, histVars
<1>2. ASSUME NEW t \in Tasks, NEW p \in Tasks \union {NoTask}, NEW stored \in BOOLEAN,
             Delegate(t, p, stored)
      PROVE Goal
  <2>1. inbox[t] = "none" /\ UNCHANGED <<loop, cur, credit>>
    BY <1>2 DEF Delegate, TypeInv, DeliveriesLeft, loopVars, histVars
  <2>2. t # u => inbox'[u] = inbox[u]
    BY <1>2, <1>b DEF Delegate
  <2>3. QED
    BY <2>1, <2>2, <1>a
<1>3. ASSUME NEW a \in Agents, NEW t \in Tasks, Fetch(a, t) PROVE Goal
  BY <1>3, <1>a, <1>b DEF Fetch, histVars
<1>4. ASSUME NEW a \in Agents, NEW o \in Outcomes, RunEnds(a, o) PROVE Goal
  BY <1>4, <1>a, <1>b DEF RunEnds, streamVars
<1>5. ASSUME NEW a \in Agents, Reply(a) PROVE Goal
  BY <1>5, <1>a, <1>b DEF Reply, streamVars, histVars
<1>6. ASSUME NEW a \in Agents, \E arrives \in BOOLEAN : Ack(a, arrives) PROVE Goal
  <2>1. /\ loop[a] = "ack" /\ loop' = [loop EXCEPT ![a] = "idle"]
        /\ cur' = [cur EXCEPT ![a] = NoTask]
    BY <1>6 DEF Ack
  <2>2. \/ inbox'[u] = inbox[u] /\ u # cur[a] /\ credit'[u] = credit[u]
        \/ inbox'[u] = inbox[u] /\ u = cur[a] /\ credit'[u] = credit[u] + 1
        \/ /\ u = cur[a] /\ credit'[u] = credit[u]
           /\ inbox'[u] = IF inbox[u] # "dropped" THEN "acked" ELSE inbox[u]
    BY <1>6, AckEffect DEF TypeInv
  <2>3. QED
    BY <2>1, <2>2, <1>a, <1>b
<1>7. ASSUME NEW t \in Tasks, DeliveryMissed(t) \/ AckWaitPasses(t) \/ Expires(t) PROVE Goal
  BY <1>7, <1>a, <1>b DEF DeliveryMissed, AckWaitPasses, Expires, loopVars, histVars
<1>8. ASSUME NEW a \in Agents, Dies(a) PROVE Goal
  BY <1>8, <1>a, <1>b DEF Dies, streamVars
<1>9. QED
  BY <1>1, <1>2, <1>3, <1>4, <1>5, <1>6, <1>7, <1>8 DEF Next, Target

\* A task is run to its end once, and once more for every ack that was lost
\* (hubclient.go, processInboxMessage and runJetStreamInbox).
THEOREM RepetitionCorrect == Spec => []RepeatedOnlyAfterLostAck
<1>1. Init => RunsAccounted
  BY DEF Init, RunsAccounted, Running
<1>2. RunsAccounted => RepeatedOnlyAfterLostAck
  BY DEF RunsAccounted, RepeatedOnlyAfterLostAck
<1>3. QED
  BY <1>1, <1>2, TypeInvInit, TypeInvNext, RunsAccountedNext, PTL DEF Spec

\* No step takes back that a run has ended.
LEMMA PerformedGrows ==
  ASSUME TypeOK, [Next]_vars, NEW t \in Tasks
  PROVE  performed[t] \subseteq performed'[t]
<1>1. CASE \E a \in Agents, o \in Outcomes : RunEnds(a, o)
  BY <1>1 DEF RunEnds, TypeOK
<1>2. CASE \E a \in Agents : Reply(a) \/ Dies(a) \/ Relaunched(a)
  BY <1>2 DEF Reply, Dies, Relaunched, histVars
<1>3. CASE \E a \in Agents, arrives \in BOOLEAN : Ack(a, arrives)
  BY <1>3 DEF Ack
<1>4. CASE \/ \E p \in Tasks \union {NoTask}, stored \in BOOLEAN, u \in Tasks : Delegate(u, p, stored)
           \/ \E a \in Agents, u \in Tasks : Fetch(a, u)
           \/ \E m \in replies : DeliverReply(m)
  BY <1>4 DEF Delegate, Fetch, DeliverReply, histVars
<1>5. CASE \E u \in Tasks : \/ Refuse(u) \/ Returns(u) \/ TimesOut(u)
                          \/ DeliveryMissed(u) \/ AckWaitPasses(u) \/ Expires(u)
  BY <1>5 DEF Refuse, Returns, TimesOut, DeliveryMissed, AckWaitPasses, Expires, histVars
<1>6. CASE UNCHANGED vars
  BY <1>6 DEF vars, histVars
<1>7. QED
  BY <1>1, <1>2, <1>3, <1>4, <1>5, <1>6 DEF Next, Target

LEMMA OutcomesAreRunsNext == TypeInv /\ OutcomesAreRuns /\ [Next]_vars => OutcomesAreRuns'
<1> SUFFICES ASSUME TypeInv, OutcomesAreRuns, [Next]_vars, NEW u \in Tasks
             PROVE  /\ Done(u)' => outcome'[To[u]] \in performed'[u]
                    /\ \A m \in replies' : m.subject = ReplySubject(u) => m.out \in performed'[u]
                    /\ replyCh'[u] # "empty" => replyCh'[u] \in performed'[u]
  BY DEF OutcomesAreRuns, ReplySubject
<1> DEFINE OnTarget == Done(u)' => outcome'[To[u]] \in performed'[u]
           OnWire == \A m \in replies' : m.subject = ReplySubject(u) => m.out \in performed'[u]
           AtCaller == replyCh'[u] # "empty" => replyCh'[u] \in performed'[u]
<1>a. /\ Done(u) => outcome[To[u]] \in performed[u]
      /\ \A m \in replies : m.subject = ReplySubject(u) => m.out \in performed[u]
      /\ replyCh[u] # "empty" => replyCh[u] \in performed[u]
  BY DEF OutcomesAreRuns
<1>b. /\ loop \in [Agents -> {"idle", "run", "reply", "ack"}]
      /\ cur \in [Agents -> Tasks \union {NoTask}]
      /\ outcome \in [Agents -> Outcomes]
      /\ performed \in [Tasks -> SUBSET Outcomes]
      /\ replyCh \in [Tasks -> {"empty"} \union Outcomes]
      /\ \A a \in Agents : loop[a] # "idle" => cur[a] \in Tasks /\ To[cur[a]] = a
      /\ To[u] \in Agents
  BY DelegationAssumption DEF TypeInv, TypeOK
<1>c. performed[u] \subseteq performed'[u]
  BY PerformedGrows DEF TypeInv
<1>1. OnTarget
  <2> USE DEF Done
  <2>1. ASSUME NEW a \in Agents, NEW t \in Tasks, Fetch(a, t) PROVE OnTarget
    BY <2>1, <1>a, <1>b, <1>c DEF Fetch
  <2>2. ASSUME NEW a \in Agents, NEW o \in Outcomes, RunEnds(a, o) PROVE OnTarget
    BY <2>2, <1>a, <1>b, <1>c DEF RunEnds
  <2>3. ASSUME NEW a \in Agents, Reply(a) PROVE OnTarget
    <3>1. /\ loop[a] = "reply" /\ loop' = [loop EXCEPT ![a] = "ack"]
          /\ UNCHANGED <<cur, outcome>>
      BY <2>3 DEF Reply
    <3>2. QED
      BY <3>1, <1>a, <1>b, <1>c
  <2>4. ASSUME NEW a \in Agents, \E arrives \in BOOLEAN : Ack(a, arrives) PROVE OnTarget
    <3>1. /\ loop' = [loop EXCEPT ![a] = "idle"] /\ cur' = [cur EXCEPT ![a] = NoTask]
          /\ outcome' = [outcome EXCEPT ![a] = "ok"]
      BY <2>4 DEF Ack
    <3>2. QED
      BY <3>1, <1>a, <1>b, <1>c
  <2>5. ASSUME NEW a \in Agents, Dies(a) PROVE OnTarget
    <3>1. /\ loop' = [loop EXCEPT ![a] = "idle"] /\ cur' = [cur EXCEPT ![a] = NoTask]
          /\ outcome' = [outcome EXCEPT ![a] = "ok"]
      BY <2>5 DEF Dies
    <3>2. QED
      BY <3>1, <1>a, <1>b, <1>c
  <2>6. CASE UNCHANGED loopVars
    BY <2>6, <1>a, <1>c DEF loopVars
  <2>7. CASE \/ \E t \in Tasks : \/ Refuse(t) \/ Returns(t) \/ TimesOut(t)
                             \/ DeliveryMissed(t) \/ AckWaitPasses(t) \/ Expires(t)
             \/ \E t \in Tasks, p \in Tasks \union {NoTask}, stored \in BOOLEAN : Delegate(t, p, stored)
             \/ \E m \in replies : DeliverReply(m)
             \/ \E a \in Agents : Relaunched(a)
             \/ UNCHANGED vars
    <3>1. UNCHANGED loopVars
      BY <2>7 DEF Refuse, Returns, TimesOut, DeliveryMissed, AckWaitPasses, Expires, Delegate,
                  DeliverReply, Relaunched, vars
    <3>2. QED
      BY <2>6, <3>1
  <2>8. QED
    BY <2>1, <2>2, <2>3, <2>4, <2>5, <2>7 DEF Next, Target
<1>2. OnWire
  <2>1. ASSUME NEW a \in Agents, Reply(a) PROVE OnWire
    <3> SUFFICES ASSUME NEW m \in replies', m \notin replies, m.subject = ReplySubject(u)
                 PROVE  m.out \in performed'[u]
      BY <1>a, <1>c
    <3>1. /\ loop[a] = "reply" /\ cur[a] \in Tasks
          /\ m = [subject |-> ReplySubject(cur[a]), out |-> outcome[a]]
      BY <2>1, <1>b DEF Reply
    <3>2. cur[a] = u
      BY <3>1 DEF ReplySubject
    <3>3. Done(u) /\ To[u] = a
      BY <3>1, <3>2, <1>b DEF Done
    <3>4. QED
      BY <3>1, <3>3, <1>a, <1>c
  <2>2. ASSUME replies' \subseteq replies PROVE OnWire
    BY <2>2, <1>a, <1>c
  <2>3. CASE \/ \E a \in Agents : Dies(a) \/ Relaunched(a)
             \/ \E a \in Agents, o \in Outcomes : RunEnds(a, o)
             \/ \E a \in Agents, arrives \in BOOLEAN : Ack(a, arrives)
             \/ \E a \in Agents, t \in Tasks : Fetch(a, t)
    <3>1. replies' \subseteq replies
      BY <2>3 DEF Dies, Relaunched, RunEnds, Ack, Fetch
    <3>2. QED
      BY <2>2, <3>1
  <2>4. CASE \/ \E t \in Tasks : \/ Refuse(t) \/ Returns(t) \/ TimesOut(t)
                             \/ DeliveryMissed(t) \/ AckWaitPasses(t) \/ Expires(t)
             \/ \E t \in Tasks, p \in Tasks \union {NoTask}, stored \in BOOLEAN : Delegate(t, p, stored)
             \/ \E m \in replies : DeliverReply(m)
             \/ UNCHANGED vars
    <3>1. replies' \subseteq replies
      BY <2>4 DEF Refuse, Returns, TimesOut, DeliveryMissed, AckWaitPasses, Expires, Delegate,
                  DeliverReply, vars
    <3>2. QED
      BY <2>2, <3>1
  <2>5. QED
    BY <2>1, <2>3, <2>4 DEF Next, Target
<1>3. AtCaller
  <2>1. ASSUME NEW m \in replies, DeliverReply(m) PROVE AtCaller
    BY <2>1, <1>a, <1>c DEF DeliverReply
  <2>2. ASSUME replyCh'[u] \in {replyCh[u], "empty"} PROVE AtCaller
    BY <2>2, <1>a, <1>c
  <2>3. CASE \/ \E t \in Tasks : Returns(t) \/ TimesOut(t)
             \/ \E a \in Agents : Dies(a)
    <3>1. replyCh'[u] \in {replyCh[u], "empty"}
      BY <2>3, <1>b DEF Returns, TimesOut, Dies
    <3>2. QED
      BY <2>2, <3>1
  <2>4. CASE \/ \E t \in Tasks : \/ Refuse(t) \/ DeliveryMissed(t) \/ AckWaitPasses(t) \/ Expires(t)
             \/ \E t \in Tasks, p \in Tasks \union {NoTask}, stored \in BOOLEAN : Delegate(t, p, stored)
             \/ \E a \in Agents : Relaunched(a) \/ Reply(a)
             \/ \E a \in Agents, o \in Outcomes : RunEnds(a, o)
             \/ \E a \in Agents, arrives \in BOOLEAN : Ack(a, arrives)
             \/ \E a \in Agents, t \in Tasks : Fetch(a, t)
             \/ UNCHANGED vars
    <3>1. replyCh' = replyCh
      BY <2>4 DEF Refuse, DeliveryMissed, AckWaitPasses, Expires, Delegate, Relaunched, Reply,
                  RunEnds, Ack, Fetch, callVars, vars
    <3>2. QED
      BY <2>2, <3>1
  <2>5. QED
    BY <2>1, <2>3, <2>4 DEF Next, Target
<1>4. QED
  BY <1>1, <1>2, <1>3

LEMMA AckedWasRunNext ==
  TypeInv /\ OutcomesAreRuns /\ AckedWasRun /\ [Next]_vars => AckedWasRun'
<1> SUFFICES ASSUME TypeInv, OutcomesAreRuns, AckedWasRun, [Next]_vars,
                    NEW u \in Tasks, inbox'[u] = "acked", inbox[u] # "acked"
             PROVE  performed'[u] # {}
  BY PerformedGrows DEF AckedWasRun, TypeInv
<1>1. inbox \in [Tasks -> InboxStates]
  BY DEF TypeInv, TypeOK
<1>2. ASSUME NEW a \in Agents, \E arrives \in BOOLEAN : Ack(a, arrives) PROVE performed'[u] # {}
  <2>1. u = cur[a] /\ loop[a] = "ack" /\ To[u] = a
    BY <1>2, AckEffect DEF Ack, TypeInv, TypeOK
  <2>2. performed[u] # {}
    BY <2>1 DEF OutcomesAreRuns, Done
  <2>3. QED
    BY <2>2, PerformedGrows DEF TypeInv
<1>3. CASE \E t \in Tasks : DeliveryMissed(t) \/ AckWaitPasses(t) \/ Expires(t)
  BY <1>1, <1>3 DEF DeliveryMissed, AckWaitPasses, Expires
<1>4. CASE \E a \in Agents, t \in Tasks : Fetch(a, t)
  BY <1>1, <1>4 DEF Fetch
<1>5. CASE \E t \in Tasks, p \in Tasks \union {NoTask}, stored \in BOOLEAN : Delegate(t, p, stored)
  BY <1>1, <1>5 DEF Delegate
<1>6. CASE \/ \E t \in Tasks : Refuse(t) \/ Returns(t) \/ TimesOut(t)
           \/ \E m \in replies : DeliverReply(m)
           \/ \E a \in Agents : Reply(a) \/ Dies(a) \/ Relaunched(a)
           \/ \E a \in Agents, o \in Outcomes : RunEnds(a, o)
           \/ UNCHANGED vars
  BY <1>6 DEF Refuse, Returns, TimesOut, DeliverReply, Reply, Dies, Relaunched, RunEnds,
              streamVars, vars
<1>7. QED
  BY <1>2, <1>3, <1>4, <1>5, <1>6 DEF Next, Target

\* The work queue gives up a message by an ack only when a run of its task has
\* ended (hubclient.go, processInboxMessage before msg.Ack).
THEOREM AckedCorrect == Spec => []AckedWasRun
<1>1. Init => OutcomesAreRuns /\ AckedWasRun
  BY DelegationAssumption DEF Init, OutcomesAreRuns, AckedWasRun, Done
<1>2. QED
  BY <1>1, TypeInvInit, TypeInvNext, OutcomesAreRunsNext, AckedWasRunNext, PTL DEF Spec

----------------------------------------------------------------------------
(* The contract *)

LEMMA ToldValues ==
  /\ Told("none") = "none" /\ Told("waiting") = "asked" /\ Told("failed") = "failed"
  /\ \A o \in Outcomes : Told(o) = o
  /\ "none" \notin Outcomes /\ "waiting" \notin Outcomes /\ "failed" \notin Outcomes
BY DelegationAssumption DEF Told, Finished

LEMMA ContractInit == Init => Contract!Init
<1> SUFFICES ASSUME Init PROVE Contract!Init
  OBVIOUS
<1>1. \A t \in Tasks : Told(call[t]) = "none"
  BY ToldValues DEF Init
<1>2. QED
  BY <1>1 DEF Init, Contract!Init

\* Each step of the tools, the queue, the loops and the processes is a step of
\* the contract, or does not show in it.
LEMMA ContractNext ==
  TypeInv /\ OutcomesAreRuns /\ [Next]_vars => [Contract!Next]_(Contract!vars)
<1> SUFFICES ASSUME TypeInv, OutcomesAreRuns, [Next]_vars
             PROVE  Contract!Next \/ UNCHANGED Contract!vars
  OBVIOUS
<1> DEFINE Goal == Contract!Next \/ UNCHANGED Contract!vars
<1>a. /\ call \in [Tasks -> {"none", "waiting"} \union Finished]
      /\ performed \in [Tasks -> SUBSET Outcomes]
  BY DEF TypeInv, TypeOK
<1>1. ASSUME UNCHANGED <<call, performed>> PROVE Goal
  BY <1>1 DEF Contract!vars
<1>2. ASSUME NEW t \in Tasks, Refuse(t) \/ TimesOut(t) PROVE Goal
  <2>1. /\ call[t] \in {"none", "waiting"} /\ call' = [call EXCEPT ![t] = "failed"]
        /\ performed' = performed
    BY <1>2 DEF Refuse, TimesOut, histVars
  <2>2. Contract!GiveUp({t})
    BY <2>1, <1>a, ToldValues DEF Contract!GiveUp
  <2>3. QED
    BY <2>2 DEF Contract!Next
<1>3. ASSUME NEW t \in Tasks, NEW p \in Tasks \union {NoTask}, NEW stored \in BOOLEAN,
             Delegate(t, p, stored)
      PROVE Goal
  <2>1. call[t] = "none" /\ call' = [call EXCEPT ![t] = "waiting"] /\ performed' = performed
    BY <1>3 DEF Delegate, histVars
  <2>2. Contract!Ask(t)
    BY <2>1, <1>a, ToldValues DEF Contract!Ask
  <2>3. QED
    BY <2>2 DEF Contract!Next
<1>4. ASSUME NEW t \in Tasks, Returns(t) PROVE Goal
  <2>1. /\ call[t] = "waiting" /\ replyCh[t] # "empty"
        /\ call' = [call EXCEPT ![t] = replyCh[t]] /\ performed' = performed
    BY <1>4 DEF Returns, histVars
  <2>2. replyCh[t] \in Outcomes /\ replyCh[t] \in performed[t]
    BY <2>1, <1>a DEF OutcomesAreRuns
  <2>3. Contract!Answer(t, replyCh[t])
    BY <2>1, <2>2, <1>a, ToldValues DEF Contract!Answer
  <2>4. QED
    BY <2>2, <2>3 DEF Contract!Next
<1>5. ASSUME NEW a \in Agents, NEW o \in Outcomes, RunEnds(a, o) PROVE Goal
  <2>1. /\ cur[a] \in Tasks /\ call[cur[a]] # "none" /\ call' = call
        /\ performed' = [performed EXCEPT ![cur[a]] = @ \union {o}]
    BY <1>5 DEF RunEnds, TypeInv, TypeOK, DeliveriesLeft, Running, callVars
  <2>2. Told(call[cur[a]]) # "none"
    BY <2>1, <1>a, ToldValues DEF Finished
  <2>3. Contract!Perform(cur[a], o)
    BY <2>1, <2>2, <1>a DEF Contract!Perform
  <2>4. QED
    BY <2>1, <2>3 DEF Contract!Next
<1>6. ASSUME NEW a \in Agents, Dies(a) PROVE Goal
  <2> DEFINE Lost == {t \in Tasks : From[t] = a /\ call[t] = "waiting"}
  <2>1. /\ call' = [t \in Tasks |-> IF t \in Lost THEN "failed" ELSE call[t]]
        /\ performed' = performed
    BY <1>6 DEF Dies
  <2>2. Contract!GiveUp(Lost)
    BY <2>1, <1>a, ToldValues DEF Contract!GiveUp
  <2>3. QED
    BY <2>2 DEF Contract!Next
<1>7. CASE \/ \E m \in replies : DeliverReply(m)
           \/ \E a \in Agents, t \in Tasks : Fetch(a, t)
           \/ \E a \in Agents : Reply(a) \/ Relaunched(a)
           \/ \E a \in Agents, arrives \in BOOLEAN : Ack(a, arrives)
  <2>1. UNCHANGED <<call, performed>>
    BY <1>7 DEF DeliverReply, Fetch, Reply, Relaunched, Ack, callVars, histVars
  <2>2. QED
    BY <1>1, <2>1
<1>8. CASE \/ \E t \in Tasks : DeliveryMissed(t) \/ AckWaitPasses(t) \/ Expires(t)
           \/ UNCHANGED vars
  <2>1. UNCHANGED <<call, performed>>
    BY <1>8 DEF DeliveryMissed, AckWaitPasses, Expires, vars, callVars, histVars
  <2>2. QED
    BY <1>1, <2>1
<1>9. QED
  BY <1>2, <1>3, <1>4, <1>5, <1>6, <1>7, <1>8 DEF Next, Target

\* What agent_delegate does over the queue and the inbox loops implements the
\* contract: a result or an error that is reported belongs to a run of this task.
THEOREM ContractCorrect == Spec => ContractKept
<1>1. Init => OutcomesAreRuns
  BY DelegationAssumption DEF Init, OutcomesAreRuns, Done
<1>2. QED
  BY <1>1, TypeInvInit, TypeInvNext, OutcomesAreRunsNext, ContractInit, ContractNext, PTL
     DEF Spec, ContractKept, Contract!Spec
=============================================================================
