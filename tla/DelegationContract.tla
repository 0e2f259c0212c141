------------------------- MODULE DelegationContract -------------------------
(***************************************************************************)
(* What agent_delegate promises, without streams, replies and processes:   *)
(* a call is answered at most once; a result or an error it reports is     *)
(* that of a run of this very task by the target; it may give up at any    *)
(* time, and the task may then still be performed, even more than once.    *)
(***************************************************************************)
CONSTANTS Tasks, Outcomes

VARIABLES
  answer,     \* "none", "asked", an outcome, or "failed" (refused, timed out, died)
  performed   \* the outcomes of the completed runs of a task

vars == <<answer, performed>>

Init ==
  /\ answer = [t \in Tasks |-> "none"]
  /\ performed = [t \in Tasks |-> {}]

Ask(t) ==
  /\ answer[t] = "none"
  /\ answer' = [answer EXCEPT ![t] = "asked"]
  /\ UNCHANGED performed

Perform(t, o) ==
  /\ answer[t] # "none"
  /\ performed' = [performed EXCEPT ![t] = @ \union {o}]
  /\ UNCHANGED answer

Answer(t, o) ==
  /\ answer[t] = "asked"
  /\ o \in performed[t]
  /\ answer' = [answer EXCEPT ![t] = o]
  /\ UNCHANGED performed

\* Calls fail one by one, or together when the process that made them dies.
GiveUp(S) ==
  /\ \A t \in S : answer[t] \in {"none", "asked"}
  /\ answer' = [t \in Tasks |-> IF t \in S THEN "failed" ELSE answer[t]]
  /\ UNCHANGED performed

Next ==
  \/ \E t \in Tasks : Ask(t)
  \/ \E t \in Tasks, o \in Outcomes : Perform(t, o)
  \/ \E t \in Tasks, o \in Outcomes : Answer(t, o)
  \/ \E S \in SUBSET Tasks : GiveUp(S)

Spec == Init /\ [][Next]_vars
=============================================================================
