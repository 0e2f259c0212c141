---------------------------- MODULE MCDelegation ----------------------------
(* Small instances of Delegation for TLC. *)
EXTENDS Delegation

\* Agent a asks b and itself, possibly at the same time.
OneCaller == [t \in Tasks |-> "a"]
PeerAndSelf == [t \in Tasks |-> IF t = "t1" THEN "b" ELSE "a"]

\* Agent b asks a, whose inbox loop may run that task and ask itself: a loop
\* that waits for a task only it could run.
CallerAndTarget == [t \in Tasks |-> IF t = "t1" THEN "b" ELSE "a"]
AllToA == [t \in Tasks |-> "a"]
=============================================================================
