---------------------------- MODULE MCSupervisor ----------------------------
(* Small instances of Supervisor for TLC. *)
EXTENDS Supervisor, TLC

OneConfigured == [i \in 1..1 |-> "main"]
NoneConfigured == <<>>
TwoProcs == 1..2
CallerSymmetry == Permutations(Callers)
=============================================================================
