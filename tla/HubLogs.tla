------------------------------- MODULE HubLogs ------------------------------
(***************************************************************************)
(* The two logs the hub keeps: what its agents print (AgentLogs), and the  *)
(* audit of its bus (AuditLog).                                            *)
(***************************************************************************)
EXTENDS AgentLogs, AuditLog

\* The lines of the two logs arrive whole, in order and once: a follower of the
\* agents gets what they wrote, a reader of the audit log what was entered.
LogsKept == FollowerGetsLines /\ EntriesReadBack
=============================================================================
