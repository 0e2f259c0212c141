----------------------------- MODULE MCRegistry -----------------------------
(* Small instances of Registry for TLC. *)
EXTENDS Registry

\* One publisher that sends an id, as registry_test.go does, and one that is
\* the program's own HubClient.
TestAndHubClient ==
  [p \in Publishers |-> IF p = "test" THEN [id |-> "main"] ELSE hubRegistration("main")]
=============================================================================
