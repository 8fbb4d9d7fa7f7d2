---------------------------- MODULE MC_EcWorker ----------------------------
(***************************************************************************)
(* EcWorker for TLC, with what ADR-0004 says of timeouts.                  *)
(***************************************************************************)
EXTENDS EcWorker, TLC

Symmetry == Permutations(Queries)

\* ADR-0004: "on loss/timeout the worker emits an error/disconnected state and
\* returns to idle", so a connection in use never has a timeout behind it.
TimeoutEndsLink == client /\ pc = "idle" => swallowed = 0

=============================================================================
