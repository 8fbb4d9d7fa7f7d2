--------------------------- MODULE MC_SourceTable --------------------------
(* SourceTable for TLC. *)
EXTENDS SourceTable, TLC

Symmetry == Permutations(Files)

=============================================================================
