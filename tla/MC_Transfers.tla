---------------------------- MODULE MC_Transfers ----------------------------
(***************************************************************************)
(* Transfers for TLC, with what mainwindow.cpp says of clearing.           *)
(***************************************************************************)
EXTENDS Transfers, TLC

Symmetry == Permutations(Files) \cup Permutations(Ids)

\* mainwindow.cpp: a finished download "is kept on screen (retained) until the
\* user clears completed downloads".  So, with everything settled, a completed
\* row the daemon no longer has is one the user has not cleared (or deleted)
\* since it was last reported.
ClearedIsGone ==
  link /\ ~stale /\ toWorker = <<>> /\ toUi = <<>>
    => \A r \in rows : r.finished /\ queue[r.file] = "absent" => r.file \in owed

=============================================================================
