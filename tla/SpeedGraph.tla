------------------------------ MODULE SpeedGraph ---------------------------
(***************************************************************************)
(* The samples of the speed graph and the file they are kept in between    *)
(* two runs of the program.  down_ and up_ grow and shrink together, so a  *)
(* sample stands for one value of each; it is named by the connection that *)
(* it was measured on.                                                     *)
(***************************************************************************)
EXTENDS Naturals, Sequences

CONSTANT MaxSamples  \* kMaxSamples

ASSUME MaxSamplesAssumption == MaxSamples \in Nat

VARIABLES samples,   \* down_ and up_
          saved,     \* speed_history.dat, <<>> also when there is none
          loaded     \* history: load has read the file, or there was none

graph == <<samples, saved, loaded>>

\* removeFirst() until no more than kMaxSamples are left.
Latest(list) ==
  IF Len(list) > MaxSamples THEN SubSeq(list, Len(list) - MaxSamples + 1, Len(list)) ELSE list

AddSample(s) == samples' = Latest(Append(samples, s)) /\ UNCHANGED <<saved, loaded>>
Clear == samples' = <<>> /\ UNCHANGED <<saved, loaded>>

\* save: the file is replaced as a whole (QSaveFile), or not at all.
AfterSave == {samples, saved}

\* load into an empty graph, which stays empty when the file cannot be opened or
\* does not begin with kMagic.
Load ==
  /\ UNCHANGED saved
  /\ \/ samples' = Latest(saved) /\ loaded' = TRUE
     \/ samples' = <<>> /\ loaded' = FALSE

=============================================================================
