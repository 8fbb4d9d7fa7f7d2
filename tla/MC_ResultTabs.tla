---------------------------- MODULE MC_ResultTabs ---------------------------
(* ResultTabs for TLC: two files, of which b gains and loses a complete      *)
(* source, and filters by sources, by completeness and by name.              *)
EXTENDS ResultTabs

CONSTANTS a, b

Found == {[hash |-> a, sourceCount |-> 1, completeSourceCount |-> 0],
          [hash |-> b, sourceCount |-> 1, completeSourceCount |-> 0],
          [hash |-> b, sourceCount |-> 2, completeSourceCount |-> 1]}

AnyFilter == [names |-> Hashes, onlyComplete |-> FALSE, minSources |-> 0, maxSources |-> 0]
FilterSettings == {AnyFilter,
                   [AnyFilter EXCEPT !.onlyComplete = TRUE, !.minSources = 1],
                   [AnyFilter EXCEPT !.names = {b}, !.maxSources = 1]}

=============================================================================
