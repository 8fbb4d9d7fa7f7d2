----------------------------- MODULE SearchPanel ----------------------------
(***************************************************************************)
(* The Search tab of the UI thread: one result tab per executed search, of *)
(* which the most recent, while it is open, is the live one.  Tabs are     *)
(* numbered in the order of their searches, and a result list is named by  *)
(* the search it comes from (0: no results).                               *)
(*                                                                         *)
(* The operations here are the handlers of SearchPanel; SearchSystem calls *)
(* them and carries their signals to the worker.                           *)
(***************************************************************************)
EXTENDS Naturals

CONSTANT Tabs          \* bound: searches of one run of the program, 1..n

VARIABLES opened,      \* searches executed so far
          open,        \* tabs that are still open
          liveView,    \* liveView_ (0: none)
          rows,        \* the result list each tab shows
          progressBar  \* the progress bar is visible

TypeOK ==
  /\ opened \in Tabs \cup {0} /\ open \in SUBSET Tabs
  /\ liveView \in open \cup {0} /\ progressBar \in BOOLEAN
  /\ rows \in [Tabs -> Tabs \cup {0}]

Init ==
  /\ opened = 0 /\ open = {} /\ liveView = 0 /\ progressBar = FALSE
  /\ rows = [t \in Tabs |-> 0]

\* onSearch: the new tab is the live one, whether or not a worker is connected.
OnSearch(t) ==
  /\ t = opened + 1 /\ t \in Tabs
  /\ opened' = t /\ open' = open \cup {t} /\ liveView' = t
  /\ UNCHANGED <<rows, progressBar>>

\* onTabClose.
OnTabClose(t) ==
  /\ t \in open /\ open' = open \ {t}
  /\ liveView' = IF t = liveView THEN 0 ELSE liveView
  /\ UNCHANGED <<opened, rows, progressBar>>

\* Seeded fault: results are shown in every tab.
SetResultsEverywhere(q) ==
  /\ rows' = [t \in Tabs |-> IF t \in open THEN q ELSE rows[t]]
  /\ UNCHANGED <<opened, open, liveView, progressBar>>

\* setResults: whatever comes is taken for the live tab's.
SetResults(q) ==
  /\ rows' = IF liveView = 0 THEN rows ELSE [rows EXCEPT ![liveView] = q]
  /\ UNCHANGED <<opened, open, liveView, progressBar>>

SetSearching(on) ==
  /\ progressBar' = on
  /\ UNCHANGED <<opened, open, liveView, rows>>

=============================================================================
