---------------------------- MODULE SearchSystem ----------------------------
(***************************************************************************)
(* The Search tab and the worker, each on its own thread.  MainWindow's    *)
(* wiring puts an event queue between them in either direction: `inbox`    *)
(* takes slot calls to the worker, `toUi` takes its signals back.  The     *)
(* panel therefore always acts on an old view of the worker.               *)
(***************************************************************************)
EXTENDS EcWorker

CONSTANTS UiBound,    \* bound: signals queued for the UI thread (Qt has none)
          Elsewhere   \* slots the rest of the UI calls

ASSUME ElsewhereAssumption == Elsewhere \subseteq Ops \ {"search", "stopSearch", "shutdown"}
ASSUME TabsAreQueries == Queries \subseteq Nat \ {0} /\ NoQuery = 0

VARIABLES opened, open, liveView, rows, progressBar,  \* the panel
          toUi                                        \* signals on their way to it

Panel == INSTANCE SearchPanel WITH Tabs <- Queries

panel == <<opened, open, liveView, rows, progressBar>>
sysVars == <<vars, panel, toUi>>

\* What the panel is connected to: the signals of one step of a slot.
Signal == [searching : {"-", "on", "off"}, results : {"-", "list"},
           query : Queries \cup {NoQuery}]
News(e) == [searching |-> e.searching, results |-> e.results, query |-> e.query]
Silence == News(Quiet)

SysTypeOK == Panel!TypeOK /\ toUi \in Seq(Signal)

\* Seeded fault: the panel's slots are called directly, overtaking older signals.
DeliverDirect ==
  IF News(emitted') = Silence THEN UNCHANGED toUi ELSE toUi' = <<News(emitted')>> \o toUi

\* Signals cross to the UI thread in the order they were emitted.
Deliver ==
  IF News(emitted') = Silence THEN UNCHANGED toUi ELSE toUi' = Append(toUi, News(emitted'))

\* Any step of the worker or of the world around it.  Searches are numbered as
\* they are executed, so no daemon has run a later one than the worker asked for;
\* what others searched there counts as an earlier one, or as none.
WorkerStep ==
  /\ Slot \/ Exchange \/ Tick \/ PeerDies \/ GraceElapses \/ ProgressMoves
  /\ found' <= wanted'
  /\ Deliver /\ Len(toUi') <= UiBound /\ UNCHANGED panel

\* The user presses Search; startSearch is queued.
UserSearches ==
  \E q \in Queries :
    /\ Panel!OnSearch(q) /\ Post([op |-> "search", query |-> q]) /\ UNCHANGED toUi

\* Seeded fault: a search goes on after its tab is closed.
UserClosesTabOnly ==
  \E t \in open :
    /\ Panel!OnTabClose(t) /\ UNCHANGED <<vars, toUi>>

\* Closing the live tab stops its search.
UserClosesTab ==
  \E t \in open :
    /\ Panel!OnTabClose(t) /\ UNCHANGED toUi
    /\ IF t = liveView THEN Post([op |-> "stopSearch", query |-> NoQuery])
                       ELSE UNCHANGED vars

UserElsewhere ==
  /\ \E op \in Elsewhere : Post([op |-> op, query |-> NoQuery])
  /\ UNCHANGED <<panel, toUi>>

\* What is left of the queue once one signal of its first entry is delivered.
Without(s) == IF s = Silence THEN Tail(toUi) ELSE <<s>> \o Tail(toUi)

\* startSearch emits searchingChanged(true) before the empty list...
UiSetsSearching ==
  /\ toUi # <<>> /\ UNCHANGED vars
  /\ LET s == Head(toUi) IN
       /\ s.searching = "on" \/ (s.searching = "off" /\ s.results = "-")
       /\ Panel!SetSearching(s.searching = "on")
       /\ toUi' = Without([s EXCEPT !.searching = "-"])

\* ...and onRefresh the list before searchingChanged(false).
UiSetsResults ==
  /\ toUi # <<>> /\ UNCHANGED vars
  /\ LET s == Head(toUi) IN
       /\ s.results = "list" /\ s.searching # "on"
       /\ Panel!SetResults(s.query)
       /\ toUi' = Without([s EXCEPT !.results = "-", !.query = NoQuery])

SysInit == Init /\ Panel!Init /\ toUi = <<>>

SysNext == WorkerStep \/ UserSearches \/ UserClosesTab \/ UserElsewhere
           \/ UiSetsSearching \/ UiSetsResults

SysSpec == SysInit /\ [][SysNext]_sysVars

(* ------------------------------ properties ------------------------------ *)

\* A result tab never shows results of a search executed after its own: the
\* worker reports those only once the newer tab has become the live one.
NoLaterResults == \A t \in Queries : rows[t] <= t

\* Once the worker has taken up the live tab's search and the panel has caught
\* up with it, the tab shows nothing left over from an earlier search - unless
\* the search was taken to another daemon, or replies ran behind.
SettledTabShowsOwn ==
  liveView # 0 /\ wanted = liveView /\ toUi = <<>> /\ ~strayed
    => rows[liveView] \in {0, liveView}

\* Closing the live tab stops its search: the worker polls for a tab that is
\* gone only until it has served what is queued.
ClosedTabStops ==
  liveView = 0 /\ inbox = <<>> => ~searching

\* The panel's progress bar, once it has caught up, tells whether the worker
\* is searching.
ProgressBarTrue == toUi = <<>> => (progressBar <=> searching)

=============================================================================
