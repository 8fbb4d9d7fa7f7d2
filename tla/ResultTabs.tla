------------------------------ MODULE ResultTabs ---------------------------
(***************************************************************************)
(* The result tabs of the Search panel, each a table behind a filter proxy *)
(* (SearchResultFilterProxy): what is shown, selected and anchored, and    *)
(* what Download would ask the daemon for.  One row of filter widgets and  *)
(* one "anchor selected" box serve all the tabs.  The worker's result      *)
(* lists come in at any time; SearchSystem has the rest of the search.     *)
(*                                                                         *)
(* Rows are those of the source model.  Which names a filter's text        *)
(* matches, as text, glob or regular expression, negated or not, is a set  *)
(* of hashes: a result keeps its name.                                     *)
(***************************************************************************)
EXTENDS TableView, FiniteSets

CONSTANTS Tabs,      \* bound: searches of one run of the program, 1..n
          Hashes,    \* hashes of files found
          Results,   \* result records the daemon may report
          Filters    \* settings of the filter row

Filter == [names : SUBSET Hashes, onlyComplete : BOOLEAN, minSources : Nat, maxSources : Nat]
Result == [hash : Hashes, sourceCount : Nat, completeSourceCount : Nat]

ASSUME TabsAssumption == Tabs \subseteq Nat \ {0}
ASSUME HashesAssumption == IsFiniteSet(Hashes)
ASSUME FiltersAssumption == Filters \subseteq Filter /\ Filters # {}
ASSUME ResultsAssumption == Results \subseteq Result

VARIABLES
  opened,       \* searches executed so far
  open,         \* tabs that are still open
  current,      \* the tab in front (0: none)
  liveView,     \* liveView_ (0: none)
  tab,          \* what each tab has
  filterRow,    \* the filter widgets
  anchorCheck,  \* the "anchor selected" box
  downloadBtn,  \* the Download button is enabled
  menu          \* what an open context menu's "Download" asks for

bar == <<opened, open, current, liveView>>
widgets == <<filterRow, anchorCheck>>
vars == <<bar, tab, widgets, downloadBtn, menu>>

(* results: results_; filter, anchored, anchorOn: the proxy's; selected: the  *)
(* rows of the selection.  History: picked, the results the user selected     *)
(* last, and unseen, whether rows have left the selection without a signal    *)
(* since the anchors were set.                                                *)
TabState == [results : Seq(Results), filter : Filters, selected : SUBSET Nat,
             anchored : SUBSET Nat, anchorOn : BOOLEAN,
             picked : SUBSET Hashes, unseen : BOOLEAN]

\* A tab that is not there.
EmptyTab == [results |-> <<>>, filter |-> CHOOSE f \in Filters : TRUE, selected |-> {},
             anchored |-> {}, anchorOn |-> FALSE, picked |-> {}, unseen |-> FALSE]

TypeOK ==
  /\ opened \in Tabs \cup {0} /\ open \subseteq Tabs \cap 1..opened
  /\ current \in open \cup {0} /\ (current = 0 <=> open = {})
  /\ liveView \in open \cup {0}
  /\ tab \in [Tabs -> TabState]
  /\ \A t \in Tabs : tab[t].selected \subseteq 1..Len(tab[t].results)
  /\ filterRow \in Filters /\ anchorCheck \in BOOLEAN /\ downloadBtn \in BOOLEAN
  /\ menu \subseteq Hashes

(* --------------------------------- proxy -------------------------------- *)

\* filterAcceptsRow.
FilterAccepts(f, r) ==
  /\ f.onlyComplete => r.completeSourceCount # 0
  /\ f.minSources > 0 => r.sourceCount >= f.minSources
  /\ f.maxSources > 0 => r.sourceCount <= f.maxSources
  /\ r.hash \in f.names

Accepted(w) == {r \in 1..Len(w.results) : FilterAccepts(w.filter, w.results[r])}

\* What is left selected when rows leave the proxy.
Pruned(w) == [w EXCEPT !.selected = @ \cap Accepted(w)]

\* The proxy is rebuilt (invalidate): the selection shrinks and nobody is told.
Rebuilt(w) == [Pruned(w) EXCEPT !.unseen = w.unseen \/ Pruned(w) # w]

\* setSearchFilter.
SetSearchFilter(w) == Rebuilt([w EXCEPT !.filter = filterRow'])

\* Seeded fault: turning the box off leaves the anchors.
UpdateAnchorOnly(w) ==
  IF anchorCheck' THEN [w EXCEPT !.anchored = w.selected, !.anchorOn = TRUE, !.unseen = FALSE] ELSE w

\* updateAnchor and setAnchored.
UpdateAnchor(w) ==
  [w EXCEPT !.anchored = IF anchorCheck' THEN w.selected ELSE {},
            !.anchorOn = anchorCheck', !.unseen = FALSE]

(* --------------------------------- panel -------------------------------- *)

\* updateDownloadEnabled, in the state that the rest of the step leads to.
UpdateDownloadEnabled ==
  downloadBtn' = (current' # 0 /\ current' = liveView' /\ tab'[current'].selected # {})

\* Seeded fault: the tab that comes to the front keeps the filter it had.
ComesToFrontUnfiltered(w) == UpdateAnchor(w)

\* onCurrentTabChanged, for the tab that is in front now.
ComesToFront(w) == UpdateAnchor(SetSearchFilter(w))

\* onSearch: makeResultTab puts the new tab in front, then it is the live one.
OnSearch(t) ==
  /\ t = opened + 1 /\ t \in Tabs
  /\ opened' = t /\ open' = open \cup {t} /\ current' = t /\ liveView' = t
  /\ UNCHANGED widgets
  /\ tab' = [tab EXCEPT ![t] = ComesToFront(@)]
  /\ UpdateDownloadEnabled

Keys(list) == [i \in DOMAIN list |-> list[i].hash]
ViewOf(w) == [keys |-> Keys(w.results), selected |-> w.selected, current |-> 0]

\* setResults.  In place, rows the proxy takes out leave the selection with a
\* signal, on which the button and the anchors are updated; a reset sends none.
SetResults(list) ==
  /\ liveView # 0 /\ UNCHANGED <<bar, widgets>>
  /\ LET w == tab[liveView]
         filled == [w EXCEPT !.results = list,
                             !.selected = Filled(ViewOf(w), Keys(list)).selected]
     IN IF Pruned(filled) = filled
        THEN /\ tab' = [tab EXCEPT ![liveView] =
                          [filled EXCEPT !.unseen = @ \/ filled.selected # w.selected]]
             /\ UNCHANGED downloadBtn
        ELSE /\ tab' = [tab EXCEPT ![liveView] = UpdateAnchor(Pruned(filled))]
             /\ UpdateDownloadEnabled

\* onFilterChanged: any widget of the filter row.
OnFilterChanged ==
  /\ filterRow' \in Filters \ {filterRow} /\ UNCHANGED <<bar, anchorCheck, downloadBtn>>
  /\ tab' = IF current = 0 THEN tab ELSE [tab EXCEPT ![current] = SetSearchFilter(@)]

OnAnchorToggled ==
  /\ anchorCheck' = ~anchorCheck /\ UNCHANGED <<bar, filterRow, downloadBtn>>
  /\ tab' = IF current = 0 THEN tab ELSE [tab EXCEPT ![current] = UpdateAnchor(@)]

\* The user selects any of the rows shown, or none.
Select ==
  /\ current # 0 /\ UNCHANGED <<bar, widgets>>
  /\ LET w == tab[current]
     IN \E S \in SUBSET Accepted(w) \ {w.selected} :
          tab' = [tab EXCEPT ![current] =
                    UpdateAnchor([w EXCEPT !.selected = S,
                                           !.picked = {w.results[r].hash : r \in S}])]
  /\ UpdateDownloadEnabled

\* onCurrentTabChanged.
OnCurrentTabChanged(t) ==
  /\ t \in open \ {current} /\ current' = t
  /\ UNCHANGED <<opened, open, liveView, widgets>>
  /\ tab' = [tab EXCEPT ![t] = ComesToFront(@)]
  /\ UpdateDownloadEnabled

\* Seeded fault: the button is not updated when a tab is gone.
OnTabCloseButtonKept(t) ==
  /\ t \in open /\ open' = open \ {t} /\ UNCHANGED <<opened, widgets, downloadBtn>>
  /\ liveView' = IF t = liveView THEN 0 ELSE liveView
  /\ current' \in IF t # current THEN {current} ELSE IF open' = {} THEN {0} ELSE open'
  /\ tab' = [u \in Tabs |-> IF u = t THEN EmptyTab ELSE tab[u]]

\* onTabClose.  Closing the tab in front brings another one there; Qt reports a
\* change of the front tab's index too, when a tab to the left of it is closed.
OnTabClose(t) ==
  /\ t \in open /\ open' = open \ {t} /\ UNCHANGED <<opened, widgets>>
  /\ liveView' = IF t = liveView THEN 0 ELSE liveView
  /\ current' \in IF t # current THEN {current} ELSE IF open' = {} THEN {0} ELSE open'
  /\ LET rest == [tab EXCEPT ![t] = EmptyTab]
     IN \/ t # current /\ tab' = rest
        \/ tab' = IF current' = 0 THEN rest ELSE [rest EXCEPT ![current'] = ComesToFront(@)]
  /\ UpdateDownloadEnabled

\* onDownload, of the button, a double click and the menu's "Download selected":
\* the hashes it asks the daemon for.
OnDownload ==
  IF current = 0 \/ current # liveView THEN {}
  ELSE {tab[current].results[r].hash : r \in tab[current].selected}

\* onResultContextMenu, up to menu.exec: what was clicked and whether the tab is
\* the live one are read here and used when the menu closes.  (In other tabs the
\* menu downloads nothing.)
OnResultContextMenu ==
  /\ menu = {} /\ current # 0 /\ current = liveView
  /\ \E r \in Accepted(tab[current]) : menu' = {tab[current].results[r].hash}
  /\ UNCHANGED <<bar, tab, widgets, downloadBtn>>

\* An entry is chosen, or none.
MenuCloses == menu # {} /\ menu' = {} /\ UNCHANGED <<bar, tab, widgets, downloadBtn>>

(* ----------------------------- specification ---------------------------- *)

Init ==
  /\ opened = 0 /\ open = {} /\ current = 0 /\ liveView = 0
  /\ filterRow \in Filters /\ anchorCheck = FALSE /\ downloadBtn = FALSE
  /\ menu = {}
  /\ tab = [t \in Tabs |-> EmptyTab]

\* The lists the daemon may report: a file once.
ResultLists ==
  {l \in UNION {[1..n -> Results] : n \in 0..Cardinality(Hashes)} :
     \A i, j \in DOMAIN l : l[i].hash = l[j].hash => i = j}

UserActs ==
  \/ \E t \in Tabs : OnSearch(t) \/ OnCurrentTabChanged(t) \/ OnTabClose(t)
  \/ OnFilterChanged \/ OnAnchorToggled \/ Select

ResultsArrive == \E list \in ResultLists : SetResults(list)

\* While the menu is open the user can do nothing else, but signals come in.
Next ==
  \/ menu = {} /\ UserActs /\ UNCHANGED menu
  \/ ResultsArrive /\ UNCHANGED menu
  \/ OnResultContextMenu \/ MenuCloses

Spec == Init /\ [][Next]_vars

(* ------------------------------ properties ------------------------------ *)

\* Whatever result lists, filter settings, tab switches and closed tabs come in
\* between, Download asks only for results that the user selected in this very
\* tab and that pass the filter the widgets show.
DownloadsAsPicked ==
  /\ current # 0 => OnDownload \subseteq tab[current].picked
  /\ \A r \in IF OnDownload = {} THEN {} ELSE tab[current].selected :
       FilterAccepts(filterRow, tab[current].results[r])

\* What is selected in the live tab, when it is in front, can be downloaded; and
\* a download is never offered in a tab that is not the live one: not by the
\* button, whichever tabs are opened, closed and brought to the front, and not
\* by a context menu, which uses later what it read before it opened.
DownloadOffered ==
  /\ OnDownload # {} => downloadBtn
  /\ downloadBtn \/ menu # {} => current # 0 /\ current = liveView

\* The rows pinned on top of the table in front are the selected ones, as long
\* as no row has left the selection without a signal (filter or reset).
AnchoredAreSelected ==
  current # 0 /\ ~tab[current].unseen =>
    tab[current].anchored = IF anchorCheck THEN tab[current].selected ELSE {}

=============================================================================
