-------------------------- MODULE ResultTabsProofs -------------------------
(***************************************************************************)
(* Theorems about ResultTabs, for any number of searches, any results and  *)
(* any settings of the filter row.                                         *)
(***************************************************************************)
EXTENDS ResultTabs, FiniteSetTheorems, TLAPS

(* ------------------------------- one tab -------------------------------- *)

\* What is selected was picked by the user and passes the tab's filter.
Fine(w) ==
  /\ w \in TabState /\ w.selected \subseteq 1..Len(w.results)
  /\ \A r \in w.selected : w.results[r].hash \in w.picked /\ FilterAccepts(w.filter, w.results[r])

\* A tab in front has the filter of the widgets, and anchors what is selected.
InFront(w, setting, anchoring) ==
  /\ w.filter = setting
  /\ ~w.unseen => w.anchored = IF anchoring THEN w.selected ELSE {}

LEMMA EmptyFine == Fine(EmptyTab) /\ EmptyTab.selected = {}
<1>1. (CHOOSE f \in Filters : TRUE) \in Filters
  BY FiltersAssumption
<1>2. <<>> \in Seq(Results)
  OBVIOUS
<1> QED BY <1>1, <1>2 DEF EmptyTab, Fine, TabState

LEMMA PrunedType ==
  ASSUME NEW w \in TabState
  PROVE  /\ Pruned(w) \in TabState /\ Pruned(w).selected = w.selected \cap Accepted(w)
         /\ Pruned(w).results = w.results /\ Pruned(w).filter = w.filter
         /\ Pruned(w).picked = w.picked /\ Pruned(w).anchored = w.anchored
         /\ Pruned(w).unseen = w.unseen
BY DEF Pruned, TabState

LEMMA FilterSet ==
  ASSUME NEW w, Fine(w), filterRow' \in Filters
  PROVE  LET v == SetSearchFilter(w)
         IN /\ Fine(v) /\ v.filter = filterRow' /\ v.selected \subseteq w.selected
            /\ ~v.unseen => ~w.unseen /\ v.selected = w.selected /\ v.anchored = w.anchored
<1> DEFINE u == [w EXCEPT !.filter = filterRow']
           p == Pruned(u)
           v == [p EXCEPT !.unseen = u.unseen \/ p # u]
<1>1. u \in TabState /\ u.filter = filterRow' /\ u.selected = w.selected /\ u.results = w.results
      /\ u.picked = w.picked /\ u.anchored = w.anchored /\ u.unseen = w.unseen
  BY DEF Fine, TabState
<1> HIDE DEF u
<1>2. /\ p \in TabState /\ p.selected = u.selected \cap Accepted(u)
      /\ p.results = u.results /\ p.filter = u.filter /\ p.picked = u.picked
      /\ p.anchored = u.anchored
  BY <1>1, PrunedType
<1> HIDE DEF p
<1>3. (p # u) \in BOOLEAN /\ u.unseen \in BOOLEAN
  BY <1>1 DEF TabState
<1>4. /\ v \in TabState /\ v.selected = p.selected /\ v.results = p.results /\ v.filter = p.filter
      /\ v.picked = p.picked /\ v.anchored = p.anchored /\ v.unseen = (u.unseen \/ p # u)
  BY <1>2, <1>3 DEF TabState
<1> HIDE DEF v
<1>5. SetSearchFilter(w) = v
  BY DEF SetSearchFilter, Rebuilt, u, p, v
<1>6. Fine(v)
  BY <1>1, <1>2, <1>4 DEF Fine, Accepted
<1>7. ~v.unseen => ~w.unseen /\ v.selected = w.selected /\ v.anchored = w.anchored
  BY <1>1, <1>2, <1>4
<1> QED BY <1>1, <1>2, <1>4, <1>5, <1>6, <1>7

LEMMA AnchorUpdated ==
  ASSUME NEW w, Fine(w), anchorCheck' \in BOOLEAN
  PROVE  LET v == UpdateAnchor(w)
         IN /\ Fine(v) /\ v.filter = w.filter /\ v.selected = w.selected
            /\ v.anchored = (IF anchorCheck' THEN v.selected ELSE {})
<1> DEFINE v == UpdateAnchor(w)
<1>1. /\ v \in TabState /\ v.filter = w.filter /\ v.selected = w.selected
      /\ v.results = w.results /\ v.picked = w.picked
      /\ v.anchored = (IF anchorCheck' THEN w.selected ELSE {})
  BY DEF UpdateAnchor, Fine, TabState
<1> HIDE DEF v
<1>2. Fine(v)
  BY <1>1 DEF Fine
<1> QED BY <1>1, <1>2 DEF v

LEMMA CameToFront ==
  ASSUME NEW w, Fine(w), filterRow' \in Filters, anchorCheck' \in BOOLEAN
  PROVE  Fine(ComesToFront(w)) /\ InFront(ComesToFront(w), filterRow', anchorCheck')
<1> DEFINE u == SetSearchFilter(w)
<1>1. Fine(u) /\ u.filter = filterRow'
  BY FilterSet
<1> HIDE DEF u
<1>2. Fine(UpdateAnchor(u)) /\ UpdateAnchor(u).filter = filterRow'
      /\ UpdateAnchor(u).anchored = (IF anchorCheck' THEN UpdateAnchor(u).selected ELSE {})
  BY <1>1, AnchorUpdated
<1> QED BY <1>2 DEF ComesToFront, InFront, u

LEMMA ListType ==
  ASSUME NEW list \in ResultLists
  PROVE  list \in Seq(Results) /\ Keys(list) \in Seq(Hashes) /\ Len(Keys(list)) = Len(list)
         /\ \A r \in 1..Len(list) : Keys(list)[r] = list[r].hash
<1>1. Cardinality(Hashes) \in Nat
  BY HashesAssumption, FS_CardinalityType
<1>2. PICK n \in 0..Cardinality(Hashes) : list \in [1..n -> Results]
  BY DEF ResultLists
<1>3. n \in Nat
  BY <1>1
<1>4. list \in Seq(Results) /\ Len(list) = n /\ DOMAIN list = 1..n
  BY <1>2, <1>3
<1>5. \A i \in 1..n : list[i].hash \in Hashes
  BY <1>2, ResultsAssumption DEF Result
<1> QED BY <1>3, <1>4, <1>5 DEF Keys

\* In place, the rows that stay have the hashes they had.
LEMMA ListFilled ==
  ASSUME NEW w, Fine(w), NEW list \in ResultLists,
         NEW kept, kept = Filled(ViewOf(w), Keys(list)).selected
  PROVE  /\ kept \subseteq w.selected /\ kept \subseteq 1..Len(list)
         /\ \A r \in kept : list[r].hash = w.results[r].hash
<1>0. w.results \in Seq(Results) /\ w.selected \subseteq 1..Len(w.results)
  BY DEF Fine, TabState
<1>1. ViewOf(w) = [keys |-> Keys(w.results), selected |-> w.selected, current |-> 0]
  BY DEF ViewOf
<1>2. Keys(w.results) = [i \in 1..Len(w.results) |-> w.results[i].hash]
  BY <1>0 DEF Keys
<1>3. CASE SameLayout(ViewOf(w), Keys(list))
  <2>1. Keys(w.results) = Keys(list) /\ kept = w.selected
    BY <1>1, <1>3 DEF SameLayout, Filled
  <2>2. Len(list) = Len(w.results)
    BY <1>0, <1>2, <2>1, ListType
  <2> QED BY <1>0, <1>2, <2>1, <2>2, ListType
<1>4. CASE ~SameLayout(ViewOf(w), Keys(list))
  BY <1>4 DEF Filled, Empty
<1> QED BY <1>3, <1>4

(* ------------------------------- all tabs -------------------------------- *)

\* Which tabs there are.
BarInv ==
  /\ opened \in Tabs \cup {0} /\ open \subseteq Tabs \cap 1..opened
  /\ current \in open \cup {0} /\ (current = 0 <=> open = {})
  /\ liveView \in open \cup {0}
  /\ filterRow \in Filters /\ anchorCheck \in BOOLEAN

TabsInv ==
  /\ tab = [t \in Tabs |-> tab[t]] /\ \A t \in Tabs : Fine(tab[t])
  /\ current # 0 => InFront(tab[current], filterRow, anchorCheck)

\* A step other than the context menu's.
PanelStep == UserActs \/ ResultsArrive \/ UNCHANGED <<bar, tab, widgets, downloadBtn>>

LEMMA PanelSteps == ASSUME [Next]_vars PROVE PanelStep
BY DEF Next, vars, OnResultContextMenu, MenuCloses, PanelStep

LEMMA BarStep == ASSUME BarInv, PanelStep PROVE BarInv'
<1>1. CASE UNCHANGED <<bar, widgets>>
  BY <1>1 DEF BarInv, bar, widgets
<1>2. ASSUME NEW t \in Tabs, OnSearch(t) PROVE BarInv'
  BY <1>2, TabsAssumption DEF OnSearch, BarInv, widgets
<1>3. ASSUME NEW t \in Tabs, OnCurrentTabChanged(t) PROVE BarInv'
  BY <1>3, TabsAssumption DEF OnCurrentTabChanged, BarInv, widgets
<1>4. ASSUME NEW t \in Tabs, OnTabClose(t) PROVE BarInv'
  BY <1>4, TabsAssumption DEF OnTabClose, BarInv, widgets
<1>5. CASE OnFilterChanged
  BY <1>5 DEF OnFilterChanged, BarInv, bar
<1>6. CASE OnAnchorToggled
  BY <1>6 DEF OnAnchorToggled, BarInv, bar
<1> QED BY <1>1, <1>2, <1>3, <1>4, <1>5, <1>6
   DEF PanelStep, UserActs, ResultsArrive, SetResults, Select

\* One tab changes, the others stay.
LEMMA OneTab ==
  ASSUME BarInv, BarInv', TabsInv, NEW t \in Tabs, NEW w, Fine(w), tab' = [tab EXCEPT ![t] = w],
         current' # 0 /\ current' # t =>
           current' = current /\ filterRow' = filterRow /\ anchorCheck' = anchorCheck,
         current' = t => InFront(w, filterRow', anchorCheck')
  PROVE  TabsInv'
<1>1. /\ tab' = [u \in Tabs |-> tab'[u]] /\ tab'[t] = w
      /\ \A u \in Tabs \ {t} : tab'[u] = tab[u]
  BY DEF TabsInv
<1>2. current' # 0 => current' \in Tabs
  BY DEF BarInv
<1> QED BY <1>1, <1>2 DEF TabsInv

LEMMA ResultsStep ==
  ASSUME BarInv, TabsInv, NEW list \in ResultLists, SetResults(list)
  PROVE  /\ TabsInv'
         /\ UpdateDownloadEnabled \/
              (UNCHANGED <<bar, downloadBtn>> /\ tab'[liveView].selected \subseteq tab[liveView].selected
               /\ \A t \in Tabs \ {liveView} : tab'[t] = tab[t])
<1> DEFINE w == tab[liveView]
           kept == Filled(ViewOf(w), Keys(list)).selected
           filled == [w EXCEPT !.results = list, !.selected = kept]
           pruned == Pruned(filled)
<1>0. /\ liveView \in Tabs /\ UNCHANGED <<bar, widgets>> /\ BarInv'
      /\ anchorCheck' = anchorCheck /\ filterRow' = filterRow /\ current' = current
  BY BarStep DEF SetResults, BarInv, PanelStep, ResultsArrive, bar, widgets
<1>1. Fine(w)
  BY <1>0 DEF TabsInv
<1>2. /\ kept \subseteq w.selected /\ kept \subseteq 1..Len(list)
      /\ \A r \in kept : list[r].hash = w.results[r].hash
  BY <1>1, ListFilled
<1>3. kept \subseteq Nat /\ w \in TabState /\ list \in Seq(Results)
  BY <1>1, <1>2, ListType DEF Fine, TabState
<1> HIDE DEF kept
<1>4. /\ filled \in TabState /\ filled.results = list /\ filled.selected = kept
      /\ filled.filter = w.filter /\ filled.picked = w.picked /\ filled.anchored = w.anchored
      /\ filled.unseen = w.unseen
  BY <1>3 DEF TabState
<1>5. IF pruned = filled
      THEN /\ tab' = [tab EXCEPT ![liveView] =
                        [filled EXCEPT !.unseen = @ \/ filled.selected # w.selected]]
           /\ UNCHANGED downloadBtn
      ELSE /\ tab' = [tab EXCEPT ![liveView] = UpdateAnchor(pruned)]
           /\ UpdateDownloadEnabled
  BY DEF SetResults, kept
<1> HIDE DEF filled
<1>6. /\ pruned \in TabState /\ pruned.selected = kept \cap Accepted(filled)
      /\ pruned.results = list /\ pruned.filter = w.filter /\ pruned.picked = w.picked
  BY <1>4, PrunedType
<1>7. Fine(pruned)
  BY <1>1, <1>2, <1>4, <1>6 DEF Fine, Accepted
<1> HIDE DEF pruned
<1>8. CASE pruned = filled
  <2> DEFINE seen == w.unseen \/ kept # w.selected
             v == [filled EXCEPT !.unseen = seen]
  <2>1. tab' = [tab EXCEPT ![liveView] = v] /\ UNCHANGED downloadBtn
    BY <1>4, <1>5, <1>8
  <2>2. seen \in BOOLEAN
    BY <1>3 DEF TabState
  <2> HIDE DEF seen
  <2>3. /\ v \in TabState /\ v.results = list /\ v.selected = kept /\ v.filter = w.filter
        /\ v.picked = w.picked /\ v.anchored = w.anchored /\ v.unseen = seen
    BY <1>4, <2>2 DEF TabState
  <2> HIDE DEF v
  <2>4. Fine(v)
    BY <1>4, <1>7, <1>8, <2>3 DEF Fine
  <2>5. current' = liveView => InFront(v, filterRow', anchorCheck')
    <3> SUFFICES ASSUME current = liveView PROVE InFront(v, filterRow, anchorCheck)
      BY <1>0
    <3>1. InFront(w, filterRow, anchorCheck)
      BY <1>0, TabsAssumption DEF TabsInv
    <3> QED BY <2>3, <3>1 DEF InFront, seen
  <2>6. TabsInv'
    BY <1>0, <2>1, <2>4, <2>5, OneTab
  <2>7. tab'[liveView].selected \subseteq w.selected /\ \A t \in Tabs \ {liveView} : tab'[t] = tab[t]
    BY <1>0, <1>2, <2>1, <2>3 DEF TabsInv
  <2> QED BY <1>0, <2>1, <2>6, <2>7
<1>9. CASE pruned # filled
  <2> DEFINE v == UpdateAnchor(pruned)
  <2>1. tab' = [tab EXCEPT ![liveView] = v] /\ UpdateDownloadEnabled
    BY <1>5, <1>9
  <2>2. /\ Fine(v) /\ v.filter = w.filter
        /\ v.anchored = (IF anchorCheck' THEN v.selected ELSE {})
    BY <1>0, <1>6, <1>7, AnchorUpdated DEF BarInv
  <2> HIDE DEF v
  <2>3. current' = liveView => InFront(v, filterRow', anchorCheck')
    BY <1>0, <2>2, TabsAssumption DEF TabsInv, InFront
  <2>4. TabsInv'
    BY <1>0, <2>1, <2>2, <2>3, OneTab
  <2> QED BY <2>1, <2>4
<1> QED BY <1>8, <1>9

LEMMA WidgetsStep ==
  ASSUME BarInv, TabsInv, OnFilterChanged \/ OnAnchorToggled
  PROVE  /\ TabsInv'
         /\ current # 0 => tab'[current].selected \subseteq tab[current].selected
<1>0. BarInv' /\ current' = current /\ current \in Tabs \cup {0}
  BY BarStep DEF BarInv, PanelStep, UserActs, OnFilterChanged, OnAnchorToggled, bar
<1>1. CASE current = 0
  BY <1>0, <1>1 DEF OnFilterChanged, OnAnchorToggled, TabsInv
<1>2. CASE current # 0 /\ OnFilterChanged
  <2> DEFINE w == tab[current]
             v == SetSearchFilter(w)
  <2>1. tab' = [tab EXCEPT ![current] = v] /\ anchorCheck' = anchorCheck /\ filterRow' \in Filters
    BY <1>2 DEF OnFilterChanged
  <2>2. Fine(w) /\ InFront(w, filterRow, anchorCheck)
    BY <1>0, <1>2 DEF TabsInv
  <2>3. /\ Fine(v) /\ v.filter = filterRow' /\ v.selected \subseteq w.selected
        /\ ~v.unseen => ~w.unseen /\ v.selected = w.selected /\ v.anchored = w.anchored
    BY <2>1, <2>2, FilterSet
  <2> HIDE DEF v
  <2>4. InFront(v, filterRow', anchorCheck')
    BY <2>1, <2>2, <2>3 DEF InFront
  <2>5. TabsInv'
    BY <1>0, <1>2, <2>1, <2>3, <2>4, OneTab
  <2> QED BY <1>0, <1>2, <2>1, <2>3, <2>5 DEF TabsInv
<1>3. CASE current # 0 /\ OnAnchorToggled
  <2> DEFINE w == tab[current]
             v == UpdateAnchor(w)
  <2>1. tab' = [tab EXCEPT ![current] = v] /\ filterRow' = filterRow /\ anchorCheck' \in BOOLEAN
    BY <1>3 DEF OnAnchorToggled
  <2>2. Fine(w) /\ w.filter = filterRow
    BY <1>0, <1>3 DEF TabsInv, InFront
  <2>3. /\ Fine(v) /\ v.filter = w.filter /\ v.selected = w.selected
        /\ v.anchored = (IF anchorCheck' THEN v.selected ELSE {})
    BY <2>1, <2>2, AnchorUpdated
  <2> HIDE DEF v
  <2>4. InFront(v, filterRow', anchorCheck')
    BY <2>1, <2>2, <2>3 DEF InFront
  <2>5. TabsInv'
    BY <1>0, <1>3, <2>1, <2>3, <2>4, OneTab
  <2> QED BY <1>0, <1>3, <2>1, <2>3, <2>5 DEF TabsInv
<1> QED BY <1>1, <1>2, <1>3

LEMMA SelectStep == ASSUME BarInv, TabsInv, Select PROVE TabsInv'
<1> DEFINE w == tab[current]
<1>0. /\ BarInv' /\ current' = current /\ current \in Tabs /\ current # 0
      /\ filterRow' = filterRow /\ anchorCheck' = anchorCheck
  BY BarStep DEF BarInv, PanelStep, UserActs, Select, bar, widgets
<1>1. Fine(w) /\ w.filter = filterRow
  BY <1>0 DEF TabsInv, InFront
<1>2. PICK S \in SUBSET Accepted(w) :
        tab' = [tab EXCEPT ![current] =
                  UpdateAnchor([w EXCEPT !.selected = S,
                                         !.picked = {w.results[r].hash : r \in S}])]
  BY DEF Select
<1> DEFINE P == {w.results[r].hash : r \in S}
           u == [w EXCEPT !.selected = S, !.picked = P]
           v == UpdateAnchor(u)
<1>3. S \subseteq 1..Len(w.results) /\ w.results \in Seq(Results) /\ w \in TabState
  BY <1>1 DEF Accepted, Fine, TabState
<1>4. P \subseteq Hashes /\ \A r \in S : w.results[r].hash \in P
  <2>1. \A r \in S : w.results[r] \in Results
    BY <1>3
  <2>2. \A r \in S : w.results[r].hash \in Hashes
    BY <2>1, ResultsAssumption DEF Result
  <2> QED BY <2>2
<1>5. tab' = [tab EXCEPT ![current] = v]
  BY <1>2
<1> HIDE DEF P
<1>6. S \subseteq Nat
  BY <1>3
<1>7. /\ u \in TabState /\ u.selected = S /\ u.picked = P
      /\ u.results = w.results /\ u.filter = w.filter
  BY <1>3, <1>4, <1>6 DEF TabState
<1> HIDE DEF u
<1>8. Fine(u)
  BY <1>3, <1>4, <1>7 DEF Fine, Accepted
<1>9. /\ Fine(v) /\ v.filter = filterRow
      /\ v.anchored = (IF anchorCheck' THEN v.selected ELSE {})
  BY <1>0, <1>1, <1>7, <1>8, AnchorUpdated DEF BarInv
<1> HIDE DEF v
<1>10. InFront(v, filterRow', anchorCheck')
  BY <1>0, <1>9 DEF InFront
<1> QED BY <1>0, <1>5, <1>9, <1>10, OneTab

LEMMA TabStep ==
  ASSUME BarInv, TabsInv, NEW t \in Tabs, OnSearch(t) \/ OnCurrentTabChanged(t) \/ OnTabClose(t)
  PROVE  TabsInv'
<1>0. BarInv' /\ filterRow' = filterRow /\ anchorCheck' = anchorCheck /\ Fine(tab[t])
  BY BarStep DEF PanelStep, UserActs, OnSearch, OnCurrentTabChanged, OnTabClose, widgets, TabsInv
<1>1. CASE OnSearch(t) \/ OnCurrentTabChanged(t)
  <2>1. current' = t /\ tab' = [tab EXCEPT ![t] = ComesToFront(tab[t])]
    BY <1>1 DEF OnSearch, OnCurrentTabChanged
  <2>2. Fine(ComesToFront(tab[t])) /\ InFront(ComesToFront(tab[t]), filterRow', anchorCheck')
    BY <1>0, CameToFront DEF BarInv
  <2> QED BY <1>0, <2>1, <2>2, OneTab
<1>2. CASE OnTabClose(t)
  <2> DEFINE rest == [tab EXCEPT ![t] = EmptyTab]
  <2>1. /\ rest = [u \in Tabs |-> rest[u]] /\ \A u \in Tabs : Fine(rest[u])
        /\ \A u \in Tabs \ {t} : rest[u] = tab[u]
    BY EmptyFine DEF TabsInv
  <2>2. /\ current' \in Tabs \cup {0} /\ (current' = current => current # t \/ current' = 0)
        /\ (t # current => current' = current) /\ (current' # 0 => current' # t)
    BY <1>0, <1>2, TabsAssumption DEF OnTabClose, BarInv
  <2>3. CASE t # current /\ tab' = rest
    BY <1>0, <2>1, <2>2, <2>3 DEF TabsInv
  <2>4. CASE tab' = IF current' = 0 THEN rest ELSE [rest EXCEPT ![current'] = ComesToFront(@)]
    <3>1. CASE current' = 0
      BY <2>1, <2>4, <3>1 DEF TabsInv
    <3>2. CASE current' # 0
      <4> DEFINE w == rest[current']
      <4>1. Fine(ComesToFront(w)) /\ InFront(ComesToFront(w), filterRow', anchorCheck')
        BY <1>0, <2>1, <2>2, <3>2, CameToFront DEF BarInv
      <4>2. tab' = [rest EXCEPT ![current'] = ComesToFront(w)]
        BY <2>4, <3>2
      <4> HIDE DEF rest
      <4>3. /\ tab' = [u \in Tabs |-> tab'[u]] /\ tab'[current'] = ComesToFront(w)
            /\ \A u \in Tabs \ {current'} : tab'[u] = rest[u]
        BY <2>1, <2>2, <3>2, <4>2
      <4> QED BY <2>1, <2>2, <3>2, <4>1, <4>3 DEF TabsInv
    <3> QED BY <3>1, <3>2
  <2> QED BY <1>2, <2>3, <2>4 DEF OnTabClose
<1> QED BY <1>1, <1>2

LEMMA TabsStep == ASSUME BarInv, TabsInv, PanelStep PROVE TabsInv'
<1>1. CASE UNCHANGED <<bar, tab, widgets, downloadBtn>>
  BY <1>1 DEF bar, widgets, TabsInv
<1> QED BY <1>1, TabStep, ResultsStep, WidgetsStep, SelectStep DEF PanelStep, UserActs, ResultsArrive

(* -------------------------------- theorems ------------------------------- *)

LEMMA InitTabs == Init => BarInv /\ TabsInv
BY EmptyFine DEF Init, BarInv, TabsInv

\* Which tabs there are, what is selected in each of them, and what the tab in
\* front owes to the widgets.
THEOREM TabsKept == Spec => [](BarInv /\ TabsInv)
<1>1. BarInv /\ TabsInv /\ [Next]_vars => BarInv' /\ TabsInv'
  BY PanelSteps, BarStep, TabsStep
<1> QED BY <1>1, InitTabs, PTL DEF Spec

\* The menu holds a result of the live tab, in front.
LEMMA MenuStep ==
  ASSUME BarInv, TabsInv, menu \subseteq Hashes, [Next]_vars
  PROVE  menu' \subseteq Hashes
<1>1. CASE OnResultContextMenu
  <2>1. PICK r \in Accepted(tab[current]) : menu' = {tab[current].results[r].hash}
    BY <1>1 DEF OnResultContextMenu
  <2>2. current \in Tabs
    BY <1>1 DEF OnResultContextMenu, BarInv
  <2>3. tab[current].results \in Seq(Results) /\ r \in 1..Len(tab[current].results)
    BY <2>1, <2>2 DEF TabsInv, Fine, TabState, Accepted
  <2>4. tab[current].results[r] \in Results
    BY <2>3
  <2> QED BY <2>1, <2>4, ResultsAssumption DEF Result
<1>2. CASE UNCHANGED menu \/ menu' = {}
  BY <1>2
<1> QED BY <1>1, <1>2 DEF Next, vars, MenuCloses

\* Every variable keeps its type.
THEOREM TypeCorrect == Spec => []TypeOK
<1> DEFINE Rest == downloadBtn \in BOOLEAN /\ menu \subseteq Hashes
<1>1. Init => Rest
  BY DEF Init
<1>2. BarInv /\ TabsInv /\ Rest /\ [Next]_vars => Rest'
  <2>1. ASSUME downloadBtn \in BOOLEAN, [Next]_vars PROVE downloadBtn' \in BOOLEAN
    BY <2>1, PanelSteps
    DEF PanelStep, UserActs, ResultsArrive, OnSearch, OnCurrentTabChanged, OnTabClose, SetResults,
        OnFilterChanged, OnAnchorToggled, Select, UpdateDownloadEnabled
  <2> QED BY <2>1, MenuStep
<1>3. BarInv /\ TabsInv /\ Rest => TypeOK
  BY DEF BarInv, TabsInv, Fine, TypeOK
<1> HIDE DEF Rest
<1> QED BY <1>1, <1>2, <1>3, TabsKept, PTL DEF Spec

\* Whatever happens in between, Download asks only for what the user selected in
\* this tab and what passes the filter shown.
THEOREM OnlyPicked == Spec => []DownloadsAsPicked
<1>1. BarInv /\ TabsInv => DownloadsAsPicked
  BY DEF BarInv, TabsInv, Fine, InFront, DownloadsAsPicked, OnDownload
<1> QED BY <1>1, TabsKept, PTL

\* The rows pinned on top are the selected ones, but for losses nobody is told.
THEOREM AnchorsFollow == Spec => []AnchoredAreSelected
<1>1. BarInv /\ TabsInv => AnchoredAreSelected
  BY DEF TabsInv, InFront, AnchoredAreSelected
<1> QED BY <1>1, TabsKept, PTL

\* What DownloadOffered says of the button.
ButtonOffers ==
  /\ OnDownload # {} => downloadBtn
  /\ downloadBtn => current # 0 /\ current = liveView

LEMMA ButtonStep ==
  ASSUME BarInv, TabsInv, ButtonOffers, PanelStep
  PROVE  ButtonOffers'
<1>1. CASE UpdateDownloadEnabled
  <2>1. OnDownload' # {} => current' # 0 /\ current' = liveView' /\ tab'[current'].selected # {}
    BY DEF OnDownload
  <2> QED BY <1>1, <2>1 DEF UpdateDownloadEnabled, ButtonOffers
<1>2. ASSUME UNCHANGED <<bar, downloadBtn>>,
             current # 0 /\ current = liveView => tab'[current].selected \subseteq tab[current].selected
      PROVE  ButtonOffers'
  <2>1. OnDownload' # {} => OnDownload # {}
    BY <1>2 DEF OnDownload, bar
  <2> QED BY <1>2, <2>1 DEF ButtonOffers, bar
<1>3. ASSUME NEW list \in ResultLists, SetResults(list) PROVE ButtonOffers'
  BY <1>1, <1>2, <1>3, ResultsStep
<1>4. CASE OnFilterChanged \/ OnAnchorToggled
  BY <1>2, <1>4, WidgetsStep DEF OnFilterChanged, OnAnchorToggled
<1>5. CASE UNCHANGED <<bar, tab, widgets, downloadBtn>>
  BY <1>2, <1>5
<1> QED BY <1>1, <1>3, <1>4, <1>5
   DEF PanelStep, UserActs, ResultsArrive, OnSearch, OnCurrentTabChanged, OnTabClose, Select

\* A menu that offers a download is that of the live tab, which nothing that can
\* happen while it is open replaces.
MenuOfLiveTab == menu # {} => current # 0 /\ current = liveView

LEMMA MenuLiveStep ==
  ASSUME MenuOfLiveTab, [Next]_vars
  PROVE  MenuOfLiveTab'
<1>1. CASE UNCHANGED <<menu, current, liveView>>
  BY <1>1 DEF MenuOfLiveTab
<1>2. CASE menu' = {}
  BY <1>2 DEF MenuOfLiveTab
<1>3. CASE OnResultContextMenu
  BY <1>3 DEF OnResultContextMenu, MenuOfLiveTab, bar
<1>4. ResultsArrive => UNCHANGED <<current, liveView>>
  BY DEF ResultsArrive, SetResults, bar
<1> QED BY <1>1, <1>2, <1>3, <1>4 DEF Next, vars, bar, MenuCloses

\* What is selected in the live tab in front is offered for download, and no
\* button and no menu offers anything in another tab.
THEOREM Offered == Spec => []DownloadOffered
<1>1. Init => ButtonOffers /\ MenuOfLiveTab
  BY DEF Init, ButtonOffers, MenuOfLiveTab, OnDownload
<1>2. BarInv /\ TabsInv /\ ButtonOffers /\ MenuOfLiveTab /\ [Next]_vars
        => ButtonOffers' /\ MenuOfLiveTab'
  BY PanelSteps, ButtonStep, MenuLiveStep
<1>3. ButtonOffers /\ MenuOfLiveTab => DownloadOffered
  BY DEF ButtonOffers, MenuOfLiveTab, DownloadOffered
<1> QED BY <1>1, <1>2, <1>3, TabsKept, PTL DEF Spec

=============================================================================
