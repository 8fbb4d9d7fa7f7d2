-------------------------- MODULE SourceTableProofs ------------------------
(***************************************************************************)
(* Theorems about SourceTable, for any downloads, EC ids, sources and runs *)
(* of the daemon.                                                          *)
(***************************************************************************)
EXTENDS SourceTable, FiniteSetTheorems, TLAPS

(* --------------------------------- lists -------------------------------- *)

LEMMA HashesType ==
  ASSUME NEW list \in Seq(Entry)
  PROVE  /\ Hashes(list) \in Seq(Files) /\ Len(Hashes(list)) = Len(list)
         /\ \A i \in 1..Len(list) : Hashes(list)[i] = list[i].file
<1>1. \A i \in 1..Len(list) : list[i] \in Entry
  OBVIOUS
<1>2. \A i \in 1..Len(list) : list[i].file \in Files
  BY <1>1 DEF Entry
<1> QED BY <1>2 DEF Hashes

\* What is left of a list has nothing that was not in it.
LEMMA PartsType ==
  ASSUME NEW S, NEW list \in Seq(S), NEW part \in Parts(list)
  PROVE  part \in Seq(S) /\ \A i \in 1..Len(part) : \E j \in 1..Len(list) : part[i] = list[j]
<1>1. PICK n \in 0..Len(list) : part \in {[i \in 1..n |-> list[m[i]]] : m \in Increasing(n, Len(list))}
  BY DEF Parts
<1>2. PICK m \in Increasing(n, Len(list)) : part = [i \in 1..n |-> list[m[i]]]
  BY <1>1
<1>3. n \in Nat /\ \A i \in 1..n : m[i] \in 1..Len(list)
  BY DEF Increasing
<1> QED BY <1>2, <1>3

LEMMA JoinType ==
  ASSUME NEW S, NEW s \in Seq(S), NEW t \in Seq(S)
  PROVE  /\ s \o t \in Seq(S)
         /\ \A i \in 1..Len(s \o t) :
              (\E j \in 1..Len(s) : (s \o t)[i] = s[j]) \/ (\E j \in 1..Len(t) : (s \o t)[i] = t[j])
<1>1. s \o t \in Seq(S) /\ Len(s \o t) = Len(s) + Len(t)
  OBVIOUS
<1>2. ASSUME NEW i \in 1..Len(s \o t)
      PROVE  (\E j \in 1..Len(s) : (s \o t)[i] = s[j]) \/ (\E j \in 1..Len(t) : (s \o t)[i] = t[j])
  <2>1. CASE i <= Len(s)
    BY <1>1, <2>1
  <2>2. CASE i > Len(s)
    <3>1. i - Len(s) \in 1..Len(t) /\ (s \o t)[i] = t[i - Len(s)]
      BY <1>1, <2>2
    <3> QED BY <3>1
  <2> QED BY <1>1, <2>1, <2>2
<1> QED BY <1>1, <1>2

LEMMA SignalShape ==
  ASSUME NEW s \in Signal
  PROVE  \/ "downloads" \in DOMAIN s /\ "sources" \notin DOMAIN s /\ s.downloads \in Seq(Entry)
         \/ "sources" \in DOMAIN s /\ "downloads" \notin DOMAIN s /\ s.sources \subseteq Source
BY DEF Signal

(* ---------------------------------- table -------------------------------- *)

\* The table's rows are those of the model.
TableInv ==
  /\ entries \in Seq(Entry) /\ view \in Views(Files) /\ Consistent(view)
  /\ ViewOfEntries

\* Filling the table keeps selection and current row, or forgets both.
LEMMA FilledType ==
  ASSUME NEW v \in Views(Files), Consistent(v), NEW keys \in Seq(Files)
  PROVE  /\ Filled(v, keys) \in Views(Files) /\ Consistent(Filled(v, keys))
         /\ Filled(v, keys).keys = keys
         /\ SameLayout(v, keys) =>
              Filled(v, keys).selected = v.selected /\ Filled(v, keys).current = v.current
         /\ ~SameLayout(v, keys) => Filled(v, keys).selected = {} /\ Filled(v, keys).current = 0
BY DEF Filled, SameLayout, Empty, Views, Consistent, Rows

LEMMA ChosenType ==
  ASSUME NEW v \in Views(Files), NEW S \in SUBSET Rows(v), NEW r \in Rows(v)
  PROVE  /\ Chosen(v, S, r) \in Views(Files) /\ Consistent(Chosen(v, S, r))
         /\ Chosen(v, S, r).keys = v.keys /\ Chosen(v, S, r).current = r
         /\ Chosen(v, S, r).selected = S
<1>1. v.keys \in Seq(Files) /\ Len(v.keys) \in Nat
  BY DEF Views
<1>2. r \in Nat /\ S \in SUBSET (Nat \ {0})
  BY <1>1 DEF Rows
<1>3. Chosen(v, S, r) \in Views(Files)
  BY <1>2 DEF Chosen, Views
<1>4. Chosen(v, S, r).keys = v.keys /\ Chosen(v, S, r).current = r /\ Chosen(v, S, r).selected = S
  BY DEF Chosen, Views
<1> QED BY <1>3, <1>4 DEF Consistent, Rows

\* The retained rows are entries that were given out.
LEMMA RetainedType ==
  ASSUME TypeOK, NEW queue \in Seq(Entry), NEW retained \in RetainedRows(queue)
  PROVE  retained \in Seq(Entry) /\ \A i \in 1..Len(retained) : retained[i] \in given
<1>0. Cardinality(Files) \in Nat
  BY SourceFiles, FS_CardinalityType
<1>1. PICK free \in SUBSET given : \E n \in 0..Cardinality(Files) : retained \in [1..n -> free]
  BY DEF RetainedRows
<1>2. PICK n \in 0..Cardinality(Files) : retained \in [1..n -> free]
  BY <1>1
<1>3. n \in Nat /\ Len(retained) = n /\ \A i \in 1..n : retained[i] \in given
  BY <1>0, <1>1, <1>2
<1>4. given \subseteq Entry
  BY DEF TypeOK
<1> QED BY <1>2, <1>3, <1>4

\* Every row shown is one of the queue, or retained from an earlier one.
LEMMA ShownList ==
  ASSUME TypeOK, DownloadsUpdated
  PROVE  \E list \in Seq(Entry) :
           /\ ShowDownloads(list)
           /\ \A i \in 1..Len(list) :
                \/ list[i] \in given
                \/ \E j \in 1..Len(Head(toUi).downloads) : list[i] = Head(toUi).downloads[j]
<1> DEFINE queue == Head(toUi).downloads
<1>1. queue \in Seq(Entry)
  BY SignalShape DEF DownloadsUpdated, TypeOK
<1>2. PICK retained \in RetainedRows(queue) : ShowDownloads(queue \o retained)
  BY DEF DownloadsUpdated
<1> HIDE DEF queue
<1>3. retained \in Seq(Entry) /\ \A i \in 1..Len(retained) : retained[i] \in given
  BY <1>1, RetainedType
<1>4. /\ queue \o retained \in Seq(Entry)
      /\ \A i \in 1..Len(queue \o retained) :
           \/ \E j \in 1..Len(queue) : (queue \o retained)[i] = queue[j]
           \/ \E j \in 1..Len(retained) : (queue \o retained)[i] = retained[j]
  BY <1>1, <1>3, JoinType
<1>5. \A i \in 1..Len(queue \o retained) :
        \/ (queue \o retained)[i] \in given
        \/ \E j \in 1..Len(queue) : (queue \o retained)[i] = queue[j]
  BY <1>3, <1>4
<1> QED BY <1>2, <1>4, <1>5 DEF queue

LEMMA TableShown ==
  ASSUME TableInv, NEW list \in Seq(Entry), ShowDownloads(list)
  PROVE  /\ TableInv' /\ entries' = list
         /\ SameLayout(view, Hashes(list)) =>
              view'.selected = view.selected /\ view'.current = view.current
         /\ ~SameLayout(view, Hashes(list)) => view'.selected = {} /\ view'.current = 0
BY HashesType, FilledType DEF TableInv, ShowDownloads, ViewOfEntries

LEMMA TablePicked ==
  ASSUME TableInv, NEW S \in SUBSET Rows(view), NEW r \in Rows(view), view' = Chosen(view, S, r),
         entries' = entries
  PROVE  TableInv' /\ view'.current = r
BY ChosenType DEF TableInv, ViewOfEntries

LEMMA TableStep == ASSUME TypeOK, ViewOfEntries, [Next]_vars PROVE TableInv'
<1>0. TableInv
  BY DEF TableInv, TypeOK
<1> USE <1>0
<1>1. CASE UNCHANGED table
  BY <1>1 DEF TableInv, ViewOfEntries, table
<1>2. CASE DownloadsUpdated
  BY <1>2, ShownList, TableShown
<1>3. CASE RowsCleared
  BY <1>3, PartsType, TableShown DEF RowsCleared, TableInv
<1>4. CASE Pick
  BY <1>4, TablePicked DEF Pick
<1>5. CASE MoveByKey
  <2>1. PICK r \in Rows(view) : view' = Chosen(view, {r}, r)
    BY <1>5 DEF MoveByKey
  <2> QED BY <1>5, <2>1, TablePicked DEF MoveByKey
<1> QED BY <1>1, <1>2, <1>3, <1>4, <1>5
   DEF Next, vars, DaemonChanges, Restarts, RefreshLost, FetchDownloads, FetchSources, SourcesUpdated

(* ---------------------------- type correctness --------------------------- *)

LEMMA DaemonType ==
  ASSUME TypeOK, DaemonChanges \/ Restarts
  PROVE  /\ run' \in Run /\ ecids' \in [Files -> Ids \cup {0}] /\ given' \subseteq Entry
         /\ asks' \in [Sources -> Files]
<1>0. ASSUME NEW n \in [Files -> Ids \cup {0}], NEW r \in Run PROVE Numbers(n, r) \subseteq Entry
  BY DEF Numbers, Entry
<1>1. ASSUME NEW f \in Files, Added(f) PROVE ecids' \in [Files -> Ids \cup {0}] /\ given' \subseteq Entry
  <2>1. ecids' \in [Files -> Ids \cup {0}]
    BY <1>1 DEF Added, TypeOK
  <2> QED BY <1>0, <1>1, <2>1 DEF Added, TypeOK
<1>2. CASE DaemonChanges
  BY <1>1, <1>2 DEF DaemonChanges, Added, Dropped, Swaps, TypeOK
<1>3. CASE Restarts
  <2>1. run' \in Run /\ ecids' \in [Files -> Ids \cup {0}] /\ asks' = asks
    BY <1>3, SourceRuns DEF Restarts, Run, TypeOK
  <2>2. Numbers(ecids', run') \subseteq Entry
    BY <1>0, <2>1
  <2>3. given' \subseteq Entry
    BY <1>3, <2>2 DEF Restarts, TypeOK
  <2> QED BY <2>1, <2>3 DEF TypeOK
<1> QED BY <1>2, <1>3

\* What a refresh reads is what the daemon has given.
LEMMA Fetched ==
  ASSUME TypeOK, FetchDownloads
  PROVE  \E list \in Seq(Entry) :
           fetched' = <<list>> /\ \A i \in 1..Len(list) : list[i] \in Numbers(ecids, run)
<1>1. PICK l \in Listings :
        fetched' = <<[i \in DOMAIN l |-> [file |-> l[i], ecid |-> ecids[l[i]], run |-> run]]>>
  BY DEF FetchDownloads
<1>2. Cardinality(Queued) \in Nat
  BY SourceFiles, FS_Subset, FS_CardinalityType DEF Queued
<1>3. DOMAIN l = 1..Cardinality(Queued) /\ \A i \in 1..Cardinality(Queued) : l[i] \in Queued
  BY DEF Listings
<1> DEFINE list == [i \in 1..Cardinality(Queued) |->
                      [file |-> l[i], ecid |-> ecids[l[i]], run |-> run]]
<1>4. \A i \in 1..Cardinality(Queued) : list[i] \in Entry /\ list[i] \in Numbers(ecids, run)
  BY <1>3 DEF Queued, Numbers, Entry, TypeOK
<1>5. list \in Seq(Entry) /\ Len(list) = Cardinality(Queued)
  BY <1>2, <1>4
<1> QED BY <1>1, <1>3, <1>4, <1>5

LEMMA SourcesFetched ==
  ASSUME TypeOK, FetchSources
  PROVE  \E told \in SUBSET Source :
           /\ toUi' = <<[downloads |-> fetched[1]], [sources |-> told]>>
           /\ fetched[1] \in Seq(Entry) /\ Len(fetched) \in Nat \ {0}
           /\ \A s \in told :
                [file |-> s.file, ecid |-> s.fileEcid, run |-> s.run] \in Numbers(ecids, run)
<1> DEFINE told == {[id |-> s, fileEcid |-> ecids[asks[s]], file |-> asks[s], run |-> run] :
                      s \in {t \in Sources : ecids[asks[t]] # 0}}
<1>1. ASSUME NEW c \in told
      PROVE  c \in Source /\ [file |-> c.file, ecid |-> c.fileEcid, run |-> c.run] \in Numbers(ecids, run)
  BY DEF Source, Numbers, TypeOK
<1>2. toUi' = <<[downloads |-> fetched[1]], [sources |-> told]>>
  BY DEF FetchSources
<1>3. fetched[1] \in Seq(Entry) /\ Len(fetched) \in Nat \ {0}
  BY DEF FetchSources, TypeOK
<1> QED BY <1>1, <1>2, <1>3

LEMMA StepType == ASSUME TypeOK, ViewOfEntries, [Next]_vars PROVE TypeOK'
<1>0. TableInv /\ TableInv'
  BY TableStep DEF TableInv, TypeOK
<1>1. CASE DaemonChanges \/ Restarts
  <2>1. fetched' \in Seq(Seq(Entry))
    <3>1. fetched' = fetched \/ fetched' = <<>>
      BY <1>1 DEF DaemonChanges, Restarts
    <3>2. \A S : <<>> \in Seq(S)
      OBVIOUS
    <3> QED BY <3>1, <3>2 DEF TypeOK
  <2> QED BY <1>1, <2>1, DaemonType DEF DaemonChanges, Restarts, TypeOK, table, sources
<1>2. CASE RefreshLost
  BY <1>2 DEF RefreshLost, TypeOK, daemon, table, sources
<1>3. CASE FetchDownloads
  <2>1. fetched' \in Seq(Seq(Entry))
    <3>1. PICK list \in Seq(Entry) : fetched' = <<list>>
      BY <1>3, Fetched
    <3>2. PICK S : S = Seq(Entry)
      OBVIOUS
    <3>3. <<list>> \in Seq(S)
      BY <3>2
    <3> QED BY <3>1, <3>2, <3>3
  <2> QED BY <1>3, <2>1 DEF FetchDownloads, TypeOK, daemon, table, sources
<1>4. CASE FetchSources
  <2>1. toUi' \in Seq(Signal)
    <3>1. PICK told \in SUBSET Source :
            toUi' = <<[downloads |-> fetched[1]], [sources |-> told]>> /\ fetched[1] \in Seq(Entry)
      BY <1>4, SourcesFetched
    <3>2. PICK a \in Signal, b \in Signal :
            a = [downloads |-> fetched[1]] /\ b = [sources |-> told]
      BY <3>1 DEF Signal
    <3>3. <<a, b>> \in Seq(Signal)
      OBVIOUS
    <3> QED BY <3>1, <3>2, <3>3
  <2>2. fetched' \in Seq(Seq(Entry))
    BY <1>4 DEF FetchSources
  <2> QED BY <1>4, <2>1, <2>2 DEF FetchSources, TypeOK, daemon, table, sources
<1>5. CASE DownloadsUpdated \/ RowsCleared
  <2>1. excuses' \subseteq Excuses
    <3>1. \A list : ShowDownloads(list) => excuses' \subseteq Excuses
      BY DEF ShowDownloads, Excuses, TypeOK
    <3> QED BY <1>5, <3>1 DEF DownloadsUpdated, RowsCleared
  <2>2. toUi' \in Seq(Signal)
    <3>1. toUi' = toUi \/ (toUi # <<>> /\ toUi' = Tail(toUi))
      BY <1>5 DEF DownloadsUpdated, RowsCleared
    <3>2. toUi \in Seq(Signal)
      BY DEF TypeOK
    <3> QED BY <3>1, <3>2
  <2> QED BY <1>0, <1>5, <2>1, <2>2 DEF DownloadsUpdated, RowsCleared, TableInv, TypeOK, daemon, sources
<1>6. CASE SourcesUpdated
  <2>1. Head(toUi).sources \subseteq Source /\ toUi' \in Seq(Signal)
    BY <1>6, SignalShape DEF SourcesUpdated, TypeOK
  <2> QED BY <1>6, <2>1 DEF SourcesUpdated, Matching, TypeOK, daemon, table
<1>7. CASE Pick \/ MoveByKey
  <2>1. \A r \in Rows(view) \cup {0} : EcidAt(entries, r) \in Nat
    <3> SUFFICES ASSUME NEW r \in Rows(view), r # 0 PROVE entries[r].ecid \in Nat
      BY DEF EcidAt
    <3>1. r \in 1..Len(entries)
      BY HashesType DEF TypeOK, ViewOfEntries, Rows
    <3>2. entries[r] \in Entry
      BY <3>1 DEF TypeOK
    <3> QED BY <3>2, SourceIds DEF Entry
  <2>2. \A r : SelectionChanged(r) /\ EcidAt(entries, r) \in Nat =>
          fileEcid' \in Nat /\ all' = all /\ visible' \subseteq Source
    BY DEF SelectionChanged, SetFileEcid, Matching, TypeOK
  <2>3. fileEcid' \in Nat /\ all' \subseteq Source /\ visible' \subseteq Source
    <3>1. CASE UNCHANGED sources
      BY <3>1 DEF sources, TypeOK
    <3>2. CASE \E r \in Rows(view) \cup {0} : SelectionChanged(r)
      BY <2>1, <2>2, <3>2 DEF TypeOK
    <3>3. view.current \in Rows(view) \cup {0}
      BY DEF TypeOK, Consistent
    <3> QED BY <1>7, <3>1, <3>2, <3>3 DEF Pick, MoveByKey
  <2>4. excuses' \subseteq Excuses
    BY <1>7 DEF Pick, MoveByKey, Excuses, TypeOK
  <2> QED BY <1>0, <1>7, <2>3, <2>4 DEF Pick, MoveByKey, TableInv, TypeOK, daemon
<1>8. CASE UNCHANGED vars
  BY <1>8 DEF vars, daemon, table, sources, TypeOK
<1> QED BY <1>1, <1>2, <1>3, <1>4, <1>5, <1>6, <1>7, <1>8 DEF Next

LEMMA InitType == Init => TypeOK /\ ViewOfEntries
<1> SUFFICES ASSUME Init PROVE TypeOK /\ ViewOfEntries
  OBVIOUS
<1>1. entries = <<>> /\ view = [keys |-> <<>>, selected |-> {}, current |-> 0]
  BY DEF Init, Empty
<1>2. view \in Views(Files) /\ Consistent(view)
  BY <1>1 DEF Views, Consistent
<1>3. ViewOfEntries
  BY <1>1 DEF ViewOfEntries, Hashes
<1>4. run \in Run
  BY SourceRuns DEF Init, Run
<1> QED BY <1>1, <1>2, <1>3, <1>4 DEF Init, TypeOK

\* Every variable keeps its type, and the table has the rows of the model.
THEOREM TypeCorrect == Spec => [](TypeOK /\ ViewOfEntries)
<1>1. Init => TypeOK /\ ViewOfEntries
  BY InitType
<1>2. TypeOK /\ ViewOfEntries /\ [Next]_vars => TypeOK' /\ ViewOfEntries'
  BY StepType, TableStep DEF TableInv, TypeOK
<1> QED BY <1>1, <1>2, PTL DEF Spec

(* ------------------------------ the selection ---------------------------- *)

\* No update of the rows, in place or by a reset, makes the selection stand for
\* other downloads.
THEOREM SelectionKept == Spec => SelectionKeepsDownloads
<1>1. TypeOK /\ ViewOfEntries /\ [Next]_vars =>
        [entries' # entries =>
           \A r \in view'.selected :
             r \in view.selected /\ Hashes(entries')[r] = Hashes(entries)[r]]_vars
  <2> SUFFICES ASSUME TypeOK, ViewOfEntries, Next, entries' # entries, NEW r \in view'.selected
               PROVE  r \in view.selected /\ Hashes(entries')[r] = Hashes(entries)[r]
    OBVIOUS
  <2>0. TableInv
    BY DEF TableInv, TypeOK
  <2>1. ASSUME NEW list \in Seq(Entry), ShowDownloads(list)
        PROVE  r \in view.selected /\ Hashes(entries')[r] = Hashes(entries)[r]
    BY <2>0, <2>1, TableShown DEF SameLayout, ViewOfEntries
  <2>2. CASE DownloadsUpdated
    BY <2>0, <2>1, <2>2, ShownList DEF TypeOK
  <2>3. CASE RowsCleared
    BY <2>1, <2>3, PartsType DEF RowsCleared, TypeOK
  <2> QED BY <2>2, <2>3
     DEF Next, DaemonChanges, Restarts, RefreshLost, FetchDownloads, FetchSources, SourcesUpdated,
         Pick, MoveByKey, table
<1> QED BY <1>1, TypeCorrect, PTL DEF Spec, SelectionKeepsDownloads

LEMMA CurrentRowStep ==
  ASSUME TypeOK, ViewOfEntries, ListOfCurrentRow, [Next]_vars
  PROVE  ListOfCurrentRow'
<1>0. TableInv
  BY DEF TableInv, TypeOK
<1>1. CASE UNCHANGED <<fileEcid, table, excuses>>
  BY <1>1 DEF ListOfCurrentRow, EcidAt, table
<1>2. ASSUME NEW list \in Seq(Entry), ShowDownloads(list), fileEcid' = fileEcid
      PROVE  ListOfCurrentRow'
  <2> SUFFICES ASSUME excuses' = {} PROVE fileEcid = EcidAt(list, view'.current)
    BY <1>0, <1>2, TableShown DEF ListOfCurrentRow, EcidAt
  <2>1. excuses = {} /\ SameLayout(view, Hashes(list))
    BY <1>2 DEF ShowDownloads
  <2>2. EcidAt(list, view.current) = EcidAt(entries, view.current)
    BY <1>2, <2>1 DEF ShowDownloads
  <2>3. view'.current = view.current
    BY <1>0, <1>2, <2>1, TableShown
  <2> QED BY <2>1, <2>2, <2>3 DEF ListOfCurrentRow
<1>3. CASE DownloadsUpdated
  BY <1>0, <1>2, <1>3, ShownList DEF DownloadsUpdated, TypeOK, sources
<1>4. CASE RowsCleared
  BY <1>2, <1>4, PartsType DEF RowsCleared, TypeOK, sources
<1>5. CASE Pick
  <2>1. PICK S \in SUBSET Rows(view), r \in Rows(view) :
          /\ view' = Chosen(view, S, r)
          /\ \/ SelectionChanged(r)
             \/ excuses' = excuses \cup {"moved"}
    BY <1>5 DEF Pick
  <2>2. view'.current = r /\ entries' = entries
    BY <1>0, <1>5, <2>1, TablePicked DEF Pick
  <2>3. CASE SelectionChanged(r)
    BY <2>2, <2>3 DEF SelectionChanged, SetFileEcid, ListOfCurrentRow, EcidAt
  <2>4. CASE excuses' = excuses \cup {"moved"}
    BY <2>4 DEF ListOfCurrentRow
  <2> QED BY <2>1, <2>3, <2>4
<1>6. CASE MoveByKey
  BY <1>6 DEF MoveByKey, ListOfCurrentRow
<1> QED BY <1>1, <1>3, <1>4, <1>5, <1>6
   DEF Next, vars, DaemonChanges, Restarts, RefreshLost, FetchDownloads, FetchSources,
       SourcesUpdated, sources

\* The source list is that of the current row, unless rows or ids changed, or
\* the current row moved, in one of the ways that the selection does not tell.
THEOREM CurrentRowListed == Spec => []ListOfCurrentRow
<1>1. Init => ListOfCurrentRow
  BY DEF Init, Empty, ListOfCurrentRow, EcidAt
<1>2. TypeOK /\ ViewOfEntries /\ ListOfCurrentRow /\ [Next]_vars => ListOfCurrentRow'
  BY CurrentRowStep
<1> QED BY <1>1, <1>2, TypeCorrect, PTL DEF Spec

(* ------------------------------- the sources ----------------------------- *)

Known(s) == [file |-> s.file, ecid |-> s.fileEcid, run |-> s.run] \in given

\* In one run of the daemon no EC id is given to two downloads, and whatever is
\* on its way or shown carries one that was given.
GivenInv ==
  /\ \A a, b \in given : a.run = b.run /\ a.ecid = b.ecid => a.file = b.file
  /\ \A a \in given : a.run <= run
  /\ Numbers(ecids, run) \subseteq given
  /\ \A i \in 1..Len(fetched) : \A j \in 1..Len(fetched[i]) : fetched[i][j] \in given
  /\ \A i \in 1..Len(toUi) :
       /\ "downloads" \in DOMAIN toUi[i] =>
            \A j \in 1..Len(toUi[i].downloads) : toUi[i].downloads[j] \in given
       /\ "sources" \in DOMAIN toUi[i] => \A s \in toUi[i].sources : Known(s)
  /\ \A j \in 1..Len(entries) : entries[j] \in given
  /\ \A s \in all : Known(s)
  /\ visible = Matching(all, fileEcid)

LEMMA GivenStep ==
  ASSUME TypeOK, ViewOfEntries, GivenInv, [Next]_vars
  PROVE  GivenInv'
<1>0. TableInv
  BY DEF TableInv, TypeOK
<1>1. ASSUME NEW f \in Files, Added(f), UNCHANGED <<fetched, toUi, table, sources>> PROVE GivenInv'
  <2>1. PICK e \in Ids : /\ \A n \in given : n.run = run => n.ecid # e
                         /\ ecids' = [ecids EXCEPT ![f] = e]
    BY <1>1 DEF Added
  <2> DEFINE new == [file |-> f, ecid |-> e, run |-> run]
  <2>2. Numbers(ecids', run) \subseteq Numbers(ecids, run) \cup {new}
    BY <2>1 DEF Numbers, TypeOK
  <2>3. /\ given' = given \cup Numbers(ecids', run) /\ run' = run
        /\ given' \subseteq given \cup {new} /\ given \subseteq given'
    BY <1>1, <2>2 DEF Added, GivenInv
  <2>4. \A a, b \in given' : a.run = b.run /\ a.ecid = b.ecid => a.file = b.file
    BY <2>1, <2>3 DEF GivenInv
  <2>5. \A a \in given' : a.run <= run
    BY <2>3 DEF GivenInv, TypeOK, Run
  <2> QED BY <1>1, <2>3, <2>4, <2>5 DEF GivenInv, Known, table, sources
<1>2. ASSUME NEW f \in Files, Dropped(f), UNCHANGED <<fetched, toUi, table, sources>> PROVE GivenInv'
  <2>1. Numbers(ecids', run') \subseteq Numbers(ecids, run)
    BY <1>2 DEF Dropped, Numbers, TypeOK
  <2> QED BY <1>2, <2>1 DEF Dropped, GivenInv, Known, table, sources
<1>3. CASE \E s \in Sources, f \in Files : Swaps(s, f) /\ UNCHANGED <<fetched, toUi, table, sources>>
  BY <1>3 DEF Swaps, GivenInv, Known, table, sources
<1>4. CASE Restarts
  <2>1. /\ given' = given \cup Numbers(ecids', run') /\ given \subseteq given'
        /\ run' = run + 1 /\ run \in Nat
    BY <1>4 DEF Restarts, TypeOK, Run
  <2>2. \A a, b \in Numbers(ecids', run') : a.ecid = b.ecid => a.file = b.file
    BY <1>4 DEF Restarts, Numbers
  <2>3. \A a \in Numbers(ecids', run') : a.run = run'
    BY DEF Numbers
  <2>4. \A a \in given : a.run <= run /\ a.run \in Nat
    BY DEF GivenInv, TypeOK, Entry, Run
  <2>5. \A a, b \in given' : a.run = b.run /\ a.ecid = b.ecid => a.file = b.file
    BY <2>1, <2>2, <2>3, <2>4 DEF GivenInv
  <2>6. \A a \in given' : a.run <= run'
    BY <2>1, <2>3, <2>4
  <2>7. fetched' = <<>> /\ UNCHANGED <<toUi, table, sources>>
    BY <1>4 DEF Restarts
  <2> QED BY <2>1, <2>5, <2>6, <2>7 DEF GivenInv, Known, table, sources
<1>5. CASE RefreshLost
  BY <1>5 DEF RefreshLost, GivenInv, Known, daemon, table, sources
<1>6. CASE FetchDownloads
  <2>1. \A i \in 1..Len(fetched') : \A j \in 1..Len(fetched'[i]) : fetched'[i][j] \in given
    <3>1. PICK list \in Seq(Entry) :
            fetched' = <<list>> /\ \A j \in 1..Len(list) : list[j] \in Numbers(ecids, run)
      BY <1>6, Fetched
    <3> QED BY <3>1 DEF GivenInv
  <2> QED BY <1>6, <2>1 DEF FetchDownloads, GivenInv, Known, daemon, table, sources
<1>7. CASE FetchSources
  <2>1. PICK told \in SUBSET Source :
          /\ toUi' = <<[downloads |-> fetched[1]], [sources |-> told]>>
          /\ Len(fetched) \in Nat \ {0}
          /\ \A s \in told : [file |-> s.file, ecid |-> s.fileEcid, run |-> s.run] \in Numbers(ecids, run)
    BY <1>7, SourcesFetched
  <2>2. \A s \in told : Known(s)
    BY <2>1 DEF Known, GivenInv
  <2>3. \A j \in 1..Len(fetched[1]) : fetched[1][j] \in given
    BY <2>1 DEF GivenInv
  <2>4. /\ Len(toUi') = 2 /\ toUi'[1] = [downloads |-> fetched[1]] /\ toUi'[2] = [sources |-> told]
    BY <2>1
  <2>5. \A i \in 1..Len(toUi') :
          /\ "downloads" \in DOMAIN toUi'[i] =>
               \A j \in 1..Len(toUi'[i].downloads) : toUi'[i].downloads[j] \in given
          /\ "sources" \in DOMAIN toUi'[i] => \A s \in toUi'[i].sources : Known(s)
    BY <2>2, <2>3, <2>4
  <2>6. fetched' = <<>> /\ UNCHANGED <<daemon, table, sources>>
    BY <1>7 DEF FetchSources
  <2> QED BY <2>5, <2>6 DEF GivenInv, Known, daemon, table, sources
<1>8. CASE DownloadsUpdated
  <2>1. \A j \in 1..Len(entries') : entries'[j] \in given
    <3>1. \A j \in 1..Len(Head(toUi).downloads) : Head(toUi).downloads[j] \in given
      BY <1>8 DEF DownloadsUpdated, GivenInv, TypeOK
    <3>2. PICK list \in Seq(Entry) :
            /\ ShowDownloads(list)
            /\ \A i \in 1..Len(list) :
                 \/ list[i] \in given
                 \/ \E j \in 1..Len(Head(toUi).downloads) : list[i] = Head(toUi).downloads[j]
      BY <1>8, ShownList
    <3> QED BY <3>1, <3>2 DEF ShowDownloads, GivenInv
  <2>2. toUi \in Seq(Signal) /\ toUi # <<>> /\ toUi' = Tail(toUi)
        /\ UNCHANGED <<daemon, fetched, sources>>
    BY <1>8 DEF DownloadsUpdated, TypeOK
  <2>3. \A i \in 1..Len(toUi') : i + 1 \in 1..Len(toUi) /\ toUi'[i] = toUi[i + 1]
    BY <2>2
  <2> QED BY <2>1, <2>2, <2>3 DEF GivenInv, Known, daemon, sources
<1>9. CASE RowsCleared
  <2>1. PICK kept \in Parts(entries) : ShowDownloads(kept)
    BY <1>9 DEF RowsCleared
  <2>2. \A j \in 1..Len(entries') : entries'[j] \in given
    <3>1. \A i \in 1..Len(kept) : \E j \in 1..Len(entries) : kept[i] = entries[j]
      BY PartsType DEF TypeOK
    <3>2. entries' = kept
      BY <2>1 DEF ShowDownloads
    <3> QED BY <3>1, <3>2 DEF GivenInv
  <2> QED BY <1>9, <2>2 DEF RowsCleared, GivenInv, Known, daemon, sources
<1>10. CASE SourcesUpdated
  <2>1. toUi \in Seq(Signal) /\ toUi # <<>> /\ toUi' = Tail(toUi)
        /\ all' = Head(toUi).sources /\ visible' = Matching(all', fileEcid)
        /\ UNCHANGED <<daemon, fetched, table, fileEcid>>
    BY <1>10 DEF SourcesUpdated, TypeOK
  <2>2. \A s \in all' : Known(s)
    BY <1>10, <2>1 DEF SourcesUpdated, GivenInv
  <2>3. \A i \in 1..Len(toUi') : i + 1 \in 1..Len(toUi) /\ toUi'[i] = toUi[i + 1]
    BY <2>1
  <2> QED BY <2>1, <2>2, <2>3 DEF GivenInv, Known, daemon, table
<1>11. CASE Pick \/ MoveByKey
  <2>1. visible' = Matching(all', fileEcid') /\ all' = all
    <3>1. \A r : SelectionChanged(r) => visible' = Matching(all', fileEcid') /\ all' = all
      BY DEF SelectionChanged, SetFileEcid, GivenInv
    <3> QED BY <1>11, <3>1 DEF Pick, MoveByKey, sources, GivenInv
  <2> QED BY <1>11, <2>1 DEF Pick, MoveByKey, GivenInv, Known, daemon
<1>12. CASE UNCHANGED vars
  BY <1>12 DEF vars, daemon, table, sources, GivenInv, Known
<1> QED BY <1>1, <1>2, <1>3, <1>4, <1>5, <1>6, <1>7, <1>8, <1>9, <1>10, <1>11, <1>12
   DEF Next, DaemonChanges

\* The sources listed are those of the current row's download, whatever turns
\* downloads, sources and ids take between two snapshots of one run.
THEOREM SourcesListed == Spec => []SourcesOfCurrentRow
<1>1. Init => GivenInv
  BY DEF Init, GivenInv, Numbers, Matching
<1>2. TypeOK /\ ViewOfEntries /\ GivenInv /\ [Next]_vars => GivenInv'
  BY GivenStep
<1>3. TypeOK /\ ViewOfEntries /\ GivenInv /\ ListOfCurrentRow => SourcesOfCurrentRow
  <2> SUFFICES ASSUME TypeOK, ViewOfEntries, GivenInv, ListOfCurrentRow, excuses = {},
                      view.current # 0, NEW s \in visible, s.run = entries[view.current].run
               PROVE  s.file = entries[view.current].file
    BY DEF SourcesOfCurrentRow
  <2>1. view.current \in 1..Len(entries)
    BY HashesType DEF TypeOK, ViewOfEntries, Consistent, Rows
  <2>2. entries[view.current] \in given
    BY <2>1 DEF GivenInv
  <2>3. s \in all /\ s.fileEcid = fileEcid /\ fileEcid = entries[view.current].ecid
    BY DEF GivenInv, Matching, ListOfCurrentRow, EcidAt
  <2>4. PICK n \in given : n = [file |-> s.file, ecid |-> s.fileEcid, run |-> s.run]
    BY <2>3 DEF GivenInv, Known
  <2>5. n.file = s.file /\ n.ecid = s.fileEcid /\ n.run = s.run
    BY <2>4
  <2> QED BY <2>2, <2>3, <2>5 DEF GivenInv
<1> QED BY <1>1, <1>2, <1>3, TypeCorrect, CurrentRowListed, PTL DEF Spec

=============================================================================
