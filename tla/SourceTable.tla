----------------------------- MODULE SourceTable ---------------------------
(***************************************************************************)
(* The source list below the download table: it shows the sources whose    *)
(* fileEcid is the EC id that was read from the current row when the       *)
(* selection last changed.  Snapshots of downloads and of sources come one *)
(* after the other, and the user acts in between.                          *)
(*                                                                         *)
(* A row and a source remember, for the properties only, the run of the    *)
(* daemon that gave the EC id, and a source the download it is for.  Which *)
(* finished downloads are retained, and when they are hidden and come back, *)
(* is Transfers' subject: here any that a queue ever had may be shown.     *)
(***************************************************************************)
EXTENDS TableView, FiniteSets

CONSTANTS Files,     \* hashes of downloads
          Ids,       \* EC ids, positive numbers
          Sources,   \* ids of source clients
          RunBound   \* bound: runs of the daemon

ASSUME SourceFiles == IsFiniteSet(Files)
ASSUME SourceIds == Ids \subseteq Nat \ {0}
ASSUME SourceRuns == RunBound \in Nat \ {0}

VARIABLES
  run,       \* the daemon's run
  ecids,     \* EC ids of the downloads in its queue (0: not in it)
  given,     \* which EC id was given to which download in which run
  asks,      \* the download each source client serves
  fetched,   \* downloads read by the refresh that is under way, if any
  toUi,      \* signals queued for the UI thread
  entries,   \* downloads_ of DownloadTableModel, a row each
  view,      \* the table
  all,       \* all_ of SourceTableModel
  fileEcid,  \* fileEcid_
  visible,   \* visible_
  excuses    \* history: why the list may be of another download than the current row

daemon == <<run, ecids, given, asks>>
table  == <<entries, view>>
sources == <<all, fileEcid, visible>>
vars == <<daemon, fetched, toUi, table, sources, excuses>>

Run == 1..RunBound
Entry == [file : Files, ecid : Ids, run : Run]
Source == [id : Sources, fileEcid : Ids, file : Files, run : Run]
Signal == [downloads : Seq(Entry)] \cup [sources : SUBSET Source]
Excuses == {"moved", "reset", "renumbered"}

TypeOK ==
  /\ run \in Run /\ ecids \in [Files -> Ids \cup {0}] /\ given \subseteq Entry
  /\ asks \in [Sources -> Files]
  /\ fetched \in Seq(Seq(Entry)) /\ toUi \in Seq(Signal)
  /\ entries \in Seq(Entry) /\ view \in Views(Files) /\ Consistent(view)
  /\ all \subseteq Source /\ visible \subseteq Source /\ fileEcid \in Nat /\ excuses \subseteq Excuses

Hashes(list) == [i \in 1..Len(list) |-> list[i].file]

\* ecidAt.
EcidAt(list, row) == IF row = 0 THEN 0 ELSE list[row].ecid

\* rebuild.
Matching(from, ecid) == {s \in from : ecid # 0 /\ s.fileEcid = ecid}

(* -------------------------------- daemon -------------------------------- *)

\* The EC ids of the queue, as the history keeps them.
Numbers(numbering, r) ==
  {[file |-> f, ecid |-> numbering[f], run |-> r] : f \in {g \in Files : numbering[g] # 0}}

\* Every download that joins the queue gets an EC id not given before in this run.
Added(f) ==
  /\ ecids[f] = 0
  /\ \E e \in Ids :
       /\ \A n \in given : n.run = run => n.ecid # e
       /\ ecids' = [ecids EXCEPT ![f] = e]
  /\ given' = given \cup Numbers(ecids', run)
  /\ UNCHANGED <<run, asks>>

Dropped(f) ==
  /\ ecids[f] # 0 /\ ecids' = [ecids EXCEPT ![f] = 0]
  /\ UNCHANGED <<run, given, asks>>

\* A source client turns to another download (A4AF).
Swaps(s, f) ==
  /\ asks[s] # f /\ asks' = [asks EXCEPT ![s] = f]
  /\ UNCHANGED <<run, ecids, given>>

DaemonChanges ==
  /\ \/ \E f \in Files : Added(f) \/ Dropped(f)
     \/ \E s \in Sources, f \in Files : Swaps(s, f)
  /\ UNCHANGED <<fetched, toUi, table, sources, excuses>>

\* Another run, or another daemon: what it has, it has numbered anew.
Restarts ==
  /\ run < RunBound /\ run' = run + 1 /\ fetched' = <<>>
  /\ ecids' \in [Files -> Ids \cup {0}]
  /\ \A f, g \in Files : ecids'[f] = ecids'[g] /\ ecids'[f] # 0 => f = g
  /\ given' = given \cup Numbers(ecids', run')
  /\ UNCHANGED <<asks, toUi, table, sources, excuses>>

(* -------------------------------- worker -------------------------------- *)

\* The connection ends in the middle of a refresh.
RefreshLost ==
  /\ fetched # <<>> /\ fetched' = <<>>
  /\ UNCHANGED <<daemon, toUi, table, sources, excuses>>

Queued == {f \in Files : ecids[f] # 0}
Listings ==
  {l \in [1..Cardinality(Queued) -> Queued] : \A f \in Queued : \E i \in DOMAIN l : l[i] = f}

\* fetchDownloads, early in the refresh.
FetchDownloads ==
  /\ fetched = <<>> /\ toUi = <<>>
  /\ \E l \in Listings :
       fetched' = <<[i \in DOMAIN l |-> [file |-> l[i], ecid |-> ecids[l[i]], run |-> run]]>>
  /\ UNCHANGED <<daemon, toUi, table, sources, excuses>>

\* fetchClientUpdate, after which both lists are sent.
FetchSources ==
  /\ fetched # <<>> /\ fetched' = <<>>
  /\ toUi' = <<[downloads |-> fetched[1]],
               [sources |-> {[id |-> s, fileEcid |-> ecids[asks[s]], file |-> asks[s],
                              run |-> run] : s \in {t \in Sources : ecids[asks[t]] # 0}}]>>
  /\ UNCHANGED <<daemon, table, sources, excuses>>

(* ---------------------------------- UI ---------------------------------- *)

\* setDownloads: what the rows and the table are then.  A reset tells nobody,
\* and rows that stay may carry other EC ids than before.
ShowDownloads(list) ==
  /\ entries' = list /\ view' = Filled(view, Hashes(list))
  /\ excuses' = excuses
       \cup (IF SameLayout(view, Hashes(list)) THEN {} ELSE {"reset"})
       \cup (IF SameLayout(view, Hashes(list))
                  /\ EcidAt(list, view.current) # EcidAt(entries, view.current)
               THEN {"renumbered"} ELSE {})

sameDownload(a, b) == a.file = b.file \/ a.ecid = b.ecid

\* The retained rows shown with a queue: downloads as some queue had them, each
\* once, and not in this one.  One that an entry has hidden comes back later.
RetainedRows(queue) ==
  LET free == {d \in given : \A k \in DOMAIN queue : ~sameDownload(queue[k], d)}
  IN {l \in UNION {[1..n -> free] : n \in 0..Cardinality(Files)} :
        \A i, j \in DOMAIN l : sameDownload(l[i], l[j]) => i = j}

\* refreshDownloadView: the queue, then retained rows that are not in it.
DownloadsUpdated ==
  /\ toUi # <<>> /\ "downloads" \in DOMAIN Head(toUi) /\ toUi' = Tail(toUi)
  /\ LET queue == Head(toUi).downloads
     IN \E retained \in RetainedRows(queue) : ShowDownloads(queue \o retained)
  /\ UNCHANGED <<daemon, fetched, sources>>

\* Clear completed and Delete take retained rows away.
RowsCleared ==
  /\ \E kept \in Parts(entries) : ShowDownloads(kept)
  /\ UNCHANGED <<daemon, fetched, toUi, sources>>

\* setSources.
SourcesUpdated ==
  /\ toUi # <<>> /\ "sources" \in DOMAIN Head(toUi) /\ toUi' = Tail(toUi)
  /\ all' = Head(toUi).sources /\ visible' = Matching(all', fileEcid)
  /\ UNCHANGED <<daemon, fetched, table, fileEcid, excuses>>

\* Seeded fault: the list is not built again for another download.
SetFileEcidOnly(ecid) == fileEcid' = ecid /\ UNCHANGED <<all, visible>>

\* setFileEcid, which has nothing to do when the id stays the same.
SetFileEcid(ecid) ==
  /\ fileEcid' = ecid /\ UNCHANGED all
  /\ visible' = IF ecid = fileEcid THEN visible ELSE Matching(all, ecid)

\* Seeded fault: the first selected row instead of the current one.
SelectionChangedFirst(row) ==
  SetFileEcid(IF 1 \in view'.selected THEN EcidAt(entries, 1) ELSE EcidAt(entries, row))

\* onTransferSelectionChanged, called with the current row there is by then.
SelectionChanged(row) == SetFileEcid(EcidAt(entries, row))

\* With the mouse the current row moves before the selection does.  A right
\* click into the selection moves nothing but the current row.
Pick ==
  /\ \E S \in SUBSET Rows(view), r \in Rows(view) :
       /\ view' = Chosen(view, S, r)
       /\ \/ S # view.selected /\ SelectionChanged(r) /\ excuses' = {}
          \/ S = view.selected /\ r # view.current
             /\ excuses' = excuses \cup {"moved"} /\ UNCHANGED sources
  /\ UNCHANGED <<daemon, fetched, toUi, entries>>

\* With the keyboard the selection changes first (QItemSelectionModel's
\* setCurrentIndex), so that the handler finds the row the user has left.
MoveByKey ==
  /\ \E r \in Rows(view) \ {view.current} :
       /\ view' = Chosen(view, {r}, r)
       /\ IF view.selected = {r} THEN UNCHANGED sources ELSE SelectionChanged(view.current)
  /\ excuses' = {"moved"}
  /\ UNCHANGED <<daemon, fetched, toUi, entries>>

(* ----------------------------- specification ---------------------------- *)

Init ==
  /\ run = 1 /\ ecids = [f \in Files |-> 0] /\ given = {} /\ asks \in [Sources -> Files]
  /\ fetched = <<>> /\ toUi = <<>>
  /\ entries = <<>> /\ view = Empty(<<>>)
  /\ all = {} /\ fileEcid = 0 /\ visible = {} /\ excuses = {}

Next == \/ DaemonChanges \/ Restarts \/ RefreshLost \/ FetchDownloads \/ FetchSources
        \/ DownloadsUpdated \/ RowsCleared \/ SourcesUpdated \/ Pick \/ MoveByKey

Spec == Init /\ [][Next]_vars

(* ------------------------------ properties ------------------------------ *)

\* The table's rows are those of the model, in its order.
ViewOfEntries == view.keys = Hashes(entries)

\* The source list is that of the current row, except for what the selection's
\* signal does not tell: the current row moved alone or after the selection, the
\* rows were reset, or rows that stayed have new EC ids.
ListOfCurrentRow == excuses = {} => fileEcid = EcidAt(entries, view.current)

\* And then every source shown is one of the current row's download, however
\* the snapshots of downloads and sources, EC ids given anew and the user's
\* selections follow each other - unless ids of two runs of the daemon meet.
SourcesOfCurrentRow ==
  excuses = {} /\ view.current # 0 =>
    \A s \in visible :
      s.run = entries[view.current].run => s.file = entries[view.current].file

\* No update of the rows makes the selection stand for downloads the user has
\* not selected: Pause, Stop and Delete act on the hashes of the selected rows.
SelectionKeepsDownloads ==
  [][entries' # entries =>
       \A r \in view'.selected :
         r \in view.selected /\ Hashes(entries')[r] = Hashes(entries)[r]]_vars

=============================================================================
