------------------------------ MODULE Transfers -----------------------------
(***************************************************************************)
(* The Transfers tab: MainWindow merges the queue the worker reports with  *)
(* downloads it has seen finish, which it retains after the daemon drops   *)
(* them.  Three parties act: the daemon (whose queue other clients change  *)
(* too), the worker (which serves commands and sends snapshots), and the   *)
(* UI thread, which only ever sees an old snapshot.                        *)
(*                                                                         *)
(* The worker is reduced to what the tab depends on; EcWorker has all of   *)
(* it.  A download is known by its hash (`file`) and by the EC id the      *)
(* daemon gave it when it started.                                         *)
(***************************************************************************)
EXTENDS Naturals, Sequences, FiniteSets

CONSTANTS Files,         \* hashes of the downloads that come and go
          Ids,           \* EC ids
          CommandBound,  \* bound: slots queued for the worker when the user acts
          SignalBound    \* bound: signals queued for the UI

ASSUME FilesAssumption == IsFiniteSet(Files)
ASSUME IdsAssumption == Cardinality(Ids) >= Cardinality(Files)
ASSUME TransferBounds == CommandBound \in Nat /\ SignalBound \in Nat

VARIABLES
  queue,      \* the daemon's download queue
  ids,        \* the EC ids of this daemon run
  link,       \* the worker has a client
  due,        \* the running slot ends with a refresh still to be made
  toWorker,   \* slots queued on the worker's event loop
  toUi,       \* signals queued for the UI thread
  connected,  \* the UI enables the widgets that need a connection
  lastQueue_, \* the latest queue
  retainedCompleted_,
  rows,       \* what the table shows
  everDone,   \* history: downloads that have been finished
  owed,       \* history: reported finished, and not cleared since
  renumbered, \* history: the lists and queued snapshots may be of two daemon runs
  stale       \* history: the queue changed since the last snapshot was taken

daemon  == <<queue, ids, everDone>>
worker  == <<link, due, toWorker>>
lists   == <<lastQueue_, retainedCompleted_, rows>>
history == <<owed, renumbered>>
vars == <<daemon, worker, toUi, connected, lists, history, stale>>

Entry == [file : Files, ecid : Ids, finished : BOOLEAN]
Ops == {"connect", "disconnect", "clearCompleted", "remove"}
Command == [op : Ops \ {"remove"}] \cup [op : {"remove"}, file : Files]
Signal == [status : {"Disconnected", "Connecting", "Connected", "Error"}]
            \cup [downloads : SUBSET Entry]
Numberings == {n \in [Files -> Ids] : \A f, g \in Files : n[f] = n[g] => f = g}

TypeOK ==
  /\ queue \in [Files -> {"absent", "running", "finished"}] /\ ids \in Numberings
  /\ link \in BOOLEAN /\ due \in BOOLEAN /\ (due => link)
  /\ toWorker \in Seq(Command) /\ toUi \in Seq(Signal) /\ connected \in BOOLEAN
  /\ lastQueue_ \subseteq Entry /\ retainedCompleted_ \subseteq Entry
  /\ \A r \in retainedCompleted_ : r.finished
  /\ rows \subseteq Entry
  /\ everDone \subseteq Files /\ owed \subseteq Files
  /\ renumbered \in BOOLEAN /\ stale \in BOOLEAN

(* ------------------------------- the merge ------------------------------ *)

sameDownload(a, b) == a.file = b.file \/ a.ecid = b.ecid
inList(list, d) == \E x \in list : sameDownload(x, d)
asCompleted(d) == [d EXCEPT !.finished = TRUE]

\* The entries of one snapshot that are not retained yet join those that are.
Retained(from, retained) ==
  retained \cup {asCompleted(d) : d \in {x \in from : ~inList(retained, x)}}

\* Seeded fault: a download that left the queue is retained, finished or not.
MergeAnyGone(q) ==
  Retained({d \in q : d.finished},
           Retained({p \in lastQueue_ : ~inList(q, p)}, retainedCompleted_))

\* Seeded fault: what is retained already is not looked up.
MergeAgain(q) ==
  retainedCompleted_ \cup {asCompleted(d) : d \in {x \in q : x.finished}}

\* The two loops of onDownloadsUpdated.
Merge(q) ==
  Retained({d \in q : d.finished},
           Retained({p \in lastQueue_ : p.finished /\ ~inList(q, p)}, retainedCompleted_))

\* Seeded fault: a retained download hides its entry in the queue.
DisplayRetainedFirst(q, retained) == retained \cup {d \in q : ~inList(retained, d)}

\* refreshDownloadView.
Display(q, retained) == q \cup {r \in retained : ~inList(q, r)}

(* -------------------------------- daemon -------------------------------- *)

Changes(f, to) ==
  /\ queue' = [queue EXCEPT ![f] = to] /\ stale' = TRUE
  /\ everDone' = IF to = "finished" THEN everDone \cup {f} ELSE everDone
  /\ UNCHANGED <<ids, worker, toUi, connected, lists, owed, renumbered>>

\* A download is added, completes, fails its final check, is dropped by
\* another client.
DaemonChanges ==
  \E f \in Files :
    \/ queue[f] = "absent" /\ Changes(f, "running")
    \/ queue[f] = "running" /\ Changes(f, "finished")
    \/ queue[f] = "finished" /\ Changes(f, "running")
    \/ queue[f] # "absent" /\ Changes(f, "absent")

\* The daemon is restarted; EC ids are given anew.
DaemonRestarts ==
  /\ ids' \in Numberings /\ link' = FALSE /\ due' = FALSE
  /\ toUi' = IF link THEN Append(toUi, [status |-> "Error"]) ELSE toUi
  /\ Len(toUi') <= SignalBound
  /\ renumbered' = TRUE
  /\ UNCHANGED <<queue, everDone, toWorker, connected, lists, owed, stale>>

(* -------------------------------- worker -------------------------------- *)

Take(op) ==
  /\ ~due /\ toWorker # <<>> /\ Head(toWorker).op = op /\ toWorker' = Tail(toWorker)

Tell(signals) == toUi' = toUi \o signals /\ Len(toUi') <= SignalBound

\* What fetchDownloads reads.
Snapshot == {[file |-> f, ecid |-> ids[f], finished |-> queue[f] = "finished"] :
               f \in {g \in Files : queue[g] # "absent"}}

Connect ==
  /\ Take("connect")
  /\ \/ link' = TRUE /\ due' = TRUE /\ stale' = TRUE
        /\ Tell(<<[status |-> "Connecting"], [status |-> "Connected"]>>)
     \/ Tell(<<[status |-> "Connecting"], [status |-> "Error"]>>)
        /\ UNCHANGED <<link, due, stale>>
  /\ UNCHANGED <<daemon, connected, lists, history>>

Disconnect ==
  /\ Take("disconnect") /\ link' = FALSE /\ due' = FALSE
  /\ Tell(<<[status |-> "Disconnected"]>>)
  /\ UNCHANGED <<daemon, connected, lists, history, stale>>

\* clearCompleted and remove, through runConnected.
Dropped(c) ==
  IF c.op = "remove" THEN {c.file} ELSE {f \in Files : queue[f] = "finished"}

DropCommand ==
  /\ Take("clearCompleted") \/ Take("remove")
  /\ IF link
     THEN /\ queue' = [f \in Files |-> IF f \in Dropped(Head(toWorker)) THEN "absent"
                                       ELSE queue[f]]
          /\ due' = TRUE /\ stale' = TRUE
     ELSE UNCHANGED <<queue, due, stale>>
  /\ UNCHANGED <<ids, everDone, link, toUi, connected, lists, history>>

\* onRefresh: at the end of a command, or when the timer fires.
Refresh ==
  /\ link /\ due' = FALSE /\ stale' = FALSE
  /\ Tell(<<[downloads |-> Snapshot]>>)
  /\ UNCHANGED <<daemon, link, toWorker, connected, lists, history>>

LinkLost ==
  /\ link /\ link' = FALSE /\ due' = FALSE /\ Tell(<<[status |-> "Error"]>>)
  /\ UNCHANGED <<daemon, toWorker, connected, lists, history, stale>>

(* ---------------------------------- UI ---------------------------------- *)

Queue(commands) ==
  /\ Len(toWorker) < CommandBound /\ toWorker' = toWorker \o commands
  /\ UNCHANGED <<daemon, link, due, toUi, stale>>

\* History: a snapshot is on its way behind the signal that the UI takes.
MoreReported == \E i \in 2..Len(toUi) : "downloads" \in DOMAIN toUi[i]

\* Seeded fault: an Error also drops what is retained.
StatusChangedDropping(st) ==
  /\ connected' = (st = "Connected") /\ UNCHANGED rows
  /\ IF st \in {"Disconnected", "Error"}
     THEN /\ lastQueue_' = {} /\ retainedCompleted_' = {}
          /\ owed' = (IF st = "Error" THEN owed ELSE {})
          /\ renumbered' = (renumbered /\ MoreReported)
     ELSE UNCHANGED <<lastQueue_, retainedCompleted_, owed, renumbered>>

\* onStatusChanged.  The lists go, the rows stay until the next snapshot.
StatusChanged(st) ==
  /\ connected' = (st = "Connected") /\ UNCHANGED rows
  /\ IF st = "Disconnected"
     THEN /\ lastQueue_' = {} /\ retainedCompleted_' = {} /\ owed' = {}
          /\ renumbered' = (renumbered /\ MoreReported)
     ELSE UNCHANGED <<lastQueue_, retainedCompleted_, owed, renumbered>>

\* onDownloadsUpdated.
DownloadsUpdated(q) ==
  /\ retainedCompleted_' = Merge(q) /\ lastQueue_' = q
  /\ rows' = Display(lastQueue_', retainedCompleted_')
  /\ owed' = owed \cup {d.file : d \in {x \in q : x.finished}}
  /\ UNCHANGED <<connected, renumbered>>

UiReceives ==
  /\ toUi # <<>> /\ toUi' = Tail(toUi)
  /\ LET s == Head(toUi) IN
       IF "status" \in DOMAIN s THEN StatusChanged(s.status) ELSE DownloadsUpdated(s.downloads)
  /\ UNCHANGED <<daemon, worker, stale>>

\* The Clear completed button.
ClearCompleted ==
  /\ connected /\ Queue(<<[op |-> "clearCompleted"]>>)
  /\ retainedCompleted_' = {} /\ rows' = Display(lastQueue_, {})
  /\ owed' = {}
  /\ UNCHANGED <<lastQueue_, connected, renumbered>>

\* Delete in the table's context menu, which works without a connection too:
\* a slot for each selected row, and a refresh after each of them.
Delete ==
  \E S \in SUBSET {r.file : r \in rows} \ {{}} :
    /\ \E order \in [1..Cardinality(S) -> S] :
         /\ \A f \in S : \E i \in DOMAIN order : order[i] = f
         /\ Queue([i \in DOMAIN order |-> [op |-> "remove", file |-> order[i]]])
    /\ retainedCompleted_' = {r \in retainedCompleted_ : r.file \notin S}
    /\ rows' = Display(lastQueue_, retainedCompleted_')
    /\ owed' = owed \ S
    /\ UNCHANGED <<lastQueue_, connected, renumbered>>

\* Enter in the password field connects even when the button is disabled.
ClickConnect ==
  Queue(<<[op |-> "connect"]>>) /\ UNCHANGED <<connected, lists, history>>

ClickDisconnect ==
  /\ connected /\ Queue(<<[op |-> "disconnect"]>>)
  /\ UNCHANGED <<connected, lists, history>>

(* ----------------------------- specification ---------------------------- *)

Init ==
  /\ queue \in [Files -> {"absent", "running"}] /\ ids \in Numberings
  /\ link = FALSE /\ due = FALSE /\ toWorker = <<>> /\ toUi = <<>> /\ connected = FALSE
  /\ lastQueue_ = {} /\ retainedCompleted_ = {} /\ rows = {}
  /\ everDone = {} /\ owed = {} /\ renumbered = FALSE /\ stale = TRUE

Next == \/ DaemonChanges \/ DaemonRestarts
        \/ Connect \/ Disconnect \/ DropCommand \/ Refresh \/ LinkLost
        \/ UiReceives \/ ClearCompleted \/ Delete \/ ClickConnect \/ ClickDisconnect

Spec == Init /\ [][Next]_vars

(* ------------------------------ properties ------------------------------ *)

\* A download is shown as completed only if it has been finished: one that was
\* cancelled, or lost with its connection, is never retained as completed.
CompletedHasFinished == \A r \in rows : r.finished => r.file \in everDone

\* A download reported finished stays in the table until the user clears it or
\* disconnects, whatever the daemon drops and however often the link is lost -
\* unless EC ids of two daemon runs have met in the lists.
FinishedStaysShown ==
  ~renumbered => owed \subseteq {r.file : r \in rows}

\* Merging never shows a download twice, in whatever order it is retained,
\* dropped, added again and renumbered.
OneRowPerFile == \A a, b \in rows : a.file = b.file => a = b

\* With no newer snapshot on its way, the table shows every download of the
\* queue as the daemon has it: a retained entry never stands in for a live one.
LiveRowsCurrent ==
  link /\ ~stale /\ toUi = <<>> => Snapshot \subseteq rows

=============================================================================
