--------------------------- MODULE TransfersProofs -------------------------
(***************************************************************************)
(* Theorems about Transfers, for any downloads, EC ids and bounds.         *)
(***************************************************************************)
EXTENDS Transfers, FiniteSetTheorems, TLAPS

(* --------------------------- signals and queues -------------------------- *)

\* A signal is a status or a snapshot, and shows which.
LEMMA SignalShape ==
  ASSUME NEW s \in Signal
  PROVE  \/ "status" \in DOMAIN s /\ "downloads" \notin DOMAIN s
            /\ s.status \in {"Disconnected", "Connecting", "Connected", "Error"}
         \/ "status" \notin DOMAIN s /\ "downloads" \in DOMAIN s /\ s.downloads \subseteq Entry
BY DEF Signal

LEMMA StatusSignal ==
  ASSUME NEW st \in {"Disconnected", "Connecting", "Connected", "Error"}
  PROVE  [status |-> st] \in Signal /\ "status" \in DOMAIN [status |-> st]
BY DEF Signal

LEMMA CommandShape ==
  ASSUME NEW c \in Command
  PROVE  c.op \in Ops /\ (c.op = "remove" => c.file \in Files)
BY DEF Command, Ops

\* What is queued goes behind what was, which keeps its places.
LEMMA QueueEnd ==
  ASSUME NEW S, NEW s \in Seq(S), NEW t \in Seq(S)
  PROVE  /\ s \o t \in Seq(S) /\ Len(s \o t) = Len(s) + Len(t)
         /\ \A i \in 1..Len(s) : (s \o t)[i] = s[i]
         /\ \A i \in 1..Len(t) : (s \o t)[Len(s) + i] = t[i]
         /\ \A i \in 1..Len(s \o t) :
              i \in 1..Len(s) \/ (i - Len(s) \in 1..Len(t) /\ (s \o t)[i] = t[i - Len(s)])
OBVIOUS

LEMMA QueueHead ==
  ASSUME NEW S, NEW s \in Seq(S), s # <<>>
  PROVE  /\ Head(s) \in S /\ Head(s) = s[1] /\ Len(s) \in Nat \ {0}
         /\ Tail(s) \in Seq(S) /\ Len(Tail(s)) = Len(s) - 1
         /\ \A i \in 1..Len(Tail(s)) : i + 1 \in 2..Len(s) /\ Tail(s)[i] = s[i + 1]
OBVIOUS

LEMMA OneOrTwo ==
  ASSUME NEW S, NEW a \in S, NEW b \in S
  PROVE  /\ <<a>> \in Seq(S) /\ Len(<<a>>) = 1 /\ <<a>>[1] = a
         /\ <<a, b>> \in Seq(S) /\ Len(<<a, b>>) = 2 /\ <<a, b>>[1] = a /\ <<a, b>>[2] = b
OBVIOUS

(* ---------------------------- type correctness --------------------------- *)

LEMMA SnapshotType == ASSUME TypeOK PROVE Snapshot \subseteq Entry
<1> SUFFICES ASSUME NEW f \in Files
             PROVE  [file |-> f, ecid |-> ids[f], finished |-> queue[f] = "finished"] \in Entry
  BY DEF Snapshot
<1>1. ids[f] \in Ids
  BY DEF TypeOK, Numberings
<1> QED BY <1>1 DEF Entry

LEMMA RetainedType ==
  ASSUME NEW from, from \subseteq Entry, NEW retained, retained \subseteq Entry,
         \A r \in retained : r.finished
  PROVE  Retained(from, retained) \subseteq Entry /\ \A r \in Retained(from, retained) : r.finished
BY DEF Retained, asCompleted, Entry

LEMMA MergeType ==
  ASSUME TypeOK, NEW q, q \subseteq Entry
  PROVE  /\ Merge(q) \subseteq Entry /\ Display(q, Merge(q)) \subseteq Entry
         /\ \A r \in Merge(q) : r.finished
<1> DEFINE gone == {p \in lastQueue_ : p.finished /\ ~inList(q, p)}
           done == {d \in q : d.finished}
<1>1. gone \subseteq Entry /\ done \subseteq Entry
  BY DEF TypeOK
<1>2. /\ Retained(gone, retainedCompleted_) \subseteq Entry
      /\ \A r \in Retained(gone, retainedCompleted_) : r.finished
  BY <1>1, RetainedType DEF TypeOK
<1>3. Merge(q) = Retained(done, Retained(gone, retainedCompleted_))
  BY DEF Merge
<1>4. Merge(q) \subseteq Entry /\ \A r \in Merge(q) : r.finished
  BY <1>1, <1>2, <1>3, RetainedType
<1> QED BY <1>4 DEF Display

LEMMA InitType == Init => TypeOK
<1> SUFFICES ASSUME Init PROVE TypeOK
  OBVIOUS
<1>1. queue \in [Files -> {"absent", "running", "finished"}]
  BY DEF Init
<1>2. toWorker \in Seq(Command) /\ toUi \in Seq(Signal)
  BY DEF Init
<1> QED BY <1>1, <1>2 DEF Init, TypeOK

LEMMA TellType ==
  ASSUME TypeOK, NEW signals \in Seq(Signal), Tell(signals)
  PROVE  toUi' \in Seq(Signal)
BY QueueEnd DEF Tell, TypeOK

LEMMA QueueType ==
  ASSUME TypeOK, NEW commands \in Seq(Command), Queue(commands)
  PROVE  toWorker' \in Seq(Command)
BY QueueEnd DEF Queue, TypeOK

LEMMA TakeType ==
  ASSUME TypeOK, NEW op, Take(op)
  PROVE  toWorker' \in Seq(Command) /\ Head(toWorker) \in Command
BY QueueHead DEF Take, TypeOK

LEMMA DaemonType == ASSUME TypeOK, DaemonChanges \/ DaemonRestarts PROVE TypeOK'
<1>1. CASE DaemonChanges
  <2>1. PICK f \in Files, to \in {"absent", "running", "finished"} : Changes(f, to)
    BY <1>1 DEF DaemonChanges
  <2> QED BY <2>1 DEF Changes, TypeOK, worker, lists
<1>2. CASE DaemonRestarts
  <2>1. toUi' \in Seq(Signal)
    BY <1>2, StatusSignal DEF DaemonRestarts, TypeOK
  <2>2. ids' \in Numberings /\ ~due' /\ ~link' /\ renumbered' = TRUE
    BY <1>2 DEF DaemonRestarts
  <2> QED BY <1>2, <2>1, <2>2 DEF DaemonRestarts, TypeOK, lists
<1> QED BY <1>1, <1>2

LEMMA WorkerType ==
  ASSUME TypeOK, Connect \/ Disconnect \/ DropCommand \/ Refresh \/ LinkLost
  PROVE  TypeOK'
<1>1. CASE Connect
  <2>1. toUi' \in Seq(Signal)
    BY <1>1, StatusSignal, OneOrTwo, TellType DEF Connect
  <2>2. toWorker' \in Seq(Command)
    BY <1>1, TakeType DEF Connect
  <2>3. link' \in BOOLEAN /\ due' \in BOOLEAN /\ (due' => link') /\ stale' \in BOOLEAN
    <3>1. CASE link' = TRUE /\ due' = TRUE /\ stale' = TRUE
      BY <3>1
    <3>2. CASE UNCHANGED <<link, due, stale>>
      BY <3>2 DEF TypeOK
    <3> QED BY <1>1, <3>1, <3>2 DEF Connect
  <2> QED BY <1>1, <2>1, <2>2, <2>3 DEF Connect, TypeOK, daemon, lists, history
<1>2. CASE Disconnect
  <2>1. toUi' \in Seq(Signal)
    BY <1>2, StatusSignal, OneOrTwo, TellType DEF Disconnect
  <2> QED BY <1>2, <2>1, TakeType DEF Disconnect, TypeOK, daemon, lists, history
<1>3. CASE DropCommand
  <2>1. toWorker' \in Seq(Command)
    BY <1>3, TakeType DEF DropCommand
  <2>2. queue' \in [Files -> {"absent", "running", "finished"}]
    BY <1>3 DEF DropCommand, TypeOK
  <2> QED BY <1>3, <2>1, <2>2 DEF DropCommand, TypeOK, lists, history
<1>4. CASE Refresh
  <2>1. [downloads |-> Snapshot] \in Signal
    BY SnapshotType DEF Signal
  <2>2. toUi' \in Seq(Signal)
    BY <1>4, <2>1, OneOrTwo, TellType DEF Refresh
  <2> QED BY <1>4, <2>2 DEF Refresh, TypeOK, daemon, lists, history
<1>5. CASE LinkLost
  <2>1. toUi' \in Seq(Signal)
    BY <1>5, StatusSignal, OneOrTwo, TellType DEF LinkLost
  <2> QED BY <1>5, <2>1 DEF LinkLost, TypeOK, daemon, lists, history
<1> QED BY <1>1, <1>2, <1>3, <1>4, <1>5

LEMMA UiType == ASSUME TypeOK, UiReceives PROVE TypeOK'
<1> DEFINE s == Head(toUi)
<1>1. s \in Signal /\ toUi' \in Seq(Signal)
  BY QueueHead DEF UiReceives, TypeOK
<1>2. CASE "status" \in DOMAIN s
  <2>1. StatusChanged(s.status)
    BY <1>2 DEF UiReceives
  <2>2. renumbered' \in BOOLEAN
    BY <2>1 DEF StatusChanged, MoreReported, TypeOK
  <2> QED BY <1>1, <2>1, <2>2 DEF UiReceives, StatusChanged, TypeOK, daemon, worker
<1>3. CASE "status" \notin DOMAIN s
  <2>1. s.downloads \subseteq Entry
    BY <1>1, <1>3, SignalShape
  <2>2. DownloadsUpdated(s.downloads)
    BY <1>3 DEF UiReceives
  <2>3. /\ lastQueue_' \subseteq Entry /\ retainedCompleted_' \subseteq Entry
        /\ rows' \subseteq Entry /\ \A r \in retainedCompleted_' : r.finished
    BY <2>1, <2>2, MergeType DEF DownloadsUpdated
  <2>4. owed' \subseteq Files
    BY <2>1, <2>2 DEF DownloadsUpdated, Entry, TypeOK
  <2> QED BY <1>1, <2>2, <2>3, <2>4 DEF UiReceives, DownloadsUpdated, TypeOK, daemon, worker
<1> QED BY <1>2, <1>3

LEMMA UserType ==
  ASSUME TypeOK, ClearCompleted \/ Delete \/ ClickConnect \/ ClickDisconnect
  PROVE  TypeOK'
<1>0. \A op \in Ops \ {"remove"} : <<[op |-> op]>> \in Seq(Command)
  BY DEF Command
<1>1. CASE ClearCompleted
  <2>1. toWorker' \in Seq(Command)
    BY <1>0, <1>1, QueueType DEF ClearCompleted, Ops
  <2> QED BY <1>1, <2>1 DEF ClearCompleted, Queue, Display, TypeOK, daemon
<1>2. CASE Delete
  <2>0. PICK S \in SUBSET {r.file : r \in rows} :
          /\ \E order \in [1..Cardinality(S) -> S] :
               Queue([i \in DOMAIN order |-> [op |-> "remove", file |-> order[i]]])
          /\ retainedCompleted_' = {r \in retainedCompleted_ : r.file \notin S}
          /\ rows' = Display(lastQueue_, retainedCompleted_') /\ owed' = owed \ S
          /\ UNCHANGED <<lastQueue_, connected, renumbered>>
    BY <1>2 DEF Delete
  <2>1. PICK order \in [1..Cardinality(S) -> S] :
          Queue([i \in DOMAIN order |-> [op |-> "remove", file |-> order[i]]])
    BY <2>0
  <2>2. S \subseteq Files
    BY DEF TypeOK, Entry
  <2>3. Cardinality(S) \in Nat
    BY <2>2, FilesAssumption, FS_Subset, FS_CardinalityType
  <2>4. [i \in DOMAIN order |-> [op |-> "remove", file |-> order[i]]] \in Seq(Command)
    <3>1. \A i \in 1..Cardinality(S) : [op |-> "remove", file |-> order[i]] \in Command
      BY <2>2 DEF Command
    <3> QED BY <2>3, <3>1
  <2>5. toWorker' \in Seq(Command)
    BY <2>1, <2>4, QueueType
  <2> QED BY <2>0, <2>1, <2>5 DEF Queue, Display, TypeOK, daemon
<1>3. CASE ClickConnect
  BY <1>0, <1>3, QueueType DEF ClickConnect, Queue, Ops, TypeOK, daemon, lists, history
<1>4. CASE ClickDisconnect
  BY <1>0, <1>4, QueueType DEF ClickDisconnect, Queue, Ops, TypeOK, daemon, lists, history
<1> QED BY <1>1, <1>2, <1>3, <1>4

LEMMA StepType == ASSUME TypeOK, [Next]_vars PROVE TypeOK'
<1>1. CASE UNCHANGED vars
  BY <1>1 DEF TypeOK, vars, daemon, worker, lists, history
<1> QED BY <1>1, DaemonType, WorkerType, UiType, UserType DEF Next

\* Every variable keeps its type; what is retained is marked as finished.
THEOREM TypeCorrect == Spec => []TypeOK
<1>1. Init => TypeOK
  BY InitType
<1>2. TypeOK /\ [Next]_vars => TypeOK'
  BY StepType
<1> QED BY <1>1, <1>2, PTL DEF Spec

(* ------------------------- what the lists may hold ----------------------- *)

\* No download is in a list twice, and those marked finished are among done.
Good(list, done) ==
  /\ list \subseteq Entry
  /\ \A a, b \in list : sameDownload(a, b) => a = b
  /\ \A d \in list : d.finished => d.file \in done

Reported == {i \in 1..Len(toUi) : "downloads" \in DOMAIN toUi[i]}

\* Every list is good, those on their way to the window too.
ListsInv ==
  /\ \A f \in Files : queue[f] = "finished" => f \in everDone
  /\ Good(lastQueue_, everDone) /\ Good(retainedCompleted_, everDone) /\ Good(rows, everDone)
  /\ \A i \in Reported : Good(toUi[i].downloads, everDone)

LEMMA GoodPart ==
  ASSUME NEW list, NEW done, Good(list, done), NEW part \in SUBSET list, NEW more, done \subseteq more
  PROVE  Good(part, more)
BY DEF Good

LEMMA EmptyGood == ASSUME NEW done PROVE Good({}, done)
BY DEF Good

LEMMA SnapshotGood == ASSUME TypeOK, ListsInv PROVE Good(Snapshot, everDone)
<1>1. \A a, b \in Snapshot : sameDownload(a, b) => a = b
  BY DEF Snapshot, sameDownload, TypeOK, Numberings
<1>2. \A d \in Snapshot : d.finished => d.file \in everDone
  <2> TAKE d \in Snapshot
  <2>1. PICK f \in Files : d = [file |-> f, ecid |-> ids[f], finished |-> queue[f] = "finished"]
    BY DEF Snapshot
  <2>2. d.finished = (queue[f] = "finished") /\ d.file = f
    BY <2>1
  <2> QED BY <2>2 DEF ListsInv
<1> QED BY <1>1, <1>2, SnapshotType DEF Good

LEMMA RetainedGood ==
  ASSUME NEW from, NEW retained, NEW done, Good(from, done), Good(retained, done),
         \A d \in from : d.finished
  PROVE  Good(Retained(from, retained), done)
<1> DEFINE new == {x \in from : ~inList(retained, x)}
<1>1. \A d \in new : asCompleted(d) = d
  BY DEF asCompleted, Good, Entry
<1>2. Retained(from, retained) = retained \cup new
  BY <1>1 DEF Retained
<1>3. \A a \in retained, b \in new : ~sameDownload(a, b) /\ ~sameDownload(b, a)
  BY DEF inList, sameDownload
<1> QED BY <1>2, <1>3 DEF Good

LEMMA DisplayGood ==
  ASSUME NEW q, NEW retained, NEW done, Good(q, done), Good(retained, done)
  PROVE  Good(Display(q, retained), done)
<1> DEFINE shown == {r \in retained : ~inList(q, r)}
<1>1. \A a \in q, b \in shown : ~sameDownload(a, b) /\ ~sameDownload(b, a)
  BY DEF inList, sameDownload
<1> QED BY <1>1 DEF Display, Good

LEMMA MergeGood ==
  ASSUME ListsInv, NEW q, Good(q, everDone)
  PROVE  Good(Merge(q), everDone)
<1> DEFINE gone == {p \in lastQueue_ : p.finished /\ ~inList(q, p)}
           done == {d \in q : d.finished}
<1>1. Good(gone, everDone) /\ Good(done, everDone)
  BY GoodPart DEF ListsInv
<1>2. Good(Retained(gone, retainedCompleted_), everDone)
  BY <1>1, RetainedGood DEF ListsInv
<1> QED BY <1>1, <1>2, RetainedGood DEF Merge

\* What the worker tells joins what is queued; a snapshot only if it is told.
LEMMA Told ==
  ASSUME TypeOK, NEW signals \in Seq(Signal), Tell(signals)
  PROVE  \A i \in Reported' :
           \/ i \in Reported /\ toUi'[i] = toUi[i]
           \/ i - Len(toUi) \in 1..Len(signals) /\ toUi'[i] = signals[i - Len(toUi)]
              /\ "downloads" \in DOMAIN signals[i - Len(toUi)]
<1>1. toUi' = toUi \o signals /\ toUi \in Seq(Signal)
  BY DEF Tell, TypeOK
<1> QED BY <1>1, QueueEnd DEF Reported

LEMMA ToldStatus ==
  ASSUME TypeOK, NEW a, NEW b, {a, b} \subseteq {"Disconnected", "Connecting", "Connected", "Error"},
         Tell(<<[status |-> a]>>) \/ Tell(<<[status |-> a], [status |-> b]>>)
  PROVE  \A i \in Reported' : i \in Reported /\ toUi'[i] = toUi[i]
<1> DEFINE s == [status |-> a]
           t == [status |-> b]
<1>1. s \in Signal /\ t \in Signal /\ "downloads" \notin DOMAIN s /\ "downloads" \notin DOMAIN t
  BY DEF Signal
<1>2. /\ <<s>> \in Seq(Signal) /\ \A i \in 1..Len(<<s>>) : "downloads" \notin DOMAIN <<s>>[i]
      /\ <<s, t>> \in Seq(Signal)
      /\ \A i \in 1..Len(<<s, t>>) : "downloads" \notin DOMAIN <<s, t>>[i]
  BY <1>1, OneOrTwo
<1> HIDE DEF s, t
<1>3. Tell(<<s>>) \/ Tell(<<s, t>>)
  BY DEF s, t
<1> QED BY <1>2, <1>3, Told

\* Lists that stay, and statuses told, leave everything as good as it was.
LEMMA ListsStay ==
  ASSUME ListsInv, everDone \subseteq everDone', UNCHANGED lists,
         \A f \in Files : queue'[f] = "finished" => f \in everDone',
         \A i \in Reported' : i \in Reported /\ toUi'[i] = toUi[i]
  PROVE  ListsInv'
BY GoodPart DEF ListsInv, lists

LEMMA ListsStep == ASSUME TypeOK, ListsInv, [Next]_vars PROVE ListsInv'
<1>1. CASE DaemonChanges
  <2>1. PICK f \in Files, to \in {"absent", "running", "finished"} : Changes(f, to)
    BY <1>1 DEF DaemonChanges
  <2>2. everDone \subseteq everDone' /\ \A g \in Files : queue'[g] = "finished" => g \in everDone'
    BY <2>1 DEF Changes, ListsInv, TypeOK
  <2>3. \A i \in Reported' : i \in Reported /\ toUi'[i] = toUi[i]
    BY <2>1 DEF Changes, Reported
  <2> QED BY <2>1, <2>2, <2>3, ListsStay DEF Changes
<1>2. CASE DaemonRestarts
  <2>1. toUi' = toUi \/ (toUi' = Append(toUi, [status |-> "Error"]))
    BY <1>2 DEF DaemonRestarts
  <2>2. \A i \in Reported' : i \in Reported /\ toUi'[i] = toUi[i]
    BY <2>1 DEF TypeOK, Reported
  <2> QED BY <1>2, <2>2, ListsStay DEF DaemonRestarts, ListsInv
<1>3. CASE Connect \/ Disconnect \/ LinkLost
  <2>1. \A i \in Reported' : i \in Reported /\ toUi'[i] = toUi[i]
    BY <1>3, ToldStatus DEF Connect, Disconnect, LinkLost
  <2> QED BY <1>3, <2>1, ListsStay DEF Connect, Disconnect, LinkLost, daemon, ListsInv
<1>4. CASE DropCommand
  <2>1. \A f \in Files : queue'[f] = "finished" => f \in everDone
    BY <1>4 DEF DropCommand, ListsInv
  <2>2. \A i \in Reported' : i \in Reported /\ toUi'[i] = toUi[i]
    BY <1>4 DEF DropCommand, Reported
  <2> QED BY <1>4, <2>1, <2>2, ListsStay DEF DropCommand
<1>5. CASE Refresh
  <2>1. PICK s \in Signal : s = [downloads |-> Snapshot]
    BY SnapshotType DEF Signal
  <2>2. Tell(<<s>>) /\ <<s>> \in Seq(Signal) /\ \A i \in 1..Len(<<s>>) : <<s>>[i] = s
    BY <1>5, <2>1, OneOrTwo DEF Refresh
  <2>3. \A i \in Reported' : (i \in Reported /\ toUi'[i] = toUi[i]) \/ toUi'[i] = s
    BY <2>2, Told
  <2>4. \A i \in Reported' : Good(toUi'[i].downloads, everDone)
    BY <2>1, <2>3, SnapshotGood DEF ListsInv
  <2> QED BY <1>5, <2>4 DEF Refresh, ListsInv, daemon, lists
<1>6. CASE UiReceives
  <2> DEFINE s == Head(toUi)
  <2>1. toUi \in Seq(Signal) /\ toUi # <<>> /\ toUi' = Tail(toUi) /\ UNCHANGED <<queue, everDone>>
    BY <1>6 DEF UiReceives, TypeOK, daemon
  <2>2. \A i \in Reported' : Good(toUi'[i].downloads, everDone')
    BY <2>1, QueueHead DEF ListsInv, Reported
  <2>3. CASE "status" \in DOMAIN s
    <3>1. rows' = rows /\ lastQueue_' \in {{}, lastQueue_}
          /\ retainedCompleted_' \in {{}, retainedCompleted_}
      BY <1>6, <2>3 DEF UiReceives, StatusChanged
    <3> QED BY <2>1, <2>2, <3>1, EmptyGood DEF ListsInv
  <2>4. CASE "status" \notin DOMAIN s
    <3>1. DownloadsUpdated(s.downloads)
      BY <1>6, <2>4 DEF UiReceives
    <3>2. Good(s.downloads, everDone)
      BY <2>1, <2>4, QueueHead, SignalShape DEF ListsInv, Reported
    <3>3. Good(lastQueue_', everDone) /\ Good(retainedCompleted_', everDone)
      BY <3>1, <3>2, MergeGood DEF DownloadsUpdated
    <3>4. Good(rows', everDone)
      BY <3>1, <3>3, DisplayGood DEF DownloadsUpdated
    <3> QED BY <2>1, <2>2, <3>3, <3>4 DEF ListsInv
  <2> QED BY <2>3, <2>4
<1>7. CASE ClearCompleted \/ Delete
  <2>1. /\ retainedCompleted_' \subseteq retainedCompleted_ /\ lastQueue_' = lastQueue_
        /\ rows' = Display(lastQueue_, retainedCompleted_')
        /\ UNCHANGED <<queue, everDone, toUi>>
    BY <1>7 DEF ClearCompleted, Delete, Queue, daemon
  <2>2. Good(retainedCompleted_', everDone)
    BY <2>1, GoodPart DEF ListsInv
  <2>3. Good(rows', everDone)
    BY <2>1, <2>2, DisplayGood DEF ListsInv
  <2> QED BY <2>1, <2>2, <2>3 DEF ListsInv, Reported
<1>8. CASE ClickConnect \/ ClickDisconnect
  BY <1>8 DEF ClickConnect, ClickDisconnect, Queue, daemon, lists, ListsInv, Reported
<1>9. CASE UNCHANGED vars
  BY <1>9 DEF vars, daemon, lists, ListsInv, Reported
<1> QED BY <1>1, <1>2, <1>3, <1>4, <1>5, <1>6, <1>7, <1>8, <1>9 DEF Next

THEOREM ListsGood == Spec => []ListsInv
<1>1. Init => ListsInv
  BY EmptyGood DEF Init, ListsInv, Reported
<1>2. TypeOK /\ ListsInv /\ [Next]_vars => ListsInv'
  BY ListsStep
<1> QED BY <1>1, <1>2, TypeCorrect, PTL DEF Spec

\* However downloads are retained, dropped, added again and renumbered, none is
\* shown twice.
THEOREM ShownOnce == Spec => []OneRowPerFile
<1>1. ListsInv => OneRowPerFile
  BY DEF ListsInv, Good, OneRowPerFile, sameDownload
<1> QED BY <1>1, ListsGood, PTL

\* Only what the daemon has finished is ever shown as completed.
THEOREM ShownFinished == Spec => []CompletedHasFinished
<1>1. ListsInv => CompletedHasFinished
  BY DEF ListsInv, Good, CompletedHasFinished
<1> QED BY <1>1, ListsGood, PTL

(* ------------------------- the rows of live downloads -------------------- *)

\* From this signal on, nothing changes the lists.
Idle(from) == \A i \in from..Len(toUi) : i \notin Reported /\ toUi[i].status # "Disconnected"

\* While the daemon has not changed, what it has is what the window has or is
\* about to take.
LiveInv ==
  link /\ ~stale =>
    \/ Idle(1) /\ lastQueue_ = Snapshot /\ Snapshot \subseteq rows
    \/ \E k \in Reported : toUi[k].downloads = Snapshot /\ Idle(k + 1)

\* A failed reconnect tells two statuses.
LEMMA LiveFailedConnect ==
  ASSUME TypeOK, LiveInv, Tell(<<[status |-> "Connecting"], [status |-> "Error"]>>),
         UNCHANGED <<link, stale, lists, queue, ids>>
  PROVE  LiveInv'
<1> SUFFICES ASSUME link, ~stale PROVE LiveInv'
  BY DEF LiveInv
<1>1. PICK s \in Signal, t \in Signal :
         /\ s = [status |-> "Connecting"] /\ t = [status |-> "Error"]
  BY DEF Signal
<1>2. /\ s.status = "Connecting" /\ t.status = "Error"
      /\ "downloads" \notin DOMAIN s /\ "downloads" \notin DOMAIN t
  BY <1>1
<1>3. toUi \in Seq(Signal) /\ toUi' = toUi \o <<s, t>>
  BY <1>1 DEF Tell, TypeOK
<1>4. /\ Len(toUi) \in Nat /\ Len(toUi') = Len(toUi) + 2
      /\ \A i \in 1..Len(toUi) : toUi'[i] = toUi[i]
      /\ toUi'[Len(toUi) + 1] = s /\ toUi'[Len(toUi) + 2] = t
  BY <1>3, OneOrTwo, QueueEnd
<1>5. \A i \in 1..Len(toUi) : i \in Reported => i \in Reported'
  BY <1>4 DEF Reported
<1>6. \A i \in 1..Len(toUi') :
        \/ i \in 1..Len(toUi) /\ (i \in Reported' => i \in Reported) /\ toUi'[i] = toUi[i]
        \/ i \notin Reported' /\ toUi'[i].status # "Disconnected"
  <2> TAKE i \in 1..Len(toUi')
  <2>1. i \in 1..Len(toUi) \/ i = Len(toUi) + 1 \/ i = Len(toUi) + 2
    BY <1>4
  <2> QED BY <1>2, <1>4, <2>1 DEF Reported
<1>7. \A a \in Nat \ {0} : Idle(a) => Idle(a)'
  <2> SUFFICES ASSUME NEW a \in Nat \ {0}, Idle(a), NEW i \in a..Len(toUi')
               PROVE  i \notin Reported' /\ toUi'[i].status # "Disconnected"
    BY DEF Idle
  <2>1. i \in 1..Len(toUi') /\ (i \in 1..Len(toUi) => i \in a..Len(toUi))
    BY <1>4
  <2> QED BY <1>6, <2>1 DEF Idle
<1>8. Snapshot' = Snapshot
  BY DEF Snapshot
<1>9. CASE Idle(1) /\ lastQueue_ = Snapshot /\ Snapshot \subseteq rows
  BY <1>7, <1>8, <1>9 DEF LiveInv, lists
<1>10. ASSUME NEW k \in Reported, toUi[k].downloads = Snapshot, Idle(k + 1) PROVE LiveInv'
  <2>1. k \in 1..Len(toUi) /\ k \in Reported' /\ toUi'[k] = toUi[k] /\ k + 1 \in Nat \ {0}
    BY <1>4, <1>5 DEF Reported
  <2> QED BY <1>7, <1>8, <1>10, <2>1 DEF LiveInv
<1> QED BY <1>9, <1>10 DEF LiveInv

LEMMA LiveTaken == ASSUME TypeOK, LiveInv, UiReceives PROVE LiveInv'
<1> DEFINE s == Head(toUi)
<1> SUFFICES ASSUME link, ~stale PROVE LiveInv'
  BY DEF LiveInv, UiReceives, worker
<1>1. toUi \in Seq(Signal) /\ toUi # <<>> /\ toUi' = Tail(toUi)
      /\ UNCHANGED <<queue, ids, link, stale>>
  BY DEF UiReceives, TypeOK, daemon, worker
<1>2. /\ s = toUi[1] /\ s \in Signal /\ Len(toUi) \in Nat \ {0} /\ Len(toUi') = Len(toUi) - 1
      /\ \A i \in 1..Len(toUi') : toUi'[i] = toUi[i + 1]
  BY <1>1, QueueHead
<1>3. \A i \in 1..Len(toUi') : i \in Reported' <=> i + 1 \in Reported
  BY <1>2 DEF Reported
<1>4. \A a \in Nat \ {0} : Idle(a + 1) => Idle(a)'
  <2> SUFFICES ASSUME NEW a \in Nat \ {0}, Idle(a + 1), NEW i \in a..Len(toUi')
               PROVE  i \notin Reported' /\ toUi'[i].status # "Disconnected"
    BY DEF Idle
  <2>1. i \in 1..Len(toUi') /\ i + 1 \in (a + 1)..Len(toUi)
    BY <1>2
  <2> QED BY <1>2, <1>3, <2>1 DEF Idle
<1>5. Snapshot' = Snapshot
  BY <1>1 DEF Snapshot
<1>6. CASE Idle(1) /\ lastQueue_ = Snapshot /\ Snapshot \subseteq rows
  <2>1. 1 \notin Reported /\ s.status # "Disconnected"
    BY <1>2, <1>6 DEF Idle
  <2>2. "status" \in DOMAIN s
    BY <1>2, <2>1, SignalShape DEF Reported
  <2>3. lastQueue_' = lastQueue_ /\ rows' = rows
    BY <2>1, <2>2 DEF UiReceives, StatusChanged
  <2>4. Idle(1 + 1)
    BY <1>2, <1>6 DEF Idle
  <2>5. Idle(1)'
    BY <1>4, <2>4
  <2> QED BY <1>5, <1>6, <2>3, <2>5 DEF LiveInv
<1>7. ASSUME NEW k \in Reported, toUi[k].downloads = Snapshot, Idle(k + 1) PROVE LiveInv'
  <2>1. CASE k = 1
    <3>1. DownloadsUpdated(Snapshot)
      BY <1>2, <1>7, <2>1, SignalShape DEF UiReceives, Reported
    <3>2. lastQueue_' = Snapshot /\ Snapshot \subseteq rows'
      BY <3>1 DEF DownloadsUpdated, Display
    <3>3. Idle(1)'
      BY <1>4, <1>7, <2>1
    <3> QED BY <1>5, <3>2, <3>3 DEF LiveInv
  <2>2. CASE k # 1
    <3>1. k - 1 \in 1..Len(toUi') /\ (k - 1) + 1 = k
      BY <1>2, <2>2 DEF Reported
    <3>2. k - 1 \in Reported' /\ toUi'[k - 1].downloads = Snapshot
      BY <1>2, <1>3, <1>7, <3>1
    <3>3. Idle((k - 1) + 1)'
      <4>1. k \in Nat \ {0}
        BY DEF Reported
      <4> QED BY <1>4, <1>7, <3>1, <4>1
    <3> QED BY <1>5, <3>2, <3>3 DEF LiveInv
  <2> QED BY <2>1, <2>2
<1> QED BY <1>6, <1>7 DEF LiveInv

LEMMA LiveStep == ASSUME TypeOK, LiveInv, [Next]_vars PROVE LiveInv'
<1>1. CASE DaemonChanges \/ DaemonRestarts \/ Disconnect \/ LinkLost
  BY <1>1 DEF DaemonChanges, Changes, DaemonRestarts, Disconnect, LinkLost, LiveInv
<1>2. CASE Connect
  BY <1>2, LiveFailedConnect DEF Connect, daemon, LiveInv
<1>3. CASE DropCommand
  <2>1. stale' = TRUE \/ ~link'
    BY <1>3 DEF DropCommand
  <2> QED BY <2>1 DEF LiveInv
<1>4. CASE Refresh
  <2>1. PICK s \in Signal : s = [downloads |-> Snapshot]
    BY SnapshotType DEF Signal
  <2>2. toUi \in Seq(Signal) /\ toUi' = toUi \o <<s>>
    BY <1>4, <2>1 DEF Refresh, Tell, TypeOK
  <2>3. Len(toUi) \in Nat /\ Len(toUi') = Len(toUi) + 1 /\ toUi'[Len(toUi) + 1] = s
    BY <2>2, OneOrTwo, QueueEnd
  <2>4. PICK n \in Nat : n = Len(toUi) + 1
    BY <2>3
  <2>5. n \in Reported' /\ toUi'[n].downloads = Snapshot
    BY <2>1, <2>3, <2>4 DEF Reported
  <2>6. Idle(n + 1)'
    BY <2>3, <2>4 DEF Idle
  <2>7. Snapshot' = Snapshot
    BY <1>4 DEF Refresh, daemon, Snapshot
  <2> QED BY <2>5, <2>6, <2>7 DEF LiveInv
<1>5. CASE UiReceives
  BY <1>5, LiveTaken
<1>6. CASE ClearCompleted \/ Delete
  <2>1. lastQueue_ \subseteq rows' /\ UNCHANGED <<queue, ids, link, stale, toUi, lastQueue_>>
    BY <1>6 DEF ClearCompleted, Delete, Queue, daemon, Display
  <2> QED BY <2>1 DEF LiveInv, Idle, Reported, Snapshot
<1>7. CASE ClickConnect \/ ClickDisconnect
  <2>1. UNCHANGED <<queue, ids, link, stale, toUi, lists>>
    BY <1>7 DEF ClickConnect, ClickDisconnect, Queue, daemon
  <2> QED BY <2>1 DEF lists, LiveInv, Idle, Reported, Snapshot
<1>8. CASE UNCHANGED vars
  BY <1>8 DEF vars, daemon, worker, lists, LiveInv, Idle, Reported, Snapshot
<1> QED BY <1>1, <1>2, <1>3, <1>4, <1>5, <1>6, <1>7, <1>8 DEF Next

\* With nothing newer on its way the table has every download of the queue as it
\* is, whatever is retained.
THEOREM LiveShown == Spec => []LiveRowsCurrent
<1>1. Init => LiveInv
  BY DEF Init, LiveInv
<1>2. TypeOK /\ LiveInv /\ [Next]_vars => LiveInv'
  BY LiveStep
<1>3. LiveInv => LiveRowsCurrent
  BY DEF LiveInv, LiveRowsCurrent, Reported
<1> QED BY <1>1, <1>2, <1>3, TypeCorrect, PTL DEF Spec

(* ------------------------- what stays until cleared ---------------------- *)

Numbered(list, n) == \A d \in list : d.ecid = n[d.file]
Shows(list, f) == \E d \in list : d.file = f

\* While all lists are of one daemon run, what is owed is retained, and what is
\* retained is shown, if not by its own entry then by that of the queue.
FinishedInv ==
  ~renumbered =>
    /\ Numbered(lastQueue_, ids) /\ Numbered(retainedCompleted_, ids)
    /\ \A i \in Reported : Numbered(toUi[i].downloads, ids)
    /\ \A f \in owed : Shows(retainedCompleted_, f)
    /\ \A r \in retainedCompleted_ : Shows(rows, r.file)

\* With one numbering, the same download has the same hash.
LEMMA RetainedShows ==
  ASSUME NEW n \in Numberings, NEW from, NEW retained, from \subseteq Entry, retained \subseteq Entry,
         Numbered(from, n), Numbered(retained, n)
  PROVE  /\ Numbered(Retained(from, retained), n) /\ retained \subseteq Retained(from, retained)
         /\ \A d \in from : Shows(Retained(from, retained), d.file)
<1> DEFINE new == {asCompleted(d) : d \in {x \in from : ~inList(retained, x)}}
<1>0. Retained(from, retained) = retained \cup new
  BY DEF Retained
<1>1. \A d \in from : /\ asCompleted(d) \in Entry
                      /\ asCompleted(d).file = d.file /\ asCompleted(d).ecid = d.ecid
  BY DEF asCompleted, Entry
<1>2. Numbered(new, n)
  BY <1>1 DEF Numbered
<1>3. ASSUME NEW d \in from PROVE Shows(retained \cup new, d.file)
  <2>1. CASE inList(retained, d)
    <3>1. PICK x \in retained : x.file = d.file \/ x.ecid = d.ecid
      BY <2>1 DEF inList, sameDownload
    <3>2. x.file \in Files /\ d.file \in Files /\ x.ecid = n[x.file] /\ d.ecid = n[d.file]
      BY DEF Numbered, Entry
    <3>3. x.file = d.file
      BY <3>1, <3>2 DEF Numberings
    <3> QED BY <3>3 DEF Shows
  <2>2. CASE ~inList(retained, d)
    BY <1>1, <2>2 DEF Shows
  <2> QED BY <2>1, <2>2
<1> QED BY <1>0, <1>2, <1>3 DEF Numbered

LEMMA DisplayShows ==
  ASSUME NEW n \in Numberings, NEW q, NEW retained, q \subseteq Entry, retained \subseteq Entry,
         Numbered(q, n), Numbered(retained, n)
  PROVE  \A r \in retained : Shows(Display(q, retained), r.file)
<1> SUFFICES ASSUME NEW r \in retained PROVE Shows(Display(q, retained), r.file)
  OBVIOUS
<1>1. CASE inList(q, r)
  <2>1. PICK x \in q : x.file = r.file \/ x.ecid = r.ecid
    BY <1>1 DEF inList, sameDownload
  <2>2. x.file \in Files /\ r.file \in Files /\ x.ecid = n[x.file] /\ r.ecid = n[r.file]
    BY DEF Numbered, Entry
  <2>3. x.file = r.file
    BY <2>1, <2>2 DEF Numberings
  <2> QED BY <2>3 DEF Shows, Display
<1>2. CASE ~inList(q, r)
  BY <1>2 DEF Shows, Display
<1> QED BY <1>1, <1>2

LEMMA MergeShows ==
  ASSUME TypeOK, NEW q, q \subseteq Entry, Numbered(q, ids), Numbered(lastQueue_, ids),
         Numbered(retainedCompleted_, ids)
  PROVE  /\ Numbered(Merge(q), ids) /\ retainedCompleted_ \subseteq Merge(q)
         /\ \A d \in q : d.finished => Shows(Merge(q), d.file)
<1> DEFINE gone == {p \in lastQueue_ : p.finished /\ ~inList(q, p)}
           done == {d \in q : d.finished}
           kept == Retained(gone, retainedCompleted_)
<1>1. ids \in Numberings /\ gone \subseteq Entry /\ done \subseteq Entry /\ retainedCompleted_ \subseteq Entry
      /\ \A r \in retainedCompleted_ : r.finished
  BY DEF TypeOK
<1>2. Numbered(gone, ids) /\ Numbered(done, ids)
  BY DEF Numbered
<1>3. kept \subseteq Entry /\ Numbered(kept, ids) /\ retainedCompleted_ \subseteq kept
  BY <1>1, <1>2, RetainedType, RetainedShows
<1>4. Merge(q) = Retained(done, kept)
  BY DEF Merge
<1> HIDE DEF kept
<1>5. /\ Numbered(Retained(done, kept), ids) /\ kept \subseteq Retained(done, kept)
      /\ \A d \in done : Shows(Retained(done, kept), d.file)
  BY <1>1, <1>2, <1>3, RetainedShows
<1> QED BY <1>3, <1>4, <1>5

LEMMA FinishedTaken == ASSUME TypeOK, FinishedInv, UiReceives PROVE FinishedInv'
<1> DEFINE s == Head(toUi)
<1>1. toUi \in Seq(Signal) /\ toUi # <<>> /\ toUi' = Tail(toUi) /\ ids' = ids /\ ids \in Numberings
  BY DEF UiReceives, TypeOK, daemon
<1>2. s = toUi[1] /\ s \in Signal /\ 1 \in 1..Len(toUi)
      /\ \A i \in Reported' : i + 1 \in Reported /\ i + 1 \in 2..Len(toUi) /\ toUi'[i] = toUi[i + 1]
  BY <1>1, QueueHead DEF Reported
<1>3. CASE "status" \in DOMAIN s
  <2>1. StatusChanged(s.status)
    BY <1>3 DEF UiReceives
  <2>2. CASE s.status = "Disconnected"
    <3>1. /\ lastQueue_' = {} /\ retainedCompleted_' = {} /\ owed' = {}
          /\ renumbered' = (renumbered /\ MoreReported)
      BY <2>1, <2>2 DEF StatusChanged
    <3>2. ~renumbered' => \A i \in Reported' : Numbered(toUi'[i].downloads, ids)
      BY <1>2, <3>1 DEF MoreReported, Reported, FinishedInv
    <3> QED BY <1>1, <3>1, <3>2 DEF FinishedInv, Numbered
  <2>3. CASE s.status # "Disconnected"
    BY <1>1, <1>2, <2>1, <2>3 DEF StatusChanged, FinishedInv
  <2> QED BY <2>2, <2>3
<1>4. CASE "status" \notin DOMAIN s
  <2> DEFINE q == s.downloads
  <2>1. DownloadsUpdated(q) /\ q \subseteq Entry /\ 1 \in Reported
    BY <1>2, <1>4, SignalShape DEF UiReceives, Reported
  <2> SUFFICES ASSUME ~renumbered PROVE FinishedInv'
    BY <2>1 DEF DownloadsUpdated, FinishedInv
  <2>2. Numbered(q, ids) /\ Numbered(lastQueue_, ids) /\ Numbered(retainedCompleted_, ids)
    BY <1>2, <2>1 DEF FinishedInv
  <2>3. /\ Numbered(Merge(q), ids) /\ retainedCompleted_ \subseteq Merge(q)
        /\ \A d \in q : d.finished => Shows(Merge(q), d.file)
    BY <2>1, <2>2, MergeShows
  <2>4. \A r \in Merge(q) : Shows(Display(q, Merge(q)), r.file)
    BY <1>1, <2>1, <2>2, <2>3, MergeType, DisplayShows
  <2>5. /\ retainedCompleted_' = Merge(q) /\ lastQueue_' = q /\ rows' = Display(q, Merge(q))
        /\ owed' = owed \cup {d.file : d \in {x \in q : x.finished}}
    BY <2>1 DEF DownloadsUpdated
  <2>6. \A f \in owed' : Shows(Merge(q), f)
    BY <2>3, <2>5 DEF FinishedInv, Shows
  <2>7. \A i \in Reported' : Numbered(toUi'[i].downloads, ids)
    BY <1>2 DEF FinishedInv
  <2> QED BY <1>1, <2>2, <2>3, <2>4, <2>5, <2>6, <2>7 DEF FinishedInv
<1> QED BY <1>3, <1>4

LEMMA FinishedStep == ASSUME TypeOK, FinishedInv, [Next]_vars PROVE FinishedInv'
<1>1. CASE DaemonChanges
  BY <1>1 DEF DaemonChanges, Changes, lists, FinishedInv, Reported
<1>2. CASE DaemonRestarts
  BY <1>2 DEF DaemonRestarts, FinishedInv
<1>3. CASE Connect \/ Disconnect \/ LinkLost
  <2>1. \A i \in Reported' : i \in Reported /\ toUi'[i] = toUi[i]
    BY <1>3, ToldStatus DEF Connect, Disconnect, LinkLost
  <2>2. UNCHANGED <<ids, lists, owed, renumbered>>
    BY <1>3 DEF Connect, Disconnect, LinkLost, daemon, history
  <2> QED BY <2>1, <2>2 DEF FinishedInv, lists
<1>4. CASE DropCommand
  BY <1>4 DEF DropCommand, lists, history, FinishedInv, Reported
<1>5. CASE Refresh
  <2>1. PICK s \in Signal : s = [downloads |-> Snapshot]
    BY SnapshotType DEF Signal
  <2>2. Tell(<<s>>) /\ <<s>> \in Seq(Signal) /\ \A i \in 1..Len(<<s>>) : <<s>>[i] = s
    BY <1>5, <2>1, OneOrTwo DEF Refresh
  <2>3. \A i \in Reported' : (i \in Reported /\ toUi'[i] = toUi[i]) \/ toUi'[i] = s
    BY <2>2, Told
  <2>4. Numbered(Snapshot, ids)
    BY DEF Snapshot, Numbered
  <2>5. UNCHANGED <<ids, lists, owed, renumbered>>
    BY <1>5 DEF Refresh, daemon, history
  <2> QED BY <2>1, <2>3, <2>4, <2>5 DEF FinishedInv, lists
<1>6. CASE UiReceives
  BY <1>6, FinishedTaken
<1>7. CASE ClearCompleted
  BY <1>7 DEF ClearCompleted, Queue, daemon, FinishedInv, Numbered, Reported
<1>8. CASE Delete
  <2>1. PICK S \in SUBSET {r.file : r \in rows} :
          /\ retainedCompleted_' = {r \in retainedCompleted_ : r.file \notin S}
          /\ rows' = Display(lastQueue_, retainedCompleted_') /\ owed' = owed \ S
          /\ UNCHANGED <<lastQueue_, renumbered, ids, toUi>>
    BY <1>8 DEF Delete, Queue, daemon
  <2> SUFFICES ASSUME ~renumbered PROVE FinishedInv'
    BY <2>1 DEF FinishedInv
  <2>2. Numbered(retainedCompleted_', ids) /\ Numbered(lastQueue_, ids)
    BY <2>1 DEF FinishedInv, Numbered
  <2>3. \A f \in owed' : Shows(retainedCompleted_', f)
    BY <2>1 DEF FinishedInv, Shows
  <2>4. \A r \in retainedCompleted_' : Shows(rows', r.file)
    BY <2>1, <2>2, DisplayShows DEF TypeOK
  <2> QED BY <2>1, <2>2, <2>3, <2>4 DEF FinishedInv, Reported
<1>9. CASE ClickConnect \/ ClickDisconnect
  <2>1. UNCHANGED <<ids, toUi, lists, owed, renumbered>>
    BY <1>9 DEF ClickConnect, ClickDisconnect, Queue, daemon, history
  <2> QED BY <2>1 DEF lists, FinishedInv, Reported
<1>10. CASE UNCHANGED vars
  BY <1>10 DEF vars, daemon, lists, history, FinishedInv, Reported
<1> QED BY <1>1, <1>2, <1>3, <1>4, <1>5, <1>6, <1>7, <1>8, <1>9, <1>10 DEF Next

\* What was reported finished is shown until the user clears it or disconnects,
\* however often the link is lost, while all lists are of one daemon run.
THEOREM FinishedShown == Spec => []FinishedStaysShown
<1>1. Init => FinishedInv
  BY DEF Init, FinishedInv, Numbered, Reported
<1>2. TypeOK /\ FinishedInv /\ [Next]_vars => FinishedInv'
  BY FinishedStep
<1>3. FinishedInv => FinishedStaysShown
  BY DEF FinishedInv, FinishedStaysShown, Shows
<1> QED BY <1>1, <1>2, <1>3, TypeCorrect, PTL DEF Spec

=============================================================================
