-------------------------- MODULE SearchSystemProofs ------------------------
(***************************************************************************)
(* The theorems about EcWorker, for any sets of commands, queries, sources *)
(* and faults and any bounds, and then those about SearchSystem.  The      *)
(* worker within the system is EcWorker's (WorkerInSystem), so what the    *)
(* first part shows of it holds there; what is added follows the worker's  *)
(* signals through the queue to the panel, and the panel's slot calls      *)
(* through the other one.                                                  *)
(***************************************************************************)
EXTENDS SearchSystem, TLAPS

(* ----------------------- PART 1: THE WORKER ALONE ------------------------ *)

(* ------------------------- lemmas on the exchange ----------------------- *)

\* Whatever the daemon answers is a reply to the request.
LEMMA AnswersType ==
  ASSUME TypeOK, NEW req \in Requests, NEW a \in Answers(req)
  PROVE  a \in Reply /\ a.req = req
<1>1. Plain(req) \in Reply /\ Plain(req).req = req
  BY DEF Plain, Junk, Reply, Untouched, Listing
<1>2. Updates \subseteq [Sources -> Listing]
  BY DEF Updates, Listed, Untouched, Listing
<1>3. found \in Queries \cup {NoQuery} /\ complete \in BOOLEAN
  BY DEF TypeOK
<1> QED BY <1>1, <1>2, <1>3 DEF Answers, Reply

\* Replies to anything but GET_UPDATE tell nothing of the sources.
LEMMA OthersSilent ==
  ASSUME TypeOK, NEW req \in Requests \ {"clientUpdate"}, NEW a \in Answers(req)
  PROVE  SentAfter(a) = sent
<1>1. a.upd = Untouched
  BY DEF Answers, Plain, Junk
<1> QED BY <1>1 DEF SentAfter, Untouched, TypeOK

\* The socket keeps its type across an exchange.
LEMMA SocketType ==
  ASSUME TypeOK, NEW a \in Reply, NEW f \in Fates, Possible(a, f), Exchanged(a, f)
  PROVE  /\ owed' \in Seq(Reply) /\ framed' \in BOOLEAN /\ alive' \in BOOLEAN
         /\ sent' \in [Sources -> {"unsent", "sent", "gone"}]
<1>1. Line(a) \in Seq(Reply)
  BY DEF Line, TypeOK
<1>2. framed /\ f \notin IoFates => Line(a) # <<>>
  BY DEF Possible, Readable, Fates, IoFates
<1>3. framed /\ f \notin IoFates => Tail(Line(a)) \in Seq(Reply)
  BY <1>1, <1>2
<1>4. owed' \in Seq(Reply)
  BY <1>1, <1>3 DEF Exchanged
<1> QED BY <1>4 DEF Exchanged, SentAfter, TypeOK

\* What is read is a reply, the junk of a torn frame included.
LEMMA ReceivedType ==
  ASSUME TypeOK, NEW a \in Reply, NEW f \in Fates, Possible(a, f)
  PROVE  Received(a, f) \in Reply
<1>1. Line(a) \in Seq(Reply)
  BY DEF Line, TypeOK
<1>2. framed /\ f = "answered" => Head(Line(a)) \in Reply
  BY <1>1 DEF Possible, Readable
<1>3. Junk \in Reply
  BY DEF Junk, Reply, Untouched, Listing
<1> QED BY <1>2, <1>3 DEF Received

\* Emitting signals updates what the UI was last told.
LEMMA EmitType ==
  ASSUME TypeOK, NEW STATE e, e \in Signals, Emit(e)
  PROVE  emitted' \in Signals /\ status' \in Statuses /\ shown' \in {"on", "off"}
BY DEF Emit, Signals, TypeOK

LEMMA QuietType == Quiet \in Signals
BY DEF Quiet, Signals

\* The signals of teardown().
LEMMA FarewellType ==
  ASSUME NEW st \in {"Disconnected", "Error"}, NEW STATE e, e \in Signals
  PROVE  Farewell(st, e) \in Signals
BY DEF Farewell, Signals, Statuses

(* ------------------------------ type invariant --------------------------- *)

\* Losing the link leaves every variable it touches in its type.
LEMMA TeardownType ==
  ASSUME TypeOK, NEW st \in {"Disconnected", "Error"}, NEW STATE e, e \in Signals,
         Teardown(st, e), inbox' \in Seq(Command), UNCHANGED <<closing, round>>,
         found' \in Queries \cup {NoQuery}, complete' \in BOOLEAN
  PROVE  TypeOK'
<1>1. Farewell(st, e) \in Signals
  BY FarewellType
<1>2. emitted' \in Signals /\ status' \in Statuses /\ shown' \in {"on", "off"}
  BY <1>1, EmitType DEF Teardown
<1>3. owed' = <<>> /\ sent' \in [Sources -> {"unsent", "sent", "gone"}]
  BY DEF Teardown, DropClient, FreshSocket
<1>4. sourceClients' \in [Sources -> {"absent", "partial", "whole"}]
  BY DEF Teardown, DropClient, NoSources
<1>5. owed' \in Seq(Reply)
  BY <1>3
<1> QED BY <1>2, <1>3, <1>4, <1>5 DEF Teardown, DropClient, FreshSocket, TypeOK, round, Pcs

\* Taking a slot leaves a queue of commands.
LEMMA TakeType ==
  ASSUME TypeOK, NEW op, Take(op)
  PROVE  inbox' \in Seq(Command) /\ closing' \in BOOLEAN
BY DEF Take, TypeOK

\* A command ignored for want of a connection.
LEMMA IgnoredType ==
  ASSUME TypeOK, NEW STATE e, e \in Signals, Ignored(e), inbox' \in Seq(Command),
         closing' \in BOOLEAN
  PROVE  TypeOK'
<1>1. emitted' \in Signals /\ status' \in Statuses /\ shown' \in {"on", "off"}
  BY EmitType DEF Ignored
<1> QED BY <1>1 DEF Ignored, TypeOK, Pcs, session, round, socket, daemon, history

\* What every step of the worker that keeps the link does to the socket.
LEMMA ExchangeType ==
  ASSUME TypeOK, NEW req \in Requests, NEW a \in Answers(req), NEW f \in Fates,
         Possible(a, f), Exchanged(a, f)
  PROVE  /\ owed' \in Seq(Reply) /\ framed' \in BOOLEAN /\ alive' \in BOOLEAN
         /\ sent' \in [Sources -> {"unsent", "sent", "gone"}]
         /\ Received(a, f) \in Reply
<1>1. a \in Reply
  BY AnswersType
<1> QED BY <1>1, SocketType, ReceivedType

LEMMA PrefsUncheckedType ==
  ASSUME TypeOK, NEW next \in Pcs, PrefsUnchecked(next), timer' \in BOOLEAN
  PROVE  TypeOK'
<1>1. PICK a \in Answers("prefs"), f \in Fates :
        /\ Possible(a, f) /\ Exchanged(a, f)
        /\ swallowed' = IF f = "late" THEN swallowed + 1 ELSE swallowed
        /\ Emit(IF f # "answered" THEN Quiet
                ELSE [Quiet EXCEPT !.prefs = IF Received(a, f).req = "prefs"
                                             THEN "own" ELSE "foreign"])
  BY DEF PrefsUnchecked
<1>2. "prefs" \in Requests
  BY DEF Requests
<1>3. /\ owed' \in Seq(Reply) /\ framed' \in BOOLEAN /\ alive' \in BOOLEAN
      /\ sent' \in [Sources -> {"unsent", "sent", "gone"}]
  BY <1>1, <1>2, ExchangeType
<1>4. (IF f # "answered" THEN Quiet
       ELSE [Quiet EXCEPT !.prefs = IF Received(a, f).req = "prefs"
                                    THEN "own" ELSE "foreign"]) \in Signals
  BY DEF Quiet, Signals
<1>5. emitted' \in Signals /\ status' \in Statuses /\ shown' \in {"on", "off"}
  BY <1>1, <1>4, EmitType
<1>6. swallowed' \in Nat
  BY <1>1 DEF TypeOK
<1>7. strayed' \in BOOLEAN
  BY DEF PrefsUnchecked
<1> QED BY <1>3, <1>5, <1>6, <1>7 DEF PrefsUnchecked, TypeOK, control, round, daemon

LEMMA RunConnectedType ==
  ASSUME TypeOK, NEW STATE e, e \in Signals, RunConnected(e),
         inbox' \in Seq(Command), UNCHANGED closing
  PROVE  TypeOK'
<1>1. CASE Ignored(e)
  BY <1>1, IgnoredType DEF TypeOK
<1>2. CASE client /\ Lost("command", e) /\ UNCHANGED <<round, daemon>>
  <2>1. Teardown("Error", e)
    BY <1>2 DEF Lost
  <2>2. found' \in Queries \cup {NoQuery} /\ complete' \in BOOLEAN
    BY <1>2 DEF TypeOK, daemon
  <2> QED BY <1>2, <2>1, <2>2, TeardownType
<1>3. CASE /\ client
           /\ \E a \in Answers("command"), f \in Fates \ IoFates :
                /\ Possible(a, f) /\ Exchanged(a, f)
                /\ pc' = IF f = "answered" THEN "stats" ELSE "idle"
           /\ searching' = (searching /\ e.searching # "off")
           /\ Emit(e)
           /\ UNCHANGED <<session, at100, graceOver, wanted, reached, strayed, round,
                          daemon, history>>
  <2>1. "command" \in Requests /\ {"stats", "idle"} \subseteq Pcs
    BY DEF Requests, Pcs, RefreshPcs
  <2>2. /\ owed' \in Seq(Reply) /\ framed' \in BOOLEAN /\ alive' \in BOOLEAN
        /\ sent' \in [Sources -> {"unsent", "sent", "gone"}]
        /\ pc' \in Pcs
    BY <1>3, <2>1, ExchangeType
  <2>3. emitted' \in Signals /\ status' \in Statuses /\ shown' \in {"on", "off"}
    BY <1>3, EmitType
  <2> QED BY <1>3, <2>2, <2>3 DEF TypeOK, session, round, daemon, history
<1> QED BY <1>1, <1>2, <1>3 DEF RunConnected

\* Each slot keeps the types.
LEMMA SlotType == ASSUME TypeOK, Slot PROVE TypeOK'
<1>0. /\ "connecting" \in Pcs /\ "searchStart" \in Pcs /\ "idle" \in Pcs
      /\ "prefsAgain" \in Pcs /\ "stopped" \in Pcs /\ "Disconnected" \in Statuses
  BY DEF Pcs, Statuses
<1> USE <1>0
<1>1. ASSUME BeginConnect PROVE TypeOK'
  <2>1. inbox' \in Seq(Command) /\ closing' \in BOOLEAN
    BY <1>1, TakeType DEF BeginConnect
  <2>2. [Quiet EXCEPT !.status = "Connecting"] \in Signals
    BY DEF Quiet, Signals, Statuses
  <2>3. emitted' \in Signals /\ status' \in Statuses /\ shown' \in {"on", "off"}
    BY <1>1, <2>2, EmitType DEF BeginConnect
  <2> QED BY <1>1, <2>1, <2>3
          DEF BeginConnect, NoSources, TypeOK, search, round, socket, daemon
<1>2. ASSUME Disconnect PROVE TypeOK'
  <2>1. inbox' \in Seq(Command) /\ UNCHANGED closing
    BY <1>2, TakeType DEF Disconnect, Take
  <2>2. found' \in Queries \cup {NoQuery} /\ complete' \in BOOLEAN
    BY <1>2 DEF Disconnect, TypeOK, daemon
  <2> QED BY <1>2, <2>1, <2>2, QuietType, TeardownType DEF Disconnect
<1>3. ASSUME PlainCommand PROVE TypeOK'
  <2>1. inbox' \in Seq(Command) /\ UNCHANGED closing /\ RunConnected(Quiet)
    BY <1>3, TakeType DEF PlainCommand, Take
  <2> QED BY <2>1, QuietType, RunConnectedType
<1>4. ASSUME BeginSearch PROVE TypeOK'
  <2>1. PICK q \in Queries :
          /\ Take("search")
          /\ \/ Ignored(Quiet)
             \/ /\ client /\ RaiseSearch(q) /\ pc' = "searchStart"
                /\ UNCHANGED <<session, round, socket, daemon, history>>
    BY <1>4 DEF BeginSearch
  <2>2. inbox' \in Seq(Command) /\ closing' \in BOOLEAN
    BY <2>1, TakeType
  <2>3. CASE Ignored(Quiet)
    BY <2>2, <2>3, QuietType, IgnoredType
  <2>4. CASE /\ RaiseSearch(q) /\ pc' = "searchStart"
             /\ UNCHANGED <<session, round, socket, daemon, history>>
    <3>1. [Quiet EXCEPT !.searching = "on", !.results = "list"] \in Signals
      BY DEF Quiet, Signals
    <3>2. emitted' \in Signals /\ status' \in Statuses /\ shown' \in {"on", "off"}
      BY <2>4, <3>1, EmitType DEF RaiseSearch
    <3>3. searching' \in BOOLEAN /\ at100' \in BOOLEAN /\ reached' \in BOOLEAN
      BY <2>4 DEF RaiseSearch
    <3>4. strayed' \in BOOLEAN
      <4>1. strayed' = (swallowed > 0)
        BY <2>4 DEF RaiseSearch
      <4>2. (swallowed > 0) \in BOOLEAN
        OBVIOUS
      <4> QED BY <4>1, <4>2
    <3> QED BY <2>2, <2>4, <3>2, <3>3, <3>4
            DEF RaiseSearch, TypeOK, session, round, socket, daemon, history
  <2> QED BY <2>1, <2>3, <2>4
<1>5. ASSUME StopSearch PROVE TypeOK'
  <2>1. inbox' \in Seq(Command) /\ UNCHANGED closing
    BY <1>5, TakeType DEF StopSearch, Take
  <2>2. (IF searching THEN [Quiet EXCEPT !.searching = "off"] ELSE Quiet) \in Signals
    BY DEF Quiet, Signals
  <2> QED BY <1>5, <2>1, <2>2, RunConnectedType DEF StopSearch
<1>6. ASSUME FetchPrefs PROVE TypeOK'
  <2>1. inbox' \in Seq(Command) /\ closing' \in BOOLEAN /\ UNCHANGED closing
    BY <1>6, TakeType DEF FetchPrefs, Take
  <2>2. CASE Ignored(Quiet)
    BY <2>1, <2>2, QuietType, IgnoredType
  <2>3. CASE Lost("prefs", Quiet) /\ UNCHANGED <<round, daemon>>
    <3>1. found' \in Queries \cup {NoQuery} /\ complete' \in BOOLEAN
      BY <2>3 DEF TypeOK, daemon
    <3> QED BY <2>1, <2>3, <3>1, QuietType, TeardownType DEF Lost
  <2>4. CASE /\ \E a \in Answers("prefs"), f \in Fates \ IoFates :
                  /\ Possible(a, f) /\ Exchanged(a, f)
                  /\ Emit(IF f # "answered" THEN Quiet
                          ELSE [Quiet EXCEPT !.prefs =
                                 IF Received(a, f).req = "prefs"
                                 THEN "own" ELSE "foreign"])
             /\ pc' = "idle"
             /\ UNCHANGED <<session, search, round, daemon, history>>
    <3>1. PICK a \in Answers("prefs"), f \in Fates \ IoFates :
                  /\ Possible(a, f) /\ Exchanged(a, f)
                  /\ Emit(IF f # "answered" THEN Quiet
                          ELSE [Quiet EXCEPT !.prefs =
                                 IF Received(a, f).req = "prefs"
                                 THEN "own" ELSE "foreign"])
      BY <2>4
    <3>2. "prefs" \in Requests
      BY DEF Requests
    <3>3. /\ owed' \in Seq(Reply) /\ framed' \in BOOLEAN /\ alive' \in BOOLEAN
          /\ sent' \in [Sources -> {"unsent", "sent", "gone"}]
      BY <3>1, <3>2, ExchangeType
    <3>4. (IF f # "answered" THEN Quiet
           ELSE [Quiet EXCEPT !.prefs = IF Received(a, f).req = "prefs"
                                        THEN "own" ELSE "foreign"]) \in Signals
      BY DEF Quiet, Signals
    <3>5. emitted' \in Signals /\ status' \in Statuses /\ shown' \in {"on", "off"}
      BY <3>1, <3>4, EmitType
    <3> QED BY <2>1, <2>4, <3>3, <3>5
            DEF TypeOK, session, search, round, daemon, history
  <2> QED BY <1>6, <2>2, <2>3, <2>4 DEF FetchPrefs
<1>7. ASSUME ApplyPrefs PROVE TypeOK'
  <2>1. inbox' \in Seq(Command) /\ closing' \in BOOLEAN /\ UNCHANGED closing
    BY <1>7, TakeType DEF ApplyPrefs, Take
  <2>2. CASE Ignored(Quiet)
    BY <2>1, <2>2, QuietType, IgnoredType
  <2>3. CASE Lost("setPrefs", Quiet) /\ UNCHANGED <<round, daemon>>
    <3>1. found' \in Queries \cup {NoQuery} /\ complete' \in BOOLEAN
      BY <2>3 DEF TypeOK, daemon
    <3> QED BY <2>1, <2>3, <3>1, QuietType, TeardownType DEF Lost
  <2>4. CASE /\ \E a \in Answers("setPrefs"), f \in Fates \ IoFates :
                  /\ Possible(a, f) /\ Exchanged(a, f)
                  /\ pc' = IF f = "answered" THEN "prefsAgain" ELSE "idle"
             /\ Emit(Quiet)
             /\ UNCHANGED <<session, search, round, daemon, history>>
    <3>1. "setPrefs" \in Requests
      BY DEF Requests
    <3>2. /\ owed' \in Seq(Reply) /\ framed' \in BOOLEAN /\ alive' \in BOOLEAN
          /\ sent' \in [Sources -> {"unsent", "sent", "gone"}] /\ pc' \in Pcs
      BY <2>4, <3>1, ExchangeType
    <3>3. emitted' \in Signals /\ status' \in Statuses /\ shown' \in {"on", "off"}
      BY <2>4, QuietType, EmitType
    <3> QED BY <2>1, <2>4, <3>2, <3>3
            DEF TypeOK, session, search, round, daemon, history
  <2> QED BY <1>7, <2>2, <2>3, <2>4 DEF ApplyPrefs
<1>8. ASSUME Shutdown PROVE TypeOK'
  <2>1. inbox' \in Seq(Command) /\ closing' \in BOOLEAN
    BY <1>8, TakeType DEF Shutdown
  <2>2. owed' \in Seq(Reply) /\ sent' \in [Sources -> {"unsent", "sent", "gone"}]
    BY <1>8 DEF Shutdown, DropClient, FreshSocket
  <2>3. emitted' \in Signals /\ status' \in Statuses /\ shown' \in {"on", "off"}
    BY <1>8, QuietType, EmitType DEF Shutdown
  <2> QED BY <1>8, <2>1, <2>2, <2>3
          DEF Shutdown, DropClient, FreshSocket, NoSources, TypeOK, search, round,
              daemon
<1> QED BY <1>1, <1>2, <1>3, <1>4, <1>5, <1>6, <1>7, <1>8 DEF Slot

\* A refresh that fails tears the link down.
LEMMA RefreshLostType ==
  ASSUME TypeOK, NEW STATE req, RefreshLost(req) PROVE TypeOK'
<1>1. inbox' \in Seq(Command) /\ UNCHANGED <<closing, round>>
      /\ found' \in Queries \cup {NoQuery} /\ complete' \in BOOLEAN
  BY DEF RefreshLost, TypeOK, control, daemon
<1> QED BY <1>1, QuietType, TeardownType DEF RefreshLost

\* Each exchange of the running slot keeps the types.
LEMMA ExchangeStepType == ASSUME TypeOK, Exchange PROVE TypeOK'
<1>0. /\ {"connecting", "searchStart", "idle", "firstPrefs", "prefsAgain", "stats",
          "downloads", "connState", "servers", "sharedFiles", "clientUpdate",
          "progress", "results"} \subseteq Pcs
      /\ {"stats", "downloads", "connState", "servers", "sharedFiles",
          "clientUpdate", "progress", "results", "search"} \subseteq Requests
      /\ "answered" \in Fates
  BY DEF Pcs, RefreshPcs, Requests, Fates
<1>1. ASSUME ConnectFails PROVE TypeOK'
  <2>1. [Quiet EXCEPT !.status = "Error"] \in Signals
    BY DEF Quiet, Signals, Statuses
  <2>2. emitted' \in Signals /\ status' \in Statuses /\ shown' \in {"on", "off"}
    BY <1>1, <2>1, EmitType DEF ConnectFails
  <2> QED BY <1>0, <1>1, <2>2
          DEF ConnectFails, TypeOK, control, session, search, round, socket, daemon,
              history
<1>2. ASSUME ConnectSucceeds PROVE TypeOK'
  <2>1. [Quiet EXCEPT !.status = "Connected"] \in Signals
    BY DEF Quiet, Signals, Statuses
  <2>2. emitted' \in Signals /\ status' \in Statuses /\ shown' \in {"on", "off"}
    BY <1>2, <2>1, EmitType DEF ConnectSucceeds
  <2>3. owed' \in Seq(Reply) /\ sent' \in [Sources -> {"unsent", "sent", "gone"}]
    BY <1>2 DEF ConnectSucceeds, FreshSocket
  <2>4. /\ swallowed' \in Nat /\ wiped' \in BOOLEAN /\ framed' \in BOOLEAN
        /\ alive' \in BOOLEAN /\ client' \in BOOLEAN /\ pc' \in Pcs
    BY <1>0, <1>2 DEF ConnectSucceeds, FreshSocket
  <2>5. /\ found' \in Queries \cup {NoQuery} /\ complete' \in BOOLEAN
        /\ strayed' \in BOOLEAN
    BY <1>2 DEF ConnectSucceeds, SameDaemon, OtherDaemon, daemon, TypeOK
  <2> QED BY <1>2, <2>2, <2>3, <2>4, <2>5
          DEF ConnectSucceeds, TypeOK, control, round
<1>3. ASSUME FirstPrefs PROVE TypeOK'
  BY <1>0, <1>3, PrefsUncheckedType DEF FirstPrefs
<1>4. ASSUME PrefsAgain PROVE TypeOK'
  BY <1>0, <1>4, PrefsUncheckedType DEF PrefsAgain, TypeOK
<1>5. ASSUME SearchStart PROVE TypeOK'
  <2>1. found' \in Queries \cup {NoQuery} /\ complete' \in BOOLEAN
        /\ inbox' \in Seq(Command) /\ closing' \in BOOLEAN
    BY <1>5 DEF SearchStart, TypeOK, daemon, control
  <2>2. CASE Lost("search", Quiet) /\ UNCHANGED round
    BY <1>5, <2>1, <2>2, QuietType, TeardownType DEF SearchStart, Lost, control
  <2>3. CASE /\ \E a \in Answers("search"), f \in Fates \ IoFates :
                  /\ Possible(a, f) /\ Exchanged(a, f)
                  /\ IF f = "answered"
                     THEN /\ alive => found' = wanted /\ ~complete'
                          /\ pc' = "stats" /\ Emit(Quiet) /\ UNCHANGED searching
                     ELSE SearchRefused
             /\ UNCHANGED <<session, at100, graceOver, wanted, reached, strayed, round,
                            history>>
    <3>1. PICK a \in Answers("search"), f \in Fates \ IoFates :
            /\ Possible(a, f) /\ Exchanged(a, f)
            /\ \/ pc' = "stats" /\ Emit(Quiet) /\ UNCHANGED searching
               \/ SearchRefused
      BY <2>3
    <3>2. /\ owed' \in Seq(Reply) /\ framed' \in BOOLEAN /\ alive' \in BOOLEAN
          /\ sent' \in [Sources -> {"unsent", "sent", "gone"}]
      BY <1>0, <3>1, ExchangeType
    <3>3. [Quiet EXCEPT !.searching = "off"] \in Signals
      BY DEF Quiet, Signals
    <3>4. emitted' \in Signals /\ status' \in Statuses /\ shown' \in {"on", "off"}
      BY <3>1, <3>3, QuietType, EmitType DEF SearchRefused
    <3>5. pc' \in Pcs /\ searching' \in BOOLEAN
      BY <1>0, <3>1 DEF SearchRefused, TypeOK
    <3> QED BY <2>1, <2>3, <3>2, <3>4, <3>5 DEF TypeOK, session, round, history
  <2> QED BY <1>5, <2>2, <2>3 DEF SearchStart
<1>6. ASSUME Fetch PROVE TypeOK'
  <2>1. CASE RefreshLost(pc)
    BY <2>1, RefreshLostType
  <2>2. CASE ~RefreshLost(pc)
    <3>1. pc \in Requests /\ Following[pc] \in Pcs
      BY <1>0, <1>6 DEF Fetch, Following
    <3>2. PICK a \in Answers(pc) :
            /\ Possible(a, "answered") /\ Exchanged(a, "answered")
            /\ genuine' = ((pc = "stats" \/ genuine)
                           /\ Received(a, "answered").req = pc)
      BY <1>6, <2>2 DEF Fetch
    <3>3. /\ owed' \in Seq(Reply) /\ framed' \in BOOLEAN /\ alive' \in BOOLEAN
          /\ sent' \in [Sources -> {"unsent", "sent", "gone"}]
      BY <1>0, <3>1, <3>2, ExchangeType
    <3>4. emitted' \in Signals /\ status' \in Statuses /\ shown' \in {"on", "off"}
      BY <1>6, <2>2, QuietType, EmitType DEF Fetch
    <3> QED BY <1>6, <2>2, <3>1, <3>2, <3>3, <3>4
            DEF Fetch, TypeOK, control, session, search, daemon, history
  <2> QED BY <2>1, <2>2
<1>7. ASSUME FetchClientUpdate PROVE TypeOK'
  <2>1. CASE RefreshLost("clientUpdate")
    BY <2>1, RefreshLostType
  <2>2. CASE ~RefreshLost("clientUpdate")
    <3>1. PICK a \in Answers("clientUpdate") :
            /\ Possible(a, "answered") /\ Exchanged(a, "answered")
            /\ sourceClients' = Merged(Received(a, "answered"))
            /\ Emit([Quiet EXCEPT !.snapshots =
                      IF genuine /\ Received(a, "answered").req = "clientUpdate"
                      THEN "own" ELSE "foreign"])
      BY <1>7, <2>2 DEF FetchClientUpdate
    <3>2. /\ owed' \in Seq(Reply) /\ framed' \in BOOLEAN /\ alive' \in BOOLEAN
          /\ sent' \in [Sources -> {"unsent", "sent", "gone"}]
          /\ Received(a, "answered") \in Reply
      BY <1>0, <3>1, ExchangeType
    <3>3. Merged(Received(a, "answered")) \in [Sources -> {"absent", "partial", "whole"}]
      BY <3>2 DEF Merged, Reply, Listing, TypeOK
    <3>4. [Quiet EXCEPT !.snapshots =
             IF genuine /\ Received(a, "answered").req = "clientUpdate"
             THEN "own" ELSE "foreign"] \in Signals
      BY DEF Quiet, Signals
    <3>5. emitted' \in Signals /\ status' \in Statuses /\ shown' \in {"on", "off"}
      BY <3>1, <3>4, EmitType
    <3> QED BY <1>0, <1>7, <2>2, <3>1, <3>2, <3>3, <3>5
            DEF FetchClientUpdate, TypeOK, control, search, round, daemon, history
  <2> QED BY <2>1, <2>2
<1>8. ASSUME FetchProgress PROVE TypeOK'
  <2>1. CASE RefreshLost("progress")
    BY <2>1, RefreshLostType
  <2>2. CASE ~RefreshLost("progress")
    <3>1. PICK a \in Answers("progress") :
            /\ Possible(a, "answered") /\ Exchanged(a, "answered")
            /\ full' = Received(a, "answered").full
      BY <1>8, <2>2 DEF FetchProgress
    <3>2. /\ owed' \in Seq(Reply) /\ framed' \in BOOLEAN /\ alive' \in BOOLEAN
          /\ sent' \in [Sources -> {"unsent", "sent", "gone"}]
          /\ Received(a, "answered") \in Reply
      BY <1>0, <3>1, ExchangeType
    <3>3. full' \in BOOLEAN
      BY <3>1, <3>2 DEF Reply
    <3>4. emitted' \in Signals /\ status' \in Statuses /\ shown' \in {"on", "off"}
      BY <1>8, <2>2, QuietType, EmitType DEF FetchProgress
    <3> QED BY <1>0, <1>8, <2>2, <3>2, <3>3, <3>4
            DEF FetchProgress, TypeOK, control, session, search, daemon, history
  <2> QED BY <2>1, <2>2
<1>9. ASSUME FetchResults PROVE TypeOK'
  <2>1. CASE RefreshLost("results")
    BY <2>1, RefreshLostType
  <2>2. CASE ~RefreshLost("results")
    <3>1. PICK a \in Answers("results") :
            /\ Possible(a, "answered") /\ Exchanged(a, "answered") /\ GraceRound
            /\ Emit([Quiet EXCEPT
                      !.results = "list", !.query = Received(a, "answered").query,
                      !.searching = IF searching' THEN "-" ELSE "off"])
      BY <1>9, <2>2 DEF FetchResults
    <3>2. /\ owed' \in Seq(Reply) /\ framed' \in BOOLEAN /\ alive' \in BOOLEAN
          /\ sent' \in [Sources -> {"unsent", "sent", "gone"}]
          /\ Received(a, "answered") \in Reply
      BY <1>0, <3>1, ExchangeType
    <3>3. searching' \in BOOLEAN /\ at100' \in BOOLEAN /\ graceOver' \in BOOLEAN
      BY <3>1 DEF GraceRound, TypeOK
    <3>4. Received(a, "answered").query \in Queries \cup {NoQuery}
      BY <3>2 DEF Reply
    <3>5. emitted' \in Signals /\ status' \in Statuses /\ shown' \in {"on", "off"}
      BY <3>1, <3>4 DEF Emit, Quiet, Signals, TypeOK
    <3> QED BY <1>0, <1>9, <2>2, <3>2, <3>3, <3>5
            DEF FetchResults, TypeOK, control, session, round, daemon, history
  <2> QED BY <2>1, <2>2
<1> QED BY <1>1, <1>2, <1>3, <1>4, <1>5, <1>6, <1>7, <1>8, <1>9 DEF Exchange

\* The environment keeps the types.
LEMMA EnvironmentType == ASSUME TypeOK, Environment PROVE TypeOK'
<1>0. ASSUME Emit(Quiet)
      PROVE  emitted' \in Signals /\ status' \in Statuses /\ shown' \in {"on", "off"}
  BY <1>0, QuietType, EmitType
<1>1. ASSUME NEW c \in Command, Post(c) PROVE TypeOK'
  BY <1>0, <1>1
     DEF Post, TypeOK, session, search, round, socket, daemon, history
<1>2. ASSUME Close PROVE TypeOK'
  <2>1. [op |-> "shutdown", query |-> NoQuery] \in Command
    BY DEF Command, Ops, OwnOps
  <2>2. inbox' \in Seq(Command)
    BY <1>2, <2>1 DEF Close, TypeOK
  <2> QED BY <1>0, <1>2, <2>2
          DEF Close, TypeOK, session, search, round, socket, daemon, history
<1>3. ASSUME PeerDies PROVE TypeOK'
  <2>1. alive' \in BOOLEAN
    BY <1>3 DEF PeerDies
  <2> QED BY <1>0, <1>3, <2>1
     DEF PeerDies, TypeOK, control, session, search, round, daemon, history
<1>4. ASSUME GraceElapses PROVE TypeOK'
  BY <1>0, <1>4
     DEF GraceElapses, TypeOK, control, session, round, socket, daemon, history
<1>5. ASSUME ProgressMoves PROVE TypeOK'
  <2>1. complete' \in BOOLEAN
    BY <1>5 DEF ProgressMoves
  <2> QED BY <1>0, <1>5, <2>1
     DEF ProgressMoves, TypeOK, control, session, search, round, socket, history
<1> QED BY <1>1, <1>2, <1>3, <1>4, <1>5 DEF Environment

LEMMA InitType == Init => TypeOK
<1>1. Quiet \in Signals
  BY QuietType
<1>2. <<>> \in Seq(Command) /\ <<>> \in Seq(Reply)
  OBVIOUS
<1>3. /\ NoSources \in [Sources -> {"absent", "partial", "whole"}]
      /\ [s \in Sources |-> "unsent"] \in [Sources -> {"unsent", "sent", "gone"}]
  BY DEF NoSources
<1>4. Init => /\ inbox \in Seq(Command) /\ owed \in Seq(Reply) /\ emitted \in Signals
              /\ sourceClients \in [Sources -> {"absent", "partial", "whole"}]
              /\ sent \in [Sources -> {"unsent", "sent", "gone"}]
  BY <1>1, <1>2, <1>3 DEF Init
<1>5. Init => /\ pc \in Pcs /\ status \in Statuses /\ shown \in {"on", "off"}
              /\ found \in Queries \cup {NoQuery} /\ wanted \in Queries \cup {NoQuery}
              /\ swallowed \in Nat
  BY DEF Init, Pcs, Statuses
<1>6. Init => /\ closing \in BOOLEAN /\ client \in BOOLEAN /\ timer \in BOOLEAN
              /\ searching \in BOOLEAN /\ at100 \in BOOLEAN /\ graceOver \in BOOLEAN
              /\ genuine \in BOOLEAN /\ full \in BOOLEAN
              /\ framed \in BOOLEAN /\ alive \in BOOLEAN
              /\ complete \in BOOLEAN /\ wiped \in BOOLEAN /\ reached \in BOOLEAN
              /\ strayed \in BOOLEAN
  BY DEF Init
<1> QED BY <1>4, <1>5, <1>6 DEF TypeOK

LEMMA StepType == ASSUME TypeOK, [Next]_vars PROVE TypeOK'
<1>1. CASE Slot
  BY <1>1, SlotType
<1>2. CASE Exchange
  BY <1>2, ExchangeStepType
<1>3. CASE Tick
  <2>1. emitted' \in Signals /\ status' \in Statuses /\ shown' \in {"on", "off"}
    BY <1>3, QuietType, EmitType DEF Tick
  <2>2. pc' \in Pcs
    BY <1>3 DEF Tick, Pcs, RefreshPcs
  <2> QED BY <1>3, <2>1, <2>2
          DEF Tick, TypeOK, control, session, search, round, socket, daemon, history
<1>4. CASE Environment
  BY <1>4, EnvironmentType
<1>5. CASE UNCHANGED vars
  BY <1>5
     DEF TypeOK, vars, control, session, search, round, socket, daemon, output, history
<1> QED BY <1>1, <1>2, <1>3, <1>4, <1>5 DEF Next, Stopped

\* Every variable keeps its type, whatever is queued and whatever the wire does.
THEOREM TypeCorrect == Spec => []TypeOK
<1> QED BY InitType, StepType, PTL DEF Spec

(* ------------------------- the inductive invariant ----------------------- *)

\* shutdown is the last slot ever queued.
ShutdownLast ==
  /\ \A i \in 1..Len(inbox) : inbox[i].op = "shutdown" => closing /\ i = Len(inbox)
  /\ pc = "stopped" => closing

\* A slot makes an exchange only on a client, and polls only a search.
Midway == RefreshPcs \cup {"firstPrefs", "searchStart", "prefsAgain"}
RunningNeedsClient == pc \in Midway => client
PollingNeedsSearch == pc \in {"searchStart", "progress", "results"} => searching

\* While it connects, the worker has announced it and forgotten the sources.
ConnectingShown ==
  pc = "connecting" => status = "Connecting" /\ sourceClients = NoSources

\* at100_ always stems from the search that is running.
ReachedKept == searching /\ at100 => reached

ControlInv ==
  /\ ShutdownLast /\ StoppedForGood /\ RunningNeedsClient /\ PollingNeedsSearch
  /\ ConnectingShown /\ ReachedKept
  /\ TimerFollowsClient /\ StatusTellsClient /\ SearchFlagShown /\ SearchNeedsClient

\* A dead connection may hold fewer replies than timeouts, never more.
Behind ==
  client /\ framed => /\ Len(owed) <= swallowed
                      /\ alive => Len(owed) = swallowed

\* The connection has answered everything in step so far.
InStep == client /\ swallowed = 0 /\ framed

\* The exchanges of a refresh after its first.
Gathering == {"downloads", "connState", "servers", "sharedFiles", "clientUpdate"}

\* The part of a refresh done so far read its own replies.
GenuineRound == InStep /\ pc \in Gathering => genuine

\* What the daemon has told in full is known in full.
SourcesTold ==
  InStep /\ ~wiped =>
    \A s \in Sources : /\ sourceClients[s] # "partial"
                       /\ sent[s] = "sent" => sourceClients[s] = "whole"

WireInv == Behind /\ GenuineRound /\ SourcesTold /\ ForeignOnlyAfterTimeout

IInv == TypeOK /\ ControlInv /\ WireInv

(* --------------------- control part of the invariant --------------------- *)

\* Taking a slot other than shutdown leaves shutdown at the end of the queue.
LEMMA TakeLast ==
  ASSUME TypeOK, ShutdownLast, NEW op, Take(op), op # "shutdown", pc' # "stopped"
  PROVE  ShutdownLast'
<1>1. \A i \in 1..Len(inbox') : inbox'[i] = inbox[i + 1] /\ i + 1 \in 1..Len(inbox)
  BY DEF Take, TypeOK
<1>2. Len(inbox') = Len(inbox) - 1
  BY DEF Take, TypeOK
<1>3. Len(inbox) \in Nat /\ closing' = closing
  BY DEF Take, TypeOK
<1> QED BY <1>1, <1>2, <1>3 DEF ShutdownLast

\* Signals without a status or a searching value leave what the UI was told.
LEMMA QuietKeeps ==
  ASSUME Emit(Quiet) PROVE status' = status /\ shown' = shown /\ emitted' = Quiet
BY DEF Emit, Quiet

\* A torn down link leaves everything consistent.
LEMMA TeardownControl ==
  ASSUME TypeOK, ControlInv, NEW st \in {"Disconnected", "Error"},
         NEW STATE e, e \in Signals, e.searching # "on", Teardown(st, e), ShutdownLast'
  PROVE  ControlInv'
<1>1. /\ pc' = "idle" /\ ~client' /\ ~timer' /\ ~searching'
  BY DEF Teardown, DropClient
<1>2. status' = st
  BY DEF Teardown, Emit, Farewell, Signals
<1>3. shown' = "off"
  BY DEF Teardown, Emit, Farewell, Signals, ControlInv, SearchFlagShown, TypeOK
<1> QED BY <1>1, <1>2, <1>3
        DEF ControlInv, StoppedForGood, RunningNeedsClient, PollingNeedsSearch,
            ConnectingShown, ReachedKept, TimerFollowsClient, StatusTellsClient,
            SearchFlagShown, SearchNeedsClient, Midway, RefreshPcs

\* An ignored command changes at most searching_, and tells.
LEMMA IgnoredControl ==
  ASSUME TypeOK, ControlInv, NEW STATE e, e \in Signals, pc = "idle",
         e.searching # "on", e.status = "-", Ignored(e), ShutdownLast'
  PROVE  ControlInv'
<1>1. status' = status /\ pc' = "idle"
  BY DEF Ignored, Emit
<1>2. /\ searching' = (searching /\ e.searching # "off")
      /\ shown' = IF e.searching = "-" THEN shown ELSE e.searching
      /\ e.searching \in {"-", "off"}
  BY DEF Ignored, Emit, Signals
<1>3. (shown' = "on") <=> searching'
  BY <1>2 DEF ControlInv, SearchFlagShown
<1> QED BY <1>1, <1>2, <1>3
        DEF ControlInv, StoppedForGood, RunningNeedsClient, PollingNeedsSearch,
            ConnectingShown, ReachedKept, TimerFollowsClient, StatusTellsClient,
            SearchFlagShown, SearchNeedsClient, Midway, RefreshPcs, Ignored, session

\* A refresh that fails.
LEMMA RefreshLostControl ==
  ASSUME TypeOK, ControlInv, NEW STATE req, RefreshLost(req), pc # "stopped"
  PROVE  ControlInv'
<1>1. Quiet \in Signals /\ Quiet.searching # "on" /\ Teardown("Error", Quiet)
  BY QuietType DEF Quiet, RefreshLost
<1>2. ShutdownLast'
  BY <1>1 DEF RefreshLost, control, ControlInv, ShutdownLast, Teardown
<1> QED BY <1>1, <1>2, TeardownControl

\* The common core of the commands.
LEMMA RunConnectedControl ==
  ASSUME TypeOK, ControlInv, NEW STATE e, e \in Signals, pc = "idle",
         e.searching # "on", e.status = "-", RunConnected(e), ShutdownLast'
  PROVE  ControlInv'
<1>1. CASE Ignored(e)
  BY <1>1, IgnoredControl
<1>2. CASE client /\ Lost("command", e) /\ UNCHANGED <<round, daemon>>
  BY <1>2, TeardownControl DEF Lost
<1>3. CASE /\ client
           /\ \E a \in Answers("command"), f \in Fates \ IoFates :
                /\ Possible(a, f) /\ Exchanged(a, f)
                /\ pc' = IF f = "answered" THEN "stats" ELSE "idle"
           /\ searching' = (searching /\ e.searching # "off")
           /\ Emit(e)
           /\ UNCHANGED <<session, at100, graceOver, wanted, reached, strayed, round,
                          daemon, history>>
  <2>1. pc' \in {"stats", "idle"} /\ status' = status
    BY <1>3 DEF Emit
  <2>2. /\ shown' = IF e.searching = "-" THEN shown ELSE e.searching
        /\ e.searching \in {"-", "off"}
    BY <1>3 DEF Emit, Signals
  <2>3. (shown' = "on") <=> searching'
    BY <1>3, <2>2 DEF ControlInv, SearchFlagShown
  <2> QED BY <1>3, <2>1, <2>3
          DEF ControlInv, StoppedForGood, RunningNeedsClient, PollingNeedsSearch,
              ConnectingShown, ReachedKept, TimerFollowsClient, StatusTellsClient,
              SearchFlagShown, SearchNeedsClient, Midway, RefreshPcs, session
<1> QED BY <1>1, <1>2, <1>3 DEF RunConnected

\* Each slot keeps the control part.
LEMMA SlotControl == ASSUME TypeOK, ControlInv, Slot PROVE ControlInv'
<1>0. /\ Quiet \in Signals /\ Quiet.searching # "on" /\ Quiet.status = "-"
      /\ ShutdownLast
  BY QuietType DEF Quiet, ControlInv
<1>1. ASSUME BeginConnect PROVE ControlInv'
  <2>1. ShutdownLast' /\ pc = "idle"
    BY <1>0, <1>1, TakeLast DEF BeginConnect, Take
  <2>2. status' = "Connecting" /\ shown' = shown
    BY <1>1 DEF BeginConnect, Emit, Quiet
  <2> QED BY <1>1, <2>1, <2>2
          DEF ControlInv, StoppedForGood, RunningNeedsClient, PollingNeedsSearch,
              ConnectingShown, ReachedKept, TimerFollowsClient, StatusTellsClient,
              SearchFlagShown, SearchNeedsClient, Midway, RefreshPcs, BeginConnect,
              NoSources, search
<1>2. ASSUME Disconnect PROVE ControlInv'
  <2>1. ShutdownLast' /\ Teardown("Disconnected", Quiet)
    BY <1>0, <1>2, TakeLast DEF Disconnect, Teardown
  <2> QED BY <1>0, <2>1, TeardownControl
<1>3. ASSUME PlainCommand PROVE ControlInv'
  <2>1. PICK op \in PlainOps : Take(op) /\ RunConnected(Quiet)
    BY <1>3 DEF PlainCommand
  <2>2. op # "shutdown" /\ pc' # "stopped" /\ pc = "idle"
    BY <2>1, PlainOpsAssumption
       DEF OwnOps, RunConnected, Ignored, Lost, Teardown, Take
  <2>3. ShutdownLast'
    BY <1>0, <2>1, <2>2, TakeLast
  <2> QED BY <1>0, <2>1, <2>2, <2>3, RunConnectedControl
<1>4. ASSUME BeginSearch PROVE ControlInv'
  <2>1. PICK q \in Queries :
          /\ Take("search")
          /\ \/ Ignored(Quiet)
             \/ /\ client /\ RaiseSearch(q) /\ pc' = "searchStart"
                /\ UNCHANGED <<session, round, socket, daemon, history>>
    BY <1>4 DEF BeginSearch
  <2>2. ShutdownLast' /\ pc = "idle"
    BY <1>0, <2>1, TakeLast DEF Take, Ignored
  <2>3. CASE Ignored(Quiet)
    BY <1>0, <2>2, <2>3, IgnoredControl
  <2>4. CASE /\ client /\ RaiseSearch(q) /\ pc' = "searchStart"
             /\ UNCHANGED <<session, round, socket, daemon, history>>
    <3>1. status' = status /\ shown' = "on" /\ searching' /\ ~at100'
      BY <2>4 DEF RaiseSearch, Emit, Quiet
    <3> QED BY <2>2, <2>4, <3>1
            DEF ControlInv, StoppedForGood, RunningNeedsClient, PollingNeedsSearch,
                ConnectingShown, ReachedKept, TimerFollowsClient, StatusTellsClient,
                SearchFlagShown, SearchNeedsClient, Midway, RefreshPcs, session
  <2> QED BY <2>1, <2>3, <2>4
<1>5. ASSUME StopSearch PROVE ControlInv'
  <2> DEFINE e == IF searching THEN [Quiet EXCEPT !.searching = "off"] ELSE Quiet
  <2>1. e \in Signals /\ e.searching # "on" /\ e.status = "-"
    BY <1>0 DEF Quiet, Signals
  <2>2. RunConnected(e) /\ Take("stopSearch")
    BY <1>5 DEF StopSearch
  <2> HIDE DEF e
  <2>3. ShutdownLast' /\ pc = "idle"
    BY <1>0, <2>2, TakeLast DEF RunConnected, Ignored, Lost, Teardown, Take
  <2> QED BY <2>1, <2>2, <2>3, RunConnectedControl
<1>6. ASSUME FetchPrefs PROVE ControlInv'
  <2>1. ShutdownLast' /\ pc = "idle"
    BY <1>0, <1>6, TakeLast DEF FetchPrefs, Ignored, Lost, Teardown, Take
  <2>2. CASE Ignored(Quiet)
    BY <1>0, <2>1, <2>2, IgnoredControl
  <2>3. CASE Lost("prefs", Quiet)
    BY <1>0, <2>1, <2>3, TeardownControl DEF Lost
  <2>4. CASE ~Ignored(Quiet) /\ ~Lost("prefs", Quiet)
    <3>1. status' = status /\ shown' = shown
      BY <1>6, <2>4 DEF FetchPrefs, Emit, Quiet
    <3> QED BY <1>6, <2>1, <2>4, <3>1
            DEF ControlInv, StoppedForGood, RunningNeedsClient, PollingNeedsSearch,
                ConnectingShown, ReachedKept, TimerFollowsClient, StatusTellsClient,
                SearchFlagShown, SearchNeedsClient, Midway, RefreshPcs, FetchPrefs,
                session, search
  <2> QED BY <2>2, <2>3, <2>4
<1>7. ASSUME ApplyPrefs PROVE ControlInv'
  <2>1. ShutdownLast' /\ pc = "idle"
    BY <1>0, <1>7, TakeLast DEF ApplyPrefs, Ignored, Lost, Teardown, Take
  <2>2. CASE Ignored(Quiet)
    BY <1>0, <2>1, <2>2, IgnoredControl
  <2>3. CASE Lost("setPrefs", Quiet)
    BY <1>0, <2>1, <2>3, TeardownControl DEF Lost
  <2>4. CASE ~Ignored(Quiet) /\ ~Lost("setPrefs", Quiet)
    <3>1. status' = status /\ shown' = shown /\ pc' \in {"prefsAgain", "idle"}
      BY <1>7, <2>4, QuietKeeps DEF ApplyPrefs
    <3> QED BY <1>7, <2>1, <2>4, <3>1
            DEF ControlInv, StoppedForGood, RunningNeedsClient, PollingNeedsSearch,
                ConnectingShown, ReachedKept, TimerFollowsClient, StatusTellsClient,
                SearchFlagShown, SearchNeedsClient, Midway, RefreshPcs, ApplyPrefs,
                session, search
  <2> QED BY <2>2, <2>3, <2>4
<1>8. ASSUME Shutdown PROVE ControlInv'
  <2>1. pc = "idle" /\ inbox # <<>> /\ Head(inbox).op = "shutdown"
        /\ inbox' = Tail(inbox) /\ closing' = closing
    BY <1>8 DEF Shutdown, Take
  <2>2. /\ inbox \in Seq(Command) /\ Len(inbox) \in Nat /\ Len(inbox) >= 1
        /\ Head(inbox) = inbox[1]
    <3>1. inbox \in Seq(Command) /\ inbox # <<>>
      BY <2>1 DEF TypeOK
    <3> QED BY <3>1
  <2>3. Len(inbox) = 1 /\ closing
    <3>1. 1 \in 1..Len(inbox) /\ inbox[1].op = "shutdown"
      BY <2>1, <2>2
    <3> QED BY <1>0, <3>1 DEF ShutdownLast
  <2>4. inbox' = <<>>
    <3>1. Tail(inbox) \in Seq(Command) /\ Len(Tail(inbox)) = 0
      BY <2>1, <2>2, <2>3
    <3> QED BY <2>1, <3>1
  <2>5. ShutdownLast'
    <3>1. 1..Len(inbox') = {}
      BY <2>4
    <3>2. closing'
      BY <2>1, <2>3
    <3> QED BY <3>1, <3>2 DEF ShutdownLast
  <2>6. status' = status /\ shown' = shown
    BY <1>8, QuietKeeps DEF Shutdown
  <2> QED BY <1>8, <2>1, <2>4, <2>5, <2>6
          DEF ControlInv, StoppedForGood, RunningNeedsClient, PollingNeedsSearch,
              ConnectingShown, ReachedKept, TimerFollowsClient, StatusTellsClient,
              SearchFlagShown, SearchNeedsClient, Midway, RefreshPcs, Shutdown,
              DropClient, search
<1> QED BY <1>1, <1>2, <1>3, <1>4, <1>5, <1>6, <1>7, <1>8 DEF Slot

\* Each exchange keeps the control part.
LEMMA ExchangeControl == ASSUME TypeOK, ControlInv, Exchange PROVE ControlInv'
<1> USE DEF ControlInv, ShutdownLast, StoppedForGood, RunningNeedsClient,
            PollingNeedsSearch, ConnectingShown, ReachedKept, TimerFollowsClient,
            StatusTellsClient, SearchFlagShown, SearchNeedsClient, Midway,
            RefreshPcs
<1>1. ASSUME ConnectFails PROVE ControlInv'
  <2>1. status' = "Error" /\ shown' = shown
    BY <1>1 DEF ConnectFails, Emit, Quiet
  <2> QED BY <1>1, <2>1 DEF ConnectFails, control, session, search
<1>2. ASSUME ConnectSucceeds PROVE ControlInv'
  <2>1. status' = "Connected" /\ shown' = shown
    BY <1>2 DEF ConnectSucceeds, Emit, Quiet
  <2> QED BY <1>2, <2>1 DEF ConnectSucceeds, control
<1>3. ASSUME FirstPrefs \/ PrefsAgain PROVE ControlInv'
  <2>1. status' = status /\ shown' = shown
    BY <1>3 DEF FirstPrefs, PrefsAgain, PrefsUnchecked, Emit, Quiet
  <2>2. pc \in {"firstPrefs", "prefsAgain"} /\ pc' \in {"stats", "idle"}
    BY <1>3 DEF FirstPrefs, PrefsAgain, PrefsUnchecked
  <2>3. client /\ timer'
    BY <1>3, <2>2 DEF FirstPrefs, PrefsAgain
  <2>4. UNCHANGED <<control, client, sourceClients, searching, at100, reached>>
    BY <1>3 DEF FirstPrefs, PrefsAgain, PrefsUnchecked
  <2> QED BY <2>1, <2>2, <2>3, <2>4 DEF control
<1>4. ASSUME SearchStart PROVE ControlInv'
  <2>1. CASE Lost("search", Quiet)
    <3>1. ShutdownLast'
      BY <1>4, <2>1 DEF SearchStart, control, Lost, Teardown
    <3>2. Quiet \in Signals /\ Quiet.searching # "on"
      BY QuietType DEF Quiet
    <3> QED BY <2>1, <3>1, <3>2, TeardownControl DEF Lost
  <2>2. CASE ~Lost("search", Quiet)
    <3>1. \/ pc' = "stats" /\ Emit(Quiet) /\ UNCHANGED searching
          \/ SearchRefused
      BY <1>4, <2>2 DEF SearchStart
    <3>2. UNCHANGED <<control, session, at100, graceOver, wanted, reached, strayed>>
          /\ pc = "searchStart"
      BY <1>4, <2>2 DEF SearchStart
    <3>3. CASE pc' = "stats" /\ Emit(Quiet) /\ UNCHANGED searching
      BY <3>2, <3>3, QuietKeeps DEF control, session
    <3>4. CASE SearchRefused
      <4>1. status' = status /\ shown' = "off" /\ ~searching' /\ pc' = "idle"
        BY <3>4 DEF SearchRefused, Emit, Quiet
      <4> QED BY <3>2, <4>1 DEF control, session
    <3> QED BY <3>1, <3>3, <3>4
  <2> QED BY <2>1, <2>2
<1>5. ASSUME Fetch PROVE ControlInv'
  <2>1. CASE RefreshLost(pc)
    BY <1>5, <2>1, RefreshLostControl DEF Fetch, Following
  <2>2. CASE ~RefreshLost(pc)
    <3>1. /\ pc \in {"stats", "downloads", "connState", "servers", "sharedFiles"}
          /\ pc' \in {"downloads", "connState", "servers", "sharedFiles", "clientUpdate"}
      BY <1>5, <2>2 DEF Fetch, Following
    <3> QED BY <1>5, <2>2, <3>1, QuietKeeps DEF Fetch, control, session, search
  <2> QED BY <2>1, <2>2
<1>6. ASSUME FetchClientUpdate PROVE ControlInv'
  <2>1. CASE RefreshLost("clientUpdate")
    BY <1>6, <2>1, RefreshLostControl DEF FetchClientUpdate
  <2>2. CASE ~RefreshLost("clientUpdate")
    <3>1. status' = status /\ shown' = shown
      BY <1>6, <2>2 DEF FetchClientUpdate, Emit, Quiet
    <3>2. /\ UNCHANGED <<control, client, timer, search>> /\ pc = "clientUpdate"
          /\ pc' = IF searching THEN "progress" ELSE "idle"
      BY <1>6, <2>2 DEF FetchClientUpdate
    <3> QED BY <3>1, <3>2 DEF control, search
  <2> QED BY <2>1, <2>2
<1>7. ASSUME FetchProgress PROVE ControlInv'
  <2>1. CASE RefreshLost("progress")
    BY <1>7, <2>1, RefreshLostControl DEF FetchProgress
  <2>2. CASE ~RefreshLost("progress")
    <3>1. /\ UNCHANGED <<control, session, search>> /\ pc = "progress"
          /\ pc' = "results" /\ Emit(Quiet)
      BY <1>7, <2>2 DEF FetchProgress
    <3> QED BY <3>1, QuietKeeps DEF control, session, search
  <2> QED BY <2>1, <2>2
<1>8. ASSUME FetchResults PROVE ControlInv'
  <2>1. CASE RefreshLost("results")
    BY <1>8, <2>1, RefreshLostControl DEF FetchResults
  <2>2. CASE ~RefreshLost("results")
    <3>1. /\ status' = status
          /\ shown' = IF searching' THEN shown ELSE "off"
      BY <1>8, <2>2 DEF FetchResults, Emit, Quiet
    <3>2. at100' => full
      BY <1>8, <2>2 DEF FetchResults, GraceRound
    <3>3. /\ UNCHANGED <<control, session>> /\ pc = "results"
          /\ pc' = "idle" /\ reached' = full /\ searching' \in BOOLEAN
      BY <1>8, <2>2 DEF FetchResults, GraceRound
    <3>4. searching
      BY <3>3
    <3>5. (shown' = "on") <=> searching'
      BY <3>1, <3>4
    <3> QED BY <3>1, <3>2, <3>3, <3>5 DEF control, session
  <2> QED BY <2>1, <2>2
<1> QED BY <1>1, <1>2, <1>3, <1>4, <1>5, <1>6, <1>7, <1>8 DEF Exchange

\* The environment keeps the control part.
LEMMA EnvironmentControl == ASSUME TypeOK, ControlInv, Environment PROVE ControlInv'
<1>1. Emit(Quiet)
  BY DEF Environment, Post, Close, PeerDies, GraceElapses, ProgressMoves
<1>2. UNCHANGED <<pc, session, searching, wanted, reached, status, shown>>
  BY <1>1, QuietKeeps
     DEF Environment, Post, Close, PeerDies, GraceElapses, ProgressMoves, search
<1>3. UNCHANGED at100
  BY DEF Environment, Post, Close, PeerDies, GraceElapses, ProgressMoves, search
<1>4. ShutdownLast' /\ (pc = "stopped" => UNCHANGED inbox)
  <2>1. ASSUME NEW c \in Command, Post(c) PROVE ShutdownLast' /\ pc # "stopped"
    <3>1. /\ Len(inbox') = Len(inbox) + 1 /\ Len(inbox) \in Nat
          /\ \A i \in 1..Len(inbox) : inbox'[i] = inbox[i]
          /\ inbox'[Len(inbox) + 1] = c
      BY <2>1 DEF Post, TypeOK
    <3>2. ~closing /\ closing' = closing /\ c.op # "shutdown"
      BY <2>1 DEF Post
    <3> QED BY <1>2, <3>1, <3>2 DEF ControlInv, ShutdownLast
  <2>2. ASSUME Close PROVE ShutdownLast' /\ pc # "stopped"
    <3>1. /\ Len(inbox') = Len(inbox) + 1 /\ Len(inbox) \in Nat
          /\ \A i \in 1..Len(inbox) : inbox'[i] = inbox[i]
      BY <2>2 DEF Close, TypeOK
    <3>2. ~closing /\ closing'
      BY <2>2 DEF Close
    <3> QED BY <1>2, <3>1, <3>2 DEF ControlInv, ShutdownLast
  <2>3. CASE UNCHANGED control
    BY <1>2, <2>3 DEF control, ControlInv, ShutdownLast
  <2> QED BY <2>1, <2>2, <2>3 DEF Environment, PeerDies, GraceElapses, ProgressMoves
<1> QED BY <1>2, <1>3, <1>4 DEF ControlInv, StoppedForGood, RunningNeedsClient,
            PollingNeedsSearch, ConnectingShown, ReachedKept, TimerFollowsClient,
            StatusTellsClient, SearchFlagShown, SearchNeedsClient, Midway,
            RefreshPcs, session

(* ----------------------- wire part of the invariant ---------------------- *)

\* On a connection in step the frame read is the answer just asked for.
LEMMA InStepReads ==
  ASSUME TypeOK, Behind, InStep, NEW a \in Reply, Possible(a, "answered")
  PROVE  Received(a, "answered") = a
<1>1. owed \in Seq(Reply) /\ Len(owed) <= 0
  BY DEF TypeOK, Behind, InStep
<1>2. owed = <<>>
  BY <1>1
<1>3. Line(a) # <<>>
  BY DEF Possible, Readable, InStep
<1>4. Line(a) = <<a>>
  BY <1>2, <1>3 DEF Line
<1>5. Head(<<a>>) = a
  OBVIOUS
<1> QED BY <1>4, <1>5 DEF Received, InStep

\* An exchange that reads a frame keeps the distance.
LEMMA ReadKeepsBehind ==
  ASSUME TypeOK, Behind, client, NEW a \in Reply, NEW f \in Fates \ IoFates,
         Possible(a, f), Exchanged(a, f), UNCHANGED <<client, swallowed>>
  PROVE  Behind' /\ framed' = framed
<1>1. framed' = framed /\ alive' = alive
  BY DEF Exchanged, Fates, IoFates, TypeOK
<1>2. CASE ~framed
  BY <1>1, <1>2 DEF Behind
<1>3. CASE framed
  <2>1. Line(a) # <<>>
    BY <1>3 DEF Possible, Readable, Fates, IoFates
  <2>2. owed' = Tail(Line(a))
    BY <1>3 DEF Exchanged, Fates, IoFates
  <2>3. owed \in Seq(Reply) /\ Len(owed) \in Nat /\ swallowed \in Nat
        /\ Len(owed) <= swallowed /\ (alive => Len(owed) = swallowed)
    BY <1>3 DEF Behind, TypeOK
  <2>4. CASE alive
    <3>1. Len(Append(owed, a)) = Len(owed) + 1 /\ Append(owed, a) \in Seq(Reply)
      BY <2>3
    <3>2. Len(owed') = Len(owed)
      BY <2>1, <2>2, <2>4, <3>1 DEF Line
    <3> QED BY <1>1, <2>3, <2>4, <3>2 DEF Behind
  <2>5. CASE ~alive
    <3>1. Len(owed') = Len(owed) - 1
      BY <2>1, <2>2, <2>3, <2>5 DEF Line
    <3> QED BY <1>1, <2>3, <2>5, <3>1 DEF Behind
  <2> QED BY <2>4, <2>5
<1> QED BY <1>1, <1>2, <1>3

\* An exchange about something else than the sources, when a frame is read.
LEMMA OtherExchange ==
  ASSUME TypeOK, Behind, SourcesTold, client, NEW req \in Requests \ {"clientUpdate"},
         NEW a \in Answers(req), NEW f \in Fates \ IoFates, Possible(a, f),
         Exchanged(a, f), UNCHANGED <<client, sourceClients, swallowed, wiped>>
  PROVE  /\ Behind' /\ SourcesTold' /\ framed' = framed
         /\ InStep' => InStep
         /\ InStep /\ f = "answered" => Received(a, f).req = req
<1>1. a \in Reply /\ a.req = req
  BY AnswersType
<1>2. Behind' /\ framed' = framed
  BY <1>1, ReadKeepsBehind
<1>3. sent' = sent
  BY OthersSilent DEF Exchanged
<1>4. InStep' => InStep
  BY <1>2 DEF InStep
<1>5. SourcesTold'
  BY <1>3, <1>4 DEF SourcesTold
<1>6. InStep /\ f = "answered" => Received(a, f).req = req
  BY <1>1, InStepReads
<1> QED BY <1>2, <1>4, <1>5, <1>6

Silent(e) == e.prefs = "-" /\ e.snapshots = "-"

\* Nothing on the wire, nothing about the sources.
LEMMA KeepsWire ==
  ASSUME WireInv, UNCHANGED <<client, sourceClients, genuine, owed, framed, alive,
                              sent, swallowed, wiped>>,
         Silent(emitted'), pc' \notin Gathering \/ pc' = pc
  PROVE  WireInv'
BY DEF WireInv, Behind, GenuineRound, SourcesTold, ForeignOnlyAfterTimeout, InStep,
       Silent, Gathering

\* A torn down link owes nothing.
LEMMA TeardownWire ==
  ASSUME NEW st \in {"Disconnected", "Error"}, NEW STATE e, e \in Signals, Silent(e),
         Teardown(st, e)
  PROVE  WireInv'
<1>1. ~client'
  BY DEF Teardown, DropClient
<1>2. Silent(emitted')
  BY DEF Teardown, Emit, Farewell, Silent, Signals
<1> QED BY <1>1, <1>2
        DEF WireInv, Behind, GenuineRound, SourcesTold, ForeignOnlyAfterTimeout,
            InStep, Silent

LEMMA IgnoredWire ==
  ASSUME WireInv, NEW STATE e, e \in Signals, Silent(e), Ignored(e) PROVE WireInv'
<1>1. Silent(emitted')
  BY DEF Ignored, Emit, Silent
<1> QED BY <1>1, KeepsWire
        DEF Ignored, session, round, socket, history, Gathering

LEMMA RunConnectedWire ==
  ASSUME TypeOK, WireInv, NEW STATE e, e \in Signals, Silent(e), RunConnected(e)
  PROVE  WireInv'
<1>1. CASE Ignored(e)
  BY <1>1, IgnoredWire
<1>2. CASE client /\ Lost("command", e) /\ UNCHANGED <<round, daemon>>
  BY <1>2, TeardownWire DEF Lost
<1>3. CASE /\ client
           /\ \E a \in Answers("command"), f \in Fates \ IoFates :
                /\ Possible(a, f) /\ Exchanged(a, f)
                /\ pc' = IF f = "answered" THEN "stats" ELSE "idle"
           /\ searching' = (searching /\ e.searching # "off")
           /\ Emit(e)
           /\ UNCHANGED <<session, at100, graceOver, wanted, reached, strayed, round,
                          daemon, history>>
  <2>1. PICK a \in Answers("command"), f \in Fates \ IoFates :
          Possible(a, f) /\ Exchanged(a, f) /\ pc' \in {"stats", "idle"}
    BY <1>3
  <2>2. "command" \in Requests \ {"clientUpdate"}
    BY DEF Requests
  <2>3. UNCHANGED <<client, sourceClients, swallowed, wiped>>
    BY <1>3 DEF session, history
  <2>4. Behind' /\ SourcesTold'
    BY <1>3, <2>1, <2>2, <2>3, OtherExchange DEF WireInv
  <2>5. Silent(emitted')
    BY <1>3 DEF Emit, Silent
  <2> QED BY <2>1, <2>4, <2>5
          DEF WireInv, GenuineRound, Gathering, ForeignOnlyAfterTimeout, Silent
<1> QED BY <1>1, <1>2, <1>3 DEF RunConnected

\* The fetchPrefs whose failure is ignored: the one place the distance grows.
LEMMA PrefsUncheckedWire ==
  ASSUME TypeOK, WireInv, client, NEW next \in {"stats", "idle"}, PrefsUnchecked(next)
  PROVE  WireInv'
<1>1. PICK a \in Answers("prefs"), f \in Fates :
        /\ Possible(a, f) /\ Exchanged(a, f)
        /\ swallowed' = IF f = "late" THEN swallowed + 1 ELSE swallowed
        /\ Emit(IF f # "answered" THEN Quiet
                ELSE [Quiet EXCEPT !.prefs = IF Received(a, f).req = "prefs"
                                             THEN "own" ELSE "foreign"])
  BY DEF PrefsUnchecked
<1>2. UNCHANGED <<client, sourceClients, wiped>> /\ pc' \in {"stats", "idle"}
  BY DEF PrefsUnchecked
<1>3. "prefs" \in Requests \ {"clientUpdate"}
  BY DEF Requests
<1>4. GenuineRound'
  BY <1>2 DEF GenuineRound, Gathering
<1>5. CASE f \notin IoFates
  <2>1. f \in Fates \ IoFates /\ swallowed' = swallowed
    BY <1>1, <1>5 DEF IoFates
  <2>2. /\ Behind' /\ SourcesTold' /\ framed' = framed
        /\ InStep /\ f = "answered" => Received(a, f).req = "prefs"
    BY <1>1, <1>2, <1>3, <2>1, OtherExchange DEF WireInv
  <2>3. "foreign" \in {emitted'.prefs, emitted'.snapshots} => ~InStep
    BY <1>1, <2>2 DEF Emit, Quiet
  <2>4. ForeignOnlyAfterTimeout'
    BY <2>1, <2>2, <2>3 DEF ForeignOnlyAfterTimeout, InStep, TypeOK
  <2> QED BY <1>4, <2>2, <2>4 DEF WireInv
<1>6. CASE f \in IoFates
  <2>1. Silent(emitted')
    BY <1>1, <1>6 DEF Emit, Quiet, Silent, IoFates
  <2>2. sent' = sent /\ alive' = alive
    BY <1>1, <1>3, OthersSilent DEF Exchanged
  <2>3. InStep' => InStep
    BY <1>1, <1>2 DEF InStep, Exchanged, TypeOK
  <2>4. SourcesTold'
    BY <1>2, <2>2, <2>3 DEF SourcesTold, WireInv
  <2>5. Behind'
    <3>1. CASE ~framed \/ f = "torn"
      BY <1>1, <3>1 DEF Behind, Exchanged
    <3>2. CASE framed /\ f = "late"
      <4>1. alive /\ owed' = Append(owed, a)
        BY <1>1, <3>2 DEF Possible, Exchanged, Line, IoFates
      <4>2. owed \in Seq(Reply) /\ swallowed \in Nat /\ Len(owed) = swallowed
            /\ a \in Reply
        BY <1>3, <3>2, <4>1, AnswersType DEF WireInv, Behind, TypeOK
      <4>3. Len(owed') = swallowed'
        BY <1>1, <3>2, <4>1, <4>2
      <4> QED BY <1>1, <3>2, <4>2, <4>3 DEF Behind
    <3>3. CASE framed /\ f = "gone"
      <4>1. ~alive /\ owed' = owed
        BY <1>1, <3>3 DEF Possible, Exchanged, Line, IoFates
      <4> QED BY <1>1, <2>2, <3>3, <4>1 DEF WireInv, Behind
    <3> QED BY <1>6, <3>1, <3>2, <3>3 DEF IoFates
  <2> QED BY <1>4, <2>1, <2>4, <2>5 DEF WireInv, ForeignOnlyAfterTimeout, Silent
<1> QED BY <1>5, <1>6

LEMMA SlotWire == ASSUME TypeOK, ControlInv, WireInv, Slot PROVE WireInv'
<1>0. Quiet \in Signals /\ Silent(Quiet)
  BY QuietType DEF Quiet, Silent
<1>1. ASSUME BeginConnect PROVE WireInv'
  <2>1. Silent(emitted') /\ pc' = "connecting"
    BY <1>1 DEF BeginConnect, Emit, Quiet, Silent
  <2>2. UNCHANGED <<client, owed, framed, alive, sent, swallowed>> /\ wiped' = client
    BY <1>1 DEF BeginConnect, socket
  <2>3. Behind' /\ SourcesTold'
    BY <2>2 DEF WireInv, Behind, SourcesTold, InStep
  <2> QED BY <2>1, <2>3
          DEF WireInv, GenuineRound, Gathering, ForeignOnlyAfterTimeout, Silent
<1>2. ASSUME Disconnect PROVE WireInv'
  BY <1>0, <1>2, TeardownWire DEF Disconnect
<1>3. ASSUME PlainCommand PROVE WireInv'
  BY <1>0, <1>3, RunConnectedWire DEF PlainCommand
<1>4. ASSUME BeginSearch PROVE WireInv'
  <2>1. CASE Ignored(Quiet)
    BY <1>0, <2>1, IgnoredWire
  <2>2. CASE ~Ignored(Quiet)
    <3>1. PICK q \in Queries : RaiseSearch(q)
      BY <1>4, <2>2 DEF BeginSearch
    <3>2. UNCHANGED <<session, round, socket, history>> /\ pc' = "searchStart"
      BY <1>4, <2>2 DEF BeginSearch
    <3>3. Silent(emitted')
      BY <3>1 DEF RaiseSearch, Emit, Quiet, Silent
    <3> QED BY <3>2, <3>3, KeepsWire
            DEF session, round, socket, history, Gathering
  <2> QED BY <2>1, <2>2
<1>5. ASSUME StopSearch PROVE WireInv'
  <2> DEFINE e == IF searching THEN [Quiet EXCEPT !.searching = "off"] ELSE Quiet
  <2>1. e \in Signals /\ Silent(e)
    BY DEF Quiet, Signals, Silent
  <2>2. RunConnected(e)
    BY <1>5 DEF StopSearch
  <2> HIDE DEF e
  <2> QED BY <2>1, <2>2, RunConnectedWire
<1>6. ASSUME FetchPrefs PROVE WireInv'
  <2>1. CASE Ignored(Quiet)
    BY <1>0, <2>1, IgnoredWire
  <2>2. CASE Lost("prefs", Quiet)
    BY <1>0, <2>2, TeardownWire DEF Lost
  <2>3. CASE ~Ignored(Quiet) /\ ~Lost("prefs", Quiet)
    <3>1. PICK a \in Answers("prefs"), f \in Fates \ IoFates :
            /\ Possible(a, f) /\ Exchanged(a, f)
            /\ Emit(IF f # "answered" THEN Quiet
                    ELSE [Quiet EXCEPT !.prefs = IF Received(a, f).req = "prefs"
                                                 THEN "own" ELSE "foreign"])
      BY <1>6, <2>3 DEF FetchPrefs
    <3>2. UNCHANGED <<client, sourceClients, swallowed, wiped>> /\ client /\ pc' = "idle"
      BY <1>6, <2>3 DEF FetchPrefs, session, history
    <3>3. "prefs" \in Requests \ {"clientUpdate"}
      BY DEF Requests
    <3>4. /\ Behind' /\ SourcesTold' /\ framed' = framed
          /\ InStep /\ f = "answered" => Received(a, f).req = "prefs"
      BY <3>1, <3>2, <3>3, OtherExchange DEF WireInv
    <3>5. "foreign" \in {emitted'.prefs, emitted'.snapshots} => ~InStep
      BY <3>1, <3>4 DEF Emit, Quiet
    <3>6. ForeignOnlyAfterTimeout'
      BY <3>2, <3>4, <3>5 DEF ForeignOnlyAfterTimeout, InStep, TypeOK
    <3> QED BY <3>2, <3>4, <3>6 DEF WireInv, GenuineRound, Gathering
  <2> QED BY <2>1, <2>2, <2>3
<1>7. ASSUME ApplyPrefs PROVE WireInv'
  <2>1. CASE Ignored(Quiet)
    BY <1>0, <2>1, IgnoredWire
  <2>2. CASE Lost("setPrefs", Quiet)
    BY <1>0, <2>2, TeardownWire DEF Lost
  <2>3. CASE ~Ignored(Quiet) /\ ~Lost("setPrefs", Quiet)
    <3>1. PICK a \in Answers("setPrefs"), f \in Fates \ IoFates :
            Possible(a, f) /\ Exchanged(a, f) /\ pc' \in {"prefsAgain", "idle"}
      BY <1>7, <2>3 DEF ApplyPrefs
    <3>2. UNCHANGED <<client, sourceClients, swallowed, wiped>> /\ client /\ Emit(Quiet)
      BY <1>7, <2>3 DEF ApplyPrefs, session, history
    <3>3. "setPrefs" \in Requests \ {"clientUpdate"}
      BY DEF Requests
    <3>4. Behind' /\ SourcesTold'
      BY <3>1, <3>2, <3>3, OtherExchange DEF WireInv
    <3> QED BY <1>0, <3>1, <3>2, <3>4, QuietKeeps
            DEF WireInv, GenuineRound, Gathering, ForeignOnlyAfterTimeout, Silent
  <2> QED BY <2>1, <2>2, <2>3
<1>8. ASSUME Shutdown PROVE WireInv'
  <2>1. ~client' /\ emitted' = Quiet
    BY <1>8, QuietKeeps DEF Shutdown, DropClient
  <2> QED BY <1>0, <2>1
          DEF WireInv, Behind, GenuineRound, SourcesTold, ForeignOnlyAfterTimeout,
              InStep, Silent
<1> QED BY <1>1, <1>2, <1>3, <1>4, <1>5, <1>6, <1>7, <1>8 DEF Slot

LEMMA ExchangeWire == ASSUME TypeOK, ControlInv, WireInv, Exchange PROVE WireInv'
<1>0. /\ Quiet \in Signals /\ Silent(Quiet) /\ "answered" \in Fates \ IoFates
      /\ {"stats", "downloads", "connState", "servers", "sharedFiles", "progress",
          "results", "search"} \subseteq Requests \ {"clientUpdate"}
      /\ "clientUpdate" \in Requests
  BY QuietType DEF Quiet, Silent, Fates, IoFates, Requests, RefreshPcs
<1>1. ASSUME ConnectFails PROVE WireInv'
  <2>1. Silent(emitted') /\ pc' = "idle"
    BY <1>1 DEF ConnectFails, Emit, Quiet, Silent
  <2> QED BY <1>1, <2>1, KeepsWire
          DEF ConnectFails, session, round, socket, history, Gathering
<1>2. ASSUME ConnectSucceeds PROVE WireInv'
  <2>1. Silent(emitted') /\ pc' = "firstPrefs"
    BY <1>2 DEF ConnectSucceeds, Emit, Quiet, Silent
  <2>2. sourceClients' = NoSources /\ sent' = [s \in Sources |-> "unsent"]
    BY <1>2 DEF ConnectSucceeds, FreshSocket, ControlInv, ConnectingShown
  <2>3. Len(owed') = 0 /\ swallowed' = 0
    BY <1>2 DEF ConnectSucceeds, FreshSocket
  <2>4. Behind' /\ SourcesTold'
    BY <2>2, <2>3 DEF Behind, SourcesTold, NoSources
  <2> QED BY <2>1, <2>4
          DEF WireInv, GenuineRound, Gathering, ForeignOnlyAfterTimeout, Silent
<1>3. ASSUME FirstPrefs \/ PrefsAgain PROVE WireInv'
  <2>1. client
    BY <1>3 DEF FirstPrefs, PrefsAgain, ControlInv, RunningNeedsClient, Midway
  <2> QED BY <1>3, <2>1, PrefsUncheckedWire DEF FirstPrefs, PrefsAgain
<1>4. ASSUME SearchStart PROVE WireInv'
  <2>1. CASE Lost("search", Quiet)
    BY <1>0, <2>1, TeardownWire DEF Lost
  <2>2. CASE ~Lost("search", Quiet)
    <3>1. PICK a \in Answers("search"), f \in Fates \ IoFates :
            /\ Possible(a, f) /\ Exchanged(a, f)
            /\ \/ pc' = "stats" /\ Emit(Quiet)
               \/ SearchRefused
      BY <1>4, <2>2 DEF SearchStart
    <3>2. UNCHANGED <<client, sourceClients, swallowed, wiped>> /\ client
      BY <1>4, <2>2
         DEF SearchStart, session, history, ControlInv, RunningNeedsClient, Midway
    <3>3. Silent(emitted') /\ pc' \in {"stats", "idle"}
      BY <1>0, <3>1 DEF SearchRefused, Emit, Quiet, Silent
    <3>4. Behind' /\ SourcesTold'
      BY <1>0, <3>1, <3>2, OtherExchange DEF WireInv
    <3> QED BY <3>3, <3>4
            DEF WireInv, GenuineRound, Gathering, ForeignOnlyAfterTimeout, Silent
  <2> QED BY <2>1, <2>2
<1>5. ASSUME NEW STATE req, RefreshLost(req) PROVE WireInv'
  BY <1>0, <1>5, TeardownWire DEF RefreshLost
<1>6. ASSUME Fetch, ~RefreshLost(pc) PROVE WireInv'
  <2>1. pc \in {"stats", "downloads", "connState", "servers", "sharedFiles"}
    BY <1>6 DEF Fetch, Following
  <2>2. PICK a \in Answers(pc) :
          /\ Possible(a, "answered") /\ Exchanged(a, "answered")
          /\ genuine' = ((pc = "stats" \/ genuine)
                         /\ Received(a, "answered").req = pc)
    BY <1>6 DEF Fetch
  <2>3. UNCHANGED <<client, sourceClients, swallowed, wiped>> /\ client /\ Emit(Quiet)
    BY <1>6, <2>1
       DEF Fetch, session, history, ControlInv, RunningNeedsClient, Midway, RefreshPcs
  <2>4. pc \in Requests \ {"clientUpdate"}
    BY <1>0, <2>1
  <2>5. /\ Behind' /\ SourcesTold'
        /\ InStep' => InStep
        /\ InStep => Received(a, "answered").req = pc
    BY <1>0, <2>2, <2>3, <2>4, OtherExchange DEF WireInv
  <2>6. InStep' => genuine'
    <3>1. SUFFICES ASSUME InStep' PROVE genuine'
      OBVIOUS
    <3>2. InStep /\ Received(a, "answered").req = pc
      BY <2>5, <3>1
    <3>3. pc = "stats" \/ pc \in Gathering
      BY <2>1 DEF Gathering
    <3>4. pc = "stats" \/ genuine
      BY <3>2, <3>3 DEF WireInv, GenuineRound
    <3> QED BY <2>2, <3>2, <3>4
  <2>7. GenuineRound'
    BY <2>6 DEF GenuineRound
  <2>8. Silent(emitted')
    BY <1>0, <2>3, QuietKeeps
  <2>9. ForeignOnlyAfterTimeout'
    BY <2>8 DEF ForeignOnlyAfterTimeout, Silent
  <2> QED BY <2>5, <2>7, <2>9 DEF WireInv
<1>7. ASSUME FetchClientUpdate, ~RefreshLost("clientUpdate") PROVE WireInv'
  <2>1. PICK a \in Answers("clientUpdate") :
          /\ Possible(a, "answered") /\ Exchanged(a, "answered")
          /\ sourceClients' = Merged(Received(a, "answered"))
          /\ Emit([Quiet EXCEPT !.snapshots =
                    IF genuine /\ Received(a, "answered").req = "clientUpdate"
                    THEN "own" ELSE "foreign"])
    BY <1>7 DEF FetchClientUpdate
  <2>2. UNCHANGED <<client, swallowed, wiped>> /\ client /\ pc = "clientUpdate"
        /\ pc' \in {"progress", "idle"}
    BY <1>7
       DEF FetchClientUpdate, history, ControlInv, RunningNeedsClient, Midway, RefreshPcs
  <2>3. a \in Reply /\ a.req = "clientUpdate"
    BY <1>0, <2>1, AnswersType
  <2>4. Behind' /\ framed' = framed
    BY <1>0, <2>1, <2>2, <2>3, ReadKeepsBehind DEF WireInv
  <2>5. InStep' => InStep
    BY <2>2, <2>4 DEF InStep
  <2>6. InStep => Received(a, "answered") = a
    BY <2>1, <2>3, InStepReads DEF WireInv
  <2>7. SourcesTold'
    <3>1. SUFFICES ASSUME InStep', ~wiped', NEW s \in Sources
                   PROVE  /\ sourceClients'[s] # "partial"
                          /\ sent'[s] = "sent" => sourceClients'[s] = "whole"
      BY DEF SourcesTold
    <3>2. InStep /\ ~wiped
      BY <2>2, <2>5, <3>1
    <3>3. /\ sourceClients[s] # "partial"
          /\ sent[s] = "sent" => sourceClients[s] = "whole"
      BY <3>2 DEF WireInv, SourcesTold
    <3>4. sourceClients' = Merged(a) /\ sent' = SentAfter(a)
      BY <2>1, <2>6, <3>2 DEF Exchanged
    <3>5. a.upd \in Updates
      BY <2>1, <1>0 DEF Answers, Plain, Junk, Updates
    <3>6. sent[s] \in {"unsent", "sent", "gone"}
      BY DEF TypeOK
    <3>7. /\ a.upd[s] \in Listing
          /\ a.upd[s] = "changes" => sent[s] = "sent"
      BY <3>5, <3>6 DEF Updates, Untouched, Listed, Listing
    <3> QED BY <3>3, <3>4, <3>6, <3>7 DEF Merged, SentAfter, Listing
  <2>8. "foreign" \in {emitted'.prefs, emitted'.snapshots} => ~InStep
    BY <2>1, <2>2, <2>3, <2>6 DEF Emit, Quiet, WireInv, GenuineRound, Gathering
  <2>9. ForeignOnlyAfterTimeout'
    BY <2>2, <2>4, <2>8 DEF ForeignOnlyAfterTimeout, InStep, TypeOK
  <2> QED BY <2>2, <2>4, <2>7, <2>9 DEF WireInv, GenuineRound, Gathering
<1>8. ASSUME FetchProgress, ~RefreshLost("progress") PROVE WireInv'
  <2>1. PICK a \in Answers("progress") :
          Possible(a, "answered") /\ Exchanged(a, "answered")
    BY <1>8 DEF FetchProgress
  <2>2. UNCHANGED <<client, sourceClients, swallowed, wiped>> /\ client
        /\ pc' = "results" /\ Emit(Quiet)
    BY <1>8 DEF FetchProgress, session, history, ControlInv, RunningNeedsClient,
                Midway, RefreshPcs
  <2>3. Behind' /\ SourcesTold'
    BY <1>0, <2>1, <2>2, OtherExchange DEF WireInv
  <2> QED BY <1>0, <2>2, <2>3, QuietKeeps
          DEF WireInv, GenuineRound, Gathering, ForeignOnlyAfterTimeout, Silent
<1>9. ASSUME FetchResults, ~RefreshLost("results") PROVE WireInv'
  <2>1. PICK a \in Answers("results") :
          Possible(a, "answered") /\ Exchanged(a, "answered")
    BY <1>9 DEF FetchResults
  <2>2. UNCHANGED <<client, sourceClients, swallowed, wiped>> /\ client /\ pc' = "idle"
    BY <1>9 DEF FetchResults, session, history, ControlInv, RunningNeedsClient,
                Midway, RefreshPcs
  <2>3. Silent(emitted')
    BY <1>9 DEF FetchResults, Emit, Quiet, Silent
  <2>4. Behind' /\ SourcesTold'
    BY <1>0, <2>1, <2>2, OtherExchange DEF WireInv
  <2> QED BY <2>2, <2>3, <2>4
          DEF WireInv, GenuineRound, Gathering, ForeignOnlyAfterTimeout, Silent
<1> QED BY <1>1, <1>2, <1>3, <1>4, <1>5, <1>6, <1>7, <1>8, <1>9 DEF Exchange

LEMMA EnvironmentWire == ASSUME TypeOK, WireInv, Environment PROVE WireInv'
<1>1. Silent(emitted')
  <2>1. Emit(Quiet)
    BY DEF Environment, Post, Close, PeerDies, GraceElapses, ProgressMoves
  <2> QED BY <2>1, QuietKeeps DEF Quiet, Silent
<1>2. CASE PeerDies
  <2>1. UNCHANGED <<client, sourceClients, genuine, owed, framed, sent, swallowed,
                    wiped, pc>> /\ alive' = FALSE
    BY <1>2 DEF PeerDies, session, round, history
  <2> QED BY <1>1, <2>1
          DEF WireInv, Behind, GenuineRound, SourcesTold, ForeignOnlyAfterTimeout,
              InStep, Silent
<1>3. CASE ~PeerDies
  <2>1. UNCHANGED <<pc, session, round, socket, history>>
    BY <1>3
       DEF Environment, Post, Close, GraceElapses, ProgressMoves
  <2> QED BY <1>1, <2>1, KeepsWire DEF session, round, socket, history
<1> QED BY <1>2, <1>3

(* -------------------------- the whole invariant -------------------------- *)

LEMMA InitInv == Init => IInv
<1> SUFFICES ASSUME Init PROVE IInv
  OBVIOUS
<1>1. TypeOK
  BY InitType
<1>2. ControlInv
  BY DEF Init, ControlInv, ShutdownLast, StoppedForGood, RunningNeedsClient,
         PollingNeedsSearch, ConnectingShown, ReachedKept, TimerFollowsClient,
         StatusTellsClient, SearchFlagShown, SearchNeedsClient, Midway, RefreshPcs
<1>3. WireInv
  BY DEF Init, WireInv, Behind, InStep, GenuineRound, SourcesTold,
         ForeignOnlyAfterTimeout, Quiet
<1> QED BY <1>1, <1>2, <1>3 DEF IInv

LEMMA StepInv == IInv /\ [Next]_vars => IInv'
<1> SUFFICES ASSUME IInv, [Next]_vars PROVE IInv'
  OBVIOUS
<1>0. TypeOK /\ ControlInv /\ WireInv
  BY DEF IInv
<1>1. ASSUME Slot PROVE IInv'
  BY <1>0, <1>1, SlotType, SlotControl, SlotWire DEF IInv
<1>2. ASSUME Exchange PROVE IInv'
  BY <1>0, <1>2, ExchangeStepType, ExchangeControl, ExchangeWire DEF IInv
<1>3. ASSUME Environment PROVE IInv'
  BY <1>0, <1>3, EnvironmentType, EnvironmentControl, EnvironmentWire DEF IInv
<1>4. ASSUME Tick PROVE IInv'
  <2>1. /\ pc = "idle" /\ timer /\ pc' \in {"stats", "idle"}
        /\ UNCHANGED <<control, session, search, round, socket, daemon, history>>
        /\ Emit(Quiet)
    BY <1>4 DEF Tick
  <2>2. Silent(emitted') /\ status' = status /\ shown' = shown
    BY <2>1, QuietKeeps DEF Quiet, Silent
  <2>3. TypeOK'
    BY <1>0, StepType
  <2>4. client
    BY <1>0, <2>1 DEF ControlInv, TimerFollowsClient
  <2>5. ControlInv'
    BY <1>0, <2>1, <2>2, <2>4
       DEF control, session, search, ControlInv, ShutdownLast, StoppedForGood,
           RunningNeedsClient, PollingNeedsSearch, ConnectingShown, ReachedKept,
           TimerFollowsClient, StatusTellsClient, SearchFlagShown,
           SearchNeedsClient, Midway, RefreshPcs
  <2>6. WireInv'
    BY <1>0, <2>1, <2>2, KeepsWire DEF session, round, socket, history, Gathering
  <2> QED BY <2>3, <2>5, <2>6 DEF IInv
<1>5. ASSUME UNCHANGED vars PROVE IInv'
  <2>1. UNCHANGED <<control, pc, session, search, round, socket, daemon, output, history>>
    BY <1>5 DEF vars
  <2>2. TypeOK'
    BY <1>0, StepType
  <2>3. ControlInv'
    BY <1>0, <2>1
       DEF control, session, search, output, ControlInv, ShutdownLast,
           StoppedForGood, RunningNeedsClient, PollingNeedsSearch, ConnectingShown,
           ReachedKept, TimerFollowsClient, StatusTellsClient, SearchFlagShown,
           SearchNeedsClient, Midway
  <2>4. WireInv'
    BY <1>0, <2>1
       DEF session, round, socket, output, history, WireInv, Behind, GenuineRound,
           SourcesTold, InStep, ForeignOnlyAfterTimeout
  <2> QED BY <2>2, <2>3, <2>4 DEF IInv
<1> QED BY <1>1, <1>2, <1>3, <1>4, <1>5 DEF Next, Stopped

\* The inductive invariant: types, control and wire together.
THEOREM InductiveInvariant == Spec => []IInv
<1> QED BY InitInv, StepInv, PTL DEF Spec

(* ------------------------------- properties ------------------------------ *)

\* No handler leaves the refresh timer out of step with client_
\* (connectToDaemon, teardown, shutdown, onRefresh).
THEOREM TimerFollows == Spec => []TimerFollowsClient
<1>1. IInv => TimerFollowsClient
  BY DEF IInv, ControlInv
<1> QED BY <1>1, InductiveInvariant, PTL

\* What statusChanged announced last agrees with client_.
THEOREM StatusTells == Spec => []StatusTellsClient
<1>1. IInv => StatusTellsClient
  BY DEF IInv, ControlInv
<1> QED BY <1>1, InductiveInvariant, PTL

\* What searchingChanged announced last agrees with searching_, and no search
\* outlives its connection.
THEOREM SearchStates == Spec => [](SearchFlagShown /\ SearchNeedsClient)
<1>1. IInv => SearchFlagShown /\ SearchNeedsClient
  BY DEF IInv, ControlInv
<1> QED BY <1>1, InductiveInvariant, PTL

\* Nothing is left to run, and no socket held, once shutdown has been served.
THEOREM Stops == Spec => []StoppedForGood
<1>1. IInv => StoppedForGood
  BY DEF IInv, ControlInv
<1> QED BY <1>1, InductiveInvariant, PTL

\* The distance between requests and replies is the number of timeouts survived.
THEOREM BehindByTimeouts == Spec => []OneBehindPerTimeout
<1>1. IInv => OneBehindPerTimeout
  BY DEF IInv, WireInv, Behind, OneBehindPerTimeout
<1> QED BY <1>1, InductiveInvariant, PTL

\* Without a timeout survived, every value reported was asked for.
THEOREM NoForeignReply == Spec => []ForeignOnlyAfterTimeout
<1>1. IInv => ForeignOnlyAfterTimeout
  BY DEF IInv, WireInv
<1> QED BY <1>1, InductiveInvariant, PTL

\* The merged source map never holds a source known in part only, as long as
\* the connection is in step and was not wiped by a failed reconnect.
THEOREM SourcesKnown == Spec => []SourcesWhole
<1>1. IInv => SourcesWhole
  BY DEF IInv, WireInv, SourcesTold, InStep, SourcesWhole
<1> QED BY <1>1, InductiveInvariant, PTL

\* The grace period ends no search that has not itself been at 100%.
THEOREM GraceIsEarned == Spec => NotCutShort
<1>1. ASSUME IInv, [Next]_vars, pc = "results", searching, ~searching', client'
      PROVE  reached
  <2>1. ~Slot /\ ~Tick
    BY <1>1 DEF Slot, BeginConnect, Disconnect, PlainCommand, BeginSearch, StopSearch,
                FetchPrefs, ApplyPrefs, Shutdown, Take, Tick
  <2>2. ~Environment
    BY <1>1 DEF Environment, Post, Close, PeerDies, GraceElapses, ProgressMoves, search
  <2>3. ~UNCHANGED vars
    BY <1>1 DEF vars, search
  <2>4. FetchResults
    BY <1>1, <2>1, <2>2, <2>3
       DEF Next, Stopped, Exchange, ConnectFails, ConnectSucceeds, FirstPrefs, PrefsAgain,
           SearchStart, Fetch, Following, FetchClientUpdate, FetchProgress
  <2>5. ~RefreshLost("results")
    BY <1>1 DEF RefreshLost, Teardown, DropClient
  <2>6. searching' = ~(full /\ at100 /\ graceOver)
    BY <2>4, <2>5 DEF FetchResults, GraceRound
  <2>7. at100
    BY <1>1, <2>6
  <2> QED BY <1>1, <2>7 DEF IInv, ControlInv, ReachedKept
<1>2. IInv /\ [Next]_vars
        => [pc = "results" /\ searching /\ ~searching' /\ client' => reached]_vars
  BY <1>1
<1> QED BY <1>2, InductiveInvariant, PTL DEF Spec, NotCutShort

(* ------------------------- the search reported last ---------------------- *)

LEMMA IgnoredReports ==
  ASSUME NEW STATE e, e.query = NoQuery, Ignored(e)
  PROVE  emitted'.query = NoQuery /\ found' = found /\ wanted' = wanted
BY DEF Ignored, Emit, daemon

LEMMA LostReports ==
  ASSUME NEW STATE req, NEW STATE e, e.query = NoQuery, Lost(req, e)
  PROVE  emitted'.query = NoQuery /\ wanted' = wanted
<1>1. Emit(Farewell("Error", e)) /\ wanted' = wanted
  BY DEF Lost, Teardown
<1>2. Farewell("Error", e).query = e.query
  BY DEF Farewell
<1> QED BY <1>1, <1>2 DEF Emit

\* No slot reports a result list of some search; startSearch reports none.
LEMMA RunConnectedReports ==
  ASSUME NEW STATE e, e.query = NoQuery, RunConnected(e)
  PROVE  emitted'.query = NoQuery /\ found' = found /\ wanted' = wanted
<1>1. CASE Ignored(e)
  BY <1>1, IgnoredReports
<1>2. CASE Lost("command", e) /\ UNCHANGED <<round, daemon>>
  BY <1>2, LostReports DEF daemon
<1>3. CASE Emit(e) /\ UNCHANGED <<wanted, daemon>>
  BY <1>3 DEF Emit, daemon
<1> QED BY <1>1, <1>2, <1>3 DEF RunConnected

LEMMA SlotReports ==
  ASSUME Slot
  PROVE  /\ emitted'.query = NoQuery /\ found' = found
         /\ wanted' = wanted \/ wanted' = Head(inbox).query
<1>0. Quiet.query = NoQuery
  BY DEF Quiet
<1> DEFINE Goal == /\ emitted'.query = NoQuery /\ found' = found
                   /\ wanted' = wanted \/ wanted' = Head(inbox).query
<1>1. ASSUME BeginConnect PROVE Goal
  BY <1>1 DEF BeginConnect, Emit, Quiet, search, daemon
<1>2. ASSUME Disconnect PROVE Goal
  BY <1>2 DEF Disconnect, Teardown, Farewell, Emit, Quiet, daemon
<1>3. ASSUME PlainCommand PROVE Goal
  BY <1>0, <1>3, RunConnectedReports DEF PlainCommand
<1>4. ASSUME BeginSearch PROVE Goal
  <2>1. PICK q \in Queries :
          /\ Head(inbox).query = q
          /\ Ignored(Quiet) \/ (RaiseSearch(q) /\ UNCHANGED daemon)
    BY <1>4 DEF BeginSearch
  <2>2. CASE Ignored(Quiet)
    BY <1>0, <2>2, IgnoredReports
  <2>3. CASE RaiseSearch(q) /\ UNCHANGED daemon
    BY <2>1, <2>3 DEF RaiseSearch, Emit, Quiet, daemon
  <2> QED BY <2>1, <2>2, <2>3
<1>5. ASSUME StopSearch PROVE Goal
  BY <1>5, RunConnectedReports DEF StopSearch, Quiet
<1>6. ASSUME FetchPrefs PROVE Goal
  <2>1. CASE Ignored(Quiet)
    BY <1>0, <2>1, IgnoredReports
  <2>2. CASE Lost("prefs", Quiet) /\ UNCHANGED daemon
    BY <1>0, <2>2, LostReports DEF daemon
  <2>3. CASE /\ UNCHANGED <<search, daemon>>
             /\ \E a \in Answers("prefs"), f \in Fates :
                  Emit(IF f # "answered" THEN Quiet
                       ELSE [Quiet EXCEPT !.prefs = IF Received(a, f).req = "prefs"
                                                    THEN "own" ELSE "foreign"])
    BY <2>3 DEF Emit, Quiet, search, daemon
  <2> QED BY <1>6, <2>1, <2>2, <2>3 DEF FetchPrefs
<1>7. ASSUME ApplyPrefs PROVE Goal
  <2>1. CASE Ignored(Quiet)
    BY <1>0, <2>1, IgnoredReports
  <2>2. CASE Lost("setPrefs", Quiet) /\ UNCHANGED daemon
    BY <1>0, <2>2, LostReports DEF daemon
  <2>3. CASE Emit(Quiet) /\ UNCHANGED <<search, daemon>>
    BY <2>3 DEF Emit, Quiet, search, daemon
  <2> QED BY <1>7, <2>1, <2>2, <2>3 DEF ApplyPrefs
<1>8. ASSUME Shutdown PROVE Goal
  BY <1>8 DEF Shutdown, Emit, Quiet, search, daemon
<1> QED BY <1>1, <1>2, <1>3, <1>4, <1>5, <1>6, <1>7, <1>8 DEF Slot

\* What the daemon searches for a search the worker is polling, and what the
\* result list reported last is of, unless it was taken to another daemon or a
\* timeout was survived.
OwnSearch ==
  /\ ~strayed => swallowed = 0
  /\ ~strayed /\ searching /\ pc # "searchStart" => found = wanted
  /\ ResultsOfLastSearch

\* A slot starts a search or leaves the search to report as it was.
LEMMA SlotStrays ==
  ASSUME TypeOK, Slot
  PROVE  /\ pc = "idle"
         /\ \/ strayed' = strayed /\ wanted' = wanted /\ (searching' => searching)
            \/ /\ pc' = "searchStart" /\ strayed' = (swallowed > 0)
               /\ emitted'.results = "list"
         /\ swallowed' = swallowed \/ swallowed' = 0
<1> DEFINE Same == strayed' = strayed /\ wanted' = wanted /\ (searching' => searching)
           Kept == swallowed' = swallowed \/ swallowed' = 0
<1>1. ASSUME NEW st, NEW STATE e, Teardown(st, e) PROVE Same /\ Kept
  BY <1>1 DEF Teardown, DropClient, FreshSocket
<1>2. ASSUME NEW STATE e, Ignored(e) PROVE Same /\ Kept
  BY <1>2 DEF Ignored, history
<1>3. ASSUME NEW STATE e, RunConnected(e) PROVE Same /\ Kept
  <2>1. CASE Ignored(e)
    BY <1>2, <2>1
  <2>2. CASE Lost("command", e)
    BY <1>1, <2>2 DEF Lost
  <2>3. CASE /\ searching' = (searching /\ e.searching # "off")
             /\ UNCHANGED <<wanted, strayed, history>>
    BY <2>3 DEF history
  <2> QED BY <1>3, <2>1, <2>2, <2>3 DEF RunConnected
<1>4. ASSUME BeginConnect \/ Shutdown PROVE pc = "idle" /\ Same /\ Kept
  BY <1>4 DEF BeginConnect, Shutdown, Take, DropClient, FreshSocket, search
<1>5. ASSUME Disconnect PROVE pc = "idle" /\ Same /\ Kept
  BY <1>1, <1>5 DEF Disconnect, Take
<1>6. ASSUME PlainCommand \/ StopSearch PROVE pc = "idle" /\ Same /\ Kept
  BY <1>3, <1>6 DEF PlainCommand, StopSearch, Take
<1>7. ASSUME FetchPrefs PROVE pc = "idle" /\ Same /\ Kept
  <2>1. Ignored(Quiet) \/ Lost("prefs", Quiet) \/ UNCHANGED <<search, history>>
    BY <1>7 DEF FetchPrefs
  <2> QED BY <1>1, <1>2, <1>7, <2>1 DEF FetchPrefs, Take, Lost, search, history
<1>8. ASSUME ApplyPrefs PROVE pc = "idle" /\ Same /\ Kept
  <2>1. Ignored(Quiet) \/ Lost("setPrefs", Quiet) \/ UNCHANGED <<search, history>>
    BY <1>8 DEF ApplyPrefs
  <2> QED BY <1>1, <1>2, <1>8, <2>1 DEF ApplyPrefs, Take, Lost, search, history
<1>9. ASSUME BeginSearch
      PROVE  /\ pc = "idle" /\ Kept
             /\ \/ Same
                \/ /\ pc' = "searchStart" /\ strayed' = (swallowed > 0)
                   /\ emitted'.results = "list"
  <2>1. PICK q \in Queries :
          /\ Take("search")
          /\ Ignored(Quiet) \/ (RaiseSearch(q) /\ pc' = "searchStart" /\ UNCHANGED history)
    BY <1>9 DEF BeginSearch
  <2>2. CASE Ignored(Quiet)
    BY <1>2, <2>1, <2>2 DEF Take
  <2>3. CASE RaiseSearch(q) /\ pc' = "searchStart" /\ UNCHANGED history
    BY <2>1, <2>3 DEF Take, RaiseSearch, history, Emit, Quiet
  <2> QED BY <2>1, <2>2, <2>3
<1> QED BY <1>4, <1>5, <1>6, <1>7, <1>8, <1>9 DEF Slot

\* A slot reports no list of its own, and the search it starts is not yet polled.
LEMMA SlotOwn == ASSUME TypeOK, OwnSearch, Slot PROVE OwnSearch'
<1>1. emitted'.query = NoQuery /\ found' = found
  BY SlotReports
<1>2. swallowed \in Nat
  BY DEF TypeOK
<1>3. CASE strayed' = strayed /\ wanted' = wanted /\ (searching' => searching)
  BY <1>1, <1>3, SlotStrays DEF OwnSearch, ResultsOfLastSearch
<1>4. CASE pc' = "searchStart" /\ strayed' = (swallowed > 0)
  <2>1. ~strayed' => ~(swallowed > 0)
    BY <1>4
  <2>2. ~(swallowed > 0) => swallowed = 0
    BY <1>2
  <2> QED BY <1>1, <1>4, <2>1, <2>2, SlotStrays DEF OwnSearch, ResultsOfLastSearch
<1> QED BY <1>3, <1>4, SlotStrays

\* A torn down link polls no search any more.
LEMMA TeardownOwn ==
  ASSUME OwnSearch, NEW st, NEW STATE e, e.query = NoQuery, Teardown(st, e)
  PROVE  OwnSearch'
<1>1. emitted'.query = NoQuery
  BY DEF Teardown, Emit, Farewell
<1>2. strayed' = strayed /\ ~searching' /\ swallowed' = 0
  BY DEF Teardown, DropClient, FreshSocket
<1> QED BY <1>1, <1>2 DEF OwnSearch, ResultsOfLastSearch

\* Steps that neither report a list nor touch the search.
LEMMA KeepsOwn ==
  ASSUME OwnSearch, UNCHANGED <<strayed, wanted, found>>, searching' => searching,
         emitted'.query = NoQuery, pc # "searchStart",
         swallowed' = swallowed \/ swallowed' = 0
  PROVE  OwnSearch'
BY DEF OwnSearch, ResultsOfLastSearch

\* The exchange that starts a search: an acceptance the daemon did not give was
\* the reply to an older request, which only a timeout can have left unread.
LEMMA SearchStartOwn ==
  ASSUME TypeOK, ControlInv, Behind, OwnSearch, SearchStart
  PROVE  OwnSearch'
<1>0. Quiet.query = NoQuery
  BY DEF Quiet
<1>1. CASE Lost("search", Quiet)
  BY <1>0, <1>1, TeardownOwn DEF Lost
<1>2. CASE /\ \E a \in Answers("search"), f \in Fates \ IoFates :
                /\ Possible(a, f) /\ Exchanged(a, f)
                /\ IF f = "answered"
                   THEN /\ alive => found' = wanted /\ ~complete'
                        /\ pc' = "stats" /\ Emit(Quiet) /\ UNCHANGED searching
                   ELSE SearchRefused
           /\ UNCHANGED <<session, at100, graceOver, wanted, reached, strayed, round,
                          history>>
  <2>1. PICK a \in Answers("search"), f \in Fates \ IoFates :
                /\ Possible(a, f) /\ Exchanged(a, f)
                /\ IF f = "answered"
                   THEN /\ alive => found' = wanted /\ ~complete'
                        /\ pc' = "stats" /\ Emit(Quiet) /\ UNCHANGED searching
                   ELSE SearchRefused
    BY <1>2
  <2>2. strayed' = strayed /\ wanted' = wanted /\ swallowed' = swallowed
    BY <1>2 DEF history
  <2>3. emitted'.query = NoQuery
    BY <2>1 DEF Emit, Quiet, SearchRefused
  <2>4. CASE f # "answered"
    BY <2>1, <2>2, <2>3, <2>4 DEF SearchRefused, OwnSearch, ResultsOfLastSearch
  <2>5. CASE f = "answered"
    <3>1. client
      BY DEF SearchStart, ControlInv, RunningNeedsClient, Midway
    <3>2. ~strayed => alive
      <4> SUFFICES ASSUME ~strayed, ~alive PROVE FALSE
        OBVIOUS
      <4>1. framed /\ owed # <<>>
        BY <2>1, <2>5 DEF Possible, Readable, Line
      <4>2. owed \in Seq(Reply) /\ Len(owed) <= 0
        BY <3>1, <4>1 DEF Behind, OwnSearch, TypeOK
      <4> QED BY <4>1, <4>2
    <3>3. ~strayed => found' = wanted
      BY <2>1, <2>5, <3>2
    <3> QED BY <2>2, <2>3, <3>3 DEF OwnSearch, ResultsOfLastSearch
  <2> QED BY <2>4, <2>5
<1> QED BY <1>1, <1>2 DEF SearchStart

\* The list a refresh reports is of the search it polls.
LEMMA FetchResultsOwn ==
  ASSUME TypeOK, ControlInv, Behind, OwnSearch, FetchResults
  PROVE  OwnSearch'
<1>0. Quiet.query = NoQuery
  BY DEF Quiet
<1>1. CASE RefreshLost("results")
  BY <1>0, <1>1, TeardownOwn DEF RefreshLost
<1>2. CASE /\ \E a \in Answers("results") :
                /\ Possible(a, "answered") /\ Exchanged(a, "answered")
                /\ GraceRound
                /\ Emit([Quiet EXCEPT
                           !.results = "list", !.query = Received(a, "answered").query,
                           !.searching = IF searching' THEN "-" ELSE "off"])
           /\ UNCHANGED <<wanted, strayed, daemon, history>>
  <2>1. PICK a \in Answers("results") :
                /\ Possible(a, "answered")
                /\ Emit([Quiet EXCEPT
                           !.results = "list", !.query = Received(a, "answered").query,
                           !.searching = IF searching' THEN "-" ELSE "off"])
    BY <1>2
  <2>2. /\ strayed' = strayed /\ wanted' = wanted /\ found' = found
        /\ swallowed' = swallowed
    BY <1>2 DEF daemon, history
  <2>3. emitted'.query = Received(a, "answered").query
    BY <2>1 DEF Emit, Quiet
  <2>4. pc = "results" /\ client /\ searching
    BY DEF FetchResults, ControlInv, RunningNeedsClient, PollingNeedsSearch, Midway,
           RefreshPcs
  <2>5. ~strayed /\ framed => emitted'.query = wanted
    <3> SUFFICES ASSUME ~strayed, framed PROVE emitted'.query = wanted
      OBVIOUS
    <3>1. InStep
      BY <2>4 DEF InStep, OwnSearch
    <3>2. a \in Reply
      BY AnswersType DEF Requests, RefreshPcs
    <3>3. Received(a, "answered") = a
      BY <2>1, <3>1, <3>2, InStepReads
    <3>4. a.query = found
      BY DEF Answers, Plain, Junk
    <3> QED BY <2>3, <2>4, <3>3, <3>4 DEF OwnSearch
  <2>6. ~framed => emitted'.query = NoQuery
    BY <2>3 DEF Received, Junk
  <2> QED BY <2>2, <2>4, <2>5, <2>6 DEF OwnSearch, ResultsOfLastSearch
<1> QED BY <1>1, <1>2 DEF FetchResults

LEMMA ExchangeOwn ==
  ASSUME TypeOK, ControlInv, Behind, OwnSearch, Exchange
  PROVE  OwnSearch'
<1>0. Quiet.query = NoQuery
  BY DEF Quiet
<1>1. ASSUME ConnectFails \/ ConnectSucceeds PROVE OwnSearch'
  <2>1. /\ pc = "connecting" /\ UNCHANGED <<searching, wanted>>
        /\ swallowed' = swallowed \/ swallowed' = 0
        /\ UNCHANGED <<strayed, found>> \/ strayed' = TRUE
    BY <1>1 DEF ConnectFails, ConnectSucceeds, SameDaemon, OtherDaemon, FreshSocket, history,
                search, daemon
  <2>2. emitted'.query = NoQuery
    BY <1>1 DEF ConnectFails, ConnectSucceeds, Emit, Quiet
  <2>3. CASE UNCHANGED <<strayed, found>>
    BY <2>1, <2>2, <2>3, KeepsOwn
  <2>4. CASE strayed' = TRUE
    BY <2>4 DEF OwnSearch, ResultsOfLastSearch
  <2> QED BY <2>1, <2>3, <2>4
<1>2. ASSUME FirstPrefs \/ PrefsAgain PROVE OwnSearch'
  <2>1. /\ pc # "searchStart"
        /\ \E next \in {"stats", "idle"} : PrefsUnchecked(next)
    BY <1>2 DEF FirstPrefs, PrefsAgain
  <2>2. PICK a \in Answers("prefs"), f \in Fates :
          /\ swallowed' = IF f = "late" THEN swallowed + 1 ELSE swallowed
          /\ Emit(IF f # "answered" THEN Quiet
                  ELSE [Quiet EXCEPT !.prefs = IF Received(a, f).req = "prefs"
                                               THEN "own" ELSE "foreign"])
          /\ strayed' = (strayed \/ f = "late")
          /\ UNCHANGED <<searching, wanted, daemon>>
    BY <2>1 DEF PrefsUnchecked
  <2>3. emitted'.query = NoQuery
    BY <2>2 DEF Emit, Quiet
  <2>4. ~strayed' => ~strayed /\ swallowed' = swallowed
    BY <2>2
  <2> QED BY <2>1, <2>2, <2>3, <2>4 DEF daemon, OwnSearch, ResultsOfLastSearch
<1>3. ASSUME SearchStart PROVE OwnSearch'
  BY <1>3, SearchStartOwn
<1>4. ASSUME NEW req \in RefreshPcs, RefreshLost(req) PROVE OwnSearch'
  BY <1>0, <1>4, TeardownOwn DEF RefreshLost
<1>5. ASSUME Fetch PROVE OwnSearch'
  <2>1. /\ pc # "searchStart" /\ pc \in RefreshPcs
        /\ RefreshLost(pc) \/ (Emit(Quiet) /\ UNCHANGED <<search, daemon, history>>)
    BY <1>5 DEF Fetch, Following, RefreshPcs
  <2>2. CASE RefreshLost(pc)
    BY <1>4, <2>1, <2>2
  <2>3. CASE Emit(Quiet) /\ UNCHANGED <<search, daemon, history>>
    BY <1>0, <2>1, <2>3, KeepsOwn DEF Emit, search, daemon, history
  <2> QED BY <2>1, <2>2, <2>3
<1>6. ASSUME FetchClientUpdate PROVE OwnSearch'
  <2>1. /\ pc # "searchStart"
        /\ \/ RefreshLost("clientUpdate")
           \/ /\ UNCHANGED <<search, daemon, history>>
              /\ \E o \in {"own", "foreign"} : Emit([Quiet EXCEPT !.snapshots = o])
    BY <1>6 DEF FetchClientUpdate
  <2>2. CASE RefreshLost("clientUpdate")
    BY <1>4, <2>2 DEF RefreshPcs
  <2>3. CASE /\ UNCHANGED <<search, daemon, history>>
             /\ \E o \in {"own", "foreign"} : Emit([Quiet EXCEPT !.snapshots = o])
    <3>1. emitted'.query = NoQuery
      BY <2>3 DEF Emit, Quiet
    <3> QED BY <2>1, <2>3, <3>1, KeepsOwn DEF search, daemon, history
  <2> QED BY <2>1, <2>2, <2>3
<1>7. ASSUME FetchProgress PROVE OwnSearch'
  <2>1. /\ pc # "searchStart"
        /\ \/ RefreshLost("progress")
           \/ Emit(Quiet) /\ UNCHANGED <<search, daemon, history>>
    BY <1>7 DEF FetchProgress
  <2>2. CASE RefreshLost("progress")
    BY <1>4, <2>2 DEF RefreshPcs
  <2>3. CASE Emit(Quiet) /\ UNCHANGED <<search, daemon, history>>
    BY <1>0, <2>1, <2>3, KeepsOwn DEF Emit, search, daemon, history
  <2> QED BY <2>1, <2>2, <2>3
<1>8. ASSUME FetchResults PROVE OwnSearch'
  BY <1>8, FetchResultsOwn
<1> QED BY <1>1, <1>2, <1>3, <1>5, <1>6, <1>7, <1>8 DEF Exchange

\* The world around the worker, the timer and idle steps.
LEMMA OtherOwn ==
  ASSUME OwnSearch, Tick \/ Environment \/ UNCHANGED vars
  PROVE  OwnSearch'
<1>1. CASE UNCHANGED vars
  BY <1>1 DEF vars, search, daemon, history, output, OwnSearch, ResultsOfLastSearch
<1>2. CASE Tick \/ Environment
  <2>1. /\ Emit(Quiet) /\ UNCHANGED <<strayed, wanted, found, searching, swallowed>>
        /\ pc' = pc \/ pc = "idle"
    BY <1>2 DEF Tick, Environment, Post, Close, PeerDies, GraceElapses, ProgressMoves,
                search, daemon, history
  <2>2. emitted'.query = NoQuery
    BY <2>1 DEF Emit, Quiet
  <2> QED BY <2>1, <2>2 DEF OwnSearch, ResultsOfLastSearch
<1> QED BY <1>1, <1>2

\* The result list reported is of the search started last: whatever the order of
\* teardowns, reconnects, refusals and refreshes, only a timeout that the worker
\* has survived, or a connection to another daemon made while it was searching,
\* can make it another one (connectToDaemon, startSearch, fetchPrefs, onRefresh).
THEOREM LastSearchReported == Spec => []ResultsOfLastSearch
<1>1. Init => OwnSearch
  BY DEF Init, OwnSearch, ResultsOfLastSearch, Quiet
<1>2. IInv /\ OwnSearch /\ [Next]_vars => OwnSearch'
  BY SlotOwn, ExchangeOwn, OtherOwn DEF IInv, WireInv, Next, Stopped
<1>3. OwnSearch => ResultsOfLastSearch
  BY DEF OwnSearch
<1> QED BY <1>1, <1>2, <1>3, InductiveInvariant, PTL DEF Spec

(* ------------------------------- refinement ------------------------------ *)

\* A torn down link is announced: End of the lifecycle.
LEMMA TeardownEnds ==
  ASSUME NEW st \in {"Disconnected", "Error"}, NEW STATE e, e \in Signals,
         Teardown(st, e), pc # "stopped"
  PROVE  Conn!Next
<1>1. status' = st
  BY DEF Teardown, Emit, Farewell, Signals
<1>2. ~client' /\ pc' = "idle"
  BY DEF Teardown, DropClient
<1> QED BY <1>1, <1>2 DEF Conn!Next, Conn!End

\* A step that neither announces a status nor touches client_ is a stutter.
LEMMA RunConnectedStutters ==
  ASSUME NEW STATE e, e.status = "-", e \in Signals, RunConnected(e), pc = "idle"
  PROVE  [Conn!Next]_Conn!vars
<1>1. CASE Ignored(e)
  BY <1>1 DEF Ignored, Emit, session, Conn!vars
<1>2. CASE Lost("command", e)
  BY <1>2, TeardownEnds DEF Lost
<1>3. CASE ~Ignored(e) /\ ~Lost("command", e)
  <2>1. Emit(e) /\ UNCHANGED session /\ pc' \in {"stats", "idle"}
    BY <1>3 DEF RunConnected
  <2> QED BY <2>1 DEF Emit, session, Conn!vars
<1> QED BY <1>1, <1>2, <1>3

LEMMA SlotRefines == ASSUME IInv, Slot PROVE [Conn!Next]_Conn!vars
<1>0. Quiet \in Signals /\ Quiet.status = "-"
  BY QuietType DEF Quiet
<1>1. pc = "idle"
  BY DEF Slot, BeginConnect, Disconnect, PlainCommand, BeginSearch, StopSearch,
         FetchPrefs, ApplyPrefs, Shutdown, Take
<1>2. ASSUME BeginConnect PROVE Conn!Attempt
  BY <1>1, <1>2 DEF BeginConnect, Emit, Quiet, Conn!Attempt
<1>3. ASSUME Disconnect PROVE Conn!Next
  BY <1>0, <1>1, <1>3, TeardownEnds DEF Disconnect
<1>4. ASSUME PlainCommand PROVE [Conn!Next]_Conn!vars
  BY <1>0, <1>1, <1>4, RunConnectedStutters DEF PlainCommand
<1>5. ASSUME BeginSearch PROVE UNCHANGED Conn!vars
  <2>1. UNCHANGED <<status, client>>
    BY <1>5 DEF BeginSearch, Ignored, RaiseSearch, Emit, Quiet, session
  <2>2. pc' \in {"idle", "searchStart"}
    BY <1>5 DEF BeginSearch, Ignored
  <2> QED BY <1>1, <2>1, <2>2 DEF Conn!vars
<1>6. ASSUME StopSearch PROVE [Conn!Next]_Conn!vars
  <2> DEFINE e == IF searching THEN [Quiet EXCEPT !.searching = "off"] ELSE Quiet
  <2>1. e \in Signals /\ e.status = "-"
    BY DEF Quiet, Signals
  <2>2. RunConnected(e)
    BY <1>6 DEF StopSearch
  <2> HIDE DEF e
  <2> QED BY <1>1, <2>1, <2>2, RunConnectedStutters
<1>7. ASSUME FetchPrefs \/ ApplyPrefs PROVE [Conn!Next]_Conn!vars
  <2>1. CASE Lost("prefs", Quiet) \/ Lost("setPrefs", Quiet)
    BY <1>0, <1>1, <2>1, TeardownEnds DEF Lost
  <2>2. CASE ~Lost("prefs", Quiet) /\ ~Lost("setPrefs", Quiet)
    <3>1. UNCHANGED <<status, client>>
      BY <1>7, <2>2 DEF FetchPrefs, ApplyPrefs, Ignored, Emit, Quiet, session
    <3>2. pc' \in {"idle", "prefsAgain"}
      BY <1>7, <2>2 DEF FetchPrefs, ApplyPrefs, Ignored
    <3> QED BY <1>1, <3>1, <3>2 DEF Conn!vars
  <2> QED BY <2>1, <2>2
<1>8. ASSUME Shutdown PROVE Conn!Exit
  BY <1>1, <1>8 DEF Shutdown, DropClient, Emit, Quiet, Conn!Exit
<1>9. Conn!Attempt \/ Conn!Exit => Conn!Next
  BY <1>1 DEF Conn!Next
<1> QED BY <1>2, <1>3, <1>4, <1>5, <1>6, <1>7, <1>8, <1>9 DEF Slot

LEMMA ExchangeRefines == ASSUME IInv, Exchange PROVE [Conn!Next]_Conn!vars
<1>0. Quiet \in Signals /\ Quiet.status = "-"
  BY QuietType DEF Quiet
<1>1. pc \notin {"idle", "stopped"}
  BY DEF Exchange, ConnectFails, ConnectSucceeds, FirstPrefs, PrefsAgain, SearchStart,
         Fetch, Following, FetchClientUpdate, FetchProgress, FetchResults
<1>2. ASSUME ConnectFails PROVE Conn!GiveUp
  BY <1>1, <1>2 DEF ConnectFails, Emit, Quiet, session, IInv, ControlInv,
                    ConnectingShown, Conn!GiveUp
<1>3. ASSUME ConnectSucceeds PROVE Conn!Establish
  BY <1>1, <1>3 DEF ConnectSucceeds, Emit, Quiet, IInv, ControlInv,
                    ConnectingShown, Conn!Establish
<1>4. ASSUME FirstPrefs \/ PrefsAgain PROVE UNCHANGED Conn!vars
  <2>1. UNCHANGED <<status, client>> /\ pc' \in {"stats", "idle"}
    BY <1>4 DEF FirstPrefs, PrefsAgain, PrefsUnchecked, Emit, Quiet
  <2> QED BY <1>1, <2>1 DEF Conn!vars
<1>5. ASSUME SearchStart PROVE [Conn!Next]_Conn!vars
  <2>1. CASE Lost("search", Quiet)
    BY <1>0, <1>1, <2>1, TeardownEnds DEF Lost
  <2>2. CASE ~Lost("search", Quiet)
    <3>1. UNCHANGED <<status, client>> /\ pc' \in {"stats", "idle"}
      BY <1>5, <2>2 DEF SearchStart, SearchRefused, Emit, Quiet, session
    <3> QED BY <1>1, <3>1 DEF Conn!vars
  <2> QED BY <2>1, <2>2
<1>6. ASSUME NEW STATE req, RefreshLost(req) PROVE Conn!Next
  BY <1>0, <1>1, <1>6, TeardownEnds DEF RefreshLost
<1>7. ASSUME Fetch, ~RefreshLost(pc) PROVE UNCHANGED Conn!vars
  <2>1. Emit(Quiet) /\ UNCHANGED session
    BY <1>7 DEF Fetch
  <2>2. pc' # "stopped"
    BY <1>7 DEF Fetch, Following
  <2> QED BY <1>0, <1>1, <2>1, <2>2 DEF Emit, session, Conn!vars
<1>8. ASSUME FetchClientUpdate, ~RefreshLost("clientUpdate") PROVE UNCHANGED Conn!vars
  <2>1. UNCHANGED <<status, client>> /\ pc' # "stopped"
    BY <1>8 DEF FetchClientUpdate, Emit, Quiet
  <2> QED BY <1>1, <2>1 DEF Conn!vars
<1>9. ASSUME FetchProgress, ~RefreshLost("progress") PROVE UNCHANGED Conn!vars
  <2>1. UNCHANGED <<status, client>> /\ pc' # "stopped"
    BY <1>9 DEF FetchProgress, Emit, Quiet, session
  <2> QED BY <1>1, <2>1 DEF Conn!vars
<1>10. ASSUME FetchResults, ~RefreshLost("results") PROVE UNCHANGED Conn!vars
  <2>1. UNCHANGED <<status, client>> /\ pc' # "stopped"
    BY <1>10 DEF FetchResults, Emit, Quiet, session
  <2> QED BY <1>1, <2>1 DEF Conn!vars
<1>11. Conn!GiveUp \/ Conn!Establish => Conn!Next
  BY <1>1 DEF Conn!Next
<1> QED BY <1>2, <1>3, <1>4, <1>5, <1>6, <1>7, <1>8, <1>9, <1>10, <1>11 DEF Exchange

\* The worker implements the lifecycle it promises the UI: no link ends
\* unannounced, and Connected or Error follow only on Connecting.
THEOREM Refinement == Spec => Lifecycle
<1>1. Init => Conn!Init
  BY DEF Init, Conn!Init
<1>2. ASSUME IInv, [Next]_vars PROVE [Conn!Next]_Conn!vars
  <2>1. CASE Tick
    BY <2>1 DEF Tick, Emit, Quiet, session, Conn!vars
  <2>2. CASE Environment
    <3>1. Emit(Quiet)
      BY <2>2 DEF Environment, Post, Close, PeerDies, GraceElapses, ProgressMoves
    <3>2. UNCHANGED <<pc, session>>
      BY <2>2 DEF Environment, Post, Close, PeerDies, GraceElapses, ProgressMoves
    <3> QED BY <3>1, <3>2, QuietKeeps DEF session, Conn!vars
  <2>3. CASE UNCHANGED vars
    BY <2>3 DEF vars, session, output, Conn!vars
  <2> QED BY <1>2, <2>1, <2>2, <2>3, SlotRefines, ExchangeRefines DEF Next, Stopped
<1>3. IInv /\ [Next]_vars => [Conn!Next]_Conn!vars
  BY <1>2
<1> QED BY <1>1, <1>3, InductiveInvariant, PTL DEF Spec, Lifecycle, Conn!Spec

(* ------------------- PART 2: THE WORKER AND THE PANEL -------------------- *)

WorkerMoves == Slot \/ Exchange \/ Tick \/ PeerDies \/ GraceElapses \/ ProgressMoves

(* ------------------------- the worker in the system ---------------------- *)

LEMMA PostedCommands ==
  /\ \A q \in Queries : [op |-> "search", query |-> q] \in Command
  /\ [op |-> "stopSearch", query |-> NoQuery] \in Command
  /\ \A op \in Elsewhere : [op |-> op, query |-> NoQuery] \in Command
BY ElsewhereAssumption DEF Command, Ops, OwnOps

\* Every step of the system is one of the worker or of the world around it.
LEMMA StepOfWorker == ASSUME [SysNext]_sysVars PROVE [Next]_vars
<1>1. CASE WorkerStep
  BY <1>1 DEF WorkerStep, Next, Environment
<1>2. CASE UserSearches \/ UserClosesTab \/ UserElsewhere
  BY <1>2, PostedCommands DEF UserSearches, UserClosesTab, UserElsewhere, Next, Environment
<1>3. CASE UiSetsSearching \/ UiSetsResults \/ UNCHANGED sysVars
  BY <1>3 DEF UiSetsSearching, UiSetsResults, sysVars
<1> QED BY <1>1, <1>2, <1>3 DEF SysNext

\* The worker behaves in the system as it does by itself, so that whatever is
\* proved of EcWorker holds here.
THEOREM WorkerInSystem == SysSpec => Spec
<1>1. SysInit => Init
  BY DEF SysInit
<1>2. [SysNext]_sysVars => [Next]_vars
  BY StepOfWorker
<1> QED BY <1>1, <1>2, PTL DEF SysSpec, Spec

(* ---------------------------------- types -------------------------------- *)

LEMMA EmittedType == ASSUME TypeOK' PROVE News(emitted') \in Signal
BY DEF TypeOK, Signals, News, Signal

LEMMA SilenceType == Silence \in Signal
BY DEF Silence, News, Quiet, Signal

LEMMA SplitType ==
  ASSUME NEW s \in Signal
  PROVE  /\ [s EXCEPT !.searching = "-"] \in Signal
         /\ [s EXCEPT !.results = "-", !.query = NoQuery] \in Signal
BY DEF Signal

LEMMA WithoutType ==
  ASSUME toUi \in Seq(Signal), toUi # <<>>, NEW s \in Signal
  PROVE  Without(s) \in Seq(Signal)
<1>1. Tail(toUi) \in Seq(Signal) /\ <<s>> \in Seq(Signal)
  OBVIOUS
<1>2. <<s>> \o Tail(toUi) \in Seq(Signal)
  BY <1>1
<1> QED BY <1>1, <1>2 DEF Without

LEMMA SysTypeStep ==
  ASSUME TypeOK, SysTypeOK, [SysNext]_sysVars
  PROVE  SysTypeOK'
<1>0. TypeOK'
  BY StepOfWorker, StepType
<1>1. CASE WorkerStep
  <2>1. toUi' \in Seq(Signal)
    BY <1>0, <1>1, EmittedType DEF WorkerStep, Deliver, SysTypeOK
  <2> QED BY <1>1, <2>1 DEF WorkerStep, panel, SysTypeOK, Panel!TypeOK
<1>2. CASE UserSearches
  <2>1. PICK q \in Queries : Panel!OnSearch(q) /\ UNCHANGED toUi
    BY <1>2 DEF UserSearches
  <2> QED BY <2>1 DEF Panel!OnSearch, SysTypeOK, Panel!TypeOK
<1>3. CASE UserClosesTab
  <2>1. PICK t \in open : Panel!OnTabClose(t) /\ UNCHANGED toUi
    BY <1>3 DEF UserClosesTab
  <2> QED BY <2>1 DEF Panel!OnTabClose, SysTypeOK, Panel!TypeOK
<1>4. CASE UserElsewhere
  BY <1>4 DEF UserElsewhere, panel, SysTypeOK, Panel!TypeOK
<1>5. CASE UiSetsSearching
  <2> DEFINE s == Head(toUi)
  <2>1. s \in Signal
    BY <1>5 DEF UiSetsSearching, SysTypeOK
  <2>2. toUi' \in Seq(Signal)
    BY <1>5, <2>1, SplitType, WithoutType DEF UiSetsSearching, SysTypeOK
  <2>3. Panel!SetSearching(s.searching = "on")
    BY <1>5 DEF UiSetsSearching
  <2> QED BY <2>2, <2>3 DEF Panel!SetSearching, SysTypeOK, Panel!TypeOK
<1>6. CASE UiSetsResults
  <2> DEFINE s == Head(toUi)
  <2>1. s \in Signal
    BY <1>6 DEF UiSetsResults, SysTypeOK
  <2>2. toUi' \in Seq(Signal)
    BY <1>6, <2>1, SplitType, WithoutType DEF UiSetsResults, SysTypeOK
  <2>3. Panel!SetResults(s.query) /\ s.query \in Queries \cup {0}
    BY <1>6, <2>1, TabsAreQueries DEF UiSetsResults, Signal
  <2> QED BY <2>2, <2>3 DEF Panel!SetResults, SysTypeOK, Panel!TypeOK
<1>7. CASE UNCHANGED sysVars
  BY <1>7 DEF sysVars, panel, SysTypeOK, Panel!TypeOK
<1> QED BY <1>1, <1>2, <1>3, <1>4, <1>5, <1>6, <1>7 DEF SysNext

\* The panel's variables and the signals on their way keep their types.
THEOREM SysTypeCorrect == SysSpec => [](TypeOK /\ SysTypeOK)
<1>1. SysInit => SysTypeOK
  <2>1. SysInit => Panel!TypeOK
    BY DEF SysInit, Panel!Init, Panel!TypeOK
  <2>2. SysInit => toUi \in Seq(Signal)
    BY DEF SysInit
  <2> QED BY <2>1, <2>2 DEF SysTypeOK
<1>2. TypeOK /\ SysTypeOK /\ [SysNext]_sysVars => SysTypeOK'
  BY SysTypeStep
<1> QED BY <1>1, <1>2, WorkerInSystem, TypeCorrect, PTL DEF SysSpec

(* ------------------------------ progress bar ----------------------------- *)

\* What the UI was told last is what the last searchingChanged said.
Told == shown' = IF emitted'.searching = "-" THEN shown ELSE emitted'.searching

LEMMA EmitTells == ASSUME NEW STATE e, Emit(e) PROVE Told
BY DEF Emit, Told

LEMMA TeardownTells == ASSUME NEW STATE st, NEW STATE e, Teardown(st, e) PROVE Told
BY EmitTells DEF Teardown

LEMMA RunConnectedTells == ASSUME NEW STATE e, RunConnected(e) PROVE Told
BY EmitTells, TeardownTells DEF RunConnected, Ignored, Lost

LEMMA PrefsUncheckedTells == ASSUME NEW next, PrefsUnchecked(next) PROVE Told
BY EmitTells DEF PrefsUnchecked

LEMMA SlotTells == ASSUME Slot PROVE Told
<1>1. ASSUME BeginConnect PROVE Told
  BY <1>1, EmitTells DEF BeginConnect
<1>2. ASSUME Disconnect PROVE Told
  BY <1>2, TeardownTells DEF Disconnect
<1>3. ASSUME PlainCommand PROVE Told
  BY <1>3, RunConnectedTells DEF PlainCommand
<1>4. ASSUME BeginSearch PROVE Told
  BY <1>4, EmitTells DEF BeginSearch, RaiseSearch, Ignored
<1>5. ASSUME StopSearch PROVE Told
  BY <1>5, RunConnectedTells DEF StopSearch
<1>6. ASSUME FetchPrefs PROVE Told
  BY <1>6, EmitTells, TeardownTells DEF FetchPrefs, Ignored, Lost
<1>7. ASSUME ApplyPrefs PROVE Told
  BY <1>7, EmitTells, TeardownTells DEF ApplyPrefs, Ignored, Lost
<1>8. ASSUME Shutdown PROVE Told
  BY <1>8, EmitTells DEF Shutdown
<1> QED BY <1>1, <1>2, <1>3, <1>4, <1>5, <1>6, <1>7, <1>8 DEF Slot

LEMMA RefreshLostTells == ASSUME NEW STATE req, RefreshLost(req) PROVE Told
BY TeardownTells DEF RefreshLost

LEMMA ExchangeTells == ASSUME Exchange PROVE Told
<1>1. ASSUME ConnectFails \/ ConnectSucceeds PROVE Told
  BY <1>1, EmitTells DEF ConnectFails, ConnectSucceeds
<1>2. ASSUME FirstPrefs \/ PrefsAgain PROVE Told
  BY <1>2, PrefsUncheckedTells DEF FirstPrefs, PrefsAgain
<1>3. ASSUME SearchStart PROVE Told
  BY <1>3, EmitTells, TeardownTells DEF SearchStart, SearchRefused, Lost
<1>4. ASSUME Fetch PROVE Told
  BY <1>4, EmitTells, RefreshLostTells DEF Fetch
<1>5. ASSUME FetchClientUpdate PROVE Told
  BY <1>5, EmitTells, RefreshLostTells DEF FetchClientUpdate
<1>6. ASSUME FetchProgress PROVE Told
  BY <1>6, EmitTells, RefreshLostTells DEF FetchProgress
<1>7. ASSUME FetchResults PROVE Told
  BY <1>7, RefreshLostTells DEF FetchResults, Emit, Told
<1> QED BY <1>1, <1>2, <1>3, <1>4, <1>5, <1>6, <1>7 DEF Exchange

LEMMA MovesTell == ASSUME WorkerMoves PROVE Told
BY SlotTells, ExchangeTells, EmitTells
   DEF WorkerMoves, Tick, PeerDies, GraceElapses, ProgressMoves

\* Nothing is told from place i of the queue on.
Untold(i) == \A j \in i..Len(toUi) : toUi[j].searching = "-"

\* The last searchingChanged on its way, or else the bar itself, says what the
\* UI was told last.
BarInv ==
  /\ Untold(1) => (progressBar <=> shown = "on")
  /\ \A i \in 1..Len(toUi) :
       toUi[i].searching # "-" /\ Untold(i + 1) => (toUi[i].searching = "on" <=> shown = "on")

LEMMA BarQueued ==
  ASSUME TypeOK, TypeOK', SysTypeOK, BarInv, Told, Deliver, UNCHANGED progressBar
  PROVE  BarInv'
<1> DEFINE s == News(emitted')
<1>0. s \in Signal /\ s.searching = emitted'.searching
  BY EmittedType DEF News
<1>1. CASE s = Silence
  <2>1. UNCHANGED <<toUi, shown>>
    BY <1>0, <1>1 DEF Deliver, Told, Silence, News, Quiet
  <2> QED BY <2>1 DEF BarInv, Untold
<1>2. CASE s # Silence
  <2>1. toUi' = Append(toUi, s) /\ toUi \in Seq(Signal)
    BY <1>2 DEF Deliver, SysTypeOK
  <2>2. /\ Len(toUi) \in Nat /\ Len(toUi') = Len(toUi) + 1 /\ toUi'[Len(toUi')] = s
        /\ \A i \in 1..Len(toUi) : toUi'[i] = toUi[i]
    BY <2>1
  <2>3. CASE s.searching = "-"
    <3>1. shown' = shown
      BY <1>0, <2>3 DEF Told
    <3>2. \A i \in 1..Len(toUi) + 1 :
            (\A j \in i..Len(toUi') : toUi'[j].searching = "-") =>
              \A j \in i..Len(toUi) : toUi[j].searching = "-"
      BY <2>2
    <3>3. \A i \in 1..Len(toUi') : toUi'[i].searching # "-" =>
            i \in 1..Len(toUi) /\ i + 1 \in 1..Len(toUi) + 1 /\ toUi'[i] = toUi[i]
      BY <2>2, <2>3
    <3>4. 1 \in 1..Len(toUi) + 1
      BY <2>2
    <3> QED BY <3>1, <3>2, <3>3, <3>4 DEF BarInv, Untold
  <2>4. CASE s.searching # "-"
    <3>1. shown' = s.searching
      BY <1>0, <2>4 DEF Told
    <3>2. \A i \in 1..Len(toUi) : ~(\A j \in i..Len(toUi') : toUi'[j].searching = "-")
      BY <2>2, <2>4
    <3>3. ~(\A j \in 1..Len(toUi') : toUi'[j].searching = "-")
      BY <2>2, <2>4
    <3>4. \A i \in 1..Len(toUi') : i = Len(toUi') \/ (i \in 1..Len(toUi) /\ (i + 1 \in 1..Len(toUi) \/ i + 1 = Len(toUi')))
      BY <2>2
    <3>5. \A i \in 1..Len(toUi') :
            (\A j \in i + 1..Len(toUi') : toUi'[j].searching = "-") => toUi'[i] = s
      BY <2>2, <2>4, <3>4
    <3> QED BY <3>1, <3>3, <3>5 DEF BarInv, Untold
  <2> QED BY <2>3, <2>4
<1> QED BY <1>1, <1>2

\* The UI takes one signal of the first entry; what is left of it stays.
LEMMA BarTaken ==
  ASSUME SysTypeOK, BarInv, toUi # <<>>, shown' = shown, NEW s \in Signal, toUi' = Without(s),
         \/ s.searching = Head(toUi).searching /\ progressBar' = progressBar
         \/ s.searching = "-" /\ Head(toUi).searching # "-"
              /\ progressBar' = (Head(toUi).searching = "on")
  PROVE  BarInv'
<1>0. /\ toUi \in Seq(Signal) /\ Len(toUi) \in Nat \ {0} /\ Head(toUi) = toUi[1]
      /\ Tail(toUi) \in Seq(Signal) /\ Len(Tail(toUi)) = Len(toUi) - 1
      /\ \A i \in 1..Len(toUi) - 1 : Tail(toUi)[i] = toUi[i + 1]
  BY DEF SysTypeOK
<1>1. CASE toUi' = <<s>> \o Tail(toUi)
  <2>1. /\ Len(toUi') = Len(toUi) /\ toUi'[1] = s
        /\ \A i \in 2..Len(toUi) : toUi'[i] = toUi[i]
    BY <1>0, <1>1
  <2>2. CASE s.searching = Head(toUi).searching /\ progressBar' = progressBar
    <3>1. \A i \in 1..Len(toUi) : toUi'[i].searching = toUi[i].searching
      BY <1>0, <2>1, <2>2
    <3>2. (Untold(1)' <=> Untold(1)) /\ \A i \in 1..Len(toUi) : Untold(i + 1)' <=> Untold(i + 1)
      BY <1>0, <2>1, <3>1 DEF Untold
    <3> QED BY <2>1, <2>2, <3>1, <3>2 DEF BarInv
  <2>3. CASE s.searching = "-" /\ Head(toUi).searching # "-"
              /\ progressBar' = (Head(toUi).searching = "on")
    <3>1. \A i \in 2..Len(toUi) + 1 : Untold(i)' <=> Untold(i)
      BY <1>0, <2>1 DEF Untold
    <3>2. Untold(1)' => Untold(2)
      BY <1>0, <2>1 DEF Untold
    <3>3. \A i \in 1..Len(toUi') : toUi'[i].searching # "-" => i \in 2..Len(toUi) /\ i + 1 \in 2..Len(toUi) + 1
      BY <1>0, <2>1, <2>3
    <3>4. 1 \in 1..Len(toUi) /\ 1 + 1 = 2
      BY <1>0
    <3>5. Untold(1)' => (progressBar' <=> shown' = "on")
      BY <1>0, <2>3, <3>2, <3>4 DEF BarInv
    <3> QED BY <2>1, <3>1, <3>3, <3>5 DEF BarInv
  <2> QED BY <2>2, <2>3
<1>2. CASE s = Silence /\ toUi' = Tail(toUi)
  <2>0. s.searching = "-"
    BY <1>2 DEF Silence, News, Quiet
  <2>1. \A i \in 1..Len(toUi) : Untold(i)' <=> Untold(i + 1)
    <3> SUFFICES ASSUME NEW i \in 1..Len(toUi) PROVE Untold(i)' <=> Untold(i + 1)
      OBVIOUS
    <3>1. \A j \in i..Len(toUi') : j + 1 \in i + 1..Len(toUi) /\ toUi'[j] = toUi[j + 1]
      BY <1>0, <1>2
    <3>2. \A j \in i + 1..Len(toUi) : j - 1 \in i..Len(toUi') /\ toUi[j] = toUi'[j - 1]
      BY <1>0, <1>2
    <3> QED BY <3>1, <3>2 DEF Untold
  <2>2. \A i \in 1..Len(toUi') : /\ i + 1 \in 1..Len(toUi) /\ toUi'[i] = toUi[i + 1]
                                /\ (Untold(i + 1)' <=> Untold(i + 1 + 1))
    BY <1>0, <1>2, <2>1
  <2>3. Untold(1)' <=> Untold(2)
    BY <1>0, <2>1
  <2>4. Untold(2) => (progressBar' <=> shown = "on")
    <3>1. CASE Head(toUi).searching # "-"
      <4>1. progressBar' = (toUi[1].searching = "on")
        BY <1>0, <2>0, <3>1
      <4>2. 1 \in 1..Len(toUi) /\ 1 + 1 = 2 /\ toUi[1].searching # "-"
        BY <1>0, <3>1
      <4>3. Untold(2) => (toUi[1].searching = "on" <=> shown = "on")
        BY <4>2 DEF BarInv
      <4> QED BY <4>1, <4>3, Zenon
    <3>2. CASE Head(toUi).searching = "-"
      <4>1. Untold(2) => Untold(1)
        BY <1>0, <3>2 DEF Untold
      <4>2. progressBar' = progressBar
        BY <2>0, <3>2
      <4>3. Untold(1) => (progressBar <=> shown = "on")
        BY DEF BarInv
      <4> QED BY <4>1, <4>2, <4>3, Zenon
    <3> QED BY <3>1, <3>2
  <2> QED BY <2>2, <2>3, <2>4 DEF BarInv
<1> QED BY <1>1, <1>2 DEF Without

LEMMA BarStep ==
  ASSUME TypeOK, SysTypeOK, BarInv, [SysNext]_sysVars
  PROVE  BarInv'
<1>1. CASE WorkerStep
  BY <1>1, StepOfWorker, StepType, MovesTell, BarQueued DEF WorkerStep, WorkerMoves, panel
<1>2. CASE UserSearches \/ UserClosesTab \/ UserElsewhere
  <2>1. UNCHANGED <<progressBar, toUi, shown>>
    BY <1>2, QuietKeeps
    DEF UserSearches, UserClosesTab, UserElsewhere, Post, Panel!OnSearch, Panel!OnTabClose,
        vars, output, panel
  <2> QED BY <2>1 DEF BarInv, Untold
<1>3. CASE UiSetsSearching
  <2> DEFINE s == Head(toUi)
  <2>1. s \in Signal /\ s.searching # "-" /\ shown' = shown /\ toUi # <<>>
    BY <1>3 DEF UiSetsSearching, SysTypeOK, vars, output
  <2>2. toUi' = Without([s EXCEPT !.searching = "-"]) /\ progressBar' = (s.searching = "on")
    BY <1>3 DEF UiSetsSearching, Panel!SetSearching
  <2>3. [s EXCEPT !.searching = "-"] \in Signal /\ [s EXCEPT !.searching = "-"].searching = "-"
    BY <2>1 DEF Signal
  <2> QED BY <2>1, <2>2, <2>3, BarTaken
<1>4. CASE UiSetsResults
  <2> DEFINE s == Head(toUi)
             rest == [s EXCEPT !.results = "-", !.query = NoQuery]
  <2>1. s \in Signal /\ shown' = shown /\ toUi # <<>>
    BY <1>4 DEF UiSetsResults, SysTypeOK, vars, output
  <2>2. toUi' = Without(rest) /\ progressBar' = progressBar
    BY <1>4 DEF UiSetsResults, Panel!SetResults
  <2>3. rest \in Signal /\ rest.searching = s.searching
    BY <2>1 DEF Signal
  <2> QED BY <2>1, <2>2, <2>3, BarTaken
<1>5. CASE UNCHANGED sysVars
  BY <1>5 DEF sysVars, vars, output, panel, BarInv, Untold
<1> QED BY <1>1, <1>2, <1>3, <1>4, <1>5 DEF SysNext

\* Once every signal has arrived, the progress bar tells whether the worker is
\* searching, whatever was started, stopped, refused and lost.
THEOREM BarTrue == SysSpec => []ProgressBarTrue
<1>1. SysInit => BarInv
  BY DEF SysInit, Init, Panel!Init, BarInv, Untold
<1>2. TypeOK /\ SysTypeOK /\ BarInv /\ [SysNext]_sysVars => BarInv'
  BY BarStep
<1>3. BarInv /\ SearchFlagShown => ProgressBarTrue
  BY DEF BarInv, Untold, SearchFlagShown, ProgressBarTrue
<1>4. SysSpec => []SearchFlagShown
  BY WorkerInSystem, SearchStates, PTL
<1> QED BY <1>1, <1>2, <1>3, <1>4, SysTypeCorrect, PTL DEF SysSpec

(* ---------------------------- closing the tab ---------------------------- *)

LEMMA RunConnectedSearching ==
  ASSUME TypeOK, NEW STATE e, RunConnected(e)
  PROVE  searching' => searching /\ e.searching # "off"
BY DEF RunConnected, Ignored, Lost, Teardown

\* Only startSearch raises searching_, and stopSearch lowers it in any case.
LEMMA SlotSearching ==
  ASSUME TypeOK, Slot
  PROVE  /\ inbox # <<>> /\ inbox' = Tail(inbox)
         /\ Head(inbox).op # "search" /\ searching' => searching
         /\ Head(inbox).op = "stopSearch" => ~searching'
<1> DEFINE Goal == /\ inbox # <<>> /\ inbox' = Tail(inbox)
                   /\ Head(inbox).op # "search" /\ searching' => searching
                   /\ Head(inbox).op = "stopSearch" => ~searching'
<1>1. ASSUME BeginConnect PROVE Goal
  BY <1>1 DEF BeginConnect, Take, search
<1>2. ASSUME Disconnect PROVE Goal
  BY <1>2 DEF Disconnect, Take, Teardown
<1>3. ASSUME PlainCommand PROVE Goal
  BY <1>3, RunConnectedSearching, PlainOpsAssumption DEF PlainCommand, Take, OwnOps
<1>4. ASSUME BeginSearch PROVE Goal
  BY <1>4 DEF BeginSearch, Take
<1>5. ASSUME StopSearch PROVE Goal
  <2> DEFINE e == IF searching THEN [Quiet EXCEPT !.searching = "off"] ELSE Quiet
  <2>1. searching' => searching /\ e.searching # "off"
    BY <1>5, RunConnectedSearching DEF StopSearch
  <2>2. ~searching'
    BY <2>1 DEF Quiet
  <2> QED BY <1>5, <2>2 DEF StopSearch, Take
<1>6. ASSUME FetchPrefs PROVE Goal
  <2>1. Ignored(Quiet) \/ Lost("prefs", Quiet) \/ UNCHANGED search
    BY <1>6 DEF FetchPrefs
  <2>2. searching' => searching
    BY <2>1 DEF Ignored, Lost, Teardown, search
  <2> QED BY <1>6, <2>2 DEF FetchPrefs, Take
<1>7. ASSUME ApplyPrefs PROVE Goal
  <2>1. Ignored(Quiet) \/ Lost("setPrefs", Quiet) \/ UNCHANGED search
    BY <1>7 DEF ApplyPrefs
  <2>2. searching' => searching
    BY <2>1 DEF Ignored, Lost, Teardown, search
  <2> QED BY <1>7, <2>2 DEF ApplyPrefs, Take
<1>8. ASSUME Shutdown PROVE Goal
  BY <1>8 DEF Shutdown, Take, search
<1> QED BY <1>1, <1>2, <1>3, <1>4, <1>5, <1>6, <1>7, <1>8 DEF Slot

\* No exchange raises searching_: the end of a round is reached while it is set.
LEMMA ExchangeSearching ==
  ASSUME TypeOK, ControlInv, Exchange
  PROVE  inbox' = inbox /\ (searching' => searching)
<1>1. ASSUME ConnectFails \/ ConnectSucceeds PROVE inbox' = inbox /\ (searching' => searching)
  BY <1>1 DEF ConnectFails, ConnectSucceeds, control, search
<1>2. ASSUME FirstPrefs \/ PrefsAgain PROVE inbox' = inbox /\ (searching' => searching)
  <2>1. \E next \in {"stats", "idle"} : PrefsUnchecked(next)
    BY <1>2 DEF FirstPrefs, PrefsAgain
  <2>2. UNCHANGED <<control, searching>>
    BY <2>1 DEF PrefsUnchecked
  <2> QED BY <2>2 DEF control
<1>3. ASSUME SearchStart PROVE inbox' = inbox /\ (searching' => searching)
  BY <1>3 DEF SearchStart, SearchRefused, Lost, Teardown, control
<1>4. ASSUME Fetch \/ FetchClientUpdate \/ FetchProgress
      PROVE  inbox' = inbox /\ (searching' => searching)
  BY <1>4 DEF Fetch, FetchClientUpdate, FetchProgress, RefreshLost, Teardown, control, search
<1>5. ASSUME FetchResults PROVE inbox' = inbox /\ (searching' => searching)
  BY <1>5 DEF FetchResults, RefreshLost, Teardown, control, ControlInv, PollingNeedsSearch
<1> QED BY <1>1, <1>2, <1>3, <1>4, <1>5 DEF Exchange

\* From place i of the queue on no search is to be started.
NoSearchFrom(i) == \A j \in i..Len(inbox) : inbox[j].op # "search"

\* While no tab is live, either a stopSearch is still queued with no startSearch
\* behind it, or the worker is not searching and will not be.
StopInv ==
  liveView = 0 =>
    \/ \E i \in 1..Len(inbox) : inbox[i].op = "stopSearch" /\ NoSearchFrom(i)
    \/ ~searching /\ NoSearchFrom(1)

LEMMA SlotStops ==
  ASSUME TypeOK, StopInv, Slot, liveView' = liveView
  PROVE  StopInv'
<1>1. SUFFICES ASSUME liveView = 0
               PROVE  \/ \E i \in 1..Len(inbox') : inbox'[i].op = "stopSearch" /\ NoSearchFrom(i)'
                      \/ ~searching' /\ NoSearchFrom(1)'
  BY DEF StopInv
<1>2. /\ inbox # <<>> /\ inbox' = Tail(inbox)
      /\ Head(inbox).op # "search" /\ searching' => searching
      /\ Head(inbox).op = "stopSearch" => ~searching'
  BY SlotSearching
<1>3. /\ inbox \in Seq(Command) /\ Len(inbox) \in Nat \ {0} /\ Head(inbox) = inbox[1]
      /\ Len(inbox') = Len(inbox) - 1
      /\ \A i \in 1..Len(inbox) - 1 : inbox'[i] = inbox[i + 1]
  BY <1>2 DEF TypeOK
<1>4. \A i \in 1..Len(inbox) : NoSearchFrom(i + 1) => NoSearchFrom(i)'
  <2> SUFFICES ASSUME NEW i \in 1..Len(inbox), NoSearchFrom(i + 1),
                      NEW j \in i..Len(inbox')
               PROVE  inbox'[j].op # "search"
    BY DEF NoSearchFrom
  <2>1. j + 1 \in i + 1..Len(inbox) /\ inbox'[j] = inbox[j + 1]
    BY <1>3
  <2> QED BY <2>1 DEF NoSearchFrom
<1>5. CASE \E i \in 1..Len(inbox) : inbox[i].op = "stopSearch" /\ NoSearchFrom(i)
  <2>1. PICK i \in 1..Len(inbox) : inbox[i].op = "stopSearch" /\ NoSearchFrom(i)
    BY <1>5
  <2>2. CASE i = 1
    <3>1. 1 \in 1..Len(inbox) /\ NoSearchFrom(2)
      BY <1>3, <2>1, <2>2 DEF NoSearchFrom
    <3>2. NoSearchFrom(1)'
      BY <1>4, <3>1
    <3> QED BY <1>2, <1>3, <2>1, <2>2, <3>2
  <2>3. CASE i # 1
    <3>1. i - 1 \in 1..Len(inbox') /\ i - 1 \in 1..Len(inbox) /\ (i - 1) + 1 = i
      BY <1>3, <2>3
    <3>2. inbox'[i - 1].op = "stopSearch" /\ NoSearchFrom(i - 1)'
      BY <1>3, <1>4, <2>1, <3>1
    <3> QED BY <3>1, <3>2
  <2> QED BY <2>2, <2>3
<1>6. CASE ~searching /\ NoSearchFrom(1)
  <2>1. Head(inbox).op # "search" /\ NoSearchFrom(2) /\ 1 \in 1..Len(inbox)
    BY <1>3, <1>6 DEF NoSearchFrom
  <2> QED BY <1>2, <1>4, <1>6, <2>1
<1> QED BY <1>1, <1>5, <1>6 DEF StopInv

LEMMA StopStep ==
  ASSUME TypeOK, ControlInv, SysTypeOK, StopInv, [SysNext]_sysVars
  PROVE  StopInv'
<1>0. inbox \in Seq(Command) /\ Len(inbox) \in Nat
  BY DEF TypeOK
<1>1. CASE WorkerStep
  <2>1. liveView' = liveView
    BY <1>1 DEF WorkerStep, panel
  <2>2. CASE Slot
    BY <2>1, <2>2, SlotStops
  <2>3. CASE Exchange
    BY <2>1, <2>3, ExchangeSearching DEF StopInv, NoSearchFrom
  <2>4. CASE Tick \/ PeerDies \/ GraceElapses \/ ProgressMoves
    <3>1. inbox' = inbox /\ searching' = searching
      BY <2>4 DEF Tick, PeerDies, GraceElapses, ProgressMoves, control, search
    <3> QED BY <2>1, <3>1 DEF StopInv, NoSearchFrom
  <2> QED BY <1>1, <2>2, <2>3, <2>4 DEF WorkerStep
<1>2. CASE UserSearches
  <2>1. liveView' # 0
    BY <1>2, TabsAreQueries DEF UserSearches, Panel!OnSearch
  <2> QED BY <2>1 DEF StopInv
<1>3. CASE UserClosesTab
  <2>1. PICK t \in open :
          /\ Panel!OnTabClose(t)
          /\ IF t = liveView THEN Post([op |-> "stopSearch", query |-> NoQuery])
                             ELSE UNCHANGED vars
    BY <1>3 DEF UserClosesTab
  <2>2. CASE t = liveView
    <3>1. inbox' = Append(inbox, [op |-> "stopSearch", query |-> NoQuery])
      BY <2>1, <2>2 DEF Post
    <3>2. Len(inbox') = Len(inbox) + 1 /\ inbox'[Len(inbox')].op = "stopSearch"
      BY <1>0, <3>1
    <3>3. Len(inbox') \in 1..Len(inbox')
      BY <1>0, <3>2
    <3>4. \A j \in Len(inbox')..Len(inbox') : inbox'[j].op # "search"
      BY <1>0, <3>2
    <3> QED BY <3>2, <3>3, <3>4 DEF StopInv, NoSearchFrom
  <2>3. CASE t # liveView
    <3>1. liveView' = liveView /\ inbox' = inbox /\ searching' = searching
      BY <2>1, <2>3 DEF Panel!OnTabClose, vars, control, search
    <3> QED BY <3>1 DEF StopInv, NoSearchFrom
  <2> QED BY <2>2, <2>3
<1>4. CASE UserElsewhere
  <2>1. PICK op \in Elsewhere : Post([op |-> op, query |-> NoQuery])
    BY <1>4 DEF UserElsewhere
  <2>2. /\ liveView' = liveView /\ searching' = searching /\ op # "search"
        /\ inbox' = Append(inbox, [op |-> op, query |-> NoQuery])
    BY <1>4, <2>1, ElsewhereAssumption DEF UserElsewhere, panel, Post, search
  <2>3. /\ Len(inbox') = Len(inbox) + 1 /\ inbox'[Len(inbox')].op # "search"
        /\ \A i \in 1..Len(inbox) : inbox'[i] = inbox[i]
    BY <1>0, <2>2
  <2>4. \A i \in 1..Len(inbox) + 1 : NoSearchFrom(i) => NoSearchFrom(i)'
    <3> SUFFICES ASSUME NEW i \in 1..Len(inbox) + 1, NoSearchFrom(i),
                        NEW j \in i..Len(inbox')
                 PROVE  inbox'[j].op # "search"
      BY DEF NoSearchFrom
    <3>1. j = Len(inbox') \/ (j \in i..Len(inbox) /\ j \in 1..Len(inbox))
      BY <1>0, <2>3
    <3> QED BY <2>3, <3>1 DEF NoSearchFrom
  <2>5. 1 \in 1..Len(inbox) + 1
    BY <1>0
  <2>6. \A i \in 1..Len(inbox) : i \in 1..Len(inbox') /\ i \in 1..Len(inbox) + 1
    BY <1>0, <2>3
  <2> QED BY <2>2, <2>3, <2>4, <2>5, <2>6 DEF StopInv
<1>5. CASE UiSetsSearching \/ UiSetsResults \/ UNCHANGED sysVars
  <2>1. liveView' = liveView /\ inbox' = inbox /\ searching' = searching
    BY <1>5 DEF UiSetsSearching, UiSetsResults, Panel!SetSearching, Panel!SetResults,
                sysVars, panel, vars, control, search
  <2> QED BY <2>1 DEF StopInv, NoSearchFrom
<1> QED BY <1>1, <1>2, <1>3, <1>4, <1>5 DEF SysNext

\* A search whose tab was closed is stopped once the worker has served what is
\* queued, whatever it was doing when the tab was closed.
THEOREM ClosedStops == SysSpec => []ClosedTabStops
<1>1. SysInit => StopInv
  BY DEF SysInit, Init, Panel!Init, StopInv, NoSearchFrom
<1>2. IInv /\ SysTypeOK /\ StopInv /\ [SysNext]_sysVars => StopInv'
  BY StopStep DEF IInv
<1>3. StopInv => ClosedTabStops
  BY DEF StopInv, ClosedTabStops
<1>4. SysSpec => []IInv
  BY WorkerInSystem, InductiveInvariant, PTL
<1> QED BY <1>1, <1>2, <1>3, <1>4, SysTypeCorrect, PTL DEF SysSpec

(* ------------------------- results of later searches ---------------------- *)

\* The socket's replies after a step: as they were, none, or after an exchange.
OwedMoves ==
  \/ owed' = owed
  \/ owed' = <<>>
  \/ \E req \in Requests : \E a \in Answers(req), f \in Fates : Possible(a, f) /\ Exchanged(a, f)

LEMMA RunConnectedOwed == ASSUME NEW STATE e, RunConnected(e) PROVE OwedMoves
<1>1. CASE Ignored(e)
  BY <1>1 DEF Ignored, socket, OwedMoves
<1>2. CASE Lost("command", e)
  BY <1>2 DEF Lost, Teardown, DropClient, FreshSocket, OwedMoves
<1>3. CASE \E a \in Answers("command"), f \in Fates \ IoFates : Possible(a, f) /\ Exchanged(a, f)
  BY <1>3 DEF OwedMoves, Requests
<1> QED BY <1>1, <1>2, <1>3 DEF RunConnected

LEMMA SlotOwed == ASSUME Slot PROVE OwedMoves
<1>1. ASSUME BeginConnect \/ BeginSearch PROVE OwedMoves
  BY <1>1 DEF BeginConnect, BeginSearch, Ignored, socket, OwedMoves
<1>2. ASSUME Disconnect \/ Shutdown PROVE OwedMoves
  BY <1>2 DEF Disconnect, Shutdown, Teardown, DropClient, FreshSocket, OwedMoves
<1>3. ASSUME PlainCommand \/ StopSearch PROVE OwedMoves
  BY <1>3, RunConnectedOwed DEF PlainCommand, StopSearch
<1>4. ASSUME FetchPrefs PROVE OwedMoves
  <2>1. \/ Ignored(Quiet) \/ Lost("prefs", Quiet)
        \/ \E a \in Answers("prefs"), f \in Fates \ IoFates : Possible(a, f) /\ Exchanged(a, f)
    BY <1>4 DEF FetchPrefs
  <2> QED BY <2>1 DEF Ignored, Lost, Teardown, DropClient, FreshSocket, socket, OwedMoves,
                      Requests
<1>5. ASSUME ApplyPrefs PROVE OwedMoves
  <2>1. \/ Ignored(Quiet) \/ Lost("setPrefs", Quiet)
        \/ \E a \in Answers("setPrefs"), f \in Fates \ IoFates : Possible(a, f) /\ Exchanged(a, f)
    BY <1>5 DEF ApplyPrefs
  <2> QED BY <2>1 DEF Ignored, Lost, Teardown, DropClient, FreshSocket, socket, OwedMoves,
                      Requests
<1> QED BY <1>1, <1>2, <1>3, <1>4, <1>5 DEF Slot

LEMMA ExchangeOwed == ASSUME Exchange PROVE OwedMoves
<1>1. ASSUME ConnectFails \/ ConnectSucceeds PROVE OwedMoves
  BY <1>1 DEF ConnectFails, ConnectSucceeds, FreshSocket, socket, OwedMoves
<1>2. ASSUME FirstPrefs \/ PrefsAgain PROVE OwedMoves
  <2>1. \E a \in Answers("prefs"), f \in Fates : Possible(a, f) /\ Exchanged(a, f)
    BY <1>2 DEF FirstPrefs, PrefsAgain, PrefsUnchecked
  <2> QED BY <2>1 DEF OwedMoves, Requests
<1>3. ASSUME SearchStart PROVE OwedMoves
  <2>1. \/ Lost("search", Quiet)
        \/ \E a \in Answers("search"), f \in Fates \ IoFates : Possible(a, f) /\ Exchanged(a, f)
    BY <1>3 DEF SearchStart
  <2> QED BY <2>1 DEF Lost, Teardown, DropClient, FreshSocket, OwedMoves, Requests
<1>4. ASSUME Fetch \/ FetchClientUpdate \/ FetchProgress \/ FetchResults PROVE OwedMoves
  <2>1. pc \in RefreshPcs
    BY <1>4 DEF Fetch, FetchClientUpdate, FetchProgress, FetchResults, Following, RefreshPcs
  <2>2. \/ RefreshLost(pc)
        \/ \E a \in Answers(pc) : Possible(a, "answered") /\ Exchanged(a, "answered")
    BY <1>4 DEF Fetch, FetchClientUpdate, FetchProgress, FetchResults
  <2> QED BY <2>1, <2>2 DEF RefreshLost, Teardown, DropClient, FreshSocket, OwedMoves,
                            Requests, Fates
<1> QED BY <1>1, <1>2, <1>3, <1>4 DEF Exchange

\* Nothing the worker has been asked, holds or is owed is of a search after the
\* n-th.
UpTo(n) ==
  /\ found <= n /\ wanted <= n
  /\ \A i \in 1..Len(inbox) : inbox[i].query <= n
  /\ \A i \in 1..Len(owed) : owed[i].query <= n

LEMMA AnswersUpTo ==
  ASSUME NEW n \in Nat, UpTo(n), NEW req \in Requests, NEW a \in Answers(req)
  PROVE  a.query <= n
<1>1. a.query = NoQuery \/ a.query = found
  BY DEF Answers, Plain, Junk
<1> QED BY <1>1, TabsAreQueries DEF UpTo

LEMMA LineUpTo ==
  ASSUME TypeOK, NEW n \in Nat, UpTo(n), NEW req \in Requests, NEW a \in Answers(req)
  PROVE  Line(a) \in Seq(Reply) /\ \A i \in 1..Len(Line(a)) : Line(a)[i].query <= n
<1>1. a \in Reply /\ a.query <= n /\ owed \in Seq(Reply)
  BY AnswersType, AnswersUpTo DEF TypeOK
<1> QED BY <1>1 DEF Line, UpTo

LEMMA OwedUpTo ==
  ASSUME TypeOK, NEW n \in Nat, UpTo(n), OwedMoves
  PROVE  \A i \in 1..Len(owed') : owed'[i].query <= n
<1>1. CASE owed' = owed \/ owed' = <<>>
  BY <1>1 DEF UpTo
<1>2. CASE \E req \in Requests : \E a \in Answers(req), f \in Fates :
             Possible(a, f) /\ Exchanged(a, f)
  <2>1. PICK req \in Requests : \E a \in Answers(req), f \in Fates :
               Possible(a, f) /\ Exchanged(a, f)
    BY <1>2
  <2>2. PICK a \in Answers(req), f \in Fates : Possible(a, f) /\ Exchanged(a, f)
    BY <2>1
  <2>3. Line(a) \in Seq(Reply) /\ \A i \in 1..Len(Line(a)) : Line(a)[i].query <= n
    BY LineUpTo
  <2>4. CASE owed' = <<>> \/ owed' = Line(a)
    BY <2>3, <2>4
  <2>5. CASE owed' = Tail(Line(a)) /\ Line(a) # <<>>
    BY <2>3, <2>5
  <2>6. framed /\ f \notin IoFates => Line(a) # <<>>
    BY <2>2 DEF Possible, Readable, Fates, IoFates
  <2> QED BY <2>2, <2>4, <2>5, <2>6 DEF Exchanged, IoFates
<1> QED BY <1>1, <1>2 DEF OwedMoves

LEMMA ReadUpTo ==
  ASSUME TypeOK, NEW n \in Nat, UpTo(n), NEW a \in Answers("results"),
         Possible(a, "answered")
  PROVE  Received(a, "answered").query <= n
<1>1. Line(a) \in Seq(Reply) /\ \A i \in 1..Len(Line(a)) : Line(a)[i].query <= n
  BY LineUpTo DEF Requests, RefreshPcs
<1>2. framed => Line(a) # <<>>
  BY DEF Possible, Readable
<1>3. framed => Head(Line(a)).query <= n
  BY <1>1, <1>2
<1>4. Junk.query <= n
  BY TabsAreQueries DEF Junk
<1> QED BY <1>3, <1>4 DEF Received

\* A refresh reports what it has read.
LEMMA ExchangeReports ==
  ASSUME TypeOK, NEW n \in Nat, UpTo(n), Exchange
  PROVE  emitted'.query <= n /\ wanted' = wanted
<1>0. NoQuery <= n
  BY TabsAreQueries
<1> DEFINE Goal == emitted'.query <= n /\ wanted' = wanted
<1>1. ASSUME ConnectFails \/ ConnectSucceeds PROVE Goal
  BY <1>0, <1>1 DEF ConnectFails, ConnectSucceeds, Emit, Quiet, search, daemon
<1>2. ASSUME FirstPrefs \/ PrefsAgain PROVE Goal
  <2>1. PICK next \in {"stats", "idle"} : PrefsUnchecked(next)
    BY <1>2 DEF FirstPrefs, PrefsAgain
  <2>2. UNCHANGED <<wanted, daemon>>
    BY <2>1 DEF PrefsUnchecked
  <2>3. \E a \in Answers("prefs"), f \in Fates :
          Emit(IF f # "answered" THEN Quiet
               ELSE [Quiet EXCEPT !.prefs = IF Received(a, f).req = "prefs"
                                            THEN "own" ELSE "foreign"])
    BY <2>1 DEF PrefsUnchecked
  <2>4. emitted'.query = NoQuery
    BY <2>3 DEF Emit, Quiet
  <2> QED BY <1>0, <2>2, <2>4 DEF daemon
<1>3. ASSUME SearchStart PROVE Goal
  <2>1. found' = found \/ found' = wanted
    BY <1>3 DEF SearchStart, daemon
  <2>2. emitted'.query = NoQuery /\ wanted' = wanted
    <3>0. Quiet.query = NoQuery
      BY DEF Quiet
    <3>1. CASE Lost("search", Quiet)
      BY <3>0, <3>1, LostReports
    <3>2. CASE Emit(Quiet) /\ wanted' = wanted
      BY <3>0, <3>2 DEF Emit
    <3>3. CASE SearchRefused /\ wanted' = wanted
      BY <3>3 DEF SearchRefused, Emit, Quiet
    <3> QED BY <1>3, <3>1, <3>2, <3>3 DEF SearchStart
  <2> QED BY <1>0, <2>1, <2>2
<1>4. ASSUME NEW req \in RefreshPcs, RefreshLost(req) PROVE Goal
  BY <1>0, <1>4 DEF RefreshLost, Teardown, Farewell, Emit, Quiet, daemon
<1>5. ASSUME Fetch PROVE Goal
  <2>1. \/ RefreshLost(pc) /\ pc \in RefreshPcs
        \/ Emit(Quiet) /\ UNCHANGED <<search, daemon>>
    BY <1>5 DEF Fetch, Following, RefreshPcs
  <2> QED BY <1>0, <1>4, <2>1 DEF Emit, Quiet, search, daemon
<1>6. ASSUME FetchClientUpdate PROVE Goal
  <2>1. \/ RefreshLost("clientUpdate")
        \/ /\ UNCHANGED <<search, daemon>>
           /\ \E o \in {"own", "foreign"} : Emit([Quiet EXCEPT !.snapshots = o])
    BY <1>6 DEF FetchClientUpdate
  <2> QED BY <1>0, <1>4, <2>1 DEF Emit, Quiet, search, daemon, RefreshPcs
<1>7. ASSUME FetchProgress PROVE Goal
  <2>1. \/ RefreshLost("progress")
        \/ Emit(Quiet) /\ UNCHANGED <<search, daemon>>
    BY <1>7 DEF FetchProgress
  <2> QED BY <1>0, <1>4, <2>1 DEF Emit, Quiet, search, daemon, RefreshPcs
<1>8. ASSUME FetchResults PROVE Goal
  <2>1. CASE RefreshLost("results")
    BY <1>4, <2>1 DEF RefreshPcs
  <2>2. CASE /\ \E a \in Answers("results") :
                  /\ Possible(a, "answered")
                  /\ Emit([Quiet EXCEPT
                             !.results = "list", !.query = Received(a, "answered").query,
                             !.searching = IF searching' THEN "-" ELSE "off"])
             /\ UNCHANGED <<wanted, daemon>>
    <3>1. PICK a \in Answers("results") :
            /\ Possible(a, "answered")
            /\ Emit([Quiet EXCEPT
                       !.results = "list", !.query = Received(a, "answered").query,
                       !.searching = IF searching' THEN "-" ELSE "off"])
      BY <2>2
    <3>2. emitted'.query = Received(a, "answered").query
      BY <3>1 DEF Emit, Quiet
    <3> QED BY <2>2, <3>1, <3>2, ReadUpTo DEF daemon
  <2> QED BY <1>8, <2>1, <2>2 DEF FetchResults
<1> QED BY <1>1, <1>2, <1>3, <1>5, <1>6, <1>7, <1>8 DEF Exchange

LEMMA MovesUpTo ==
  ASSUME TypeOK, ControlInv, NEW n \in Nat, UpTo(n), WorkerMoves, found' <= wanted'
  PROVE  UpTo(n)' /\ emitted'.query <= n
<1>0. inbox \in Seq(Command) /\ NoQuery <= n
  BY TabsAreQueries DEF TypeOK
<1>1. CASE Slot
  <2>1. \A i \in 1..Len(owed') : owed'[i].query <= n
    BY <1>1, SlotOwed, OwedUpTo
  <2>2. inbox # <<>> /\ inbox' = Tail(inbox)
    BY <1>1, SlotSearching
  <2>3. Head(inbox).query <= n /\ \A i \in 1..Len(inbox') : inbox'[i].query <= n
    BY <1>0, <2>2 DEF UpTo
  <2>4. /\ emitted'.query = NoQuery /\ found' = found
        /\ wanted' = wanted \/ wanted' = Head(inbox).query
    BY <1>1, SlotReports
  <2> QED BY <1>0, <2>1, <2>3, <2>4 DEF UpTo
<1>2. CASE Exchange
  <2>1. \A i \in 1..Len(owed') : owed'[i].query <= n
    BY <1>2, ExchangeOwed, OwedUpTo
  <2>2. inbox' = inbox
    BY <1>2, ExchangeSearching
  <2>3. emitted'.query <= n /\ wanted' = wanted
    BY <1>2, ExchangeReports
  <2>4. found' \in Nat /\ wanted' \in Nat
    <3>1. TypeOK'
      BY <1>2, ExchangeStepType
    <3>2. found' \in Queries \cup {NoQuery} /\ wanted' \in Queries \cup {NoQuery}
      BY <3>1 DEF TypeOK
    <3> QED BY <3>2, TabsAreQueries
  <2>5. wanted' <= n /\ found' <= n
    BY <2>3, <2>4 DEF UpTo
  <2> QED BY <2>1, <2>2, <2>3, <2>5 DEF UpTo
<1>3. CASE Tick \/ PeerDies \/ GraceElapses \/ ProgressMoves
  <2>1. UNCHANGED <<found, wanted, inbox, owed>> /\ emitted' = Quiet
    BY <1>3 DEF Tick, PeerDies, GraceElapses, ProgressMoves, Emit, control, search, socket,
                daemon
  <2> QED BY <1>0, <2>1 DEF UpTo, Quiet
<1> QED BY <1>1, <1>2, <1>3 DEF WorkerMoves

\* Everything between the worker and the tabs is of a search already executed,
\* and only the live tab, which is the newest, is filled from it.
LaterInv ==
  /\ UpTo(opened)
  /\ \A i \in 1..Len(toUi) : toUi[i].query <= opened
  /\ liveView \in {0, opened}
  /\ NoLaterResults

LEMMA QueriesNumbered == \A q \in Queries \cup {NoQuery} : q \in Nat
BY TabsAreQueries

LEMMA PostUpTo ==
  ASSUME TypeOK, NEW n \in Nat, NEW m \in Nat, n <= m, UpTo(n),
         NEW c \in Command, c.query <= m, Post(c)
  PROVE  UpTo(m)'
<1>1. UNCHANGED <<found, wanted, owed>> /\ inbox' = Append(inbox, c)
  BY DEF Post, search, socket, daemon
<1>2. inbox \in Seq(Command) /\ owed \in Seq(Reply) /\ found \in Nat /\ wanted \in Nat
  BY TabsAreQueries DEF TypeOK
<1>3. \A i \in 1..Len(inbox) : inbox[i].query \in Nat
  <2> SUFFICES ASSUME NEW i \in 1..Len(inbox) PROVE inbox[i].query \in Nat
    OBVIOUS
  <2>1. inbox[i] \in Command
    BY <1>2
  <2>2. inbox[i].query \in Queries \cup {NoQuery}
    BY <2>1 DEF Command
  <2> QED BY <2>2, QueriesNumbered
<1>4. \A i \in 1..Len(owed) : owed[i].query \in Nat
  <2> SUFFICES ASSUME NEW i \in 1..Len(owed) PROVE owed[i].query \in Nat
    OBVIOUS
  <2>1. owed[i] \in Reply
    BY <1>2
  <2>2. owed[i].query \in Queries \cup {NoQuery}
    BY <2>1 DEF Reply
  <2> QED BY <2>2, QueriesNumbered
<1>5. /\ found <= m /\ wanted <= m
      /\ \A i \in 1..Len(inbox) : inbox[i].query <= m
      /\ \A i \in 1..Len(owed) : owed[i].query <= m
  <2>1. \A k \in Nat : k <= n => k <= m
    OBVIOUS
  <2> QED BY <1>2, <1>3, <1>4, <2>1 DEF UpTo
<1>6. \A i \in 1..Len(inbox') : inbox'[i].query <= m
  BY <1>1, <1>2, <1>5
<1> QED BY <1>1, <1>5, <1>6 DEF UpTo

LEMMA TakenUpTo ==
  ASSUME SysTypeOK, toUi # <<>>, NEW n \in Nat, NEW s \in Signal, s.query <= n,
         \A i \in 1..Len(toUi) : toUi[i].query <= n, toUi' = Without(s)
  PROVE  \A i \in 1..Len(toUi') : toUi'[i].query <= n
<1>1. /\ toUi \in Seq(Signal) /\ Tail(toUi) \in Seq(Signal)
      /\ \A i \in 1..Len(Tail(toUi)) : Tail(toUi)[i].query <= n
  BY DEF SysTypeOK
<1>2. CASE toUi' = Tail(toUi)
  BY <1>1, <1>2
<1>3. CASE toUi' = <<s>> \o Tail(toUi)
  BY <1>1, <1>3
<1> QED BY <1>2, <1>3 DEF Without

LEMMA LaterStep ==
  ASSUME TypeOK, ControlInv, SysTypeOK, LaterInv, [SysNext]_sysVars
  PROVE  LaterInv'
<1>0. /\ opened \in Nat /\ toUi \in Seq(Signal) /\ Queries \subseteq Nat \ {0} /\ NoQuery = 0
      /\ rows \in [Queries -> Queries \cup {0}] /\ liveView \in Queries \cup {0}
  BY TabsAreQueries DEF SysTypeOK, Panel!TypeOK
<1>1. CASE WorkerStep
  <2>1. UNCHANGED <<opened, liveView, rows>> /\ WorkerMoves /\ Deliver /\ found' <= wanted'
    BY <1>1 DEF WorkerStep, WorkerMoves, panel
  <2>2. PICK n \in Nat : n = opened
    BY <1>0
  <2>3. UpTo(n)' /\ emitted'.query <= n
    BY <2>1, <2>2, MovesUpTo DEF LaterInv
  <2>4. \A i \in 1..Len(toUi') : toUi'[i].query <= n
    <3>1. CASE toUi' = toUi
      BY <2>2, <3>1 DEF LaterInv
    <3>2. CASE toUi' = Append(toUi, News(emitted'))
      <4>1. News(emitted').query <= n
        BY <2>3 DEF News
      <4> QED BY <1>0, <2>2, <3>2, <4>1 DEF LaterInv
    <3> QED BY <2>1, <3>1, <3>2 DEF Deliver
  <2>5. UpTo(opened)'
    BY <2>1, <2>2, <2>3 DEF UpTo
  <2> QED BY <2>1, <2>2, <2>4, <2>5 DEF LaterInv, NoLaterResults
<1>2. CASE UserSearches
  <2>1. PICK q \in Queries :
          Panel!OnSearch(q) /\ Post([op |-> "search", query |-> q]) /\ UNCHANGED toUi
    BY <1>2 DEF UserSearches
  <2>2. q = opened + 1 /\ opened' = q /\ liveView' = q /\ rows' = rows
    BY <2>1 DEF Panel!OnSearch
  <2>3. PICK n \in Nat : n = opened
    BY <1>0
  <2>4. UpTo(q)'
    BY <1>0, <2>1, <2>2, <2>3, PostedCommands, PostUpTo DEF LaterInv
  <2>5. \A i \in 1..Len(toUi) : toUi[i].query \in Nat /\ toUi[i].query <= opened
    <3> SUFFICES ASSUME NEW i \in 1..Len(toUi)
                 PROVE  toUi[i].query \in Nat /\ toUi[i].query <= opened
      OBVIOUS
    <3>1. toUi[i] \in Signal
      BY <1>0
    <3>2. toUi[i].query \in Queries \cup {NoQuery}
      BY <3>1 DEF Signal
    <3>3. toUi[i].query <= opened
      BY DEF LaterInv
    <3> QED BY <3>2, <3>3, QueriesNumbered
  <2>6. \A i \in 1..Len(toUi') : toUi'[i].query <= opened'
    BY <1>0, <2>1, <2>2, <2>5
  <2>7. UpTo(opened)'
    BY <2>2, <2>4 DEF UpTo
  <2> QED BY <2>2, <2>6, <2>7 DEF LaterInv, NoLaterResults
<1>3. CASE UserClosesTab \/ UserElsewhere
  <2>1. /\ UNCHANGED <<opened, rows, toUi>> /\ liveView' \in {0, liveView}
        /\ (UNCHANGED vars) \/ \E c \in Command : c.query = NoQuery /\ Post(c)
    BY <1>3, PostedCommands DEF UserClosesTab, UserElsewhere, Panel!OnTabClose, panel
  <2>2. PICK n \in Nat : n = opened
    BY <1>0
  <2>3. CASE UNCHANGED vars
    BY <2>1, <2>3 DEF LaterInv, NoLaterResults, UpTo, vars, control, search, socket, daemon
  <2>4. CASE \E c \in Command : c.query = NoQuery /\ Post(c)
    <3>1. UpTo(n)'
      BY <1>0, <2>2, <2>4, PostUpTo DEF LaterInv
    <3>2. UpTo(opened)'
      BY <2>1, <2>2, <3>1 DEF UpTo
    <3> QED BY <2>1, <3>2 DEF LaterInv, NoLaterResults
  <2> QED BY <2>1, <2>3, <2>4
<1>4. CASE UiSetsSearching
  <2> DEFINE s == Head(toUi)
             rest == [s EXCEPT !.searching = "-"]
  <2>1. PICK n \in Nat : n = opened
    BY <1>0
  <2>2. toUi # <<>> /\ s \in Signal /\ s.query <= n
    BY <1>0, <1>4, <2>1 DEF UiSetsSearching, LaterInv
  <2>3. rest \in Signal /\ rest.query <= n /\ toUi' = Without(rest)
    BY <1>4, <2>2, SplitType DEF UiSetsSearching, Signal
  <2>4. \A i \in 1..Len(toUi') : toUi'[i].query <= n
    BY <2>1, <2>2, <2>3, TakenUpTo DEF LaterInv
  <2>5. UNCHANGED <<vars, opened, liveView, rows>>
    BY <1>4 DEF UiSetsSearching, Panel!SetSearching
  <2> QED BY <2>1, <2>4, <2>5
          DEF LaterInv, NoLaterResults, UpTo, vars, control, search, socket, daemon
<1>5. CASE UiSetsResults
  <2> DEFINE s == Head(toUi)
             rest == [s EXCEPT !.results = "-", !.query = NoQuery]
  <2>1. PICK n \in Nat : n = opened
    BY <1>0
  <2>2. toUi # <<>> /\ s \in Signal /\ s.query <= n
    BY <1>0, <1>5, <2>1 DEF UiSetsResults, LaterInv
  <2>3. rest \in Signal /\ rest.query = NoQuery /\ toUi' = Without(rest)
    BY <1>5, <2>2, SplitType DEF UiSetsResults, Signal
  <2>4. \A i \in 1..Len(toUi') : toUi'[i].query <= n
    <3>1. rest.query <= n
      BY <1>0, <2>3
    <3>2. \A i \in 1..Len(toUi) : toUi[i].query <= n
      BY <2>1 DEF LaterInv
    <3> QED BY <2>2, <2>3, <3>1, <3>2, TakenUpTo
  <2>5. UNCHANGED <<vars, opened, liveView>> /\ Panel!SetResults(s.query)
    BY <1>5 DEF UiSetsResults, Panel!SetResults
  <2>6. NoLaterResults'
    <3>1. CASE liveView = 0
      BY <2>5, <3>1 DEF Panel!SetResults, LaterInv, NoLaterResults
    <3>2. CASE liveView # 0
      <4>1. liveView = opened /\ rows' = [rows EXCEPT ![liveView] = s.query]
        BY <2>5, <3>2 DEF Panel!SetResults, LaterInv
      <4> QED BY <1>0, <2>1, <2>2, <4>1 DEF LaterInv, NoLaterResults
    <3> QED BY <3>1, <3>2
  <2> QED BY <2>1, <2>4, <2>5, <2>6
          DEF LaterInv, UpTo, vars, control, search, socket, daemon
<1>6. CASE UNCHANGED sysVars
  BY <1>6 DEF LaterInv, NoLaterResults, UpTo, sysVars, vars, panel, control, search, socket,
              daemon
<1> QED BY <1>1, <1>2, <1>3, <1>4, <1>5, <1>6 DEF SysNext

\* No tab ever shows results of a search executed after its own, however the
\* replies of the daemon and the signals of the worker are delayed.
THEOREM ResultsNotLater == SysSpec => []NoLaterResults
<1>1. SysInit => LaterInv
  BY TabsAreQueries DEF SysInit, Init, Panel!Init, LaterInv, NoLaterResults, UpTo
<1>2. IInv /\ SysTypeOK /\ LaterInv /\ [SysNext]_sysVars => LaterInv'
  BY LaterStep DEF IInv
<1>3. LaterInv => NoLaterResults
  BY DEF LaterInv
<1>4. SysSpec => []IInv
  BY WorkerInSystem, InductiveInvariant, PTL
<1> QED BY <1>1, <1>2, <1>3, <1>4, SysTypeCorrect, PTL DEF SysSpec

(* ---------------------- the search the live tab shows --------------------- *)

\* No list is on its way from place i of the queue on.
NoList(i) == \A j \in i..Len(toUi) : toUi[j].results = "-"

\* The last list on its way, or else what the tab shows, is empty or the tab's own.
Settling(t) ==
  /\ NoList(1) => rows[t] \in {0, t}
  /\ \A i \in 1..Len(toUi) :
       toUi[i].results # "-" /\ NoList(i + 1) => toUi[i].query \in {0, t}

SettleInv == liveView # 0 /\ wanted = liveView /\ ~strayed => Settling(liveView)

LEMMA SettleQueued ==
  ASSUME TypeOK', SysTypeOK, NEW t \in Queries, Deliver, UNCHANGED rows,
         emitted'.results = "-" => Settling(t),
         emitted'.results = "list" => emitted'.query \in {0, t}
  PROVE  Settling(t)'
<1> DEFINE s == News(emitted')
<1>0. s \in Signal /\ s.results = emitted'.results /\ s.query = emitted'.query
  BY EmittedType DEF News
<1>1. CASE s = Silence
  <2>1. toUi' = toUi /\ Settling(t)
    BY <1>0, <1>1 DEF Deliver, Silence, News, Quiet
  <2> QED BY <2>1 DEF Settling, NoList
<1>2. CASE s # Silence
  <2>1. toUi' = Append(toUi, s) /\ toUi \in Seq(Signal)
    BY <1>2 DEF Deliver, SysTypeOK
  <2>2. /\ Len(toUi) \in Nat /\ Len(toUi') = Len(toUi) + 1 /\ toUi'[Len(toUi')] = s
        /\ \A i \in 1..Len(toUi) : toUi'[i] = toUi[i]
    BY <2>1
  <2>3. CASE s.results = "-"
    <3>1. \A i \in 1..Len(toUi) + 1 :
            (\A j \in i..Len(toUi') : toUi'[j].results = "-") =>
              \A j \in i..Len(toUi) : toUi[j].results = "-"
      BY <2>2
    <3>2. \A i \in 1..Len(toUi') : toUi'[i].results # "-" =>
            i \in 1..Len(toUi) /\ i + 1 \in 1..Len(toUi) + 1 /\ toUi'[i] = toUi[i]
      BY <2>2, <2>3
    <3>3. 1 \in 1..Len(toUi) + 1
      BY <2>2
    <3> QED BY <1>0, <2>3, <3>1, <3>2, <3>3 DEF Settling, NoList
  <2>4. CASE s.results # "-"
    <3>1. s.results = "list" /\ s.query \in {0, t}
      BY <1>0, <2>4 DEF Signal
    <3>2. ~(\A j \in 1..Len(toUi') : toUi'[j].results = "-")
      BY <2>2, <2>4
    <3>3. \A i \in 1..Len(toUi') :
            i = Len(toUi') \/ (i \in 1..Len(toUi) /\ Len(toUi') \in i + 1..Len(toUi'))
      BY <2>2
    <3>4. \A i \in 1..Len(toUi') :
            (\A j \in i + 1..Len(toUi') : toUi'[j].results = "-") => toUi'[i] = s
      BY <2>2, <2>4, <3>3
    <3> QED BY <3>1, <3>2, <3>4 DEF Settling, NoList
  <2> QED BY <2>3, <2>4
<1> QED BY <1>1, <1>2

\* The UI takes one signal of the first entry; a list replaces what the tab shows.
LEMMA SettleTaken ==
  ASSUME SysTypeOK, NEW t \in Queries, Settling(t), toUi # <<>>, NEW s \in Signal,
         toUi' = Without(s),
         \/ /\ s.results = Head(toUi).results /\ s.query = Head(toUi).query
            /\ rows' = rows
         \/ /\ s.results = "-" /\ Head(toUi).results # "-"
            /\ rows'[t] = Head(toUi).query
  PROVE  Settling(t)'
<1>0. /\ toUi \in Seq(Signal) /\ Len(toUi) \in Nat \ {0} /\ Head(toUi) = toUi[1]
      /\ Tail(toUi) \in Seq(Signal) /\ Len(Tail(toUi)) = Len(toUi) - 1
      /\ \A i \in 1..Len(toUi) - 1 : Tail(toUi)[i] = toUi[i + 1]
  BY DEF SysTypeOK
<1>1. 1 \in 1..Len(toUi) /\ 1 + 1 = 2
  BY <1>0
\* Once the first entry holds no list any more, the tab shows what it must.
<1>2. ASSUME s.results = "-", NoList(2) PROVE rows'[t] \in {0, t}
  <2>1. CASE Head(toUi).results = "-" /\ rows' = rows
    <3>1. NoList(1)
      BY <1>0, <1>2, <2>1 DEF NoList
    <3> QED BY <2>1, <3>1 DEF Settling
  <2>2. CASE Head(toUi).results # "-" /\ rows'[t] = Head(toUi).query
    <3>1. toUi[1].query \in {0, t}
      BY <1>0, <1>1, <1>2, <2>2 DEF Settling
    <3> QED BY <1>0, <2>2, <3>1
  <2> QED BY <1>2, <2>1, <2>2
<1>3. CASE toUi' = <<s>> \o Tail(toUi)
  <2>1. /\ Len(toUi') = Len(toUi) /\ toUi'[1] = s
        /\ \A i \in 2..Len(toUi) : toUi'[i] = toUi[i]
    BY <1>0, <1>3
  <2>2. \A i \in 2..Len(toUi) + 1 : NoList(i)' <=> NoList(i)
    BY <1>0, <2>1 DEF NoList
  <2>3. NoList(1)' => s.results = "-" /\ NoList(2)
    BY <1>0, <2>1 DEF NoList
  <2>4. \A i \in 1..Len(toUi') : i = 1 \/ (i \in 2..Len(toUi) /\ i + 1 \in 2..Len(toUi) + 1)
    BY <1>0, <2>1
  <2>5. NoList(1)' => rows'[t] \in {0, t}
    BY <1>2, <2>3
  <2>6. ASSUME NEW i \in 1..Len(toUi'), toUi'[i].results # "-", NoList(i + 1)'
        PROVE  toUi'[i].query \in {0, t}
    <3>1. i + 1 \in 2..Len(toUi) + 1 /\ i \in 1..Len(toUi)
      BY <1>0, <2>1
    <3>2. NoList(i + 1)
      BY <2>2, <2>6, <3>1
    <3>3. toUi'[i].results = toUi[i].results /\ toUi'[i].query = toUi[i].query
      <4>1. CASE i = 1
        BY <1>0, <2>1, <2>6, <4>1
      <4>2. CASE i \in 2..Len(toUi)
        BY <2>1, <4>2
      <4> QED BY <2>4, <4>1, <4>2
    <3> QED BY <2>6, <3>1, <3>2, <3>3 DEF Settling
  <2> QED BY <2>5, <2>6 DEF Settling
<1>4. CASE s = Silence /\ toUi' = Tail(toUi)
  <2>0. s.results = "-"
    BY <1>4 DEF Silence, News, Quiet
  <2>1. \A i \in 1..Len(toUi) : NoList(i)' <=> NoList(i + 1)
    <3> SUFFICES ASSUME NEW i \in 1..Len(toUi) PROVE NoList(i)' <=> NoList(i + 1)
      OBVIOUS
    <3>1. \A j \in i..Len(toUi') : j + 1 \in i + 1..Len(toUi) /\ toUi'[j] = toUi[j + 1]
      BY <1>0, <1>4
    <3>2. \A j \in i + 1..Len(toUi) : j - 1 \in i..Len(toUi') /\ toUi[j] = toUi'[j - 1]
      BY <1>0, <1>4
    <3>3. NoList(i + 1) => NoList(i)'
      BY <3>1 DEF NoList
    <3>4. NoList(i)' => NoList(i + 1)
      BY <3>2 DEF NoList
    <3> QED BY <3>3, <3>4
  <2>2. \A i \in 1..Len(toUi') : /\ i + 1 \in 1..Len(toUi) /\ toUi'[i] = toUi[i + 1]
                                /\ (NoList(i + 1)' <=> NoList(i + 1 + 1))
    BY <1>0, <1>4, <2>1
  <2>3. NoList(1)' => rows'[t] \in {0, t}
    BY <1>1, <1>2, <2>0, <2>1
  <2> QED BY <2>2, <2>3 DEF Settling
<1> QED BY <1>3, <1>4 DEF Without

\* A step that reports no list starts no search and forgets no timeout and no
\* change of daemon.
LEMMA MovesStray ==
  ASSUME TypeOK, NEW n \in Nat, UpTo(n), WorkerMoves
  PROVE  \/ emitted'.results = "list"
         \/ wanted' = wanted /\ (~strayed' => ~strayed)
<1>1. CASE Slot
  BY <1>1, SlotStrays
<1>2. CASE Exchange
  <2>1. ~strayed' => ~strayed
    <3>1. ASSUME ConnectFails \/ ConnectSucceeds \/ SearchStart PROVE ~strayed' => ~strayed
      BY <3>1 DEF ConnectFails, ConnectSucceeds, SameDaemon, OtherDaemon, SearchStart, Lost,
                  Teardown, search
    <3>2. ASSUME FirstPrefs \/ PrefsAgain PROVE ~strayed' => ~strayed
      <4>1. PICK f \in Fates : strayed' = (strayed \/ f = "late")
        BY <3>2 DEF FirstPrefs, PrefsAgain, PrefsUnchecked
      <4> QED BY <4>1
    <3>3. ASSUME NEW req, RefreshLost(req) PROVE strayed' = strayed
      BY <3>3 DEF RefreshLost, Teardown
    <3>4. ASSUME Fetch \/ FetchClientUpdate \/ FetchProgress \/ FetchResults
          PROVE  strayed' = strayed
      <4>1. (\E req \in RefreshPcs : RefreshLost(req)) \/ strayed' = strayed
        BY <3>4 DEF Fetch, Following, FetchClientUpdate, FetchProgress, FetchResults,
                    RefreshPcs, search
      <4> QED BY <3>3, <4>1
    <3> QED BY <1>2, <3>1, <3>2, <3>4 DEF Exchange
  <2>2. wanted' = wanted
    BY <1>2, ExchangeReports
  <2> QED BY <2>1, <2>2
<1>3. CASE Tick \/ PeerDies \/ GraceElapses \/ ProgressMoves
  BY <1>3 DEF Tick, PeerDies, GraceElapses, ProgressMoves, search
<1> QED BY <1>1, <1>2, <1>3 DEF WorkerMoves

LEMMA SettleStep ==
  ASSUME TypeOK, TypeOK', SysTypeOK, LaterInv, ResultsOfLastSearch', SettleInv,
         [SysNext]_sysVars
  PROVE  SettleInv'
<1>0. /\ opened \in Nat /\ toUi \in Seq(Signal) /\ Queries \subseteq Nat \ {0} /\ NoQuery = 0
      /\ rows \in [Queries -> Queries \cup {0}] /\ liveView \in Queries \cup {0}
      /\ wanted \in Nat
  BY TabsAreQueries DEF TypeOK, SysTypeOK, Panel!TypeOK
<1> SUFFICES ASSUME liveView' # 0, wanted' = liveView', ~strayed' PROVE Settling(liveView)'
  BY DEF SettleInv
<1>1. CASE WorkerStep
  <2>1. UNCHANGED <<liveView, rows>> /\ WorkerMoves /\ Deliver
    BY <1>1 DEF WorkerStep, WorkerMoves, panel
  <2>2. PICK t \in Queries : t = liveView
    BY <1>0, <2>1
  <2>3. PICK n \in Nat : n = opened
    BY <1>0
  <2>4. emitted'.results = "-" => Settling(t)
    <3>1. UpTo(n)
      BY <2>3 DEF LaterInv
    <3>2. emitted'.results = "-" => wanted' = wanted /\ ~strayed
      BY <2>1, <3>1, MovesStray
    <3> QED BY <2>1, <2>2, <3>2 DEF SettleInv
  <2>5. emitted'.query \in {0, t}
    BY <1>0, <2>1, <2>2 DEF ResultsOfLastSearch
  <2>6. Settling(t)'
    BY <2>1, <2>4, <2>5, SettleQueued
  <2> QED BY <2>1, <2>2, <2>6 DEF Settling, NoList
<1>2. CASE UserSearches
  <2>1. PICK q \in Queries :
          Panel!OnSearch(q) /\ Post([op |-> "search", query |-> q])
    BY <1>2 DEF UserSearches
  <2>2. q = opened + 1 /\ liveView' = q /\ wanted' = wanted
    BY <2>1 DEF Panel!OnSearch, Post, search
  <2>3. wanted <= opened
    BY DEF LaterInv, UpTo
  <2> QED BY <1>0, <2>2, <2>3
<1>3. CASE UserClosesTab \/ UserElsewhere
  <2>1. /\ UNCHANGED <<rows, toUi>> /\ liveView' \in {0, liveView}
        /\ UNCHANGED <<wanted, strayed>>
    BY <1>3 DEF UserClosesTab, UserElsewhere, Panel!OnTabClose, panel, Post, vars, search
  <2>2. liveView' = liveView /\ Settling(liveView)
    BY <2>1 DEF SettleInv
  <2> QED BY <2>1, <2>2 DEF Settling, NoList
<1>4. CASE UiSetsSearching
  <2> DEFINE s == Head(toUi)
             rest == [s EXCEPT !.searching = "-"]
  <2>1. toUi # <<>> /\ s \in Signal /\ toUi' = Without(rest)
    BY <1>0, <1>4 DEF UiSetsSearching
  <2>2. rest \in Signal /\ rest.results = s.results /\ rest.query = s.query
    BY <2>1, SplitType DEF Signal
  <2>3. UNCHANGED <<wanted, strayed, liveView, rows>>
    BY <1>4 DEF UiSetsSearching, Panel!SetSearching, vars, search
  <2>4. PICK t \in Queries : t = liveView
    BY <1>0, <2>3
  <2>5. Settling(t)
    BY <2>3, <2>4 DEF SettleInv
  <2>6. Settling(t)'
    BY <2>1, <2>2, <2>3, <2>5, SettleTaken
  <2> QED BY <2>3, <2>4, <2>6 DEF Settling, NoList
<1>5. CASE UiSetsResults
  <2> DEFINE s == Head(toUi)
             rest == [s EXCEPT !.results = "-", !.query = NoQuery]
  <2>1. toUi # <<>> /\ s \in Signal /\ s.results = "list" /\ toUi' = Without(rest)
    BY <1>0, <1>5 DEF UiSetsResults
  <2>2. rest \in Signal /\ rest.results = "-"
    BY <1>5, <2>1, SplitType DEF UiSetsResults, Signal
  <2>3. UNCHANGED <<wanted, strayed, liveView>> /\ Panel!SetResults(s.query)
    BY <1>5 DEF UiSetsResults, Panel!SetResults, vars, search
  <2>4. PICK t \in Queries : t = liveView
    BY <1>0, <2>3
  <2>5. Settling(t)
    BY <2>3, <2>4 DEF SettleInv
  <2>6. rows'[t] = s.query
    BY <1>0, <2>3, <2>4 DEF Panel!SetResults
  <2>7. Settling(t)'
    BY <2>1, <2>2, <2>5, <2>6, SettleTaken
  <2> QED BY <2>3, <2>4, <2>7 DEF Settling, NoList
<1>6. CASE UNCHANGED sysVars
  <2>1. UNCHANGED <<liveView, rows, toUi, wanted, strayed>>
    BY <1>6 DEF sysVars, vars, panel, search
  <2> QED BY <2>1 DEF SettleInv, Settling, NoList
<1> QED BY <1>1, <1>2, <1>3, <1>4, <1>5, <1>6 DEF SysNext

\* Once the worker has taken up the live tab's search and the signals have
\* arrived, the tab shows its own search or nothing, however many searches were
\* started, closed, refused or lost with their connection before - unless that
\* search was taken to another daemon or replies ran behind.
THEOREM SettledTab == SysSpec => []SettledTabShowsOwn
<1>1. SysInit => LaterInv /\ SettleInv
  BY TabsAreQueries DEF SysInit, Init, Panel!Init, LaterInv, NoLaterResults, UpTo, SettleInv
<1>2. IInv /\ SysTypeOK /\ LaterInv /\ [SysNext]_sysVars => LaterInv'
  BY LaterStep DEF IInv
<1>3. IInv /\ IInv' /\ SysTypeOK /\ LaterInv /\ ResultsOfLastSearch' /\ SettleInv
        /\ [SysNext]_sysVars => SettleInv'
  BY SettleStep DEF IInv
<1>4. SettleInv => SettledTabShowsOwn
  <2> SUFFICES ASSUME SettleInv, liveView # 0, wanted = liveView, toUi = <<>>, ~strayed
               PROVE  rows[liveView] \in {0, liveView}
    BY DEF SettledTabShowsOwn
  <2>1. NoList(1)
    BY DEF NoList
  <2> QED BY <2>1 DEF SettleInv, Settling
<1>5. SysSpec => []IInv /\ []ResultsOfLastSearch
  BY WorkerInSystem, InductiveInvariant, LastSearchReported, PTL
<1> QED BY <1>1, <1>2, <1>3, <1>4, <1>5, SysTypeCorrect, PTL DEF SysSpec

=============================================================================
