------------------------------ MODULE EcWorker ------------------------------
(***************************************************************************)
(* The worker thread of ADR-0004: it owns the EcClient, serves the command *)
(* slots the UI queues, refreshes on a timer and reports by signals.       *)
(*                                                                         *)
(* Slots never overlap (one thread, no nested event loop), so a slot is a  *)
(* chain of steps, one per blocking exchange with the daemon; `pc` names   *)
(* the exchange the running slot will make next.  Between two of them the  *)
(* UI may queue commands, the link may die, time may pass.                 *)
(*                                                                         *)
(* EC replies carry nothing that ties them to a request: the client takes  *)
(* the next frame of the socket as the answer (EcClient::exchange).  The   *)
(* socket is therefore modelled by `owed`, the replies the daemon has sent *)
(* or will send and nobody has read.                                       *)
(***************************************************************************)
EXTENDS Naturals, Sequences

CONSTANTS PlainOps,    \* slots that are one runConnected call and no more
          Queries,     \* parameters of a search
          NoQuery,     \* no search, or an empty result list
          Sources,     \* ids of the daemon's source clients
          Faults,      \* what may go wrong on the wire (see Fates)
          InboxBound,  \* bound: queued commands (the event queue has none)
          LateBound    \* bound: timeouts one connection survives (the code has none)

OwnOps == {"connect", "disconnect", "search", "stopSearch", "fetchPrefs",
           "applyPrefs", "shutdown"}

\* How an exchange ends: the next frame is read whole; it does not decode or
\* refuses the request; nothing came in time; only a part of it came in time;
\* the connection is gone.
Fates == {"answered", "undecodable", "late", "torn", "gone"}
IoFates == {"late", "torn", "gone"}

ASSUME NoQueryAssumption == NoQuery \notin Queries
ASSUME PlainOpsAssumption == PlainOps \cap OwnOps = {}
ASSUME BoundAssumption == InboxBound \in Nat /\ LateBound \in Nat

VARIABLES
  inbox,          \* slots queued on the worker's event loop
  closing,        \* the UI thread is in ~EcWorkerThread and posts no more
  pc,             \* "idle", or the exchange the running slot makes next
  client,         \* client_ is set
  timer,          \* refreshTimer_ is active
  searching, at100, graceOver,   \* searching_, at100_, 12 s on at100Timer_
  sourceClients,  \* sourceClients_: what is known of each source
  genuine,        \* the replies of this refresh answered their own requests
  full,           \* `progress >= 100` of this refresh
  owed,           \* replies nobody has read yet, oldest first
  framed,         \* the next byte of the socket starts a frame
  alive,          \* the TCP connection is up
  sent,           \* what the daemon has told this connection of each source
  found, complete,\* the daemon's last search, and whether it is done
  emitted,        \* the signals of the last step
  status, shown,  \* last statusChanged and searchingChanged values emitted
  wanted,         \* parameters of the last startSearch
  swallowed,      \* history: timeouts this connection survived
  wiped,          \* history: sourceClients_ was cleared under this connection
  reached,        \* history: this search was at 100% in its last round
  strayed         \* history: since this search was started the link was replaced
                  \* by one to another daemon, or a timeout was survived then or,
                  \* on its connection, before

control == <<inbox, closing>>
session == <<client, timer, sourceClients>>
search  == <<searching, at100, graceOver, wanted, reached, strayed>>
round   == <<genuine, full>>
socket  == <<owed, framed, alive, sent>>
daemon  == <<found, complete>>
output  == <<emitted, status, shown>>
history == <<swallowed, wiped>>
vars == <<control, pc, session, search, round, socket, daemon, output, history>>

(* --------------------------------- types -------------------------------- *)

Ops == PlainOps \cup OwnOps
Command == [op : Ops, query : Queries \cup {NoQuery}]

RefreshPcs == {"stats", "downloads", "connState", "servers", "sharedFiles",
               "clientUpdate", "progress", "results"}
Requests == RefreshPcs \cup {"prefs", "setPrefs", "command", "search"}
Pcs == RefreshPcs \cup {"idle", "connecting", "firstPrefs", "searchStart",
                        "prefsAgain", "stopped"}
Statuses == {"Disconnected", "Connecting", "Connected", "Error"}

\* What a GET_UPDATE reply says of a source: not listed, listed with the
\* fields that changed, listed with every field, or no EC_TAG_CLIENT at all.
Listing == {"none", "changes", "all", "silent"}
Reply == [req : Requests \cup {"junk"}, query : Queries \cup {NoQuery},
          full : BOOLEAN, upd : [Sources -> Listing]]

Signals == [status : Statuses \cup {"-"}, searching : {"-", "on", "off"},
            snapshots : {"-", "own", "foreign"}, prefs : {"-", "own", "foreign"},
            results : {"-", "list"}, query : Queries \cup {NoQuery}]
Quiet == [status |-> "-", searching |-> "-", snapshots |-> "-", prefs |-> "-",
          results |-> "-", query |-> NoQuery]

TypeOK ==
  /\ inbox \in Seq(Command) /\ closing \in BOOLEAN /\ pc \in Pcs
  /\ client \in BOOLEAN /\ timer \in BOOLEAN
  /\ searching \in BOOLEAN /\ at100 \in BOOLEAN /\ graceOver \in BOOLEAN
  /\ sourceClients \in [Sources -> {"absent", "partial", "whole"}]
  /\ genuine \in BOOLEAN /\ full \in BOOLEAN
  /\ owed \in Seq(Reply) /\ framed \in BOOLEAN /\ alive \in BOOLEAN
  /\ sent \in [Sources -> {"unsent", "sent", "gone"}]
  /\ found \in Queries \cup {NoQuery} /\ complete \in BOOLEAN
  /\ emitted \in Signals /\ status \in Statuses /\ shown \in {"on", "off"}
  /\ wanted \in Queries \cup {NoQuery}
  /\ swallowed \in Nat /\ wiped \in BOOLEAN
  /\ reached \in BOOLEAN /\ strayed \in BOOLEAN

(* ------------------------------ the exchange ---------------------------- *)

Untouched == [s \in Sources |-> "silent"]
Junk == [req |-> "junk", query |-> NoQuery, full |-> FALSE, upd |-> Untouched]
Plain(req) == [Junk EXCEPT !.req = req]

\* The daemon lists some of its clients: in full the first time, later only
\* what changed.  An id it stopped listing does not come back.
Listed(L) == [s \in Sources |-> IF s \notin L THEN "none"
                                ELSE IF sent[s] = "unsent" THEN "all" ELSE "changes"]
Updates == {Untouched} \cup {Listed(L) : L \in SUBSET {s \in Sources : sent[s] # "gone"}}

\* The replies the daemon may give to a request, as of now.
Answers(req) ==
  CASE req = "clientUpdate" -> {[Plain(req) EXCEPT !.upd = u] : u \in Updates}
    [] req = "progress"     -> {[Plain(req) EXCEPT !.full = complete]}
    [] req = "results"      -> {[Plain(req) EXCEPT !.query = found]}
    [] OTHER                -> {Plain(req)}

\* The frames the socket delivers once the request is out.
Line(a) == IF alive THEN Append(owed, a) ELSE owed

\* There are bytes to read; once frames are lost, anything the daemon sends
\* may look like one.
Readable(a) == IF framed THEN Line(a) # <<>> ELSE alive

Possible(a, f) ==
  CASE f = "answered"    -> Readable(a)
    [] f = "undecodable" -> Readable(a) /\ "undecodable" \in Faults
    [] f = "late"        -> alive /\ "late" \in Faults
    [] f = "torn"        -> alive /\ "torn" \in Faults
    [] f = "gone"        -> ~alive

Received(a, f) == IF f = "answered" /\ framed THEN Head(Line(a)) ELSE Junk

SentAfter(a) == [s \in Sources |->
  CASE a.upd[s] = "silent" -> sent[s]
    [] a.upd[s] = "none"   -> IF sent[s] = "unsent" THEN "unsent" ELSE "gone"
    [] OTHER               -> "sent"]

\* Seeded fault: a compressed reply is refused before its payload is read.
ExchangedUnread(a, f) ==
  /\ framed' = (framed /\ f # "torn")
  /\ owed' = IF ~framed \/ f = "torn" THEN <<>>
             ELSE IF f # "answered" THEN Line(a) ELSE Tail(Line(a))
  /\ sent' = SentAfter(a)
  /\ UNCHANGED alive

\* The socket after an exchange the client survives.
Exchanged(a, f) ==
  /\ framed' = (framed /\ f # "torn")
  /\ owed' = IF ~framed \/ f = "torn" THEN <<>>
             ELSE IF f \in IoFates THEN Line(a) ELSE Tail(Line(a))
  /\ sent' = SentAfter(a)
  /\ UNCHANGED alive

\* No EcClient: the next one starts with a fresh connection.
FreshSocket ==
  /\ owed' = <<>> /\ framed' = TRUE /\ alive' = TRUE
  /\ sent' = [s \in Sources |-> "unsent"]
  /\ swallowed' = 0 /\ wiped' = FALSE

\* Seeded fault: the sweep also runs when the reply has no client container.
MergedSwept(r) == [s \in Sources |->
  CASE r.upd[s] \in {"silent", "none"} -> "absent"
    [] r.upd[s] = "all"     -> "whole"
    [] r.upd[s] = "changes" -> IF sourceClients[s] = "absent" THEN "partial"
                               ELSE sourceClients[s]]

\* mergeClient and the sweep after it.  A reply that is no GET_UPDATE answer
\* has no client container.
Merged(r) == [s \in Sources |->
  CASE r.upd[s] = "silent"  -> sourceClients[s]
    [] r.upd[s] = "none"    -> "absent"
    [] r.upd[s] = "all"     -> "whole"
    [] r.upd[s] = "changes" -> IF sourceClients[s] = "absent" THEN "partial"
                               ELSE sourceClients[s]]

(* -------------------------------- helpers ------------------------------- *)

\* Seeded fault: a step without a status signal still overwrites the status.
EmitAlways(e) ==
  /\ emitted' = e /\ status' = e.status
  /\ shown' = IF e.searching = "-" THEN shown ELSE e.searching

Emit(e) ==
  /\ emitted' = e
  /\ status' = IF e.status = "-" THEN status ELSE e.status
  /\ shown' = IF e.searching = "-" THEN shown ELSE e.searching

NoSources == [s \in Sources |-> "absent"]

\* Seeded fault: the refresh timer keeps running.
DropClientOnly == client' = FALSE /\ sourceClients' = NoSources /\ FreshSocket /\ UNCHANGED timer

\* What teardown() and shutdown() both reset.
DropClient ==
  /\ timer' = FALSE /\ client' = FALSE /\ sourceClients' = NoSources
  /\ FreshSocket

\* Seeded faults: searchingChanged(false), or an Error status, is not emitted.
FarewellSpinning(st, e) == [e EXCEPT !.status = st]
FarewellSilent(st, e) ==
  [e EXCEPT !.status = IF st = "Error" THEN "-" ELSE st,
            !.searching = IF searching THEN "off" ELSE e.searching]

\* The signals of teardown(), after those (`e`) the slot has emitted before it.
Farewell(st, e) == [e EXCEPT !.status = st,
                             !.searching = IF searching THEN "off" ELSE e.searching]

Teardown(st, e) ==
  /\ DropClient /\ searching' = FALSE /\ pc' = "idle"
  /\ Emit(Farewell(st, e))
  /\ UNCHANGED <<at100, graceOver, wanted, reached, strayed>>

\* Seeded fault: a command that failed is only logged, whatever the reason.
LostLogged(req, e) ==
  /\ \E a \in Answers(req), f \in IoFates :
       Possible(a, f) /\ Exchanged(a, f) /\ Len(owed) <= LateBound
  /\ Emit(e) /\ pc' = "idle" /\ UNCHANGED <<session, search, history>>

\* The exchange fails at the transport and the slot tears the link down.
Lost(req, e) ==
  /\ \E a \in Answers(req), f \in IoFates : Possible(a, f)
  /\ Teardown("Error", e)

Take(op) ==
  /\ pc = "idle" /\ inbox # <<>> /\ Head(inbox).op = op
  /\ inbox' = Tail(inbox) /\ UNCHANGED closing

\* "not connected - command ignored", after signals `e` of the slot.
Ignored(e) ==
  /\ ~client /\ Emit(e) /\ pc' = "idle"
  /\ searching' = (searching /\ e.searching # "off")
  /\ UNCHANGED <<session, at100, graceOver, wanted, reached, strayed, round, socket,
                 daemon, history>>

(* --------------------------- connecting, leaving ------------------------ *)

\* connectToDaemon up to the blocking connect and handshake.  A link that is
\* already up stays up, but what it told of the sources is forgotten.
BeginConnect ==
  /\ Take("connect")
  /\ sourceClients' = NoSources /\ wiped' = client
  /\ Emit([Quiet EXCEPT !.status = "Connecting"]) /\ pc' = "connecting"
  /\ UNCHANGED <<client, timer, search, round, socket, daemon, swallowed>>

ConnectFails ==
  /\ pc = "connecting" /\ pc' = "idle"
  /\ Emit([Quiet EXCEPT !.status = "Error"])
  /\ UNCHANGED <<control, session, search, round, socket, daemon, history>>

\* Seeded fault: Connected is announced before client_ is set.
ConnectAnnounced ==
  /\ pc = "connecting" /\ pc' = "idle"
  /\ Emit([Quiet EXCEPT !.status = "Connected"])
  /\ UNCHANGED <<control, session, search, round, socket, daemon, history>>

\* The new client is of the same daemon, or of another one (restarted, or at
\* another host) with a last search of its own.  searching_ stays as it was; if it
\* is lowered both are the same, for no daemon is polled before it took a search.
SameDaemon == UNCHANGED <<daemon, strayed>>
OtherDaemon ==
  /\ searching /\ found' \in Queries \cup {NoQuery} /\ UNCHANGED complete
  /\ strayed' = TRUE

ConnectSucceeds ==
  /\ pc = "connecting" /\ pc' = "firstPrefs"
  /\ client' = TRUE /\ FreshSocket /\ (SameDaemon \/ OtherDaemon)
  /\ Emit([Quiet EXCEPT !.status = "Connected"])
  /\ UNCHANGED <<control, timer, sourceClients, searching, at100, graceOver, wanted,
                 reached, round>>

\* A fetchPrefs whose failure the slot ignores: whatever happens, it goes on.
PrefsUnchecked(next) ==
  \E a \in Answers("prefs"), f \in Fates :
    /\ Possible(a, f) /\ Exchanged(a, f)
    /\ f = "late" => swallowed < LateBound
    /\ swallowed' = IF f = "late" THEN swallowed + 1 ELSE swallowed
    /\ Emit(IF f # "answered" THEN Quiet
            ELSE [Quiet EXCEPT !.prefs = IF Received(a, f).req = "prefs"
                                         THEN "own" ELSE "foreign"])
    /\ pc' = next
    /\ strayed' = (strayed \/ f = "late")
    /\ UNCHANGED <<control, client, sourceClients, searching, at100, graceOver, wanted,
                   reached, round, daemon, wiped>>

\* Seeded fault: the timer is started only once preferences have arrived.
FirstPrefsStarts == pc = "firstPrefs" /\ PrefsUnchecked("stats")
                    /\ timer' = (timer \/ emitted'.prefs # "-")

FirstPrefs == pc = "firstPrefs" /\ PrefsUnchecked("stats") /\ timer' = TRUE

Disconnect ==
  /\ Take("disconnect") /\ Teardown("Disconnected", Quiet)
  /\ UNCHANGED <<round, daemon>>

\* Destruction of the worker: a blocking call, then the loop is quit.
Shutdown ==
  /\ Take("shutdown") /\ pc' = "stopped"
  /\ DropClient /\ Emit(Quiet)
  /\ UNCHANGED <<search, round, daemon>>

Stopped == pc = "stopped" /\ UNCHANGED vars

(* -------------------------------- commands ------------------------------ *)

\* runConnected, after signals `e` of the slot: refresh on success, stay as we
\* were on a refusal, tear down on a transport error.
RunConnected(e) ==
  \/ Ignored(e)
  \/ /\ client /\ Lost("command", e) /\ UNCHANGED <<round, daemon>>
  \/ /\ client
     /\ \E a \in Answers("command"), f \in Fates \ IoFates :
          /\ Possible(a, f) /\ Exchanged(a, f)
          /\ pc' = IF f = "answered" THEN "stats" ELSE "idle"
     /\ searching' = (searching /\ e.searching # "off")
     /\ Emit(e)
     /\ UNCHANGED <<session, at100, graceOver, wanted, reached, strayed, round,
                    daemon, history>>

PlainCommand == \E op \in PlainOps : Take(op) /\ RunConnected(Quiet)

\* stopSearch lowers searching_ before it looks for a connection.
StopSearch ==
  /\ Take("stopSearch")
  /\ RunConnected(IF searching THEN [Quiet EXCEPT !.searching = "off"] ELSE Quiet)

FetchPrefs ==
  /\ Take("fetchPrefs")
  /\ \/ Ignored(Quiet)
     \/ client /\ Lost("prefs", Quiet) /\ UNCHANGED <<round, daemon>>
     \/ /\ client
        /\ \E a \in Answers("prefs"), f \in Fates \ IoFates :
             /\ Possible(a, f) /\ Exchanged(a, f)
             /\ Emit(IF f # "answered" THEN Quiet
                     ELSE [Quiet EXCEPT !.prefs = IF Received(a, f).req = "prefs"
                                                  THEN "own" ELSE "foreign"])
        /\ pc' = "idle"
        /\ UNCHANGED <<session, search, round, daemon, history>>

ApplyPrefs ==
  /\ Take("applyPrefs")
  /\ \/ Ignored(Quiet)
     \/ client /\ Lost("setPrefs", Quiet) /\ UNCHANGED <<round, daemon>>
     \/ /\ client
        /\ \E a \in Answers("setPrefs"), f \in Fates \ IoFates :
             /\ Possible(a, f) /\ Exchanged(a, f)
             /\ pc' = IF f = "answered" THEN "prefsAgain" ELSE "idle"
        /\ Emit(Quiet)
        /\ UNCHANGED <<session, search, round, daemon, history>>

\* The daemon's view of the settings is read back; no refresh follows.
PrefsAgain == pc = "prefsAgain" /\ PrefsUnchecked("idle") /\ UNCHANGED timer

(* --------------------------------- search ------------------------------- *)

\* Seeded fault: at100_ is left over from the previous search.
RaiseSearchOver(q) ==
  /\ searching' = TRUE /\ UNCHANGED <<at100, graceOver>>
  /\ wanted' = q /\ reached' = FALSE /\ strayed' = (swallowed > 0)
  /\ Emit([Quiet EXCEPT !.searching = "on", !.results = "list"])

\* Seeded fault: the list of the previous search is not cleared.
RaiseSearchStale(q) ==
  /\ searching' = TRUE /\ at100' = FALSE /\ UNCHANGED graceOver
  /\ wanted' = q /\ reached' = FALSE /\ strayed' = (swallowed > 0)
  /\ Emit([Quiet EXCEPT !.searching = "on"])

\* A new search starts from scratch, at100_ included.
RaiseSearch(q) ==
  /\ searching' = TRUE /\ at100' = FALSE /\ UNCHANGED graceOver
  /\ wanted' = q /\ reached' = FALSE /\ strayed' = (swallowed > 0)
  /\ Emit([Quiet EXCEPT !.searching = "on", !.results = "list"])

BeginSearch ==
  \E q \in Queries :
    /\ Take("search") /\ Head(inbox).query = q
    /\ \/ Ignored(Quiet)
       \/ /\ client
          /\ RaiseSearch(q) /\ pc' = "searchStart"
          /\ UNCHANGED <<session, round, socket, daemon, history>>

\* Seeded fault: a refused search is polled like an accepted one.
SearchRefusedPolls == pc' = "stats" /\ Emit(Quiet) /\ UNCHANGED searching

SearchRefused ==
  /\ searching' = FALSE /\ pc' = "idle"
  /\ Emit([Quiet EXCEPT !.searching = "off"])

\* The daemon drops its previous search when it accepts a new one; a request
\* that fails here may have reached it or not.
SearchStart ==
  /\ pc = "searchStart" /\ UNCHANGED control
  /\ \/ UNCHANGED daemon
     \/ found' = wanted /\ complete' = FALSE
  /\ \/ Lost("search", Quiet) /\ UNCHANGED round
     \/ /\ \E a \in Answers("search"), f \in Fates \ IoFates :
             /\ Possible(a, f) /\ Exchanged(a, f)
             /\ IF f = "answered"
                THEN /\ alive => found' = wanted /\ ~complete'
                     /\ pc' = "stats" /\ Emit(Quiet) /\ UNCHANGED searching
                ELSE SearchRefused
        /\ UNCHANGED <<session, at100, graceOver, wanted, reached, strayed, round,
                       history>>

(* -------------------------------- refresh ------------------------------- *)

\* The timer fires.  Posted slots and timer events share the event loop.
Tick ==
  /\ pc = "idle" /\ timer
  /\ pc' = IF client THEN "stats" ELSE "idle"
  /\ Emit(Quiet)
  /\ UNCHANGED <<control, session, search, round, socket, daemon, history>>

\* Seeded fault: a failed exchange of a refresh is retried at once.
RefreshRetries(req) ==
  /\ \E a \in Answers(req), f \in Fates \ {"answered"} : Possible(a, f)
  /\ Emit(Quiet)
  /\ UNCHANGED <<control, pc, session, search, round, socket, daemon, history>>

\* Any error of a refresh, a refusal included, ends the link.
RefreshLost(req) ==
  /\ \E a \in Answers(req), f \in Fates \ {"answered"} : Possible(a, f)
  /\ Teardown("Error", Quiet)
  /\ UNCHANGED <<control, round, daemon>>

Following == [stats |-> "downloads", downloads |-> "connState",
              connState |-> "servers", servers |-> "sharedFiles",
              sharedFiles |-> "clientUpdate"]

\* fetchStats .. fetchSharedFiles: nothing is reported before all are in.
Fetch ==
  /\ pc \in DOMAIN Following
  /\ \/ RefreshLost(pc)
     \/ /\ \E a \in Answers(pc) :
             /\ Possible(a, "answered") /\ Exchanged(a, "answered")
             /\ genuine' = ((pc = "stats" \/ genuine)
                             /\ Received(a, "answered").req = pc)
        /\ pc' = Following[pc] /\ Emit(Quiet)
        /\ UNCHANGED <<control, session, search, full, daemon, history>>

\* fetchClientUpdate, then the six snapshots leave together.
FetchClientUpdate ==
  /\ pc = "clientUpdate"
  /\ \/ RefreshLost("clientUpdate")
     \/ /\ \E a \in Answers("clientUpdate") :
             LET r == Received(a, "answered") IN
             /\ Possible(a, "answered") /\ Exchanged(a, "answered")
             /\ sourceClients' = Merged(r)
             /\ Emit([Quiet EXCEPT !.snapshots =
                        IF genuine /\ r.req = "clientUpdate" THEN "own" ELSE "foreign"])
        /\ pc' = IF searching THEN "progress" ELSE "idle"
        /\ UNCHANGED <<control, client, timer, search, round, daemon, history>>

\* A reply without EC_TAG_SEARCH_STATUS reads as 0%.
FetchProgress ==
  /\ pc = "progress"
  /\ \/ RefreshLost("progress")
     \/ /\ \E a \in Answers("progress") :
             /\ Possible(a, "answered") /\ Exchanged(a, "answered")
             /\ full' = Received(a, "answered").full
        /\ pc' = "results" /\ Emit(Quiet)
        /\ UNCHANGED <<control, session, search, genuine, daemon, history>>

\* Seeded fault: at100_ is not raised when 100% is first reached.
GraceNeverStarts ==
  LET over == full /\ at100 /\ graceOver IN
  /\ searching' = ~over /\ at100' = (at100 /\ full /\ ~over)
  /\ graceOver' = IF full /\ ~at100 THEN FALSE ELSE graceOver

\* Twelve seconds at 100% end the search; a value below starts them anew.
GraceRound ==
  LET over == full /\ at100 /\ graceOver IN
  /\ searching' = ~over
  /\ at100' = (full /\ ~over)
  /\ graceOver' = IF full /\ ~at100 THEN FALSE ELSE graceOver

FetchResults ==
  /\ pc = "results"
  /\ \/ RefreshLost("results")
     \/ /\ \E a \in Answers("results") :
             /\ Possible(a, "answered") /\ Exchanged(a, "answered")
             /\ GraceRound
             /\ Emit([Quiet EXCEPT
                        !.results = "list", !.query = Received(a, "answered").query,
                        !.searching = IF searching' THEN "-" ELSE "off"])
        /\ reached' = full /\ pc' = "idle"
        /\ UNCHANGED <<control, session, wanted, strayed, round, daemon, history>>

(* ------------------------------ environment ----------------------------- *)

\* Seeded fault: slots are still queued while the worker is being destroyed.
PostLate(c) ==
  /\ pc # "stopped" /\ Len(inbox) <= InboxBound
  /\ c.op # "shutdown" /\ (c.query # NoQuery <=> c.op = "search")
  /\ inbox' = Append(inbox, c) /\ Emit(Quiet)
  /\ UNCHANGED <<closing, pc, session, search, round, socket, daemon, history>>

\* The UI queues a slot call.
Post(c) ==
  /\ ~closing /\ Len(inbox) < InboxBound
  /\ c.op # "shutdown" /\ (c.query # NoQuery <=> c.op = "search")
  /\ inbox' = Append(inbox, c) /\ Emit(Quiet)
  /\ UNCHANGED <<closing, pc, session, search, round, socket, daemon, history>>

\* ~EcWorkerThread: the UI thread queues shutdown and blocks.
Close ==
  /\ ~closing /\ closing' = TRUE
  /\ inbox' = Append(inbox, [op |-> "shutdown", query |-> NoQuery]) /\ Emit(Quiet)
  /\ UNCHANGED <<pc, session, search, round, socket, daemon, history>>

\* The TCP connection goes away; replies already received can still be read.
PeerDies ==
  /\ "gone" \in Faults /\ client /\ alive /\ alive' = FALSE /\ Emit(Quiet)
  /\ UNCHANGED <<control, pc, session, search, round, owed, framed, sent, daemon,
                 history>>

\* Twelve seconds have passed on a started at100Timer_.
GraceElapses ==
  /\ at100 /\ ~graceOver /\ graceOver' = TRUE /\ Emit(Quiet)
  /\ UNCHANGED <<control, pc, session, searching, at100, wanted, reached, strayed,
                 round, socket, daemon, history>>

\* The daemon's search moves on (or falls back: it asks more servers).
ProgressMoves ==
  /\ searching /\ complete' \in BOOLEAN /\ Emit(Quiet)
  /\ UNCHANGED <<control, pc, session, search, round, socket, found, history>>

(* ----------------------------- specification ---------------------------- *)

Init ==
  /\ inbox = <<>> /\ closing = FALSE /\ pc = "idle"
  /\ client = FALSE /\ timer = FALSE /\ sourceClients = NoSources
  /\ searching = FALSE /\ at100 = FALSE /\ graceOver = FALSE
  /\ wanted = NoQuery /\ reached = FALSE /\ strayed = FALSE
  /\ genuine = FALSE /\ full = FALSE
  /\ owed = <<>> /\ framed = TRUE /\ alive = TRUE
  /\ sent = [s \in Sources |-> "unsent"]
  /\ found = NoQuery /\ complete = FALSE
  /\ emitted = Quiet /\ status = "Disconnected" /\ shown = "off"
  /\ swallowed = 0 /\ wiped = FALSE

\* A queued slot is taken off the event loop.
Slot == \/ BeginConnect \/ Disconnect \/ PlainCommand \/ BeginSearch \/ StopSearch
        \/ FetchPrefs \/ ApplyPrefs \/ Shutdown

\* The running slot makes its next exchange.
Exchange == \/ ConnectFails \/ ConnectSucceeds \/ FirstPrefs \/ PrefsAgain
            \/ SearchStart \/ Fetch \/ FetchClientUpdate \/ FetchProgress
            \/ FetchResults

Environment == \/ \E c \in Command : Post(c)
               \/ Close \/ PeerDies \/ GraceElapses \/ ProgressMoves

Next == Slot \/ Exchange \/ Tick \/ Environment \/ Stopped

Spec == Init /\ [][Next]_vars

\* Every exchange ends within its timeouts (EcClient::kTimeoutMs).  Each pass
\* of the event loop serves what is queued and then the timers that are due,
\* so neither the queue nor the timer starves.  Time passes.
FairSpec == /\ Spec
            /\ WF_vars(Exchange) /\ SF_vars(Slot) /\ SF_vars(Tick)
            /\ WF_vars(GraceElapses)

(* ------------------------------ properties ------------------------------ *)

\* The refresh timer runs exactly while there is a client, except within
\* connectToDaemon, which starts it after the first fetchPrefs: no handler
\* leaves the UI without refreshes or a timer firing for nobody.
TimerFollowsClient == pc # "firstPrefs" => (timer <=> client)

\* "Connected" is announced only while a client is held, "Disconnected" only
\* while none is (a worker that has stopped announces nothing).
StatusTellsClient ==
  /\ status = "Connected" /\ pc # "stopped" => client
  /\ status = "Disconnected" => ~client

\* The spinner the UI derives from searchingChanged agrees with searching_,
\* across failures, teardown and the end of the grace period.
SearchFlagShown == (shown = "on") <=> searching

\* A search never outlives the connection it would be polled on.
SearchNeedsClient == searching /\ pc # "stopped" => client

\* How far replies run behind requests: by one for every timeout of a
\* fetchPrefs the connection survived, and by nothing else.
OneBehindPerTimeout == client /\ alive /\ framed => Len(owed) = swallowed

\* A reply is taken for the answer to another request only on a connection
\* that survived a timeout (fetchPrefs in connectToDaemon and applyPrefs).
ForeignOnlyAfterTimeout ==
  "foreign" \in {emitted.prefs, emitted.snapshots} => swallowed > 0 \/ ~framed

\* sourceClients_ knows every field of every source it lists, unless the
\* connection ran behind or a failed reconnect cleared the map under it.
SourcesWhole ==
  client /\ ~wiped /\ swallowed = 0 /\ framed
    => \A s \in Sources : sourceClients[s] # "partial"

\* The result list reported comes from the search started last, though that may
\* have been refused, lost with its connection or taken to a new connection to
\* the same daemon.  Left out are a search taken to another daemon, which is then
\* polled for whatever was searched there, and one with a timeout survived since
\* it was started or before on its connection.
ResultsOfLastSearch == ~strayed => emitted.query \in {NoQuery, wanted}

\* A search is ended by the grace period only after a round since it was started
\* was at 100%: a leftover of the previous search cannot cut it short.
NotCutShort ==
  [][pc = "results" /\ searching /\ ~searching' /\ client' => reached]_vars

\* After shutdown the loop has no slot left to run and holds no socket.
StoppedForGood == pc = "stopped" => inbox = <<>> /\ ~client /\ ~timer

Conn == INSTANCE ConnLifecycle WITH held <- client, exited <- pc = "stopped"

\* The worker keeps to the lifecycle it promises the UI.
Lifecycle == Conn!Spec

\* A connection that died is noticed: the worker drops it, or the user has
\* replaced it, even if the user does nothing at all.
LossNoticed == client /\ ~alive ~> ~client \/ alive

\* The destructor of EcWorkerThread returns: its blocking call is served
\* whatever the worker is doing, refreshes and dead connections included.
CloseReturns == closing ~> pc = "stopped"

\* Once the daemon reports 100% for good, searching_ is lowered - unless the
\* connection runs behind: then progress is read from another request's reply.
SearchEnds == <>[](complete /\ swallowed = 0) => (searching ~> ~searching \/ pc = "stopped")

=============================================================================
