------------------------------- MODULE Session -----------------------------
(***************************************************************************)
(* The main window from one start of the program to the next: what it      *)
(* keeps on disk (the remembered password, the speed history), the login   *)
(* with what is in the password field, and the status changes that empty   *)
(* the graph.  The program may end at any time, closed or killed.          *)
(*                                                                         *)
(* The worker is reduced to logging in (EcHandshake), one sample for each  *)
(* refresh, and losing the connection; EcWorker has all of it.             *)
(***************************************************************************)
EXTENDS EcHandshake, SpeedGraph

CONSTANTS Connections,  \* bound: connections ever made, 1..n
          SignalBound   \* bound: signals queued for the UI

ASSUME SessionBounds == SignalBound \in Nat

VARIABLES
  running,    \* the program runs
  passEdit,   \* the password field
  typed,      \* history: the text, typed in this run or an earlier one, it comes from
  remember,   \* the check box
  stored,     \* the settings: password_md5 and, as history, the text it comes from
  toWorker,   \* slots queued on the worker's event loop
  toUi,       \* signals queued for the UI thread
  link,       \* the worker's connection (0: no client)
  made,       \* connections made so far
  attempted   \* history: a status has changed since the program was started

window == <<passEdit, typed, remember>>
queues == <<toWorker, toUi>>
vars == <<secret, handshake, graph, running, window, stored, queues, link, made, attempted>>

Signal == [status : {"Disconnected", "Connecting", "Connected", "Error"}]
            \cup [stats : Connections]
Command == [op : {"connect"}, text : Text] \cup [op : {"disconnect"}]

TypeOK ==
  /\ HandshakeTypeOK
  /\ samples \in Seq(Connections) /\ Len(samples) <= MaxSamples /\ loaded \in BOOLEAN
  /\ saved \in Seq(Connections) /\ Len(saved) <= MaxSamples
  /\ running \in BOOLEAN /\ passEdit \in Text /\ typed \in Text /\ remember \in BOOLEAN
  /\ stored \subseteq [md5 : Text, from : Text]
  /\ toWorker \in Seq(Command) /\ toUi \in Seq(Signal)
  /\ link \in Connections \cup {0} /\ made \in Connections \cup {0}
  /\ attempted \in BOOLEAN

(* --------------------------- the window and disk ------------------------ *)

\* Seeded fault: what is stored is the digest of whatever is in the field.
SaveSettingsTwice ==
  stored' = IF remember THEN {[md5 |-> Md5Hex(passEdit), from |-> typed]} ELSE {}

\* saveSettings.
SaveSettings ==
  stored' = IF remember THEN {[md5 |-> Normalize(passEdit), from |-> typed]} ELSE {}

\* The user types a password or a digest, or turns the check box.
Edit ==
  /\ running /\ \E t \in Text : t.form # "twice" /\ passEdit' = t /\ typed' = t
  /\ UNCHANGED <<secret, handshake, graph, running, remember, stored, queues, link, made, attempted>>

Toggle ==
  /\ running /\ remember' = ~remember
  /\ UNCHANGED <<secret, handshake, graph, running, passEdit, typed, stored, queues, link, made, attempted>>

\* onConnectClicked; Enter in the field does it when the button is disabled.
ClickConnect ==
  /\ running /\ toWorker = <<>>
  /\ SaveSettings /\ toWorker' = <<[op |-> "connect", text |-> passEdit]>>
  /\ UNCHANGED <<secret, handshake, graph, running, window, toUi, link, made, attempted>>

ClickDisconnect ==
  /\ running /\ toWorker = <<>> /\ toWorker' = <<[op |-> "disconnect"]>>
  /\ UNCHANGED <<secret, handshake, graph, running, window, stored, toUi, link, made, attempted>>

\* Seeded fault: only a disconnection empties the graph.
StatusChangedKeeping(st) ==
  /\ attempted' = TRUE
  /\ IF st = "Disconnected" THEN Clear ELSE UNCHANGED graph

\* onStatusChanged.
StatusChanged(st) ==
  /\ attempted' = TRUE
  /\ IF st = "Connected" THEN UNCHANGED graph ELSE Clear

UiReceives ==
  /\ running /\ toUi # <<>> /\ toUi' = Tail(toUi)
  /\ LET s == Head(toUi) IN
       IF "status" \in DOMAIN s THEN StatusChanged(s.status)
       ELSE AddSample(s.stats) /\ UNCHANGED attempted
  /\ UNCHANGED <<secret, handshake, running, window, stored, toWorker, link, made>>

\* The program is gone: nothing is left but what is on disk.
Ends ==
  /\ running /\ running' = FALSE /\ samples' = <<>> /\ loaded' = FALSE
  /\ toWorker' = <<>> /\ toUi' = <<>> /\ link' = 0
  /\ Forgotten /\ UNCHANGED <<window, stored, made, attempted>>

\* closeEvent saves the history, then the worker is shut down.
Close == Ends /\ saved' \in AfterSave

Killed == Ends /\ UNCHANGED saved

\* loadSettings; a field that is not remembered starts with what the user types
\* first.
LoadSettings ==
  /\ remember' = (stored # {})
  /\ IF stored = {} THEN passEdit' \in {Plain(s) : s \in Secrets} /\ typed' = passEdit'
     ELSE \E k \in stored : passEdit' = k.md5 /\ typed' = k.from

\* Seeded fault: the history is loaded before the status is first shown.
StartLoadingFirst ==
  /\ ~running /\ running' = TRUE /\ samples' = <<>> /\ loaded' \in BOOLEAN /\ UNCHANGED saved
  /\ LoadSettings /\ attempted' = FALSE
  /\ UNCHANGED <<secret, handshake, stored, queues, link, made>>

\* The constructor: loadSettings, a first onStatusChanged, and then the history.
Start ==
  /\ ~running /\ running' = TRUE /\ Load
  /\ LoadSettings /\ attempted' = FALSE
  /\ UNCHANGED <<secret, handshake, stored, queues, link, made>>

(* -------------------------------- worker -------------------------------- *)

Tell(signal) == toUi' = Append(toUi, signal) /\ Len(toUi) < SignalBound

TakeConnect ==
  /\ step = "none" /\ toWorker # <<>> /\ Head(toWorker).op = "connect"
  /\ toWorker' = Tail(toWorker) /\ Begin(Head(toWorker).text)
  /\ Tell([status |-> "Connecting"])
  /\ UNCHANGED <<graph, running, window, stored, link, made, attempted>>

\* The daemon answers one of the two requests.
Answered ==
  /\ AuthReqAnswered \/ AuthPasswdAnswered
  /\ UNCHANGED <<graph, running, window, stored, queues, link, made, attempted>>

\* A new client takes the place of the old one; if the login has failed, the
\* old one stays.
LoginOver ==
  /\ Finish
  /\ IF outcome = "ok"
     THEN /\ made + 1 \in Connections /\ made' = made + 1 /\ link' = made'
          /\ Tell([status |-> "Connected"])
     ELSE Tell([status |-> "Error"]) /\ UNCHANGED <<made, link>>
  /\ UNCHANGED <<graph, running, window, stored, toWorker, attempted>>

Disconnected ==
  /\ step = "none" /\ toWorker # <<>> /\ Head(toWorker).op = "disconnect"
  /\ toWorker' = Tail(toWorker) /\ link' = 0 /\ Tell([status |-> "Disconnected"])
  /\ UNCHANGED <<secret, handshake, graph, running, window, stored, made, attempted>>

\* onRefresh: statsUpdated, or the end of the connection.
Refresh ==
  /\ step = "none" /\ link # 0
  /\ \/ Tell([stats |-> link]) /\ UNCHANGED link
     \/ Tell([status |-> "Error"]) /\ link' = 0
  /\ UNCHANGED <<secret, handshake, graph, running, window, stored, toWorker, made, attempted>>

(* ----------------------------- specification ---------------------------- *)

Init ==
  /\ HandshakeInit /\ samples = <<>> /\ saved = <<>> /\ loaded = FALSE
  /\ running = FALSE /\ passEdit = text /\ typed = text /\ remember = FALSE /\ stored = {}
  /\ toWorker = <<>> /\ toUi = <<>> /\ link = 0 /\ made = 0
  /\ attempted = FALSE

Next == \/ Edit \/ Toggle \/ ClickConnect \/ ClickDisconnect \/ UiReceives
        \/ Close \/ Killed \/ Start
        \/ TakeConnect \/ Answered \/ LoginOver \/ Disconnected \/ Refresh

Spec == Init /\ [][Next]_vars

(* ------------------------------ properties ------------------------------ *)

\* A login succeeds on the daemon's AUTH_OK and on nothing else it may say, at
\* whichever request.  From a daemon that asks with a salt, whatever salt, and
\* judges the answer, that is got exactly with its password or the digest of it,
\* typed in either case.
LoginDecided ==
  step = "done" => /\ outcome = "ok" <=> said = "AUTH_OK"
                   /\ proper => (outcome = "ok" <=> Opens(text))

\* A password the user once typed goes on to open the daemon from the settings:
\* however often its digest is loaded, shown in the field and saved again.
RememberedLogsIn == \A k \in stored : Opens(k.from) => Opens(k.md5)

\* The graph never joins samples of two connections, not even those of another
\* run of the program, whichever way connections end or fail.
OneConnection == \A i, j \in 1..Len(samples) : samples[i] = samples[j]

\* A run of the program that has read the history and never tries to connect
\* leaves it on disk as it found it.  (A run that could not read it starts with an
\* empty graph, and the save on close puts that in its place.)
UntouchedHistoryKept == [][~attempted /\ loaded => saved' = saved]_vars

=============================================================================
