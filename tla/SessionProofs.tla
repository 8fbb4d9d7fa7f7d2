---------------------------- MODULE SessionProofs --------------------------
(***************************************************************************)
(* Theorems about Session, for any passwords, salts, connections and       *)
(* bounds.                                                                 *)
(***************************************************************************)
EXTENDS Session, TLAPS

(* -------------------------------- lemmas -------------------------------- *)

LEMMA AnySaltType == AnySalt \in Salts
BY SaltsAssumption DEF AnySalt

\* A signal is a status or a sample, and shows which.
LEMMA SignalShape ==
  ASSUME NEW s \in Signal
  PROVE  \/ "status" \in DOMAIN s
            /\ s.status \in {"Disconnected", "Connecting", "Connected", "Error"}
         \/ "status" \notin DOMAIN s /\ s.stats \in Connections
BY DEF Signal

LEMMA EmptyType == ASSUME NEW S PROVE <<>> \in Seq(S) /\ Len(<<>>) <= MaxSamples
<1>1. <<>> \in Seq(S)
  OBVIOUS
<1>2. Len(<<>>) = 0
  OBVIOUS
<1> QED BY <1>1, <1>2, MaxSamplesAssumption

LEMMA CommandShape ==
  ASSUME NEW c \in Command
  PROVE  c.op = "connect" => c.text \in Text
BY DEF Command

LEMMA NormalizeType ==
  ASSUME NEW t \in Text
  PROVE  Normalize(t) \in Text
BY DEF Normalize, LooksHashed, Lower, Md5Hex, Text

\* What has been normalised once is not changed by normalising it again.
LEMMA NormalizeTwice ==
  ASSUME NEW t \in Text
  PROVE  Normalize(Normalize(t)) = Normalize(t)
BY DEF Normalize, LooksHashed, Lower, Md5Hex, Text

\* The digest that opens the daemon is that of the texts which should.
LEMMA NormalizeOpens ==
  ASSUME NEW t \in Text, secret \in Secrets
  PROVE  Normalize(t) = Md5Hex(Plain(secret)) <=> Opens(t)
BY HexAssumption DEF Normalize, LooksHashed, Lower, Md5Hex, Text, Plain, Opens

\* The latest samples are a list of the same, no longer than allowed.
LEMMA LatestType ==
  ASSUME NEW S, NEW list \in Seq(S)
  PROVE  /\ Latest(list) \in Seq(S) /\ Len(Latest(list)) <= MaxSamples
         /\ \A i \in 1..Len(Latest(list)) : \E j \in 1..Len(list) : Latest(list)[i] = list[j]
         /\ Len(list) <= MaxSamples => Latest(list) = list
<1>1. CASE Len(list) <= MaxSamples
  BY <1>1, MaxSamplesAssumption DEF Latest
<1>2. CASE Len(list) > MaxSamples
  <2>1. Latest(list) = SubSeq(list, Len(list) - MaxSamples + 1, Len(list))
    BY <1>2, MaxSamplesAssumption DEF Latest
  <2>2. Len(Latest(list)) = MaxSamples /\ Latest(list) \in Seq(S)
    BY <2>1, <1>2, MaxSamplesAssumption
  <2>3. \A i \in 1..MaxSamples : Latest(list)[i] = list[Len(list) - MaxSamples + i]
    BY <2>1, <1>2, MaxSamplesAssumption
  <2> QED BY <2>2, <2>3, <1>2, MaxSamplesAssumption
<1> QED BY <1>1, <1>2, MaxSamplesAssumption

(* ---------------------------- type correctness --------------------------- *)

LEMMA InitType == Init => TypeOK
<1> SUFFICES ASSUME Init PROVE TypeOK
  OBVIOUS
<1>1. HandshakeTypeOK
  BY AnySaltType DEF Init, HandshakeInit, HandshakeTypeOK, Text, Plain, Outcomes
<1>2. samples = <<>> /\ saved = <<>> /\ toWorker = <<>> /\ toUi = <<>>
  BY DEF Init
<1>3. /\ samples \in Seq(Connections) /\ Len(samples) <= MaxSamples
      /\ saved \in Seq(Connections) /\ Len(saved) <= MaxSamples
      /\ toWorker \in Seq(Command) /\ toUi \in Seq(Signal)
  BY <1>2, EmptyType
<1> QED BY <1>1, <1>3 DEF Init, TypeOK, HandshakeTypeOK

LEMMA ForgottenType ==
  ASSUME TypeOK, Forgotten
  PROVE  HandshakeTypeOK'
BY AnySaltType DEF Forgotten, TypeOK, HandshakeTypeOK, Text, Plain, Outcomes

\* Queueing one more signal leaves a queue of signals.
LEMMA TellType ==
  ASSUME TypeOK, NEW s \in Signal, Tell(s)
  PROVE  toUi' \in Seq(Signal)
BY DEF Tell, TypeOK

\* What the user does at the window.
LEMMA WindowType ==
  ASSUME TypeOK, Edit \/ Toggle \/ ClickConnect \/ ClickDisconnect
  PROVE  TypeOK'
<1> USE DEF TypeOK, HandshakeTypeOK, handshake, graph, window, queues
<1>1. CASE Edit
  BY <1>1 DEF Edit
<1>2. CASE Toggle
  BY <1>2 DEF Toggle
<1>3. CASE ClickConnect
  <2>1. [md5 |-> Normalize(passEdit), from |-> typed] \in [md5 : Text, from : Text]
    BY NormalizeType
  <2>2. stored' \subseteq [md5 : Text, from : Text]
    BY <1>3, <2>1 DEF ClickConnect, SaveSettings
  <2>3. [op |-> "connect", text |-> passEdit] \in Command
    BY DEF Command
  <2>4. toWorker' \in Seq(Command)
    BY <1>3, <2>3 DEF ClickConnect
  <2> QED BY <1>3, <2>2, <2>4 DEF ClickConnect
<1>4. CASE ClickDisconnect
  <2>1. [op |-> "disconnect"] \in Command
    BY DEF Command
  <2> QED BY <1>4, <2>1 DEF ClickDisconnect
<1> QED BY <1>1, <1>2, <1>3, <1>4

LEMMA UiType == ASSUME TypeOK, UiReceives PROVE TypeOK'
<1> DEFINE s == Head(toUi)
<1>1. s \in Signal /\ toUi' \in Seq(Signal)
  BY DEF UiReceives, TypeOK
<1>2. CASE "status" \in DOMAIN s
  <2>1. StatusChanged(s.status)
    BY <1>2 DEF UiReceives
  <2>2. attempted' = TRUE /\ UNCHANGED <<saved, loaded>> /\ samples' \in {samples, <<>>}
    BY <2>1 DEF StatusChanged, Clear, graph
  <2>3. samples' \in Seq(Connections) /\ Len(samples') <= MaxSamples
    BY <2>2, EmptyType DEF TypeOK
  <2> QED BY <1>1, <2>2, <2>3 DEF UiReceives, TypeOK, HandshakeTypeOK, handshake, window
<1>3. CASE "status" \notin DOMAIN s
  <2>1. s.stats \in Connections
    BY <1>1, <1>3, SignalShape
  <2>2. Append(samples, s.stats) \in Seq(Connections)
    BY <2>1 DEF TypeOK
  <2>3. samples' = Latest(Append(samples, s.stats)) /\ UNCHANGED <<saved, loaded, attempted>>
    BY <1>3 DEF UiReceives, AddSample
  <2>4. samples' \in Seq(Connections) /\ Len(samples') <= MaxSamples
    BY <2>2, <2>3, LatestType
  <2> QED BY <1>1, <2>3, <2>4 DEF UiReceives, TypeOK, HandshakeTypeOK, handshake, window
<1> QED BY <1>2, <1>3

\* The program ends and is started again.
LEMMA ProgramType == ASSUME TypeOK, Close \/ Killed \/ Start PROVE TypeOK'
<1>1. ASSUME Ends, saved' \in {samples, saved} PROVE TypeOK'
  <2>1. HandshakeTypeOK'
    BY <1>1, ForgottenType DEF Ends
  <2>2. samples' = <<>> /\ toWorker' = <<>> /\ toUi' = <<>> /\ link' = 0 /\ running' = FALSE
        /\ loaded' = FALSE /\ UNCHANGED <<passEdit, typed, remember, stored, made, attempted>>
    BY <1>1 DEF Ends, window
  <2>3. /\ samples' \in Seq(Connections) /\ Len(samples') <= MaxSamples
        /\ saved' \in Seq(Connections) /\ Len(saved') <= MaxSamples
        /\ toWorker' \in Seq(Command) /\ toUi' \in Seq(Signal)
    BY <1>1, <2>2, EmptyType DEF TypeOK
  <2> QED BY <2>1, <2>2, <2>3 DEF TypeOK
<1>2. CASE Start
  <2>1. samples' \in {Latest(saved), <<>>} /\ saved' = saved /\ loaded' \in BOOLEAN
    BY <1>2 DEF Start, Load
  <2>2. samples' \in Seq(Connections) /\ Len(samples') <= MaxSamples
    <3>1. saved \in Seq(Connections)
      BY DEF TypeOK
    <3>2. CASE samples' = Latest(saved)
      BY <3>1, <3>2, LatestType
    <3>3. CASE samples' = <<>>
      BY <3>3, EmptyType
    <3> QED BY <2>1, <3>2, <3>3
  <2>3. remember' \in BOOLEAN /\ passEdit' \in Text /\ typed' \in Text
    <3>1. CASE stored = {}
      BY <1>2, <3>1 DEF Start, LoadSettings, Plain, Text
    <3>2. CASE stored # {}
      BY <1>2, <3>2 DEF Start, LoadSettings, TypeOK
    <3>3. remember' = (stored # {})
      BY <1>2 DEF Start, LoadSettings
    <3> QED BY <3>1, <3>2, <3>3
  <2> QED BY <1>2, <2>1, <2>2, <2>3 DEF Start, TypeOK, HandshakeTypeOK, handshake, queues
<1> QED BY <1>1, <1>2 DEF Close, Killed, AfterSave

\* A reply of the daemon.
LEMMA AnswerType ==
  ASSUME TypeOK, AuthReqAnswered \/ AuthPasswdAnswered
  PROVE  HandshakeTypeOK'
<1> USE AnySaltType DEF TypeOK, HandshakeTypeOK, Done, Outcomes, Opcodes
<1>0. \A op : Verdict(op) \in Outcomes
  BY DEF Verdict
<1>1. CASE AuthReqAnswered
  BY <1>0, <1>1 DEF AuthReqAnswered, Fails
<1>2. CASE AuthPasswdAnswered
  BY <1>0, <1>2 DEF AuthPasswdAnswered, Fails
<1> QED BY <1>1, <1>2

LEMMA WorkerType ==
  ASSUME TypeOK, TakeConnect \/ Answered \/ LoginOver \/ Disconnected \/ Refresh
  PROVE  TypeOK'
<1>0. \A st \in {"Disconnected", "Connecting", "Connected", "Error"} : [status |-> st] \in Signal
  BY DEF Signal
<1>1. CASE TakeConnect
  <2>1. Head(toWorker) \in Command /\ toWorker' \in Seq(Command)
    BY <1>1 DEF TakeConnect, TypeOK
  <2>2. Head(toWorker).text \in Text
    BY <1>1, <2>1, CommandShape DEF TakeConnect
  <2>3. toUi' \in Seq(Signal)
    BY <1>0, <1>1, TellType DEF TakeConnect
  <2>4. HandshakeTypeOK'
    BY <1>1, <2>2, AnySaltType DEF TakeConnect, Begin, Fails, Done, TypeOK, HandshakeTypeOK, Outcomes
  <2> QED BY <1>1, <2>1, <2>3, <2>4 DEF TakeConnect, TypeOK, graph, window
<1>2. CASE Answered
  <2>1. HandshakeTypeOK'
    BY <1>2, AnswerType DEF Answered
  <2> QED BY <1>2, <2>1 DEF Answered, TypeOK, graph, window, queues
<1>3. CASE LoginOver
  <2>1. HandshakeTypeOK'
    BY <1>3, ForgottenType DEF LoginOver, Finish
  <2>2. toUi' \in Seq(Signal)
    BY <1>0, <1>3, TellType DEF LoginOver
  <2>3. link' \in Connections \cup {0} /\ made' \in Connections \cup {0}
    BY <1>3 DEF LoginOver, TypeOK
  <2> QED BY <1>3, <2>1, <2>2, <2>3 DEF LoginOver, TypeOK, graph, window
<1>4. CASE Disconnected
  <2>1. toUi' \in Seq(Signal)
    BY <1>0, <1>4, TellType DEF Disconnected
  <2>2. toWorker' \in Seq(Command)
    BY <1>4 DEF Disconnected, TypeOK
  <2> QED BY <1>4, <2>1, <2>2 DEF Disconnected, TypeOK, HandshakeTypeOK, handshake, graph, window
<1>5. CASE Refresh
  <2>1. link \in Connections
    BY <1>5 DEF Refresh, TypeOK
  <2>2. [stats |-> link] \in Signal
    BY <2>1 DEF Signal
  <2>3. toUi' \in Seq(Signal)
    BY <1>0, <1>5, <2>2, TellType DEF Refresh
  <2> QED BY <1>5, <2>3 DEF Refresh, TypeOK, HandshakeTypeOK, handshake, graph, window
<1> QED BY <1>1, <1>2, <1>3, <1>4, <1>5

LEMMA StutterType == ASSUME TypeOK, UNCHANGED vars PROVE TypeOK'
BY DEF TypeOK, HandshakeTypeOK, vars, handshake, graph, window, queues

LEMMA StepType == ASSUME TypeOK, [Next]_vars PROVE TypeOK'
BY WindowType, UiType, ProgramType, WorkerType, StutterType DEF Next

\* Every variable keeps its type, whatever passwords, salts and bounds there are.
THEOREM TypeCorrect == Spec => []TypeOK
<1>1. Init => TypeOK
  BY InitType
<1>2. TypeOK /\ [Next]_vars => TypeOK'
  BY StepType
<1> QED BY <1>1, <1>2, PTL DEF Spec

(* ----------------------- logging in and the password --------------------- *)

\* What is in the field or in the settings is as good as what was typed.
SettingsInv ==
  /\ Normalize(passEdit) = Normalize(typed)
  /\ \A k \in stored : k.md5 = Normalize(k.from)

LEMMA HandshakeStep == ASSUME TypeOK, LoginDecided, [Next]_vars PROVE LoginDecided'
<1>0. \A op : Verdict(op) = "ok" <=> op = "AUTH_OK"
  BY DEF Verdict
<1>1. CASE UNCHANGED <<secret, handshake>>
  BY <1>1 DEF LoginDecided, Opens, handshake
<1>2. CASE Forgotten
  BY <1>2 DEF Forgotten, LoginDecided
<1>3. CASE TakeConnect
  BY <1>3 DEF TakeConnect, Begin, Fails, Done, LoginDecided
<1>4. CASE AuthReqAnswered
  BY <1>0, <1>4 DEF AuthReqAnswered, Fails, Done, LoginDecided
<1>5. CASE AuthPasswdAnswered
  <2>1. CASE Fails
    BY <2>1 DEF Fails, Done, LoginDecided
  <2>2. CASE \E op \in Opcodes : said' = op /\ Done(Verdict(op)) /\ proper' = (op = Judgement)
    <3>1. Judgement = "AUTH_OK" <=> Opens(text)
      BY NormalizeOpens DEF Judgement, Salted, TypeOK, HandshakeTypeOK
    <3>2. Opens(text)' = Opens(text)
      BY <1>5 DEF AuthPasswdAnswered, Opens
    <3>3. /\ outcome' = "ok" <=> said' = "AUTH_OK"
          /\ proper' => (said' = "AUTH_OK" <=> Judgement = "AUTH_OK")
      BY <1>0, <2>2 DEF Done
    <3> QED BY <3>1, <3>2, <3>3 DEF LoginDecided
  <2> QED BY <1>5, <2>1, <2>2 DEF AuthPasswdAnswered
<1> QED BY <1>1, <1>2, <1>3, <1>4, <1>5
   DEF Next, vars, Edit, Toggle, ClickConnect, ClickDisconnect, UiReceives, Close, Killed, Ends,
       Start, Answered, LoginOver, Finish, Disconnected, Refresh

\* Whatever the daemon says, and whichever salt it sends, a login succeeds on its
\* AUTH_OK alone; if daemon and network do their part, exactly with the password,
\* or its digest in either case.
THEOREM LoginJustified == Spec => []LoginDecided
<1>1. Init => LoginDecided
  BY DEF Init, HandshakeInit, LoginDecided
<1>2. TypeOK /\ LoginDecided /\ [Next]_vars => LoginDecided'
  BY HandshakeStep
<1> QED BY <1>1, <1>2, TypeCorrect, PTL DEF Spec

LEMMA SettingsStep == ASSUME TypeOK, SettingsInv, [Next]_vars PROVE SettingsInv'
<1>1. CASE UNCHANGED <<passEdit, typed, stored>>
  BY <1>1 DEF SettingsInv
<1>2. CASE Edit
  BY <1>2 DEF Edit, SettingsInv
<1>3. CASE ClickConnect
  <2>1. stored' \subseteq {[md5 |-> Normalize(passEdit), from |-> typed]}
    BY <1>3 DEF ClickConnect, SaveSettings
  <2> QED BY <1>3, <2>1 DEF ClickConnect, window, SettingsInv
<1>4. CASE Start
  <2>1. stored' = stored
    BY <1>4 DEF Start
  <2>2. CASE stored = {}
    BY <1>4, <2>1, <2>2 DEF Start, LoadSettings, SettingsInv
  <2>3. CASE stored # {}
    <3>1. PICK k \in stored : passEdit' = k.md5 /\ typed' = k.from
      BY <1>4, <2>3 DEF Start, LoadSettings
    <3>2. k.md5 = Normalize(k.from) /\ k.from \in Text
      BY <3>1 DEF SettingsInv, TypeOK
    <3>3. Normalize(passEdit') = Normalize(typed')
      BY <3>1, <3>2, NormalizeTwice
    <3> QED BY <2>1, <3>3 DEF SettingsInv
  <2> QED BY <2>2, <2>3
<1> QED BY <1>1, <1>2, <1>3, <1>4
   DEF Next, vars, window, Toggle, ClickDisconnect, UiReceives, Close, Killed, Ends,
       TakeConnect, Answered, LoginOver, Disconnected, Refresh

\* However often it is shown, saved and loaded again, a remembered password
\* opens the daemon that the text first typed opens.
THEOREM PasswordKept == Spec => []RememberedLogsIn
<1>1. Init => SettingsInv
  BY DEF Init, SettingsInv
<1>2. TypeOK /\ SettingsInv /\ [Next]_vars => SettingsInv'
  BY SettingsStep
<1>3. TypeOK /\ SettingsInv => RememberedLogsIn
  <2> SUFFICES ASSUME TypeOK, SettingsInv, NEW k \in stored, Opens(k.from) PROVE Opens(k.md5)
    BY DEF RememberedLogsIn
  <2>1. k.md5 = Normalize(k.from) /\ k.from \in Text
    BY DEF SettingsInv, TypeOK
  <2> QED BY <2>1 DEF Opens, Normalize, LooksHashed, Lower, Md5Hex, Text
<1> QED BY <1>1, <1>2, <1>3, TypeCorrect, PTL DEF Spec

(* ------------------------- the speed graph's history --------------------- *)

\* A program that is not running has no worker.  While no status has changed,
\* the graph is the file or, if that could not be read, empty, and the next
\* signal, if any, is a status.
HistoryInv ==
  /\ ~running => toWorker = <<>> /\ toUi = <<>> /\ step = "none" /\ link = 0
  /\ running /\ ~attempted =>
       /\ samples = IF loaded THEN saved ELSE <<>>
       /\ IF toUi = <<>> THEN step = "none" /\ link = 0 ELSE "status" \in DOMAIN Head(toUi)

\* Telling a status, or a sample when something has been told before.
LEMMA HistoryTold ==
  ASSUME TypeOK, HistoryInv, NEW s \in Signal, Tell(s), running' = running, samples' = samples,
         UNCHANGED <<saved, loaded, attempted>>, running,
         toUi = <<>> /\ ~attempted => "status" \in DOMAIN s
  PROVE  HistoryInv'
<1>1. toUi \in Seq(Signal) /\ toUi' = Append(toUi, s)
  BY DEF Tell, TypeOK
<1>2. toUi' # <<>>
  BY <1>1
<1>3. CASE toUi = <<>>
  <2>1. Head(toUi') = s
    BY <1>1, <1>3
  <2> QED BY <1>2, <1>3, <2>1 DEF HistoryInv
<1>4. CASE toUi # <<>>
  <2>1. Head(toUi') = Head(toUi)
    BY <1>1, <1>4
  <2> QED BY <1>2, <1>4, <2>1 DEF HistoryInv
<1> QED BY <1>3, <1>4

LEMMA HistoryStep == ASSUME TypeOK, HistoryInv, [Next]_vars PROVE HistoryInv'
<1>0. \A st \in {"Disconnected", "Connecting", "Connected", "Error"} :
        [status |-> st] \in Signal /\ "status" \in DOMAIN [status |-> st]
  BY DEF Signal
<1>1. CASE UNCHANGED <<running, toUi, step, link, attempted, samples, saved, loaded>> /\ running
  BY <1>1 DEF HistoryInv
<1>2. CASE UNCHANGED vars
  BY <1>2 DEF vars, handshake, graph, queues, HistoryInv
<1>3. CASE UiReceives
  BY <1>3 DEF UiReceives, StatusChanged, HistoryInv
<1>4. CASE Close \/ Killed
  BY <1>4 DEF Close, Killed, Ends, Forgotten, HistoryInv
<1>5. CASE Start
  <2>1. samples' = (IF loaded' THEN saved ELSE <<>>) /\ saved' = saved
    BY <1>5, LatestType DEF Start, Load, TypeOK
  <2> QED BY <1>5, <2>1 DEF Start, handshake, queues, HistoryInv
<1>6. CASE Answered
  BY <1>6 DEF Answered, AuthReqAnswered, AuthPasswdAnswered, Fails, Done, queues, graph, HistoryInv
<1>7. CASE TakeConnect
  <2>1. running
    BY <1>7 DEF TakeConnect, HistoryInv
  <2> QED BY <1>0, <1>7, <2>1, HistoryTold DEF TakeConnect, graph
<1>8. CASE LoginOver
  <2>1. running
    BY <1>8 DEF LoginOver, Finish, HistoryInv
  <2> QED BY <1>0, <1>8, <2>1, HistoryTold DEF LoginOver, graph
<1>9. CASE Disconnected
  <2>1. running
    BY <1>9 DEF Disconnected, HistoryInv
  <2> QED BY <1>0, <1>9, <2>1, HistoryTold DEF Disconnected, graph
<1>10. CASE Refresh
  <2>1. running /\ ~(toUi = <<>> /\ ~attempted)
    BY <1>10 DEF Refresh, HistoryInv
  <2>2. [stats |-> link] \in Signal
    BY <1>10 DEF Refresh, TypeOK, Signal
  <2> QED BY <1>0, <1>10, <2>1, <2>2, HistoryTold DEF Refresh, graph
<1> QED BY <1>1, <1>2, <1>3, <1>4, <1>5, <1>6, <1>7, <1>8, <1>9, <1>10
   DEF Next, Edit, Toggle, ClickConnect, ClickDisconnect, graph, handshake, queues

\* A program that is started, reads the speed history and is closed again without
\* a status change leaves it as it was, however many samples are kept.
THEOREM HistoryKept == Spec => UntouchedHistoryKept
<1>1. Init => HistoryInv
  BY DEF Init, HandshakeInit, HistoryInv
<1>2. TypeOK /\ HistoryInv /\ [Next]_vars => HistoryInv'
  BY HistoryStep
<1>3. HistoryInv /\ [Next]_vars => [~attempted /\ loaded => saved' = saved]_vars
  <2> SUFFICES ASSUME HistoryInv, Next, ~attempted, loaded PROVE saved' = saved
    BY DEF vars, graph
  <2>1. CASE Close
    BY <2>1 DEF Close, Ends, AfterSave, HistoryInv
  <2> QED BY <2>1
     DEF Next, vars, graph, Edit, Toggle, ClickConnect, ClickDisconnect, UiReceives, StatusChanged,
         AddSample, Clear, Killed, Start, Load, TakeConnect, Answered, LoginOver, Disconnected, Refresh
<1> QED BY <1>1, <1>2, <1>3, TypeCorrect, PTL DEF Spec, UntouchedHistoryKept

(* ----------------------------- one connection ---------------------------- *)

Clears(s) == "status" \in DOMAIN s /\ s.status # "Connected"

\* One of these signals empties the graph.
Emptied(from, to) == \E k \in from..to : Clears(toUi[k])

Measured == {j \in 1..Len(toUi) : "status" \notin DOMAIN toUi[j]}

\* A sample of c, told before signal number from, is one of the present
\* connection, or will be emptied away before a later one is told.
Current(c, from) ==
  link # 0 \/ step # "none" => (step = "none" /\ c = link) \/ Emptied(from, Len(toUi))

\* Whatever is between the worker and the file, samples of two connections have
\* a signal between them that empties the graph.
LineInv ==
  /\ \A i, j \in 1..Len(saved) : saved[i] = saved[j]
  /\ \A i, j \in 1..Len(samples) : samples[i] = samples[j]
  /\ \A i \in 1..Len(samples), j \in Measured :
       samples[i] = toUi[j].stats \/ Emptied(1, j - 1)
  /\ \A i, j \in Measured :
       i < j => toUi[i].stats = toUi[j].stats \/ Emptied(i + 1, j - 1)
  /\ \A i \in 1..Len(samples) : Current(samples[i], 1)
  /\ \A j \in Measured : Current(toUi[j].stats, j + 1)

\* A signal queued last is behind all the others, which keep their places.
LEMMA Told ==
  ASSUME TypeOK, NEW s \in Signal, Tell(s)
  PROVE  /\ Len(toUi) \in Nat /\ Len(toUi') = Len(toUi) + 1 /\ toUi'[Len(toUi) + 1] = s
         /\ \A k \in 1..Len(toUi) : toUi'[k] = toUi[k]
         /\ \A a \in Nat \ {0}, b \in Nat : b <= Len(toUi) => Emptied(a, b)' = Emptied(a, b)
         /\ \A a \in Nat \ {0} : Emptied(a, Len(toUi)) => Emptied(a, Len(toUi))'
         /\ \A a \in 1..Len(toUi') : Clears(s) => Emptied(a, Len(toUi))'
         /\ \A j \in Measured' :
              j \in Measured \/ (j = Len(toUi) + 1 /\ "status" \notin DOMAIN s)
<1>1. toUi \in Seq(Signal) /\ toUi' = Append(toUi, s)
  BY DEF Tell, TypeOK
<1>2. /\ Len(toUi) \in Nat /\ Len(toUi') = Len(toUi) + 1 /\ toUi'[Len(toUi) + 1] = s
      /\ \A k \in 1..Len(toUi) : toUi'[k] = toUi[k]
  BY <1>1
<1>3. \A a \in Nat \ {0}, b \in Nat : b <= Len(toUi) => Emptied(a, b)' = Emptied(a, b)
  BY <1>2 DEF Emptied
<1>4. \A a \in Nat \ {0} : Emptied(a, Len(toUi)) => Emptied(a, Len(toUi))'
  BY <1>2 DEF Emptied, Clears
<1>5. \A a \in 1..Len(toUi') : Clears(s) => Emptied(a, Len(toUi))'
  BY <1>2 DEF Emptied, Clears
<1>6. \A j \in Measured' : j \in Measured \/ (j = Len(toUi) + 1 /\ "status" \notin DOMAIN s)
  BY <1>2 DEF Measured
<1> QED BY <1>2, <1>3, <1>4, <1>5, <1>6

\* A status that empties the graph, or that follows one which does.
LEMMA StatusTold ==
  ASSUME TypeOK, LineInv, NEW s \in Signal, Tell(s), "status" \in DOMAIN s,
         Clears(s) \/ step # "none", samples' = samples, saved' = saved
  PROVE  LineInv'
<1>1. \A j \in Measured' : j \in Measured /\ toUi'[j] = toUi[j] /\ j \in Nat \ {0} /\ j <= Len(toUi)
  BY Told DEF Measured
<1>2. \A a \in 1..Len(toUi') :
        (link # 0 \/ step # "none" => (step = "none") \/ Emptied(a, Len(toUi))) =>
          Emptied(a, Len(toUi))'
  BY Told
<1>3. \A i \in 1..Len(samples') : Current(samples[i], 1)'
  <2> SUFFICES ASSUME NEW i \in 1..Len(samples') PROVE Emptied(1, Len(toUi))'
    BY DEF Current
  <2>1. Current(samples[i], 1)
    BY DEF LineInv
  <2>2. 1 \in 1..Len(toUi')
    BY Told
  <2> QED BY <1>2, <2>1, <2>2 DEF Current
<1>4. \A j \in Measured' : Current(toUi[j].stats, j + 1)'
  BY <1>1, <1>2, Told DEF LineInv, Current
<1>5. \A i \in 1..Len(samples'), j \in Measured' :
        samples'[i] = toUi'[j].stats \/ Emptied(1, j - 1)'
  BY <1>1, Told DEF LineInv
<1>6. \A i, j \in Measured' :
        i < j => toUi'[i].stats = toUi'[j].stats \/ Emptied(i + 1, j - 1)'
  <2> SUFFICES ASSUME NEW i \in Measured, NEW j \in Measured, i < j, j <= Len(toUi),
                      i \in Nat \ {0}, j \in Nat \ {0}
               PROVE  toUi[i].stats = toUi[j].stats \/ Emptied(i + 1, j - 1)'
    BY <1>1
  <2>1. i + 1 \in Nat \ {0} /\ j - 1 \in Nat /\ j - 1 <= Len(toUi)
    BY Told
  <2> QED BY <2>1, Told DEF LineInv
<1> QED BY <1>1, <1>3, <1>4, <1>5, <1>6 DEF LineInv

\* A sample of the connection that is up.
LEMMA SampleTold ==
  ASSUME TypeOK, LineInv, NEW s \in Signal, Tell(s), "status" \notin DOMAIN s, s.stats = link,
         step = "none", link # 0, UNCHANGED <<samples, saved, step, link>>
  PROVE  LineInv'
<1>1. \A j \in Measured' :
        \/ j \in Measured /\ toUi'[j] = toUi[j] /\ j \in Nat \ {0} /\ j <= Len(toUi)
        \/ j = Len(toUi) + 1 /\ toUi'[j].stats = link
  BY Told DEF Measured
<1>2. \A c, a : a \in Nat \ {0} /\ Current(c, a) => c = link \/ Emptied(a, Len(toUi))
  BY DEF Current
<1>3. \A c, a : a \in Nat \ {0} /\ (c = link \/ Emptied(a, Len(toUi))) => Current(c, a)'
  BY Told DEF Current
<1>4. \A i \in 1..Len(samples') : Current(samples[i], 1)'
  BY <1>2, <1>3 DEF LineInv
<1>5. \A j \in Measured' : Current(toUi[j].stats, j + 1)'
  <2> TAKE j \in Measured'
  <2>1. CASE j \in Measured /\ toUi'[j] = toUi[j] /\ j \in Nat \ {0}
    BY <1>2, <1>3, <2>1 DEF LineInv
  <2>2. CASE j = Len(toUi) + 1 /\ toUi'[j].stats = link
    BY <1>3, <2>2, Told
  <2> QED BY <1>1, <2>1, <2>2
<1>6. \A j \in Measured' : j \in Nat \ {0} /\ j - 1 \in Nat /\ j - 1 <= Len(toUi)
  BY <1>1, Told
<1>7. \A i \in 1..Len(samples'), j \in Measured' :
        samples'[i] = toUi'[j].stats \/ Emptied(1, j - 1)'
  <2> TAKE i \in 1..Len(samples'), j \in Measured'
  <2>1. Emptied(1, j - 1)' = Emptied(1, j - 1)
    BY <1>6, Told
  <2>2. CASE j \in Measured /\ toUi'[j] = toUi[j]
    BY <2>1, <2>2 DEF LineInv
  <2>3. CASE j = Len(toUi) + 1 /\ toUi'[j].stats = link
    <3>1. samples[i] = link \/ Emptied(1, Len(toUi))
      BY <1>2 DEF LineInv
    <3>2. j - 1 = Len(toUi)
      BY <2>3, Told
    <3> QED BY <2>1, <2>3, <3>1, <3>2
  <2> QED BY <1>1, <2>2, <2>3
<1>8. \A i, j \in Measured' :
        i < j => toUi'[i].stats = toUi'[j].stats \/ Emptied(i + 1, j - 1)'
  <2> SUFFICES ASSUME NEW i \in Measured', NEW j \in Measured', i < j
               PROVE  toUi'[i].stats = toUi'[j].stats \/ Emptied(i + 1, j - 1)'
    OBVIOUS
  <2>0. i + 1 \in Nat \ {0} /\ i \in Measured /\ toUi'[i] = toUi[i]
    BY <1>1, <1>6, Told
  <2>1. Emptied(i + 1, j - 1)' = Emptied(i + 1, j - 1)
    BY <1>6, <2>0, Told
  <2>2. CASE j \in Measured /\ toUi'[j] = toUi[j]
    BY <2>0, <2>1, <2>2 DEF LineInv
  <2>3. CASE j = Len(toUi) + 1 /\ toUi'[j].stats = link
    <3>1. toUi[i].stats = link \/ Emptied(i + 1, Len(toUi))
      BY <1>2, <2>0 DEF LineInv
    <3>2. j - 1 = Len(toUi)
      BY <2>3, Told
    <3> QED BY <2>0, <2>1, <2>3, <3>1, <3>2
  <2> QED BY <1>1, <2>2, <2>3
<1> QED BY <1>4, <1>5, <1>7, <1>8 DEF LineInv

\* Taking the first signal moves the others up by one.
LEMMA Taken ==
  ASSUME TypeOK, toUi # <<>>, toUi' = Tail(toUi)
  PROVE  /\ Len(toUi) \in Nat \ {0} /\ Len(toUi') = Len(toUi) - 1 /\ Head(toUi) = toUi[1]
         /\ \A k \in 1..Len(toUi') : toUi'[k] = toUi[k + 1]
         /\ \A j \in Measured' : j \in 1..Len(toUi') /\ j + 1 \in Measured
         /\ \A a \in Nat, b \in 0..Len(toUi') : Emptied(a + 2, b + 1) => Emptied(a + 1, b)'
         /\ \A b \in 0..Len(toUi') :
              Emptied(1, b + 1) /\ ~Clears(Head(toUi)) => Emptied(1, b)'
<1>1. toUi \in Seq(Signal)
  BY DEF TypeOK
<1>2. Len(toUi) \in Nat \ {0} /\ Len(toUi') = Len(toUi) - 1 /\ Head(toUi) = toUi[1]
      /\ \A k \in 1..Len(toUi') : toUi'[k] = toUi[k + 1]
  BY <1>1
<1>3. \A j \in Measured' : j \in 1..Len(toUi') /\ j + 1 \in Measured
  BY <1>2 DEF Measured
<1>4. ASSUME NEW a \in Nat, NEW b \in 0..Len(toUi'), Emptied(a + 2, b + 1) PROVE Emptied(a + 1, b)'
  <2>1. PICK k \in (a + 2)..(b + 1) : Clears(toUi[k])
    BY <1>4 DEF Emptied
  <2>2. k - 1 \in (a + 1)..b /\ toUi'[k - 1] = toUi[k]
    BY <1>2
  <2> QED BY <2>1, <2>2 DEF Emptied, Clears
<1>5. ASSUME NEW b \in 0..Len(toUi'), Emptied(1, b + 1), ~Clears(Head(toUi)) PROVE Emptied(1, b)'
  <2>1. PICK k \in 1..(b + 1) : Clears(toUi[k])
    BY <1>5 DEF Emptied
  <2>2. k # 1 /\ k - 1 \in 1..b /\ toUi'[k - 1] = toUi[k]
    BY <1>2, <1>5, <2>1
  <2> QED BY <2>1, <2>2 DEF Emptied, Clears
<1> QED BY <1>2, <1>3, <1>4, <1>5

\* The graph takes a signal: it is emptied, kept, or joined by a sample.
LEMMA LineTaken == ASSUME TypeOK, LineInv, UiReceives PROVE LineInv'
<1> DEFINE s == Head(toUi)
<1>1. /\ toUi # <<>> /\ toUi' = Tail(toUi) /\ step' = step /\ link' = link
      /\ s \in Signal /\ s = toUi[1]
  BY DEF UiReceives, TypeOK, handshake
<1>2. saved' = saved
  BY DEF UiReceives, StatusChanged, Clear, AddSample, graph
<1>3. /\ Len(toUi) \in Nat \ {0} /\ Len(toUi') = Len(toUi) - 1
      /\ \A k \in 1..Len(toUi') : toUi'[k] = toUi[k + 1]
      /\ \A j \in Measured' : j \in 1..Len(toUi') /\ j + 1 \in Measured
  BY <1>1, Taken
<1>4. \A i, j \in Measured' :
        i < j => toUi'[i].stats = toUi'[j].stats \/ Emptied(i + 1, j - 1)'
  <2> TAKE i, j \in Measured'
  <2> HAVE i < j
  <2>1. toUi[i + 1].stats = toUi[j + 1].stats \/ Emptied(i + 2, j)
    <3>1. i + 1 \in Measured /\ j + 1 \in Measured /\ i + 1 < j + 1
      BY <1>3
    <3>2. (i + 1) + 1 = i + 2 /\ (j + 1) - 1 = j
      BY <1>3
    <3> QED BY <3>1, <3>2 DEF LineInv
  <2>2. Emptied(i + 2, j) => Emptied(i + 1, j - 1)'
    <3>1. j - 1 \in 0..Len(toUi') /\ (j - 1) + 1 = j /\ i \in Nat
      BY <1>3
    <3> QED BY <1>1, <3>1, Taken
  <2> QED BY <1>3, <2>1, <2>2
<1>5. \A j \in Measured' : Current(toUi[j].stats, j + 1)'
  <2> TAKE j \in Measured'
  <2>1. Current(toUi[j + 1].stats, j + 2)
    BY <1>3 DEF LineInv
  <2>2. Emptied(j + 2, Len(toUi)) => Emptied(j + 1, Len(toUi))'
    <3>1. Len(toUi') \in 0..Len(toUi') /\ Len(toUi') + 1 = Len(toUi) /\ j \in Nat
      BY <1>3
    <3> QED BY <1>1, <3>1, Taken
  <2> QED BY <1>1, <1>3, <2>1, <2>2 DEF Current
<1>6. CASE Clears(s)
  <2>1. samples' = <<>>
    BY <1>6 DEF UiReceives, StatusChanged, Clear, Clears
  <2> QED BY <1>2, <1>4, <1>5, <2>1 DEF LineInv
<1>7. CASE ~Clears(s)
  <2>1. ASSUME NEW c, \A j \in Measured : c = toUi[j].stats \/ Emptied(1, j - 1),
               Current(c, 1)
        PROVE  Current(c, 1)' /\ \A j \in Measured' : c = toUi'[j].stats \/ Emptied(1, j - 1)'
    <3>1. Emptied(1, Len(toUi)) => Emptied(1, Len(toUi))'
      <4>1. Len(toUi') \in 0..Len(toUi') /\ Len(toUi') + 1 = Len(toUi)
        BY <1>3
      <4> QED BY <1>1, <1>7, <4>1, Taken
    <3>2. ASSUME NEW j \in Measured' PROVE c = toUi'[j].stats \/ Emptied(1, j - 1)'
      <4>1. c = toUi[j + 1].stats \/ Emptied(1, j)
        BY <1>3, <2>1
      <4>2. j - 1 \in 0..Len(toUi') /\ (j - 1) + 1 = j
        BY <1>3
      <4> QED BY <1>1, <1>3, <1>7, <4>1, <4>2, Taken
    <3> QED BY <1>1, <2>1, <3>1, <3>2 DEF Current
  <2>2. CASE "status" \in DOMAIN s
    <3>1. samples' = samples
      BY <1>7, <2>2 DEF UiReceives, StatusChanged, Clears, graph
    <3>2. \A i \in 1..Len(samples) :
            /\ Current(samples[i], 1)'
            /\ \A j \in Measured' : samples'[i] = toUi'[j].stats \/ Emptied(1, j - 1)'
      <4> TAKE i \in 1..Len(samples)
      <4>0. PICK c : c = samples[i]
        OBVIOUS
      <4>1. Current(c, 1) /\ \A j \in Measured : c = toUi[j].stats \/ Emptied(1, j - 1)
        BY <4>0 DEF LineInv
      <4>2. Current(c, 1)' /\ \A j \in Measured' : c = toUi'[j].stats \/ Emptied(1, j - 1)'
        BY <4>1, <2>1
      <4> QED BY <3>1, <4>0, <4>2
    <3> QED BY <1>2, <1>4, <1>5, <3>1, <3>2 DEF LineInv
  <2>3. CASE "status" \notin DOMAIN s
    <3> DEFINE grown == Append(samples, s.stats)
    <3>1. s.stats \in Connections /\ grown \in Seq(Connections)
      BY <1>1, <2>3, SignalShape DEF TypeOK
    <3>2. samples' = Latest(grown)
      BY <2>3 DEF UiReceives, AddSample
    <3>3. \A i \in 1..Len(samples') : \E j \in 1..Len(grown) : samples'[i] = grown[j]
      BY <3>1, <3>2, LatestType
    <3>4. \A i \in 1..Len(samples') :
            samples'[i] = s.stats \/ \E j \in 1..Len(samples) : samples'[i] = samples[j]
      BY <3>1, <3>3 DEF TypeOK
    <3>5. 1 \in Measured
      BY <1>1, <1>3, <2>3 DEF Measured
    <3>6. \A a : ~Emptied(a, 0) \/ a \notin Nat \ {0}
      BY DEF Emptied
    <3>7. \A i \in 1..Len(samples) : samples[i] = s.stats
      BY <1>1, <3>5, <3>6 DEF LineInv
    <3>8. \A i \in 1..Len(samples') : samples'[i] = s.stats
      BY <3>4, <3>7
    <3>9. \A j \in Measured' : s.stats = toUi'[j].stats \/ Emptied(1, j - 1)'
      <4> TAKE j \in Measured'
      <4>1. s.stats = toUi[j + 1].stats \/ Emptied(2, j)
        <5>1. j + 1 \in Measured /\ 1 < j + 1 /\ (j + 1) - 1 = j /\ 1 + 1 = 2
          BY <1>3
        <5> QED BY <1>1, <3>5, <5>1 DEF LineInv
      <4>2. j - 1 \in 0..Len(toUi') /\ (j - 1) + 1 = j
        BY <1>3
      <4>3. Emptied(2, j) => Emptied(1, j - 1)'
        <5>1. Emptied(0 + 2, (j - 1) + 1) => Emptied(0 + 1, j - 1)'
          BY <1>1, <4>2, Taken
        <5>2. 0 + 2 = 2 /\ 0 + 1 = 1
          OBVIOUS
        <5> QED BY <4>2, <5>1, <5>2
      <4> QED BY <1>3, <4>1, <4>3
    <3>10. Current(s.stats, 2)
      BY <1>1, <3>5 DEF LineInv
    <3>11. \A c : Current(c, 2) => Current(c, 1)'
      <4>1. Len(toUi') \in 0..Len(toUi') /\ Len(toUi') + 1 = Len(toUi)
        BY <1>3
      <4>2. Emptied(2, Len(toUi)) => Emptied(1, Len(toUi))'
        <5>1. \A b \in 0..Len(toUi') : Emptied(0 + 2, b + 1) => Emptied(0 + 1, b)'
          BY <1>1, Taken
        <5>2. 0 + 2 = 2 /\ 0 + 1 = 1
          OBVIOUS
        <5> QED BY <4>1, <5>1, <5>2
      <4> QED BY <1>1, <4>2 DEF Current
    <3>12. \A i \in 1..Len(samples') : Current(samples[i], 1)'
      BY <3>8, <3>10, <3>11
    <3> QED BY <1>2, <1>4, <1>5, <3>8, <3>9, <3>12 DEF LineInv
  <2> QED BY <2>2, <2>3
<1> QED BY <1>6, <1>7

LEMMA LineStep == ASSUME TypeOK, HistoryInv, LineInv, [Next]_vars PROVE LineInv'
<1>0. \A st \in {"Disconnected", "Connecting", "Connected", "Error"} :
        /\ [status |-> st] \in Signal /\ "status" \in DOMAIN [status |-> st]
        /\ st # "Connected" => Clears([status |-> st])
  BY DEF Signal, Clears
<1>1. CASE UNCHANGED <<toUi, step, link, graph>>
  BY <1>1 DEF graph, LineInv, Current, Emptied, Measured
<1>2. CASE UiReceives
  BY <1>2, LineTaken
<1>3. CASE Close \/ Killed
  <2>1. samples' = <<>> /\ toUi' = <<>> /\ saved' \in {samples, saved}
    BY <1>3 DEF Close, Killed, Ends, AfterSave
  <2> QED BY <2>1 DEF LineInv, Measured
<1>4. CASE Start
  <2>1. samples' \in {saved, <<>>} /\ saved' = saved
    BY <1>4, LatestType DEF Start, Load, TypeOK
  <2>2. toUi' = <<>> /\ step' = "none" /\ link' = 0
    BY <1>4 DEF Start, handshake, queues, HistoryInv
  <2> QED BY <2>1, <2>2 DEF LineInv, Measured, Current
<1>5. CASE Answered
  <2>1. step # "none" /\ step' # "none" /\ UNCHANGED <<toUi, link, samples, saved>>
    BY <1>5 DEF Answered, AuthReqAnswered, AuthPasswdAnswered, Fails, Done, graph, queues
  <2> QED BY <2>1 DEF LineInv, Current, Emptied, Measured
<1>6. CASE TakeConnect
  BY <1>0, <1>6, StatusTold DEF TakeConnect, graph
<1>7. CASE LoginOver
  BY <1>0, <1>7, StatusTold DEF LoginOver, Finish, graph
<1>8. CASE Disconnected
  BY <1>0, <1>8, StatusTold DEF Disconnected, graph
<1>9. CASE Refresh
  <2>1. CASE Tell([stats |-> link]) /\ UNCHANGED link
    <3>1. [stats |-> link] \in Signal
      BY <1>9 DEF Refresh, TypeOK, Signal
    <3> QED BY <1>9, <2>1, <3>1, SampleTold DEF Refresh, handshake, graph
  <2>2. CASE Tell([status |-> "Error"])
    BY <1>0, <1>9, <2>2, StatusTold DEF Refresh, graph
  <2> QED BY <1>9, <2>1, <2>2 DEF Refresh
<1> QED BY <1>1, <1>2, <1>3, <1>4, <1>5, <1>6, <1>7, <1>8, <1>9
   DEF Next, vars, Edit, Toggle, ClickConnect, ClickDisconnect, handshake, queues

\* However many connections a session has, and however slow the window is in
\* taking signals, the graph shows samples of one of them only.
THEOREM OneConnectionShown == Spec => []OneConnection
<1>1. Init => HistoryInv /\ LineInv
  BY DEF Init, HandshakeInit, HistoryInv, LineInv, Measured
<1>2. TypeOK /\ HistoryInv /\ LineInv /\ [Next]_vars => HistoryInv' /\ LineInv'
  BY HistoryStep, LineStep
<1>3. LineInv => OneConnection
  BY DEF LineInv, OneConnection
<1> QED BY <1>1, <1>2, <1>3, TypeCorrect, PTL DEF Spec

=============================================================================
