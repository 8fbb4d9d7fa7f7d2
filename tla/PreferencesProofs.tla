-------------------------- MODULE PreferencesProofs -------------------------
(***************************************************************************)
(* The theorems about Preferences, for any settings, layouts, widths of    *)
(* the integers and queues.                                                *)
(*                                                                         *)
(* What the panel shows is on its way to being what the daemon has: the    *)
(* last snapshot told, shown or still queued, is the daemon's unless the   *)
(* model excuses a difference; a widget nobody touched shows the snapshot  *)
(* the panel was filled with; and an edit that was applied is overwritten  *)
(* by a snapshot that is still to come.  An Apply on its way carries, for  *)
(* every setting the user left alone, what the widget made of its base.    *)
(***************************************************************************)
EXTENDS Preferences, TLAPS

(* -------------------------------- invariant ------------------------------ *)

HasPrefs(s) == "prefs" \in DOMAIN s

\* A panel filled with `shown` will hold p once the signals have arrived.
LastTold(p, shown, signals) ==
  \/ shown = p /\ \A i \in 1..Len(signals) : ~HasPrefs(signals[i])
  \/ \E i \in 1..Len(signals) :
       /\ HasPrefs(signals[i]) /\ signals[i].prefs = p
       /\ \A j \in 1..Len(signals) : j > i => ~HasPrefs(signals[j])

ToldIsDaemons == ~excused /\ ~readBack => LastTold(daemon, current_, toUi)

UntouchedAsFilled == \A f \in Shown \ edited : widgets[f] = Displayed(f, current_[f])

\* Something is still to come that fills the panel again.
RefillDue ==
  \/ excused \/ readBack
  \/ \E i \in 1..Len(toUi) : HasPrefs(toUi[i])
  \/ \E i \in 1..Len(toWorker) : toWorker[i].op = "applyPrefs"

AppliedIsRead == edited # unapplied => RefillDue

\* What an Apply that was queued does to the settings nobody edited.
Unasked(c) ==
  c.op = "applyPrefs" =>
    \A f \in Shown \ c.edited : c.prefs[f] = Displayed(f, c.base[f]) % Modulus

AppliesUnasked == \A i \in 1..Len(toWorker) : Unasked(toWorker[i])

PanelInv == ToldIsDaemons /\ UntouchedAsFilled /\ AppliedIsRead /\ AppliesUnasked

(* -------------------------- values of the widgets ------------------------ *)

LEMMA DisplayedType ==
  ASSUME NEW f, NEW v \in 0..Modulus - 1
  PROVE  Displayed(f, v) \in -1..Modulus - 1
<1>1. AsInt(v) \in Int
  <2>1. 2 * Half \in Nat \ {0}
    BY WidthAssumption
  <2>2. \A m \in Nat \ {0} : v % m \in 0..m - 1
    BY WidthAssumption
  <2> QED BY <2>1, <2>2, WidthAssumption DEF AsInt
<1>2. \A n \in Int : Clamp(n) \in 0..Limit
  BY WidthAssumption DEF Clamp
<1>3. Limit \in Nat /\ Limit < Modulus
  BY WidthAssumption
<1>4. CASE kindOf[f] = "spin"
  BY <1>1, <1>2, <1>3, <1>4, WidthAssumption DEF Displayed
<1>5. CASE kindOf[f] = "combo"
  BY <1>3, <1>5, WidthAssumption DEF Displayed
<1>6. CASE kindOf[f] \notin {"spin", "combo"}
  BY <1>6, WidthAssumption DEF Displayed
<1> QED BY <1>4, <1>5, <1>6

\* A cast to quint64 keeps what is a quint64 already.
LEMMA CastKeeps ==
  ASSUME NEW v \in 0..Modulus - 1
  PROVE  v % Modulus = v
BY WidthAssumption

LEMMA CastType ==
  ASSUME NEW v \in Int
  PROVE  v % Modulus \in 0..Modulus - 1
BY WidthAssumption

LEMMA SamplesShown ==
  ASSUME NEW f PROVE Choices(f) \subseteq 0..Modulus - 1
BY WidthAssumption DEF Choices

LEMMA SentShown == Sent \subseteq Shown /\ Shown \subseteq Fields
BY DEF Sent, Shown

LEMMA CollectType == ASSUME TypeOK PROVE collect \in Prefs
<1>1. \A f \in Shown : widgets[f] % Modulus \in 0..Modulus - 1
  <2> TAKE f \in Shown
  <2>1. widgets[f] \in Int
    BY WidthAssumption DEF TypeOK
  <2> QED BY <2>1, CastType
<1> QED BY <1>1, SentShown DEF TypeOK, collect, Prefs

(* ---------------------------------- types -------------------------------- *)

LEMMA FilledType ==
  ASSUME NEW p \in Prefs, Filled(p)
  PROVE  /\ current_' \in Prefs /\ widgets' \in [Shown -> -1..Modulus - 1]
         /\ edited' = {} /\ unapplied' = {}
BY DisplayedType, SentShown DEF Filled, Prefs

LEMMA WrittenType ==
  ASSUME TypeOK, NEW p \in Prefs PROVE Written(p) \in Prefs
BY DEF TypeOK, Prefs, Written

LEMMA TakenType ==
  ASSUME TypeOK, NEW op, Take(op)
  PROVE  /\ ~readBack /\ toWorker # <<>> /\ toWorker' = Tail(toWorker)
         /\ toWorker' \in Seq(Command) /\ Head(toWorker) \in Command /\ Head(toWorker).op = op
         /\ Len(toWorker') = Len(toWorker) - 1 /\ Len(toWorker) \in Nat \ {0}
         /\ Head(toWorker) = toWorker[1]
         /\ \A i \in 1..Len(toWorker') : toWorker'[i] = toWorker[i + 1]
BY DEF Take, TypeOK

LEMMA ApplyCommand ==
  ASSUME NEW c \in Command, c.op = "applyPrefs"
  PROVE  c.prefs \in Prefs /\ c.base \in Prefs /\ c.edited \subseteq Shown
BY DEF Command

\* What a signal is.
LEMMA SignalShape ==
  ASSUME NEW s \in Signal
  PROVE  \/ HasPrefs(s) /\ s.prefs \in Prefs /\ "connected" \notin DOMAIN s
         \/ ~HasPrefs(s) /\ "connected" \in DOMAIN s /\ s.connected \in BOOLEAN
BY DEF Signal, HasPrefs

LEMMA SignalsMade ==
  /\ \A b \in BOOLEAN : [connected |-> b] \in Signal /\ ~HasPrefs([connected |-> b])
  /\ \A p \in Prefs : [prefs |-> p] \in Signal /\ HasPrefs([prefs |-> p]) /\ [prefs |-> p].prefs = p
BY DEF Signal, HasPrefs

\* One signal is queued behind the others.
LEMMA OneTold ==
  ASSUME TypeOK, NEW s \in Signal, Tell(<<s>>)
  PROVE  /\ toUi' \in Seq(Signal) /\ Len(toUi') = Len(toUi) + 1 /\ Len(toUi) \in Nat
         /\ toUi'[Len(toUi')] = s /\ \A i \in 1..Len(toUi) : toUi'[i] = toUi[i]
BY DEF Tell, TypeOK

LEMMA ToldType ==
  ASSUME TypeOK, Told \/ NotTold \/ Failed \/ TearDown
  PROVE  toUi' \in Seq(Signal)
<1>1. toUi \in Seq(Signal) /\ daemon \in Prefs
  BY DEF TypeOK
<1>2. Tell(<<[prefs |-> daemon]>>) => toUi' \in Seq(Signal)
  BY <1>1, OneTold, SignalsMade
<1>3. Tell(<<[connected |-> FALSE]>>) => toUi' \in Seq(Signal)
  BY OneTold, SignalsMade
<1> QED BY <1>1, <1>2, <1>3 DEF Told, NotTold, Failed, TearDown

LEMMA ConnectTells ==
  ASSUME TypeOK, Tell(<<[connected |-> FALSE], [connected |-> TRUE]>>)
  PROVE  toUi' \in Seq(Signal)
<1>1. PICK a \in Signal, b \in Signal : a = [connected |-> FALSE] /\ b = [connected |-> TRUE]
  BY SignalsMade
<1>2. <<a, b>> \in Seq(Signal) /\ toUi \in Seq(Signal)
  BY DEF TypeOK
<1> QED BY <1>1, <1>2 DEF Tell

LEMMA TypeStep == ASSUME TypeOK, [Next]_vars PROVE TypeOK'
<1> USE DEF panel
<1>0. /\ Sent' = Sent /\ Shown' = Shown /\ Command' = Command /\ Signal' = Signal
      /\ kindOf' = kindOf
  BY DEF Next, vars, Sent, Shown, Command, Signal, Prefs
<1> USE <1>0
<1>1. CASE Connect
  <2>1. toUi' \in Seq(Signal)
    <3>1. CASE Tell(<<[connected |-> FALSE]>>)
      BY <3>1, OneTold, SignalsMade
    <3> QED BY <1>1, <3>1, ConnectTells DEF Connect
  <2> QED BY <1>1, <2>1, TakenType DEF Connect, TypeOK
<1>2. CASE Disconnect
  BY <1>2, TakenType, ToldType DEF Disconnect, TearDown, TypeOK
<1>3. CASE ReadBack
  <2>1. excused' \in BOOLEAN
    BY <1>3 DEF ReadBack, Told, NotTold
  <2> QED BY <1>3, <2>1, ToldType DEF ReadBack, TypeOK
<1>4. CASE FetchPrefs
  <2>1. excused' \in BOOLEAN /\ link' \in BOOLEAN
    BY <1>4 DEF FetchPrefs, Told, Failed, TearDown, TypeOK
  <2> QED BY <1>4, <2>1, TakenType, ToldType DEF FetchPrefs, TypeOK
<1>5. CASE ApplyPrefs
  <2>1. Take("applyPrefs") /\ UNCHANGED panel
    BY <1>5 DEF ApplyPrefs
  <2>2. Written(Head(toWorker).prefs) \in Prefs
    BY <2>1, TakenType, ApplyCommand, WrittenType
  <2>3. /\ excused' \in BOOLEAN /\ link' \in BOOLEAN /\ readBack' \in BOOLEAN
        /\ toUi' \in Seq(Signal)
    BY <1>5, ToldType DEF ApplyPrefs, Failed, TearDown, TypeOK
  <2>4. daemon' \in Prefs
    BY <1>5, <2>2 DEF ApplyPrefs, TypeOK
  <2> QED BY <2>1, <2>3, <2>4, TakenType DEF TypeOK
<1>6. CASE LinkLost
  BY <1>6, ToldType DEF LinkLost, TearDown, TypeOK
<1>7. CASE DaemonChanges
  BY <1>7, WidthAssumption DEF DaemonChanges, TypeOK, Prefs
<1>8. CASE SetPrefs
  <2>1. Head(toUi) \in Signal /\ Tail(toUi) \in Seq(Signal)
    BY <1>8 DEF SetPrefs, TypeOK
  <2>2. Head(toUi).prefs \in Prefs
    BY <1>8, <2>1, SignalShape DEF SetPrefs, HasPrefs
  <2> QED BY <1>8, <2>1, <2>2, FilledType DEF SetPrefs, TypeOK
<1>9. CASE Edit
  BY <1>9, SamplesShown, WidthAssumption DEF Edit, TypeOK
<1>10. CASE Apply
  <2>1. [op |-> "applyPrefs", prefs |-> collect, base |-> current_, edited |-> edited] \in Command
    BY CollectType DEF Command, TypeOK
  <2> QED BY <1>10, <2>1 DEF Apply, Queue, TypeOK
<1>11. CASE Ask
  <2>1. \A op \in {"fetchPrefs", "connect", "disconnect"} : [op |-> op] \in Command
    BY DEF Command
  <2> QED BY <1>11, <2>1 DEF Ask, Queue, TypeOK
<1>12. CASE StatusChanged
  <2>1. Head(toUi) \in Signal /\ Tail(toUi) \in Seq(Signal)
    BY <1>12 DEF StatusChanged, TypeOK
  <2>2. Head(toUi).connected \in BOOLEAN
    BY <1>12, <2>1, SignalShape DEF StatusChanged
  <2> QED BY <1>12, <2>1, <2>2 DEF StatusChanged, TypeOK
<1>13. CASE UNCHANGED vars
  BY <1>13 DEF vars, TypeOK
<1> QED BY <1>1, <1>2, <1>3, <1>4, <1>5, <1>6, <1>7, <1>8, <1>9, <1>10, <1>11, <1>12, <1>13
   DEF Next

(* ----------------------------- the invariant ----------------------------- *)

\* A step that fills the panel leaves it as filled.
LEMMA FilledInv ==
  ASSUME TypeOK, TypeOK', kindOf' = kindOf, NEW p \in Prefs, Filled(p)
  PROVE  current_' = p /\ edited' = unapplied' /\ UntouchedAsFilled'
<1>1. Shown' = Shown
  BY DEF Shown
<1>2. current_' = p /\ edited' = {} /\ unapplied' = {}
      /\ widgets' = [f \in Shown |-> Displayed(f, p[f])]
  BY DEF Filled
<1>3. \A f \in Shown : widgets'[f] = Displayed(f, p[f])
  BY <1>2
<1> QED BY <1>1, <1>2, <1>3 DEF UntouchedAsFilled, Displayed

LEMMA UntouchedStep ==
  ASSUME TypeOK, TypeOK', UntouchedAsFilled, [Next]_vars
  PROVE  UntouchedAsFilled'
<1>0. kindOf' = kindOf /\ Shown' = Shown
  BY DEF Next, vars, Shown
<1>1. CASE SetPrefs
  <2>1. Head(toUi) \in Signal
    BY <1>1 DEF SetPrefs, TypeOK
  <2>2. Head(toUi).prefs \in Prefs /\ Filled(Head(toUi).prefs)
    BY <1>1, <2>1, SignalShape DEF SetPrefs, HasPrefs
  <2> QED BY <1>0, <2>2, FilledInv
<1>2. CASE Edit
  <2>1. PICK g \in Shown : \E v \in Choices(g) : /\ widgets' = [widgets EXCEPT ![g] = v]
                                                 /\ edited' = edited \cup {g}
    BY <1>2 DEF Edit
  <2>2. current_' = current_
    BY <1>2 DEF Edit
  <2>3. \A f \in Shown' \ edited' : f \in Shown \ edited /\ widgets'[f] = widgets[f]
    BY <1>0, <2>1 DEF TypeOK
  <2> QED BY <1>0, <2>2, <2>3 DEF UntouchedAsFilled, Displayed
<1>3. CASE UNCHANGED <<current_, widgets, edited>>
  BY <1>0, <1>3 DEF UntouchedAsFilled, Displayed
<1> QED BY <1>1, <1>2, <1>3
  DEF Next, vars, panel, Connect, Disconnect, ReadBack, FetchPrefs, ApplyPrefs, LinkLost,
      DaemonChanges, StatusChanged, Apply, Ask, Queue

\* What LastTold is after signals were queued, and after one was taken.
LEMMA PrefsQueued ==
  ASSUME TypeOK, Told
  PROVE  /\ \E i \in 1..Len(toUi') : HasPrefs(toUi'[i])
         /\ \E i \in 1..Len(toUi') :
              /\ HasPrefs(toUi'[i]) /\ toUi'[i].prefs = daemon
              /\ \A j \in 1..Len(toUi') : j > i => ~HasPrefs(toUi'[j])
<1>1. PICK s \in Signal : s = [prefs |-> daemon] /\ HasPrefs(s) /\ s.prefs = daemon
  BY SignalsMade DEF TypeOK
<1>2. Len(toUi') \in 1..Len(toUi') /\ toUi'[Len(toUi')] = s
  BY <1>1, OneTold DEF Told
<1>3. \A j \in 1..Len(toUi') : ~(j > Len(toUi'))
  BY <1>2
<1> QED BY <1>1, <1>2, <1>3

\* A status is queued behind what was queued.
LEMMA StatusQueued ==
  ASSUME TypeOK, Tell(<<[connected |-> FALSE]>>)
  PROVE  /\ Len(toUi) \in Nat /\ Len(toUi') = Len(toUi) + 1
         /\ \A i \in 1..Len(toUi) : toUi'[i] = toUi[i]
         /\ ~HasPrefs(toUi'[Len(toUi) + 1])
<1>1. PICK s \in Signal : s = [connected |-> FALSE] /\ ~HasPrefs(s)
  BY SignalsMade
<1> QED BY <1>1, OneTold

LEMMA StatusKeepsLast ==
  ASSUME TypeOK, NEW p, LastTold(p, current_, toUi), Tell(<<[connected |-> FALSE]>>)
  PROVE  LastTold(p, current_, toUi')
<1>0. \A j \in 1..Len(toUi') : j \in 1..Len(toUi) \/ j = Len(toUi) + 1
  BY StatusQueued
<1>1. CASE current_ = p /\ \A i \in 1..Len(toUi) : ~HasPrefs(toUi[i])
  <2>1. \A i \in 1..Len(toUi') : ~HasPrefs(toUi'[i])
    BY <1>0, <1>1, StatusQueued
  <2> QED BY <1>1, <2>1 DEF LastTold
<1>2. ASSUME NEW i \in 1..Len(toUi), HasPrefs(toUi[i]), toUi[i].prefs = p,
             \A j \in 1..Len(toUi) : j > i => ~HasPrefs(toUi[j])
      PROVE  LastTold(p, current_, toUi')
  <2>1. i \in 1..Len(toUi') /\ HasPrefs(toUi'[i]) /\ toUi'[i].prefs = p
    BY <1>2, StatusQueued
  <2>2. \A j \in 1..Len(toUi') : j > i => ~HasPrefs(toUi'[j])
    BY <1>0, <1>2, StatusQueued
  <2> QED BY <2>1, <2>2 DEF LastTold
<1> QED BY <1>1, <1>2 DEF LastTold

\* The signal in front is taken.
LEMMA SignalTaken ==
  ASSUME TypeOK, toUi # <<>>, toUi' = Tail(toUi)
  PROVE  /\ Head(toUi) = toUi[1] /\ Len(toUi) \in Nat \ {0} /\ Len(toUi') = Len(toUi) - 1
         /\ \A i \in 1..Len(toUi') : i + 1 \in 1..Len(toUi) /\ toUi'[i] = toUi[i + 1]
         /\ \A i \in 1..Len(toUi) : i # 1 => i - 1 \in 1..Len(toUi') /\ toUi'[i - 1] = toUi[i]
<1>1. /\ toUi \in Seq(Signal) /\ Head(toUi) = toUi[1] /\ Len(toUi) \in Nat \ {0}
      /\ Len(toUi') = Len(toUi) - 1
  BY DEF TypeOK
<1>2. \A i \in 1..Len(toUi') : i + 1 \in 1..Len(toUi) /\ toUi'[i] = toUi[i + 1]
  BY <1>1
<1>3. \A i \in 1..Len(toUi) : i # 1 => i - 1 \in 1..Len(toUi') /\ (i - 1) + 1 = i
  BY <1>1
<1> QED BY <1>1, <1>2, <1>3

LEMMA TakenKeepsLast ==
  ASSUME TypeOK, NEW p, LastTold(p, current_, toUi), toUi # <<>>, toUi' = Tail(toUi),
         IF HasPrefs(Head(toUi)) THEN current_' = Head(toUi).prefs ELSE current_' = current_
  PROVE  LastTold(p, current_', toUi')
<1>1. CASE current_ = p /\ \A i \in 1..Len(toUi) : ~HasPrefs(toUi[i])
  <2>1. 1 \in 1..Len(toUi) /\ ~HasPrefs(Head(toUi))
    BY <1>1, SignalTaken
  <2>2. \A i \in 1..Len(toUi') : ~HasPrefs(toUi'[i])
    BY <1>1, SignalTaken
  <2> QED BY <1>1, <2>1, <2>2 DEF LastTold
<1>2. ASSUME NEW i \in 1..Len(toUi), HasPrefs(toUi[i]), toUi[i].prefs = p,
             \A j \in 1..Len(toUi) : j > i => ~HasPrefs(toUi[j])
      PROVE  LastTold(p, current_', toUi')
  <2>1. CASE i = 1
    <3>1. current_' = p
      BY <1>2, <2>1, SignalTaken
    <3>2. \A j \in 1..Len(toUi') : j + 1 > i /\ ~HasPrefs(toUi'[j])
      BY <1>2, <2>1, SignalTaken
    <3> QED BY <3>1, <3>2 DEF LastTold
  <2>2. CASE i # 1
    <3>1. i - 1 \in 1..Len(toUi') /\ HasPrefs(toUi'[i - 1]) /\ toUi'[i - 1].prefs = p
      BY <1>2, <2>2, SignalTaken
    <3>2. \A j \in 1..Len(toUi') : j > i - 1 => j + 1 > i
      BY <1>2, SignalTaken
    <3>3. \A j \in 1..Len(toUi') : j > i - 1 => ~HasPrefs(toUi'[j])
      BY <1>2, <3>2, SignalTaken
    <3> QED BY <3>1, <3>3 DEF LastTold
  <2> QED BY <2>1, <2>2
<1> QED BY <1>1, <1>2 DEF LastTold

LEMMA ToldStep ==
  ASSUME TypeOK, ToldIsDaemons, [Next]_vars
  PROVE  ToldIsDaemons'
<1>1. CASE SetPrefs \/ StatusChanged
  <2>0. /\ toUi # <<>> /\ toUi' = Tail(toUi) /\ UNCHANGED <<daemon, excused, readBack>>
        /\ IF HasPrefs(Head(toUi)) THEN current_' = Head(toUi).prefs ELSE current_' = current_
    <3>1. toUi # <<>> /\ Head(toUi) \in Signal
      BY <1>1 DEF SetPrefs, StatusChanged, TypeOK
    <3> QED BY <1>1, <3>1, SignalShape DEF SetPrefs, StatusChanged, Filled, HasPrefs
  <2> SUFFICES ASSUME ~excused, ~readBack PROVE LastTold(daemon, current_', toUi')
    BY <2>0 DEF ToldIsDaemons
  <2> QED BY <2>0, TakenKeepsLast DEF ToldIsDaemons
<1>2. CASE Told /\ UNCHANGED daemon
  BY <1>2, PrefsQueued DEF ToldIsDaemons, LastTold
<1>3. CASE excused' = TRUE \/ readBack' = TRUE
  BY <1>3 DEF ToldIsDaemons
<1>4. CASE UNCHANGED <<toUi, current_, daemon, excused, readBack>>
  BY <1>4 DEF ToldIsDaemons, LastTold
<1>5. CASE TearDown /\ UNCHANGED <<current_, daemon, excused, readBack>>
  BY <1>5, StatusKeepsLast DEF ToldIsDaemons, TearDown
<1> QED BY <1>1, <1>2, <1>3, <1>4, <1>5
  DEF Next, vars, panel, Connect, Disconnect, ReadBack, FetchPrefs, ApplyPrefs, LinkLost,
      DaemonChanges, Edit, Apply, Ask, Queue, NotTold, Failed

\* Commands are queued at the end and leave at the head.
LEMMA QueueKept ==
  ASSUME TypeOK, NEW c, Queue(c)
  PROVE  /\ Len(toWorker') = Len(toWorker) + 1 /\ toWorker'[Len(toWorker) + 1] = c
         /\ \A i \in 1..Len(toWorker) : toWorker'[i] = toWorker[i]
BY DEF Queue, TypeOK

LEMMA TakenKeepsApply ==
  ASSUME TypeOK, NEW op, Take(op), op # "applyPrefs",
         \E i \in 1..Len(toWorker) : toWorker[i].op = "applyPrefs"
  PROVE  \E i \in 1..Len(toWorker') : toWorker'[i].op = "applyPrefs"
<1>1. PICK i \in 1..Len(toWorker) : toWorker[i].op = "applyPrefs"
  OBVIOUS
<1>2. i # 1 /\ i - 1 \in 1..Len(toWorker') /\ toWorker'[i - 1] = toWorker[(i - 1) + 1]
  BY <1>1, TakenType
<1> QED BY <1>1, <1>2

PrefsQueuedForUi == \E i \in 1..Len(toUi) : HasPrefs(toUi[i])

LEMMA StatusKeepsPrefs ==
  ASSUME TypeOK, PrefsQueuedForUi, Tell(<<[connected |-> FALSE]>>)
  PROVE  PrefsQueuedForUi'
<1>1. PICK i \in 1..Len(toUi) : HasPrefs(toUi[i])
  BY DEF PrefsQueuedForUi
<1>2. i \in 1..Len(toUi') /\ toUi'[i] = toUi[i]
  BY <1>1, StatusQueued
<1> QED BY <1>1, <1>2 DEF PrefsQueuedForUi

LEMMA TakenKeepsPrefs ==
  ASSUME TypeOK, PrefsQueuedForUi, StatusChanged
  PROVE  PrefsQueuedForUi'
<1>0. toUi # <<>> /\ toUi' = Tail(toUi) /\ Head(toUi) \in Signal
  BY DEF StatusChanged, TypeOK
<1>1. ~HasPrefs(Head(toUi))
  BY <1>0, SignalShape DEF StatusChanged
<1>2. PICK i \in 1..Len(toUi) : HasPrefs(toUi[i])
  BY DEF PrefsQueuedForUi
<1>3. i # 1
  BY <1>0, <1>1, <1>2, SignalTaken
<1>4. i - 1 \in 1..Len(toUi') /\ toUi'[i - 1] = toUi[i]
  BY <1>0, <1>3, SignalTaken
<1> QED BY <1>2, <1>4 DEF PrefsQueuedForUi

LEMMA RefillStep ==
  ASSUME TypeOK, AppliedIsRead, [Next]_vars
  PROVE  AppliedIsRead'
<1> DEFINE InQueue == \E i \in 1..Len(toWorker) : toWorker[i].op = "applyPrefs"
<1>0. AppliedIsRead' <=> (edited' # unapplied' => excused' \/ readBack' \/ PrefsQueuedForUi' \/ InQueue')
  BY DEF AppliedIsRead, RefillDue, PrefsQueuedForUi
<1>1. AppliedIsRead <=> (edited # unapplied => excused \/ readBack \/ PrefsQueuedForUi \/ InQueue)
  BY DEF AppliedIsRead, RefillDue, PrefsQueuedForUi
<1>2. CASE SetPrefs
  BY <1>0, <1>2 DEF SetPrefs, Filled
<1>3. CASE Told
  BY <1>0, <1>3, PrefsQueued DEF PrefsQueuedForUi
<1>4. CASE excused' = TRUE \/ readBack' = TRUE
  BY <1>0, <1>4
<1>5. CASE Disconnect
  <2>1. InQueue => InQueue'
    BY <1>5, TakenKeepsApply DEF Disconnect
  <2>2. UNCHANGED <<readBack, panel, excused>> /\ Tell(<<[connected |-> FALSE]>>)
    BY <1>5 DEF Disconnect, TearDown
  <2>3. PrefsQueuedForUi => PrefsQueuedForUi'
    BY <2>2, StatusKeepsPrefs
  <2> QED BY <1>0, <1>1, <2>1, <2>2, <2>3 DEF panel
<1>6. CASE LinkLost
  <2>1. UNCHANGED <<readBack, toWorker, panel, excused>> /\ Tell(<<[connected |-> FALSE]>>)
    BY <1>6 DEF LinkLost, TearDown
  <2>2. PrefsQueuedForUi => PrefsQueuedForUi'
    BY <2>1, StatusKeepsPrefs
  <2> QED BY <1>0, <1>1, <2>1, <2>2 DEF panel
<1>7. CASE StatusChanged
  <2>1. UNCHANGED <<readBack, toWorker, excused, edited, unapplied>>
    BY <1>7 DEF StatusChanged
  <2>2. PrefsQueuedForUi => PrefsQueuedForUi'
    BY <1>7, TakenKeepsPrefs
  <2> QED BY <1>0, <1>1, <2>1, <2>2
<1>8. CASE Edit
  <2>1. UNCHANGED <<readBack, toUi, toWorker, excused>>
    BY <1>8 DEF Edit
  <2>2. edited' # unapplied' => edited # unapplied
    BY <1>8 DEF Edit
  <2> QED BY <1>0, <1>1, <2>1, <2>2 DEF PrefsQueuedForUi
<1>9. CASE Apply
  <2>1. Queue([op |-> "applyPrefs", prefs |-> collect, base |-> current_, edited |-> edited])
    BY <1>9 DEF Apply
  <2>2. Len(toWorker) + 1 \in 1..Len(toWorker') /\ toWorker'[Len(toWorker) + 1].op = "applyPrefs"
    BY <2>1, QueueKept DEF TypeOK
  <2> QED BY <1>0, <2>2
<1>10. CASE Ask
  <2>1. PICK op \in {"fetchPrefs", "connect", "disconnect"} : Queue([op |-> op]) /\ UNCHANGED unapplied
    BY <1>10 DEF Ask
  <2>2. InQueue => InQueue'
    <3>1. \A i \in 1..Len(toWorker) : i \in 1..Len(toWorker') /\ toWorker'[i] = toWorker[i]
      BY <2>1, QueueKept DEF TypeOK
    <3> QED BY <3>1
  <2>3. UNCHANGED <<readBack, toUi, excused, edited>>
    BY <2>1 DEF Queue
  <2> QED BY <1>0, <1>1, <2>1, <2>2, <2>3 DEF PrefsQueuedForUi
<1>11. CASE UNCHANGED <<readBack, toWorker, toUi, panel, excused>>
  <2> QED BY <1>0, <1>1, <1>11 DEF panel, PrefsQueuedForUi
<1> QED BY <1>2, <1>3, <1>4, <1>5, <1>6, <1>7, <1>8, <1>9, <1>10, <1>11
  DEF Next, vars, panel, Connect, ReadBack, FetchPrefs, ApplyPrefs, DaemonChanges, NotTold, Failed

LEMMA UnaskedStep ==
  ASSUME TypeOK, UntouchedAsFilled, AppliesUnasked, [Next]_vars
  PROVE  AppliesUnasked'
<1>0. kindOf' = kindOf
  BY DEF Next, vars
<1>2. ASSUME NEW op, Take(op) PROVE AppliesUnasked'
  <2>1. \A i \in 1..Len(toWorker') : i + 1 \in 1..Len(toWorker) /\ toWorker'[i] = toWorker[i + 1]
    BY <1>2, TakenType
  <2>2. \A i \in 1..Len(toWorker') : Unasked(toWorker'[i])
    BY <2>1 DEF AppliesUnasked
  <2> QED BY <1>0, <2>2 DEF AppliesUnasked, Unasked, Shown, Displayed
<1>3. ASSUME NEW c, Queue(c), Unasked(c) PROVE AppliesUnasked'
  <2>1. \A i \in 1..Len(toWorker') : i = Len(toWorker) + 1 \/ i \in 1..Len(toWorker)
    BY <1>3, QueueKept DEF TypeOK
  <2>2. \A i \in 1..Len(toWorker') :
          toWorker'[i] = c \/ (i \in 1..Len(toWorker) /\ toWorker'[i] = toWorker[i])
    BY <1>3, <2>1, QueueKept
  <2>3. \A i \in 1..Len(toWorker') : Unasked(toWorker'[i])
    BY <1>3, <2>2 DEF AppliesUnasked
  <2> QED BY <1>0, <2>3 DEF AppliesUnasked, Unasked, Shown, Displayed
<1>4. CASE Apply
  <2> DEFINE c == [op |-> "applyPrefs", prefs |-> collect, base |-> current_, edited |-> edited]
  <2>1. \A f \in Shown \ edited : collect[f] = Displayed(f, current_[f]) % Modulus
    BY SentShown DEF UntouchedAsFilled, collect
  <2>2. Unasked(c)
    BY <2>1 DEF Unasked
  <2> QED BY <1>4, <1>3, <2>2 DEF Apply
<1>5. CASE Ask
  <2>1. \A op \in {"fetchPrefs", "connect", "disconnect"} : Unasked([op |-> op])
    BY DEF Unasked
  <2> QED BY <1>5, <1>3, <2>1 DEF Ask
<1>6. CASE UNCHANGED toWorker
  BY <1>0, <1>6 DEF AppliesUnasked, Unasked, Shown, Displayed
<1> QED BY <1>2, <1>4, <1>5, <1>6
  DEF Next, vars, Connect, Disconnect, ReadBack, FetchPrefs, ApplyPrefs, LinkLost,
      DaemonChanges, SetPrefs, StatusChanged, Edit

(* -------------------------------- theorems ------------------------------- *)

LEMMA InitPanel == Init => TypeOK /\ PanelInv
<1> SUFFICES ASSUME Init PROVE TypeOK /\ PanelInv
  OBVIOUS
<1> USE DEF Init
<1>1. 0 \in 0..Modulus - 1 /\ 0 % (2 * Half) = 0 /\ 0 < Half /\ 0 \in 0..Limit
  BY WidthAssumption
<1>2. AsInt(0) = 0 /\ Clamp(0) = 0
  BY <1>1, WidthAssumption DEF AsInt, Clamp
<1>3. \A f : Displayed(f, 0) = 0
  BY <1>1, <1>2 DEF Displayed
<1>4. daemon \in Prefs /\ current_ \in Prefs
  BY <1>1, WidthAssumption DEF Prefs
<1>5. TypeOK
  <2>1. 0 \in -1..Modulus - 1
    BY <1>1
  <2>2. toWorker \in Seq(Command) /\ toUi \in Seq(Signal)
    OBVIOUS
  <2> QED BY <1>4, <2>1, <2>2 DEF TypeOK
<1>6. UntouchedAsFilled
  BY <1>3, SentShown DEF UntouchedAsFilled
<1> QED BY <1>5, <1>6 DEF PanelInv, ToldIsDaemons, AppliedIsRead, AppliesUnasked

\* Every variable keeps its type.
THEOREM TypeCorrect == Spec => []TypeOK
<1>1. TypeOK /\ [Next]_vars => TypeOK'
  BY TypeStep
<1> QED BY <1>1, InitPanel, PTL DEF Spec

LEMMA PanelKept == Spec => [](TypeOK /\ PanelInv)
<1>1. TypeOK /\ PanelInv /\ [Next]_vars => TypeOK' /\ PanelInv'
  BY TypeStep, UntouchedStep, ToldStep, RefillStep, UnaskedStep DEF PanelInv
<1> QED BY <1>1, InitPanel, PTL DEF Spec

\* Once all that is queued has been served, the panel shows what the daemon has,
\* whatever was edited, applied, refused and lost on the way.
THEOREM PanelTrue == Spec => []PanelAgrees
<1>1. TypeOK /\ PanelInv => PanelAgrees
  <2> SUFFICES ASSUME TypeOK, PanelInv, ~excused, ~readBack, toWorker = <<>>, toUi = <<>>
               PROVE  \A f \in Shown \ unapplied : widgets[f] = Displayed(f, daemon[f])
    BY DEF PanelAgrees
  <2>1. current_ = daemon
    BY DEF PanelInv, ToldIsDaemons, LastTold
  <2>2. edited = unapplied
    BY DEF PanelInv, AppliedIsRead, RefillDue
  <2> QED BY <2>1, <2>2 DEF PanelInv, UntouchedAsFilled
<1> QED BY <1>1, PanelKept, PTL

\* What Apply makes of a setting nobody edited is what the widget made of the
\* value that the panel was filled with, and nothing else.
THEOREM NothingUnasked == Spec => NoUnaskedChange
<1> DEFINE Asked == \A f \in Fields :
       /\ Take("applyPrefs") /\ daemon'[f] # daemon[f]
       /\ f \notin Head(toWorker).edited
       => daemon'[f] = Displayed(f, Head(toWorker).base[f]) % Modulus
<1>1. TypeOK /\ PanelInv /\ [Next]_vars => Asked
  <2> SUFFICES ASSUME TypeOK, PanelInv, [Next]_vars, NEW f \in Fields, Take("applyPrefs"),
                      daemon'[f] # daemon[f], f \notin Head(toWorker).edited
               PROVE  daemon'[f] = Displayed(f, Head(toWorker).base[f]) % Modulus
    OBVIOUS
  <2> DEFINE c == Head(toWorker)
  <2>1. c \in Command /\ c.op = "applyPrefs" /\ Unasked(c)
    BY TakenType DEF PanelInv, AppliesUnasked
  <2>2. toWorker' # toWorker /\ ~readBack
    BY TakenType
  <2>3. ApplyPrefs
    <3>1. \A op : Take(op) => op = "applyPrefs"
      BY DEF Take
    <3>2. \A d : ~Queue(d)
      BY TakenType, QueueKept DEF TypeOK
    <3>3. ~Apply /\ ~Ask
      BY <3>2 DEF Apply, Ask
    <3> QED BY <2>2, <3>1, <3>3
      DEF Next, vars, Connect, Disconnect, ReadBack, FetchPrefs, LinkLost, DaemonChanges,
          SetPrefs, StatusChanged, Edit
  <2>4. daemon' = Written(c.prefs)
    BY <2>3 DEF ApplyPrefs
  <2>5. f \in Sent /\ daemon'[f] = c.prefs[f]
    BY <2>4 DEF Written
  <2> QED BY <2>1, <2>5, SentShown DEF Unasked
<1>2. Spec => [][Asked]_vars
  <2> HIDE DEF Asked
  <2> QED BY <1>1, PanelKept, PTL DEF Spec
<1> QED BY <1>2 DEF NoUnaskedChange

=============================================================================
