----------------------------- MODULE Preferences ----------------------------
(***************************************************************************)
(* The Preferences tab and the daemon's settings.  fetchPrefs reads all of *)
(* them, the panel shows them in widgets, Apply collects the widgets and   *)
(* setPrefs writes everything back at once, whoever changed what in the    *)
(* meantime; the daemon's view is then read again and replaces the panel's.*)
(*                                                                         *)
(* A setting is a quint64 of `Modulus` values.  What matters of it is what *)
(* its widget makes of it and whether setPrefs carries it (kindOf, which   *)
(* never changes).  Settings do not influence each other, so a few of them *)
(* in every layout stand for all.  The worker is reduced to what the panel *)
(* depends on; EcWorker has all of it.                                     *)
(***************************************************************************)
EXTENDS Integers, Sequences

CONSTANTS Fields,        \* members of DaemonPrefs
          Layouts,       \* what may become of each of them (see Kinds)
          Modulus,       \* values of a quint64
          Half,          \* an int is -Half .. Half-1
          Limit,         \* maximum of a spin box; last item of the combo box
          Samples,       \* values settings are given by anyone
          CommandBound,  \* bound: slots queued for the worker
          SignalBound    \* bound: signals queued for the UI

\* Check boxes and line edits show any value; a spin box clamps it; the combo
\* box of canSeeShares has an item for some.  The line capacities and the server
\* list URL have widgets but setPrefs leaves them out; obfuscationSupported has
\* no widget either.
Kinds == {"exact", "spin", "combo", "unsent", "fixed"}

ASSUME LayoutAssumption == Layouts \subseteq [Fields -> Kinds]
ASSUME WidthAssumption ==
  /\ Half \in Nat /\ Limit \in 0..Half - 1 /\ Modulus \in Nat /\ Modulus >= 2 * Half
  /\ Samples \subseteq 0..Modulus - 1
ASSUME PreferenceBounds == CommandBound \in Nat /\ SignalBound \in Nat

VARIABLES
  kindOf,     \* the layout
  daemon,     \* the settings of the daemon
  link,       \* the worker has a client
  readBack,   \* the running slot still has a fetchPrefs to make
  toWorker,   \* slots queued on the worker's event loop
  toUi,       \* prefsUpdated and statusChanged signals queued for the UI thread
  enabled,    \* the panel is enabled: the last status shown is Connected
  current_,
  widgets,    \* what the widgets hold
  edited,     \* history: widgets the user changed since the panel was filled
  unapplied,  \* history: those changed since Apply as well
  excused     \* history: the daemon changed, or a call failed, since the last read

panel == <<enabled, current_, widgets, edited, unapplied>>
vars == <<kindOf, daemon, link, readBack, toWorker, toUi, panel, excused>>

Shown == {f \in Fields : kindOf[f] # "fixed"}
Sent == {f \in Fields : kindOf[f] \in {"exact", "spin", "combo"}}
Prefs == [Fields -> 0..Modulus - 1]

Command == [op : {"connect", "disconnect", "fetchPrefs"}]
             \cup [op : {"applyPrefs"}, prefs : Prefs, base : Prefs, edited : SUBSET Shown]
Signal == [prefs : Prefs] \cup [connected : BOOLEAN]

TypeOK ==
  /\ kindOf \in Layouts /\ daemon \in Prefs /\ link \in BOOLEAN /\ readBack \in BOOLEAN
  /\ toWorker \in Seq(Command) /\ toUi \in Seq(Signal) /\ enabled \in BOOLEAN
  /\ current_ \in Prefs /\ widgets \in [Shown -> -1..Modulus - 1]
  /\ unapplied \subseteq edited /\ edited \subseteq Shown /\ excused \in BOOLEAN

(* -------------------------------- the panel ----------------------------- *)

\* static_cast<int> of a quint64.
AsInt(v) == LET low == v % (2 * Half) IN IF low < Half THEN low ELSE low - 2 * Half

Clamp(n) == IF n < 0 THEN 0 ELSE IF n > Limit THEN Limit ELSE n

\* What setPrefs of the panel makes a widget hold.
Displayed(f, v) ==
  CASE kindOf[f] = "spin"  -> Clamp(AsInt(v))
    [] kindOf[f] = "combo" -> IF AsInt(v) \in 0..Limit THEN AsInt(v) ELSE -1
    [] OTHER               -> v

\* What the user can make it hold.
Choices(f) ==
  IF kindOf[f] \in {"spin", "combo"} THEN Samples \cap 0..Limit ELSE Samples

\* Seeded fault: widgets start from scratch for every Apply.
collectUnfilled == [f \in Fields |-> IF f \in edited THEN widgets[f] % Modulus ELSE 0]

\* collect(): the cast of a negative number to quint64 wraps around.
collect == [f \in Fields |-> IF f \in Shown THEN widgets[f] % Modulus ELSE current_[f]]

Filled(p) ==
  /\ current_' = p /\ widgets' = [f \in Shown |-> Displayed(f, p[f])]
  /\ edited' = {} /\ unapplied' = {}

(* -------------------------------- worker -------------------------------- *)

Take(op) ==
  /\ ~readBack /\ toWorker # <<>> /\ Head(toWorker).op = op /\ toWorker' = Tail(toWorker)

Tell(signals) == toUi' = toUi \o signals /\ Len(toUi') <= SignalBound

\* A fetchPrefs that is answered, and one that is not.
Told == Tell(<<[prefs |-> daemon]>>) /\ excused' = FALSE
NotTold == excused' = TRUE /\ UNCHANGED toUi

\* teardown, with a link or without.
TearDown == link' = FALSE /\ Tell(<<[connected |-> FALSE]>>)

\* A request that gets no answer, or cannot be made; a transport error ends the link.
Failed ==
  /\ excused' = TRUE
  /\ (UNCHANGED <<link, toUi>>) \/ (link /\ TearDown)

\* Connecting, then Connected; or Connecting and Error (over a link that may still
\* be there), one signal here for two that disable the panel.
Connect ==
  /\ Take("connect") /\ excused' = TRUE
  /\ \/ /\ link' = TRUE /\ readBack' = TRUE
        /\ Tell(<<[connected |-> FALSE], [connected |-> TRUE]>>)
     \/ /\ UNCHANGED <<link, readBack>>
        /\ Tell(<<[connected |-> FALSE]>>)
  /\ UNCHANGED <<daemon, panel>>

Disconnect ==
  /\ Take("disconnect") /\ TearDown
  /\ UNCHANGED <<daemon, readBack, panel, excused>>

\* The fetchPrefs of connectToDaemon and of applyPrefs, whose failure is ignored.
ReadBack ==
  /\ readBack /\ readBack' = FALSE /\ (Told \/ NotTold)
  /\ UNCHANGED <<daemon, link, toWorker, panel>>

FetchPrefs ==
  /\ Take("fetchPrefs")
  /\ (link /\ Told /\ UNCHANGED link) \/ Failed
  /\ UNCHANGED <<daemon, readBack, panel>>

\* What setPrefs leaves the daemon with.
Written(p) == [f \in Fields |-> IF f \in Sent THEN p[f] ELSE daemon[f]]

\* Seeded fault: the settings are not read back.
ApplyPrefsBlind ==
  /\ Take("applyPrefs")
  /\ \/ /\ link /\ daemon' = Written(Head(toWorker).prefs)
        /\ UNCHANGED <<link, readBack, toUi, excused>>
     \/ /\ Failed /\ UNCHANGED readBack
        /\ daemon' = daemon \/ (link /\ daemon' = Written(Head(toWorker).prefs))
  /\ UNCHANGED panel

\* A request that is refused or lost may have reached the daemon or not.
ApplyPrefs ==
  /\ Take("applyPrefs")
  /\ \/ /\ link /\ daemon' = Written(Head(toWorker).prefs) /\ readBack' = TRUE
        /\ UNCHANGED <<link, toUi, excused>>
     \/ /\ Failed /\ UNCHANGED readBack
        /\ daemon' = daemon \/ (link /\ daemon' = Written(Head(toWorker).prefs))
  /\ UNCHANGED panel

\* The link is lost in a refresh.
LinkLost ==
  /\ link /\ ~readBack /\ TearDown
  /\ UNCHANGED <<daemon, readBack, toWorker, panel, excused>>

\* Another client changes a setting, or the daemon connected to is another one.
DaemonChanges ==
  /\ \E f \in Fields, v \in Samples : daemon' = [daemon EXCEPT ![f] = v]
  /\ daemon' # daemon /\ excused' = TRUE
  /\ UNCHANGED <<link, readBack, toWorker, toUi, panel>>

(* ---------------------------------- UI ---------------------------------- *)

\* prefsUpdated arrives, and with it goes whatever the user has typed.
SetPrefs ==
  /\ toUi # <<>> /\ "prefs" \in DOMAIN Head(toUi) /\ toUi' = Tail(toUi)
  /\ Filled(Head(toUi).prefs)
  /\ UNCHANGED <<daemon, link, readBack, toWorker, enabled, excused>>

\* onStatusChanged, which leaves the widgets as they are.
StatusChanged ==
  /\ toUi # <<>> /\ "connected" \in DOMAIN Head(toUi) /\ toUi' = Tail(toUi)
  /\ enabled' = Head(toUi).connected
  /\ UNCHANGED <<daemon, link, readBack, toWorker, current_, widgets, edited, unapplied, excused>>

Edit ==
  /\ enabled
  /\ \E f \in Shown : \E v \in Choices(f) \ {widgets[f]} :
       /\ widgets' = [widgets EXCEPT ![f] = v]
       /\ edited' = edited \cup {f} /\ unapplied' = unapplied \cup {f}
  /\ UNCHANGED <<daemon, link, readBack, toWorker, toUi, enabled, current_, excused>>

Queue(c) ==
  /\ Len(toWorker) < CommandBound /\ toWorker' = Append(toWorker, c)
  /\ UNCHANGED <<daemon, link, readBack, toUi, enabled, current_, widgets, edited, excused>>

\* Apply: whether settings were ever loaded is not looked at.
Apply ==
  /\ enabled
  /\ Queue([op |-> "applyPrefs", prefs |-> collect, base |-> current_, edited |-> edited])
  /\ unapplied' = {}

\* Reload, and the connection bar, where Enter in the password field connects
\* at any time.
Ask ==
  /\ \E op \in {"connect"} \cup (IF enabled THEN {"fetchPrefs", "disconnect"} ELSE {}) :
       Queue([op |-> op])
  /\ UNCHANGED unapplied

(* ----------------------------- specification ---------------------------- *)

Init ==
  /\ kindOf \in Layouts /\ daemon \in [Fields -> Samples] /\ link = FALSE /\ readBack = FALSE
  /\ toWorker = <<>> /\ toUi = <<>> /\ enabled = FALSE
  /\ current_ = [f \in Fields |-> 0] /\ widgets = [f \in Shown |-> 0]
  /\ edited = {} /\ unapplied = {} /\ excused = TRUE

Next == /\ \/ Connect \/ Disconnect \/ ReadBack \/ FetchPrefs \/ ApplyPrefs \/ LinkLost
           \/ DaemonChanges \/ SetPrefs \/ StatusChanged \/ Edit \/ Apply \/ Ask
        /\ UNCHANGED kindOf

Spec == Init /\ [][Next]_vars

(* ------------------------------ properties ------------------------------ *)

\* Once everything queued has been served, the panel shows what the daemon has
\* (as far as its widgets can), edits since the last Apply aside: an applied
\* value the daemon did not take does not stay on screen.
PanelAgrees ==
  ~excused /\ ~readBack /\ toWorker = <<>> /\ toUi = <<>>
    => \A f \in Shown \ unapplied : widgets[f] = Displayed(f, daemon[f])

\* Apply changes no setting behind the user's back: one that was not edited gets
\* at most the value the panel was filled with, as its widget can hold it.  It
\* keeps its value, unless that has changed since (then it is set back; a panel
\* never filled sets it to zero) or its widget cannot show it.
NoUnaskedChange ==
  [][\A f \in Fields :
       /\ Take("applyPrefs") /\ daemon'[f] # daemon[f]
       /\ f \notin Head(toWorker).edited
       => daemon'[f] = Displayed(f, Head(toWorker).base[f]) % Modulus]_vars

=============================================================================
