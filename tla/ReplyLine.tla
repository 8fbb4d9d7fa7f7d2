------------------------------ MODULE ReplyLine -----------------------------
(***************************************************************************)
(* What EcClient::exchange promises its callers, as EcWorker uses it:      *)
(* replies come whole and in the order of the requests, each exchange that *)
(* reads one reads the oldest, and an exchange that gives up leaves one    *)
(* more reply to be read by others.  Giving up in the middle of a reply    *)
(* ends the promise.                                                       *)
(***************************************************************************)
EXTENDS Naturals, Sequences

VARIABLES made,    \* exchanges made so far
          owed,    \* those whose reply may still come and is unread, in order
          framed,  \* no exchange gave up in the middle of a reply
          broken,  \* the connection is gone
          answer   \* how the last exchange ended, and whose reply it read

vars == <<made, owed, framed, broken, answer>>

Init == /\ made = 0 /\ owed = <<>> /\ framed = TRUE /\ broken = FALSE
        /\ answer = [kind |-> "none", of |-> 0]

\* The replies there are to read, the new request's among them if it gets one.
Lines == {Append(owed, made + 1)} \cup (IF broken THEN {owed} ELSE {})

Answered ==
  /\ framed /\ UNCHANGED framed
  /\ \E line \in Lines \ {<<>>}, kind \in {"packet", "malformed", "compressed"} :
       owed' = Tail(line) /\ answer' = [kind |-> kind, of |-> Head(line)]

TimedOut ==
  /\ framed /\ ~broken /\ answer' = [kind |-> "timeout", of |-> 0]
  /\ \/ UNCHANGED framed /\ owed' = Append(owed, made + 1)
     \/ framed' = FALSE /\ owed' = <<>>

Closed ==
  /\ framed /\ broken /\ answer' = [kind |-> "closed", of |-> 0]
  /\ \/ UNCHANGED <<framed, owed>>
     \/ framed' = FALSE /\ owed' = <<>>

\* Out of step with the frames, an exchange reads anything.
Garbled ==
  /\ ~framed /\ UNCHANGED <<framed, owed>>
  /\ answer' \in [kind : {"packet", "malformed", "compressed", "timeout", "closed"}, of : Nat]

Exchange == (Answered \/ TimedOut \/ Closed \/ Garbled) /\ made' = made + 1 /\ UNCHANGED broken

\* The latest replies may be lost with the connection.
Break ==
  /\ ~broken /\ broken' = TRUE
  /\ \E n \in 0..Len(owed) : owed' = SubSeq(owed, 1, n)
  /\ UNCHANGED <<made, framed, answer>>

Next == Exchange \/ Break

Spec == Init /\ [][Next]_vars

=============================================================================
