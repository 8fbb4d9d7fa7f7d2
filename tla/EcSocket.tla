------------------------------- MODULE EcSocket -----------------------------
(***************************************************************************)
(* EcClient::exchange on its socket: a request is written, the header and  *)
(* then as much payload as it announces are collected from whatever TCP    *)
(* delivers, each wait for more with a timeout of its own.                 *)
(*                                                                         *)
(* A reply is a sequence of cells: two of header (flags, length) and its   *)
(* body; TCP hands them over in pieces of any size.  Cells name the        *)
(* request they answer, which the code cannot see.                         *)
(***************************************************************************)
EXTENDS Integers, SequencesExt

CONSTANTS MaxBody,       \* bound: cells of a reply's body
          MaxExchanges   \* bound: exchanges on one connection

ASSUME SocketAssumption == MaxBody \in Nat /\ MaxExchanges \in Nat

VARIABLES
  pc,       \* "idle", or what readExactly is collecting: "header", "payload"
  made,     \* exchanges begun
  pending,  \* requests the daemon has not answered
  stream,   \* cells of replies not read yet
  arrived,  \* how many of them the socket holds (bytesAvailable)
  header,   \* the header of the packet being read
  need, got,\* n and buf of readExactly
  up,       \* the TCP connection
  framed,   \* history: no reply was abandoned half read
  answer    \* result of the last exchange

wire == <<pending, stream, arrived>>
reading == <<header, need, got>>
vars == <<pc, made, wire, reading, up, framed, answer>>

HeaderCells == 2
Cell == [of : Nat, at : Nat, val : Nat]
Reply(r, n, zlib) ==
  [k \in 1..HeaderCells + n |->
     [of |-> r, at |-> k, val |-> IF k = 1 THEN zlib ELSE IF k = 2 THEN n ELSE 0]]

Kinds == {"none", "packet", "malformed", "compressed", "timeout", "closed"}

TypeOK ==
  /\ pc \in {"idle", "header", "payload"} /\ made \in 0..MaxExchanges
  /\ pending \in Seq(1..MaxExchanges) /\ stream \in Seq(Cell)
  /\ arrived \in 0..Len(stream) /\ header \in Seq(Cell) /\ got \in Seq(Cell)
  /\ need \in Nat /\ Len(got) <= need
  /\ up \in BOOLEAN /\ framed \in BOOLEAN
  /\ answer \in [kind : Kinds, of : Nat]

Init ==
  /\ pc = "idle" /\ made = 0 /\ pending = <<>> /\ stream = <<>> /\ arrived = 0
  /\ header = <<>> /\ need = 0 /\ got = <<>> /\ up = TRUE /\ framed = TRUE
  /\ answer = [kind |-> "none", of |-> 0]

(* ------------------------------ the exchange ---------------------------- *)

\* readExactly(n) starts with an empty buffer.
Await(n) == need' = n /\ got' = <<>>

Return(kind, of) ==
  /\ pc' = "idle" /\ answer' = [kind |-> kind, of |-> of]
  /\ header' = <<>> /\ Await(0)

\* The request goes into the socket's buffer, from where it reaches the daemon
\* even when the wait for that times out.
Write ==
  /\ pc = "idle" /\ made < MaxExchanges /\ made' = made + 1
  /\ pending' = IF up THEN Append(pending, made') ELSE pending
  /\ \/ pc' = "header" /\ Await(HeaderCells) /\ UNCHANGED <<header, answer>>
     \/ Return(IF up THEN "timeout" ELSE "closed", 0)
  /\ UNCHANGED <<stream, arrived, up, framed>>

\* socket_.read(n - buf.size()): what is there, and no more than is needed.
Read ==
  LET k == Min({need - Len(got), arrived}) IN
  /\ Len(got) < need /\ arrived > 0
  /\ got' = got \o SubSeq(stream, 1, k) /\ stream' = SubSeq(stream, k + 1, Len(stream))
  /\ arrived' = arrived - k
  /\ UNCHANGED <<pc, made, pending, header, need, up, framed, answer>>

\* Seeded fault: an empty read on a closed socket is tried again.
GiveUpNever ==
  /\ Len(got) < need /\ arrived = 0 /\ up
  /\ framed' = (framed /\ pc = "header" /\ got = <<>>)
  /\ Return("timeout", 0)
  /\ UNCHANGED <<made, wire, up>>

\* Nothing came in time, or nothing will come any more; what was collected of
\* the packet is forgotten.
GiveUp ==
  /\ Len(got) < need /\ arrived = 0
  /\ framed' = (framed /\ pc = "header" /\ got = <<>>)
  /\ Return(IF up THEN "timeout" ELSE "closed", 0)
  /\ UNCHANGED <<made, wire, up>>

\* Seeded fault: a compressed reply is refused before its payload is read.
HeaderReadEagerly ==
  /\ pc = "header" /\ Len(got) = need
  /\ IF got[1].val = 1 THEN Return("compressed", got[1].of)
     ELSE pc' = "payload" /\ header' = got /\ Await(got[2].val) /\ UNCHANGED answer
  /\ UNCHANGED <<made, wire, up, framed>>

\* The length is that of the header; out of step with the frames, any number.
HeaderRead ==
  /\ pc = "header" /\ Len(got) = need /\ pc' = "payload" /\ header' = got
  /\ \E n \in 0..MaxBody : (got[2].at = 2 => n = got[2].val) /\ Await(n)
  /\ UNCHANGED <<made, wire, up, framed, answer>>

\* The request a packet answers, 0 if its cells are not exactly one reply's.
Answering(cells) ==
  IF cells = Reply(cells[1].of, Len(cells) - HeaderCells, cells[1].val)
  THEN cells[1].of ELSE 0

\* The compression flag is looked at once the payload has been read.
PayloadRead ==
  /\ pc = "payload" /\ Len(got) = need
  /\ \E zlib \in {0, 1} :
       /\ header[1].at = 1 => zlib = header[1].val
       /\ \E kind \in IF zlib = 1 THEN {"compressed"} ELSE {"packet", "malformed"} :
            /\ kind = "packet" => got # <<>>
            /\ Return(kind, Answering(header \o got))
  /\ UNCHANGED <<made, wire, up, framed>>

(* ------------------------------ environment ----------------------------- *)

\* The daemon answers requests in order.
Answer ==
  /\ up /\ pending # <<>> /\ pending' = Tail(pending)
  /\ \E n \in 0..MaxBody, zlib \in {0, 1} : stream' = stream \o Reply(Head(pending), n, zlib)
  /\ UNCHANGED <<pc, made, arrived, reading, up, framed, answer>>

\* TCP delivers some more of what was sent.
Arrive ==
  /\ up /\ arrived < Len(stream) /\ arrived' = arrived + 1
  /\ UNCHANGED <<pc, made, pending, stream, reading, up, framed, answer>>

\* The connection goes away, and with it what has not arrived.
Die ==
  /\ up /\ up' = FALSE /\ pending' = <<>> /\ stream' = SubSeq(stream, 1, arrived)
  /\ UNCHANGED <<pc, made, arrived, reading, framed, answer>>

(* ----------------------------- specification ---------------------------- *)

Step == Read \/ GiveUp \/ HeaderRead \/ PayloadRead

Next == Write \/ Step \/ Answer \/ Arrive \/ Die

Spec == Init /\ [][Next]_vars

\* Every wait ends within kTimeoutMs; the daemon and the network owe nothing.
FairSpec == Spec /\ WF_vars(Step)

(* ------------------------------ properties ------------------------------ *)

\* The cells no exchange has used up, those of the packet being read first.
Row == header \o got \o stream

\* Exchanges completed.
Done == IF pc = "idle" THEN made ELSE made - 1

\* Requests are answered in order and none is skipped, so the completed ones whose
\* reply is unread have consecutive numbers: from that of the cells to come next, or
\* of the first request still to be answered, to the last one the wire can answer.
Oldest == IF Row # <<>> THEN Row[1].of ELSE made + 1 - Len(pending)
Newest == IF ~up /\ Row # <<>> THEN Min({Row[Len(Row)].of, Done}) ELSE Done
Numbers(lo, hi) == [i \in 1..hi + 1 - lo |-> lo + i - 1]
Unread == IF framed THEN Numbers(Oldest, Newest) ELSE <<>>

Line == INSTANCE ReplyLine WITH made <- Done, owed <- Unread, broken <- ~up

\* The line of replies that EcWorker's exchanges are modelled on is what the
\* socket code provides: replies whole and in order however TCP cuts them,
\* compressed and undecodable ones included, one more unread per timeout.
RepliesInLine == Line!Spec

\* ADR-0004: an exchange ends, whatever the daemon and the network do.
ExchangeEnds == pc # "idle" ~> pc = "idle"

=============================================================================
