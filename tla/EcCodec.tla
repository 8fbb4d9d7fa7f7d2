------------------------------- MODULE EcCodec ------------------------------
(***************************************************************************)
(* The EC wire format of ADR-0005 as codec.cpp implements it: a packet is  *)
(* an opcode and a tree of tags, written as a frame of bytes and read back *)
(* from its payload.                                                       *)
(*                                                                         *)
(* A byte holds one of `Base` values (256 in the code): every width, shift *)
(* and boundary is the code's, at a scale TLC can enumerate.  A value is a *)
(* kind and a sequence: an integer is <<v>>, an address its four bytes and *)
(* its port, anything else its characters or bytes.  Opcodes and type      *)
(* codes are one element of the frame whatever Base is.                    *)
(*                                                                         *)
(* What the code does by recursion over a tree or a buffer is a recursive  *)
(* function here; EcCodecProofs shows that each of them exists.            *)
(*                                                                         *)
(* The machine at the end carries one packet: it is encoded, the frame may *)
(* be cut short on its way, and what arrived is decoded.                   *)
(***************************************************************************)
EXTENDS Integers, Sequences

CONSTANTS Base,      \* values of a byte
          HashLen,   \* bytes of a hash (16 in the code)
          Tags,      \* the tags that are sent, at any depth
          Nesting,   \* how many levels of tags there are below a tag
          Packets    \* the packets that are sent

VARIABLES packet,   \* what is sent
          phase,    \* "made", "sent", "cut"; "read", or "misread" when it was cut
          frame,    \* the bytes on the wire
          decoded   \* what decodePayload returned

vars == <<packet, phase, frame, decoded>>

\* Type codes; the DOUBLE of the format is not modelled: no request carries one.
TypeCustom == 1
TypeUint8 == 2
TypeUint16 == 3
TypeUint32 == 4
TypeUint64 == 5
TypeString == 6
TypeIpv4 == 8
TypeHash16 == 9
HeaderSize == 8
FlagBase == 32

\* How many numbers 2, 4 and 8 bytes hold.
B2 == Base * Base
B4 == B2 * B2
B8 == B4 * B4

Value(kind, data) == [kind |-> kind, data |-> data]

\* What a tag can carry.  Opaque data that is empty is read back as Empty, and
\* a string ends at its first NUL: no request sends either.
Values ==
  [kind : {"Empty"}, data : {<<>>}]
    \cup [kind : {"bytes"}, data : Seq(0..Base-1) \ {<<>>}]
    \cup [kind : {"int"}, data : {d \in Seq(0..B8-1) : Len(d) = 1}]
    \cup [kind : {"string"}, data : Seq(1..Base-1)]
    \cup [kind : {"hash"}, data : {d \in Seq(0..Base-1) : Len(d) = HashLen}]
    \cup [kind : {"ipv4"},
          data : {d \in Seq(0..B2-1) : Len(d) = 5 /\ \A i \in 1..4 : d[i] < Base}]

ASSUME BaseAssumption == Base \in Nat /\ Base >= 2 /\ HashLen \in Nat

\* The low bit of the name field says whether there are children, and they are
\* counted in two bytes.
ASSUME TagsAssumption ==
  \A tag \in Tags :
    /\ tag \in [name : Nat, value : Values, children : Seq(Tags)]
    /\ 2 * tag.name + 1 < B2 /\ Len(tag.children) < B2

\* Trees are finite: vectors of tags by value.
ASSUME NestingAssumption ==
  /\ Nesting \in [Tags -> Nat]
  /\ \A tag \in Tags : \A i \in DOMAIN tag.children : Nesting[tag.children[i]] < Nesting[tag]

ASSUME PacketsAssumption ==
  \A p \in Packets : p \in [opcode : Nat, tags : Seq(Tags)] /\ Len(p.tags) < B2

(* -------------------------------- encoding ------------------------------- *)

\* v in so many bytes, big-endian; what does not fit is cut off.
BE1(v) == <<v % Base>>
BE2(v) == BE1(v \div Base) \o BE1(v)
BE4(v) == BE2(v \div B2) \o BE2(v % B2)
BE8(v) == BE4(v \div B4) \o BE4(v % B4)

Bytes(type, data) == [type |-> type, data |-> data]

\* Seeded fault: the first boundary is off by one.
encodeIntTight(v) ==
  IF v <= Base THEN Bytes(TypeUint8, BE1(v)) ELSE Bytes(TypeUint64, BE8(v))

encodeInt(v) ==
  IF v < Base THEN Bytes(TypeUint8, BE1(v))
  ELSE IF v < B2 THEN Bytes(TypeUint16, BE2(v))
  ELSE IF v < B4 THEN Bytes(TypeUint32, BE4(v)) ELSE Bytes(TypeUint64, BE8(v))

encodeValue(value) ==
  CASE value.kind = "Empty"  -> Bytes(TypeCustom, <<>>)
    [] value.kind = "bytes"  -> Bytes(TypeCustom, value.data)
    [] value.kind = "int"    -> encodeInt(value.data[1])
    [] value.kind = "string" -> Bytes(TypeString, Append(value.data, 0))
    [] value.kind = "hash"   -> Bytes(TypeHash16, value.data)
    [] value.kind = "ipv4"   -> Bytes(TypeIpv4, SubSeq(value.data, 1, 4) \o BE2(value.data[5]))

Sum[ns \in Seq(Nat)] == IF ns = <<>> THEN 0 ELSE Head(ns) + Sum[Tail(ns)]
Flat[ss \in Seq(Seq(Nat))] == IF ss = <<>> THEN <<>> ELSE Head(ss) \o Flat[Tail(ss)]

\* Seeded fault: a child's own subtag count is not charged to its parent.
chargedShort(tag, len) == 7 + len

\* What a child with this length field adds to its parent's: its header and, if
\* it has one, its own subtag count.
charged(tag, len) == 7 + (IF tag.children # <<>> THEN 2 ELSE 0) + len

\* The length field: the data and the children, but not the tag's own count.
tagLen[tag \in Tags] ==
  Len(encodeValue(tag.value).data)
    + Sum[[i \in DOMAIN tag.children |-> charged(tag.children[i], tagLen[tag.children[i]])]]

writeTag[tag \in Tags] ==
  LET has == tag.children # <<>>
      bytes == encodeValue(tag.value)
  IN BE2(2 * tag.name + (IF has THEN 1 ELSE 0)) \o <<bytes.type>> \o BE4(tagLen[tag])
       \o (IF has THEN BE2(Len(tag.children))
                         \o Flat[[i \in DOMAIN tag.children |-> writeTag[tag.children[i]]]]
           ELSE <<>>)
       \o bytes.data

payloadOf(p) ==
  <<p.opcode>> \o BE2(Len(p.tags)) \o Flat[[i \in DOMAIN p.tags |-> writeTag[p.tags[i]]]]

\* Seeded fault: the length is that of the whole frame.
encodeWhole(p) == BE4(FlagBase) \o BE4(HeaderSize + Len(payloadOf(p))) \o payloadOf(p)

encode(p) == BE4(FlagBase) \o BE4(Len(payloadOf(p))) \o payloadOf(p)

\* Lengths are written in four bytes.
ASSUME LengthsAssumption ==
  /\ \A tag \in Tags : tagLen[tag] < B4
  /\ \A p \in Packets : Len(payloadOf(p)) < B4

(* -------------------------------- decoding ------------------------------- *)

\* The code throws: nothing is read any more.
Thrown == [ok |-> FALSE]

\* Seeded fault: the end of the buffer is not looked at.
takeAnyway(bytes, n) ==
  [ok |-> TRUE, data |-> SubSeq(bytes \o [i \in 1..n |-> 0], 1, n),
   rest |-> SubSeq(bytes, n + 1, Len(bytes))]

\* Cursor::take from the bytes that remain: the first n, or a decode error.
take(bytes, n) ==
  IF n < 0 \/ Len(bytes) < n THEN Thrown
  ELSE [ok |-> TRUE, data |-> SubSeq(bytes, 1, n), rest |-> SubSeq(bytes, n + 1, Len(bytes))]

Number2(b) == Base * b[1] + b[2]
Number4(b) == B2 * Number2(SubSeq(b, 1, 2)) + Number2(SubSeq(b, 3, 4))
Number8(b) == B4 * Number4(SubSeq(b, 1, 4)) + Number4(SubSeq(b, 5, 8))

\* Too little data is filled up with zeros, too much is ignored.
Fit(data, n) == SubSeq(data \o [i \in 1..n |-> 0], 1, n)

\* Where the first NUL is, or the end.
Nul(data) ==
  CHOOSE i \in 1..Len(data)+1 :
    (i = Len(data) + 1 \/ data[i] = 0) /\ \A j \in 1..i-1 : data[j] # 0

decodeValue(type, data) ==
  CASE type = TypeCustom /\ data = <<>> -> Value("Empty", <<>>)
    [] type = TypeUint8 -> Value("int", Fit(data, 1))
    [] type = TypeUint16 -> Value("int", <<Number2(Fit(data, 2))>>)
    [] type = TypeUint32 -> Value("int", <<Number4(Fit(data, 4))>>)
    [] type = TypeUint64 -> Value("int", <<Number8(Fit(data, 8))>>)
    [] type = TypeString -> Value("string", SubSeq(data, 1, Nul(data) - 1))
    [] type = TypeHash16 -> Value("hash", Fit(data, HashLen))
    [] type = TypeIpv4 -> Value("ipv4", Fit(data, 4) \o
         <<IF Len(data) >= 6 THEN Number2(SubSeq(data, 5, 6)) ELSE 0>>)
    [] OTHER -> Value("bytes", data)

\* The subtag count, if the header announces one, and the data: what the length
\* leaves once the children are read.
countOf(head) ==
  IF Number2(head.data) % 2 = 1 THEN take(head.rest, 2)
  ELSE [ok |-> TRUE, data |-> <<0, 0>>, rest |-> head.rest]
dataOf(head, count, kids) ==
  take(kids.rest, Number4(SubSeq(head.data, 4, 7)) - (Len(count.rest) - Len(kids.rest)))

\* readTag n times: the tags, and the bytes that remain.
readTags[bytes \in Seq(Nat)] == [n \in Nat |->
  IF n = 0 THEN [ok |-> TRUE, tags |-> <<>>, rest |-> bytes]
  ELSE
    LET head == take(bytes, 7)
        count == countOf(head)
        kids == readTags[count.rest][Number2(count.data)]
        data == dataOf(head, count, kids)
        tag == [name |-> Number2(head.data) \div 2, value |-> decodeValue(head.data[3], data.data),
                children |-> kids.tags]
        others == readTags[data.rest][n - 1]
    IN IF ~head.ok \/ ~count.ok \/ ~kids.ok \/ ~data.ok \/ ~others.ok THEN Thrown
       ELSE [ok |-> TRUE, tags |-> <<tag>> \o others.tags, rest |-> others.rest]]

Error == [opcode |-> -1, tags |-> <<>>]

\* Bytes after the last tag are not looked at.
decodePayload(payload) ==
  LET head == take(payload, 3)
      all == readTags[head.rest][Number2(SubSeq(head.data, 2, 3))]
  IN IF ~head.ok \/ ~all.ok THEN Error ELSE [opcode |-> head.data[1], tags |-> all.tags]

(* ------------------------------- the machine ----------------------------- *)

TypeOK ==
  /\ packet \in Packets /\ phase \in {"made", "sent", "cut", "read", "misread"}
  /\ frame \in Seq(Nat)
  /\ DOMAIN decoded = {"opcode", "tags"} /\ decoded.opcode \in Int

Init == packet \in Packets /\ phase = "made" /\ frame = <<>> /\ decoded = Error

Send ==
  /\ phase = "made" /\ phase' = "sent" /\ frame' = encode(packet)
  /\ UNCHANGED <<packet, decoded>>

\* The payload that is decoded ends early, wherever that is: a header that
\* announces fewer bytes than the tags need.
Cut ==
  /\ phase = "sent" /\ phase' = "cut"
  /\ \E n \in HeaderSize..Len(frame) - 1 : frame' = SubSeq(frame, 1, n)
  /\ UNCHANGED <<packet, decoded>>

Receive ==
  /\ phase \in {"sent", "cut"} /\ phase' = IF phase = "sent" THEN "read" ELSE "misread"
  /\ decoded' = decodePayload(SubSeq(frame, HeaderSize + 1, Len(frame)))
  /\ UNCHANGED <<packet, frame>>

Next == Send \/ Cut \/ Receive

Spec == Init /\ [][Next]_vars

(* ------------------------------ properties ------------------------------ *)

\* Reading a frame gives back the packet that was written: opcode, tag tree,
\* kinds and values, at every boundary of the integer widths.
RoundTrip == phase = "read" => decoded = packet

\* A payload cut anywhere is an error, never another packet.
CutIsError == phase = "misread" => decoded = Error

\* The header announces exactly the bytes that follow it, so the next frame is
\* found behind this one.
HeaderMeasures ==
  phase = "sent" => Number4(SubSeq(frame, 5, 8)) = Len(frame) - HeaderSize

\* A reader that knows nothing of a tag's content goes by its header, the count
\* if there is one, and the length.
skipTags[n \in Nat] == [bytes \in Seq(Nat) |->
  IF n = 0 THEN [ok |-> TRUE, rest |-> bytes]
  ELSE
    LET head == take(bytes, 7)
        body == take(head.rest, 2 * (Number2(head.data) % 2) + Number4(SubSeq(head.data, 4, 7)))
    IN IF ~head.ok \/ ~body.ok THEN Thrown ELSE skipTags[n - 1][body.rest]]

\* Skipping the top-level tags by their length fields alone ends where the
\* frame ends: tagLen counts all of a tag, and nothing twice.
LengthsSkip ==
  phase = "sent" =>
    skipTags[Len(packet.tags)][SubSeq(frame, HeaderSize + 4, Len(frame))]
      = [ok |-> TRUE, rest |-> <<>>]

=============================================================================
