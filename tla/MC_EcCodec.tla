----------------------------- MODULE MC_EcCodec -----------------------------
(***************************************************************************)
(* EcCodec for TLC: bytes of two bits, and every packet of up to two tags  *)
(* built from boundary values, with tags three deep.                       *)
(***************************************************************************)
EXTENDS EcCodec

MCBase == 4
MCHashLen == 3

MaxName == ((MCBase * MCBase) \div 2) - 1

Ints == {0, 3, 4, 15, 16, 255, 256, 65535}
MCValues ==
  {Value("int", <<n>>) : n \in Ints}
    \cup {Value("string", s) : s \in {<<>>, <<1>>, <<3, 2>>}}
    \cup {Value("Empty", <<>>), Value("bytes", <<0, 3>>), Value("hash", <<1, 0, 3>>),
          Value("ipv4", <<3, 0, 0, 1, 7>>)}

Tag(name, value, children) == [name |-> name, value |-> value, children |-> children]
Leaves == {Tag(n, v, <<>>) : n \in {0, MaxName}, v \in MCValues}
FewValues == {Value("int", <<16>>), Value("Empty", <<>>), Value("string", <<2>>)}
FewLeaves == {Tag(1, v, <<>>) : v \in FewValues}
Parents == {Tag(1, v, kids) : v \in FewValues,
              kids \in {<<a>> : a \in FewLeaves} \cup {<<a, b>> : a, b \in FewLeaves}}
Grandparents == {Tag(2, v, kids) : v \in FewValues,
                   kids \in {<<a>> : a \in Parents} \cup {<<b, a>> : a \in FewLeaves, b \in Parents}}

MCTags == Leaves \cup FewLeaves \cup Parents \cup Grandparents
MCNesting == [tag \in MCTags |-> IF tag \in Grandparents THEN 2 ELSE IF tag \in Parents THEN 1 ELSE 0]

MCPackets ==
  {[opcode |-> 1, tags |-> ts] :
     ts \in {<<>>} \cup {<<t>> : t \in MCTags}
              \cup {<<a, b>> : a \in FewLeaves, b \in Parents}
              \cup {<<b, a>> : a \in FewLeaves, b \in Parents}}

=============================================================================
