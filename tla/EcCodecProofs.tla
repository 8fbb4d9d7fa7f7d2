---------------------------- MODULE EcCodecProofs ---------------------------
(***************************************************************************)
(* What is written is what is read, proved of EcCodec for every byte size, *)
(* hash length and every set of finite trees.                              *)
(*                                                                         *)
(* The operators of EcCodec recur over sequences and trees.  The argument: *)
(*                                                                         *)
(* 1. A function that is given by recursion exists if every value needs    *)
(*    only those at arguments of a smaller measure (Recursion).  Sum,      *)
(*    Flat, tagLen, writeTag, readTags and skipTags are such functions.    *)
(* 2. Induction over a measure, with the set of the arguments for which a  *)
(*    fact holds in place of a predicate (MeasureInduction), gives their   *)
(*    types, that tagLen is the number of bytes below a tag's header       *)
(*    (TagMeasured), that every value is read back (ValueWritten), that a  *)
(*    list of tags is (WireReadBack), that no strict beginning of it is    *)
(*    (WireTears), and that it can be skipped (WireSkips).                 *)
(* 3. CodecInv relates the frame on its way to the packet that was sent,   *)
(*    and the theorems follow from it.                                     *)
(***************************************************************************)
EXTENDS EcCodec, SequenceTheorems, WellFoundedInduction, TLAPS

(* ---------------- induction and recursion over a measure ----------------- *)

\* A set of numbers has a least one.
LEMMA LeastNat ==
  ASSUME NEW T, T \subseteq Nat, T # {}
  PROVE  \E x \in T : \A y \in T : ~(y < x)
<1>1. IsWellFoundedOn(OpToRel(<, Nat), Nat)
  BY NatLessThanWellFounded
<1>2. PICK x \in T : \A y \in T : ~(<<y, x>> \in OpToRel(<, Nat))
  BY <1>1, WFMin
<1> QED BY <1>2 DEF OpToRel

\* Induction over the numbers, with a set for the predicate.
LEMMA NatSetInduction ==
  ASSUME NEW S, 0 \in S, \A n \in Nat : n \in S => n + 1 \in S
  PROVE  Nat \subseteq S
<1> SUFFICES ASSUME Nat \ S # {} PROVE FALSE
  OBVIOUS
<1>1. PICK x \in Nat \ S : \A y \in Nat \ S : ~(y < x)
  BY LeastNat
<1>2. x # 0 /\ x - 1 \in Nat /\ x - 1 < x
  BY <1>1
<1>3. x - 1 \in S
  BY <1>1, <1>2
<1> QED BY <1>1, <1>2, <1>3

\* A fact that follows from the same fact at every smaller measure holds everywhere.
LEMMA MeasureInduction ==
  ASSUME NEW S, NEW m \in [S -> Nat], NEW T,
         \A x \in S : (\A y \in S : m[y] < m[x] => y \in T) => x \in T
  PROVE  S \subseteq T
<1> DEFINE N == {n \in Nat : \A x \in S : m[x] < n => x \in T}
<1>1. 0 \in N
  <2>1. \A x \in S : ~(m[x] < 0)
    OBVIOUS
  <2> QED BY <2>1
<1>2. ASSUME NEW n \in Nat, n \in N PROVE n + 1 \in N
  <2> SUFFICES ASSUME NEW x \in S, m[x] < n + 1 PROVE x \in T
    OBVIOUS
  <2>1. ASSUME NEW y \in S, m[y] < m[x] PROVE y \in T
    <3>1. m[y] < n
      BY <2>1
    <3> QED BY <3>1, <1>2
  <2> QED BY <2>1
<1>3. Nat \subseteq N
  <2> HIDE DEF N
  <2> QED BY <1>1, <1>2, NatSetInduction
<1>4. ASSUME NEW x \in S PROVE x \in T
  <2>1. m[x] + 1 \in Nat /\ m[x] < m[x] + 1
    OBVIOUS
  <2> QED BY <2>1, <1>3
<1> QED BY <1>4

\* f obeys G below n.
Obeys(f, G, S, m, n) == \A x \in S : m[x] < n => f[x] = G[x][f]
Alike(f, g, S, m, n) == \A x \in S : m[x] < n => f[x] = g[x]
Local(G, S, V, m) ==
  \A x \in S : \A f, g \in [S -> V] : Alike(f, g, S, m, m[x]) => G[x][f] = G[x][g]

\* Two functions that obey G below n agree there.
LEMMA ObeyersAlike ==
  ASSUME NEW S, NEW V, NEW m \in [S -> Nat], NEW G \in [S -> [[S -> V] -> V]],
         Local(G, S, V, m), NEW k \in Nat, NEW f \in [S -> V], NEW g \in [S -> V],
         Obeys(f, G, S, m, k), Obeys(g, G, S, m, k)
  PROVE  Alike(f, g, S, m, k)
<1> DEFINE T == {n \in Nat : n <= k => Alike(f, g, S, m, n)}
<1>1. 0 \in T
  BY DEF Alike
<1>2. ASSUME NEW n \in Nat, n \in T PROVE n + 1 \in T
  <2> SUFFICES ASSUME n + 1 <= k, NEW x \in S, m[x] < n + 1 PROVE f[x] = g[x]
    BY DEF Alike
  <2>1. m[x] \in Nat /\ m[x] <= n /\ m[x] < k /\ n <= k
    OBVIOUS
  <2>2. Alike(f, g, S, m, n)
    BY <1>2, <2>1
  <2>3. Alike(f, g, S, m, m[x])
    BY <2>2, <2>1 DEF Alike
  <2>4. G[x][f] = G[x][g]
    BY <2>3 DEF Local
  <2> QED BY <2>4, <2>1 DEF Obeys
<1>3. Nat \subseteq T
  <2> HIDE DEF T
  <2> QED BY <1>1, <1>2, NatSetInduction
<1> QED BY <1>3

\* For every n there is a function that obeys G below n.
LEMMA SomeObeys ==
  ASSUME NEW S, NEW V, V # {}, NEW m \in [S -> Nat], NEW G \in [S -> [[S -> V] -> V]],
         Local(G, S, V, m)
  PROVE  \A n \in Nat : \E f \in [S -> V] : Obeys(f, G, S, m, n)
<1> DEFINE T == {n \in Nat : \E f \in [S -> V] : Obeys(f, G, S, m, n)}
<1>1. 0 \in T
  <2>1. PICK f \in [S -> V] : f = [x \in S |-> CHOOSE v \in V : TRUE]
    OBVIOUS
  <2>2. Obeys(f, G, S, m, 0)
    BY DEF Obeys
  <2> QED BY <2>2
<1>2. ASSUME NEW n \in Nat, n \in T PROVE n + 1 \in T
  <2>1. PICK f \in [S -> V] : Obeys(f, G, S, m, n)
    BY <1>2
  <2>2. PICK g \in [S -> V] : \A x \in S : g[x] = G[x][f]
    <3>1. [x \in S |-> G[x][f]] \in [S -> V]
      OBVIOUS
    <3> QED BY <3>1
  <2>3. ASSUME NEW x \in S, m[x] < n + 1 PROVE g[x] = G[x][g]
    <3>1. m[x] \in Nat /\ m[x] <= n
      BY <2>3
    <3>2. Alike(f, g, S, m, m[x])
      <4> SUFFICES ASSUME NEW y \in S, m[y] < m[x] PROVE f[y] = g[y]
        BY DEF Alike
      <4>1. m[y] \in Nat /\ m[y] < n
        BY <3>1
      <4> QED BY <4>1, <2>1, <2>2 DEF Obeys
    <3>3. G[x][f] = G[x][g]
      BY <3>2 DEF Local
    <3> QED BY <3>3, <2>2
  <2>4. Obeys(g, G, S, m, n + 1)
    BY <2>3 DEF Obeys
  <2> QED BY <2>4
<1>3. Nat \subseteq T
  <2> HIDE DEF T
  <2> QED BY <1>1, <1>2, NatSetInduction
<1> QED BY <1>3

Recursive(S, V, m, G) ==
  /\ V # {} /\ m \in [S -> Nat] /\ G \in [S -> [[S -> V] -> V]] /\ Local(G, S, V, m)

\* A function that is defined by recursion exists.
LEMMA Recursion ==
  ASSUME NEW S, NEW V, NEW m, NEW G, Recursive(S, V, m, G)
  PROVE  \E f \in [S -> V] : \A x \in S : f[x] = G[x][f]
<1> USE DEF Recursive
<1>1. \A n \in Nat : \E f \in [S -> V] : Obeys(f, G, S, m, n)
  BY SomeObeys
<1>2. PICK F : F = [n \in Nat |-> CHOOSE f \in [S -> V] : Obeys(f, G, S, m, n)]
  OBVIOUS
<1>3. ASSUME NEW n \in Nat PROVE F[n] \in [S -> V] /\ Obeys(F[n], G, S, m, n)
  BY <1>1, <1>2
<1>4. PICK h : h = [x \in S |-> F[m[x] + 1][x]]
  OBVIOUS
<1>5. h \in [S -> V]
  <2> SUFFICES ASSUME NEW x \in S PROVE F[m[x] + 1][x] \in V
    BY <1>4
  <2>1. m[x] + 1 \in Nat
    OBVIOUS
  <2> QED BY <2>1, <1>3
<1>6. ASSUME NEW x \in S PROVE h[x] = G[x][h]
  <2>1. m[x] \in Nat /\ m[x] + 1 \in Nat
    OBVIOUS
  <2>2. PICK f \in [S -> V] : f = F[m[x] + 1]
    BY <2>1, <1>3
  <2>3. Obeys(f, G, S, m, m[x] + 1)
    BY <2>1, <2>2, <1>3
  <2>4. Alike(f, h, S, m, m[x])
    <3> SUFFICES ASSUME NEW y \in S, m[y] < m[x] PROVE f[y] = h[y]
      BY DEF Alike
    <3>1. m[y] + 1 \in Nat /\ m[y] \in Nat /\ m[y] < m[y] + 1
      OBVIOUS
    <3>2. PICK g \in [S -> V] : g = F[m[y] + 1]
      BY <3>1, <1>3
    <3>3. Obeys(g, G, S, m, m[y] + 1)
      BY <3>1, <3>2, <1>3
    <3>4. Obeys(f, G, S, m, m[y] + 1)
      BY <2>3, <2>1, <3>1 DEF Obeys
    <3>5. Alike(f, g, S, m, m[y] + 1)
      BY <3>3, <3>4, <3>1, ObeyersAlike
    <3> QED BY <3>5, <3>1, <3>2, <1>4 DEF Alike
  <2>5. G[x][f] = G[x][h]
    BY <2>4, <1>5 DEF Local
  <2>6. h[x] = f[x] /\ f[x] = G[x][f]
    BY <2>1, <2>2, <2>3, <1>4 DEF Obeys
  <2> QED BY <2>5, <2>6
<1> QED BY <1>5, <1>6

(* --------------------------- numbers in bytes ---------------------------- *)

\* The quotient and the remainder are the two digits of v in base b.
LEMMA Digits ==
  ASSUME NEW b \in Nat, b >= 2, NEW v \in Nat, v < b * b
  PROVE  /\ v \div b \in Nat /\ v \div b < b
         /\ v % b \in Nat /\ v % b < b
         /\ b * (v \div b) + (v % b) = v
<1>1. PICK q : q = v \div b
  OBVIOUS
<1>2. PICK r : r = v % b
  OBVIOUS
<1>3. q \in Int /\ r \in 0..b-1 /\ v = b * q + r
  BY <1>1, <1>2
<1>4. q >= 0
  <2> SUFFICES ASSUME q <= -1 PROVE FALSE
    BY <1>3
  <2>1. b * q <= b * (-1)
    BY <1>3
  <2> QED BY <2>1, <1>3
<1>5. q < b
  <2> SUFFICES ASSUME q >= b PROVE FALSE
    BY <1>3
  <2>1. b * q >= b * b
    BY <1>3
  <2> QED BY <2>1, <1>3
<1> QED BY <1>1, <1>2, <1>3, <1>4, <1>5

\* A number below b is its own remainder.
LEMMA Small == ASSUME NEW b \in Nat, NEW v \in Nat, v < b PROVE v % b = v
OBVIOUS

\* The bases of 2, 4 and 8 bytes are squares of each other.
LEMMA Squares ==
  /\ B2 \in Nat /\ B4 \in Nat /\ B8 \in Nat /\ Base <= B2 /\ B2 <= B4 /\ B4 <= B8
  /\ B2 >= 2 /\ B4 >= 2
<1>1. ASSUME NEW b \in Nat, b >= 2 PROVE b * b \in Nat /\ b <= b * b
  OBVIOUS
<1>2. B2 \in Nat /\ Base <= B2
  BY <1>1, BaseAssumption DEF B2
<1>3. B2 >= 2
  BY <1>2, BaseAssumption
<1>4. B4 \in Nat /\ B2 <= B4
  BY <1>1, <1>2, <1>3 DEF B4
<1>5. B4 >= 2
  BY <1>3, <1>2, <1>4
<1>6. B8 \in Nat /\ B4 <= B8
  BY <1>1, <1>4, <1>5 DEF B8
<1> QED BY <1>2, <1>3, <1>4, <1>5, <1>6

\* One byte holds a number below Base.
LEMMA BE1Written ==
  ASSUME NEW v \in Nat, v < Base
  PROVE  BE1(v) = <<v>>
BY Small, BaseAssumption DEF BE1

\* Two elements in sequence are a pair.
LEMMA Pair ==
  ASSUME NEW S, NEW a \in S, NEW b \in S
  PROVE  <<a>> \o <<b>> = <<a, b>>
<1>0. <<a>> \in Seq(S) /\ <<b>> \in Seq(S) /\ <<a, b>> \in Seq(S)
  OBVIOUS
<1>1. PICK s \in Seq(S), t \in Seq(S), u \in Seq(S) : s = <<a>> /\ t = <<b>> /\ u = <<a, b>>
  BY <1>0
<1>2. Len(s) = 1 /\ s[1] = a /\ Len(t) = 1 /\ t[1] = b /\ Len(u) = 2 /\ u[1] = a /\ u[2] = b
  BY <1>1
<1>3. s \o t \in Seq(S) /\ Len(s \o t) = 2 /\ (s \o t)[1] = a /\ (s \o t)[2] = b
  BY <1>2, ConcatProperties
<1>4. s \o t = u
  <2>1. PICK c \in Seq(S) : c = s \o t
    BY <1>3
  <2>2. Len(c) = Len(u) /\ \A i \in 1 .. Len(c) : c[i] = u[i]
    BY <2>1, <1>2, <1>3
  <2>3. c = u
    BY <2>2, SeqEqual
  <2> QED BY <2>1, <2>3
<1> QED BY <1>1, <1>4

\* Two bytes are read back as the number written.
LEMMA BE2Written ==
  ASSUME NEW v \in Nat, v < B2
  PROVE  /\ BE2(v) \in Seq(Nat) /\ Len(BE2(v)) = 2
         /\ Number2(BE2(v)) = v
<1>1. PICK q \in Nat, r \in Nat : q = v \div Base /\ r = v % Base
  BY Digits, BaseAssumption DEF B2
<1>2. q < Base /\ r < Base /\ Base * q + r = v
  BY <1>1, Digits, BaseAssumption DEF B2
<1>3. BE1(v \div Base) = <<q>> /\ BE1(v) = <<r>>
  BY <1>1, <1>2, Small, BaseAssumption DEF BE1
<1>4. BE2(v) = <<q, r>>
  <2>1. BE2(v) = <<q>> \o <<r>>
    BY <1>3 DEF BE2
  <2>2. <<q>> \o <<r>> = <<q, r>>
    BY Pair
  <2> QED BY <2>1, <2>2
<1>5. <<q, r>> \in Seq(Nat) /\ Len(<<q, r>>) = 2 /\ Number2(<<q, r>>) = Base * q + r
  BY DEF Number2
<1> QED BY <1>2, <1>4, <1>5

Halved(c, s, t) ==
  /\ c \in Seq(Nat) /\ Len(c) = Len(s) + Len(t)
  /\ SubSeq(c, 1, Len(s)) = s /\ SubSeq(c, Len(s) + 1, Len(s) + Len(t)) = t

\* The two parts of a concatenation are where their lengths say.
LEMMA Halves ==
  ASSUME NEW s \in Seq(Nat), NEW t \in Seq(Nat), Len(s) > 0, Len(t) > 0
  PROVE  Halved(s \o t, s, t)
<1>0. Len(s) \in Nat /\ Len(t) \in Nat
  BY LenProperties
<1>1. s \o t \in Seq(Nat) /\ Len(s \o t) = Len(s) + Len(t)
  BY ConcatProperties
<1>2. SubSeq(s \o t, 1, Len(s)) = SubSeq(s, 1, Len(s))
  BY <1>0, SubSeqOfConcat1
<1>3. SubSeq(s \o t, Len(s) + 1, Len(s) + Len(t)) = SubSeq(t, 1, Len(t))
  <2>1. PICK i, j : i = Len(s) + 1 /\ j = Len(s) + Len(t)
    OBVIOUS
  <2>2. i \in Len(s)+1 .. Len(s)+Len(t) /\ j \in Len(s)+1 .. Len(s)+Len(t)
    BY <1>0, <2>1
  <2>3. SubSeq(s \o t, i, j) = SubSeq(t, i - Len(s), j - Len(s))
    BY <2>2, SubSeqOfConcat2
  <2>4. i - Len(s) = 1 /\ j - Len(s) = Len(t)
    BY <1>0, <2>1
  <2> QED BY <2>1, <2>3, <2>4
<1>4. SubSeq(s, 1, Len(s)) = s /\ SubSeq(t, 1, Len(t)) = t
  BY SubSeqFull
<1> QED BY <1>1, <1>2, <1>3, <1>4 DEF Halved

\* Four bytes are read back as the number written.
LEMMA BE4Written ==
  ASSUME NEW v \in Nat, v < B4
  PROVE  /\ BE4(v) \in Seq(Nat) /\ Len(BE4(v)) = 4
         /\ Number4(BE4(v)) = v
<1>1. PICK q \in Nat, r \in Nat : q = v \div B2 /\ r = v % B2
  BY Digits, Squares DEF B4
<1>2. q < B2 /\ r < B2 /\ B2 * q + r = v
  BY <1>1, Digits, Squares DEF B4
<1>3. PICK s \in Seq(Nat), t \in Seq(Nat) : s = BE2(q) /\ t = BE2(r)
  BY <1>2, BE2Written
<1>4. Len(s) = 2 /\ Number2(s) = q /\ Len(t) = 2 /\ Number2(t) = r
  BY <1>2, <1>3, BE2Written
<1>5. BE4(v) = s \o t
  BY <1>1, <1>3 DEF BE4
<1>6. PICK c : c = s \o t
  OBVIOUS
<1>7. c \in Seq(Nat) /\ Len(c) = 4 /\ SubSeq(c, 1, 2) = s /\ SubSeq(c, 3, 4) = t
  <2>0. Len(s) > 0 /\ Len(t) > 0
    BY <1>4
  <2>1. Halved(c, s, t)
    BY <1>6, <2>0, Halves
  <2> QED BY <1>4, <2>1 DEF Halved
<1>8. Number4(c) = B2 * q + r
  BY <1>4, <1>7 DEF Number4
<1> QED BY <1>2, <1>5, <1>6, <1>7, <1>8

\* Eight bytes are read back as the number written.
LEMMA BE8Written ==
  ASSUME NEW v \in Nat, v < B8
  PROVE  /\ BE8(v) \in Seq(Nat) /\ Len(BE8(v)) = 8
         /\ Number8(BE8(v)) = v
<1>1. PICK q \in Nat, r \in Nat : q = v \div B4 /\ r = v % B4
  BY Digits, Squares DEF B8
<1>2. q < B4 /\ r < B4 /\ B4 * q + r = v
  BY <1>1, Digits, Squares DEF B8
<1>3. PICK s \in Seq(Nat), t \in Seq(Nat) : s = BE4(q) /\ t = BE4(r)
  BY <1>2, BE4Written
<1>4. Len(s) = 4 /\ Number4(s) = q /\ Len(t) = 4 /\ Number4(t) = r
  BY <1>2, <1>3, BE4Written
<1>5. BE8(v) = s \o t
  BY <1>1, <1>3 DEF BE8
<1>6. PICK c : c = s \o t
  OBVIOUS
<1>7. c \in Seq(Nat) /\ Len(c) = 8 /\ SubSeq(c, 1, 4) = s /\ SubSeq(c, 5, 8) = t
  <2>0. Len(s) > 0 /\ Len(t) > 0
    BY <1>4
  <2>1. Halved(c, s, t)
    BY <1>6, <2>0, Halves
  <2> QED BY <1>4, <2>1 DEF Halved
<1>8. Number8(c) = B4 * q + r
  BY <1>4, <1>7 DEF Number8
<1> QED BY <1>2, <1>5, <1>6, <1>7, <1>8

(* ------------------------- values are read back -------------------------- *)

IsBytes(b, value) == b.type \in Nat /\ b.data \in Seq(Nat) /\ decodeValue(b.type, b.data) = value

\* The bytes Fit fills up with.
LEMMA Zeros ==
  ASSUME NEW n \in Nat
  PROVE  [i \in 1..n |-> 0] \in Seq(Nat) /\ Len([i \in 1..n |-> 0]) = n
OBVIOUS

\* Of data that is long enough, Fit is the beginning.
LEMMA FitStart ==
  ASSUME NEW data \in Seq(Nat), NEW n \in Nat, n <= Len(data), n >= 1
  PROVE  Fit(data, n) = SubSeq(data, 1, n)
<1>1. PICK z \in Seq(Nat) : z = [i \in 1..n |-> 0]
  BY Zeros
<1>2. 1 \in 1..Len(data) /\ n \in 1..Len(data)
  BY LenProperties
<1>3. SubSeq(data \o z, 1, n) = SubSeq(data, 1, n)
  BY <1>2, SubSeqOfConcat1
<1> QED BY <1>1, <1>3 DEF Fit

\* Data of the right length is its own Fit.
LEMMA FitExact ==
  ASSUME NEW data \in Seq(Nat), NEW n \in Nat, Len(data) = n
  PROVE  Fit(data, n) = data
<1>1. CASE n >= 1
  <2>1. Fit(data, n) = SubSeq(data, 1, n)
    BY <1>1, FitStart
  <2>2. SubSeq(data, 1, Len(data)) = data
    BY SubSeqFull
  <2> QED BY <2>1, <2>2
<1>2. CASE n = 0
  <2>1. data = <<>>
    BY <1>2, EmptySeq
  <2>2. Fit(data, n) = <<>>
    BY <1>2, SubSeqEmpty DEF Fit
  <2> QED BY <2>1, <2>2
<1> QED BY <1>1, <1>2

\* No data of a custom type is the empty value.
LEMMA EmptyRead ==
  decodeValue(TypeCustom, <<>>) = Value("Empty", <<>>)
BY DEF decodeValue, TypeCustom, TypeUint8, TypeUint16, TypeUint32, TypeUint64, TypeString, TypeIpv4,
       TypeHash16

\* Data of a custom type is opaque bytes.
LEMMA BytesRead ==
  ASSUME NEW data, data # <<>>
  PROVE  decodeValue(TypeCustom, data) = Value("bytes", data)
BY DEF decodeValue, TypeCustom, TypeUint8, TypeUint16, TypeUint32, TypeUint64, TypeString, TypeIpv4,
       TypeHash16

\* The four integer types.
LEMMA NumbersRead ==
  ASSUME NEW data
  PROVE  /\ decodeValue(TypeUint8, data) = Value("int", Fit(data, 1))
         /\ decodeValue(TypeUint16, data) = Value("int", <<Number2(Fit(data, 2))>>)
         /\ decodeValue(TypeUint32, data) = Value("int", <<Number4(Fit(data, 4))>>)
         /\ decodeValue(TypeUint64, data) = Value("int", <<Number8(Fit(data, 8))>>)
BY DEF decodeValue, TypeCustom, TypeUint8, TypeUint16, TypeUint32, TypeUint64, TypeString, TypeIpv4,
       TypeHash16

\* Strings, hashes and addresses.
LEMMA OthersRead ==
  ASSUME NEW data
  PROVE  /\ decodeValue(TypeString, data) = Value("string", SubSeq(data, 1, Nul(data) - 1))
         /\ decodeValue(TypeHash16, data) = Value("hash", Fit(data, HashLen))
         /\ decodeValue(TypeIpv4, data) = Value("ipv4", Fit(data, 4) \o
              <<IF Len(data) >= 6 THEN Number2(SubSeq(data, 5, 6)) ELSE 0>>)
BY DEF decodeValue, TypeCustom, TypeUint8, TypeUint16, TypeUint32, TypeUint64, TypeString, TypeIpv4,
       TypeHash16

\* What IsBytes asks for.
LEMMA IsBytesIntro ==
  ASSUME NEW type, NEW data \in Seq(Nat), NEW value, type \in Nat, decodeValue(type, data) = value
  PROVE  IsBytes(Bytes(type, data), value)
BY DEF IsBytes, Bytes

\* An integer is read back, whichever of the four widths encodeInt takes.
LEMMA IntWritten ==
  ASSUME NEW v \in Nat, v < B8
  PROVE  IsBytes(encodeInt(v), Value("int", <<v>>))
<1>1. CASE v < Base
  <2>1. encodeInt(v) = Bytes(TypeUint8, <<v>>)
    BY <1>1, BE1Written DEF encodeInt
  <2>2. <<v>> \in Seq(Nat) /\ Len(<<v>>) = 1
    OBVIOUS
  <2>3. Fit(<<v>>, 1) = <<v>>
    BY <2>2, FitExact
  <2>4. decodeValue(TypeUint8, <<v>>) = Value("int", <<v>>)
    BY <2>2, <2>3, NumbersRead
  <2>5. TypeUint8 \in Nat
    BY DEF TypeUint8
  <2>6. IsBytes(Bytes(TypeUint8, <<v>>), Value("int", <<v>>))
    BY <2>2, <2>4, <2>5, IsBytesIntro
  <2> QED BY <2>1, <2>2, <2>6
<1>2. CASE ~(v < Base) /\ v < B2
  <2>1. encodeInt(v) = Bytes(TypeUint16, BE2(v))
    BY <1>2 DEF encodeInt
  <2>2. PICK d \in Seq(Nat) : d = BE2(v) /\ Len(d) = 2 /\ Number2(d) = v
    BY <1>2, BE2Written
  <2>3. Fit(d, 2) = d
    BY <2>2, FitExact
  <2>4. decodeValue(TypeUint16, d) = Value("int", <<v>>)
    BY <2>2, <2>3, NumbersRead
  <2>5. TypeUint16 \in Nat
    BY DEF TypeUint16
  <2>6. IsBytes(Bytes(TypeUint16, d), Value("int", <<v>>))
    BY <2>2, <2>4, <2>5, IsBytesIntro
  <2> QED BY <2>1, <2>2, <2>6
<1>3. CASE ~(v < Base) /\ ~(v < B2) /\ v < B4
  <2>1. encodeInt(v) = Bytes(TypeUint32, BE4(v))
    BY <1>3 DEF encodeInt
  <2>2. PICK d \in Seq(Nat) : d = BE4(v) /\ Len(d) = 4 /\ Number4(d) = v
    BY <1>3, BE4Written
  <2>3. Fit(d, 4) = d
    BY <2>2, FitExact
  <2>4. decodeValue(TypeUint32, d) = Value("int", <<v>>)
    BY <2>2, <2>3, NumbersRead
  <2>5. TypeUint32 \in Nat
    BY DEF TypeUint32
  <2>6. IsBytes(Bytes(TypeUint32, d), Value("int", <<v>>))
    BY <2>2, <2>4, <2>5, IsBytesIntro
  <2> QED BY <2>1, <2>2, <2>6
<1>4. CASE ~(v < Base) /\ ~(v < B2) /\ ~(v < B4)
  <2>1. encodeInt(v) = Bytes(TypeUint64, BE8(v))
    BY <1>4 DEF encodeInt
  <2>2. PICK d \in Seq(Nat) : d = BE8(v) /\ Len(d) = 8 /\ Number8(d) = v
    BY BE8Written
  <2>3. Fit(d, 8) = d
    BY <2>2, FitExact
  <2>4. decodeValue(TypeUint64, d) = Value("int", <<v>>)
    BY <2>2, <2>3, NumbersRead
  <2>5. TypeUint64 \in Nat
    BY DEF TypeUint64
  <2>6. IsBytes(Bytes(TypeUint64, d), Value("int", <<v>>))
    BY <2>2, <2>4, <2>5, IsBytesIntro
  <2> QED BY <2>1, <2>2, <2>6
<1> QED BY <1>1, <1>2, <1>3, <1>4

\* A string is read back: its terminator is its first NUL.
LEMMA StringWritten ==
  ASSUME NEW s \in Seq(1..Base-1)
  PROVE  IsBytes(Bytes(TypeString, Append(s, 0)), Value("string", s))
<1>1. s \in Seq(Nat) /\ \A i \in 1..Len(s) : s[i] # 0
  <2>1. 1..Base-1 \subseteq Nat
    BY BaseAssumption
  <2>2. \A i \in 1..Len(s) : s[i] \in 1..Base-1
    BY ElementOfSeq
  <2> QED BY <2>1, <2>2, SeqMonotonic
<1>2. PICK d \in Seq(Nat) : d = Append(s, 0)
  BY <1>1, AppendProperties
<1>3. /\ Len(d) = Len(s) + 1 /\ d[Len(s) + 1] = 0
      /\ \A i \in 1..Len(s) : d[i] = s[i]
  BY <1>1, <1>2, AppendProperties
<1>4. Len(s) \in Nat
  BY LenProperties
<1>5. Nul(d) = Len(s) + 1
  <2>1. PICK n : n = Len(s) + 1
    OBVIOUS
  <2>2. n \in 1..Len(d)+1 /\ d[n] = 0 /\ \A j \in 1..n-1 : d[j] # 0
    BY <1>1, <1>3, <1>4, <2>1
  <2>3. ASSUME NEW i \in 1..Len(d)+1, i = Len(d) + 1 \/ d[i] = 0, \A j \in 1..i-1 : d[j] # 0
        PROVE  i = n
    <3>1. ~(n < i)
      BY <2>2, <2>3, <1>4, <2>1
    <3>2. ~(i < n)
      BY <2>2, <2>3, <1>3, <1>4, <2>1
    <3> QED BY <3>1, <3>2, <1>4, <2>1, <1>3
  <2> QED BY <2>1, <2>2, <2>3 DEF Nul
<1>6. SubSeq(d, 1, Len(s)) = s
  <2>0. <<0>> \in Seq(Nat)
    OBVIOUS
  <2>1. PICK z \in Seq(Nat) : z = <<0>>
    BY <2>0
  <2>2. d = s \o z
    BY <1>1, <1>2, <2>1, AppendIsConcat
  <2>3. CASE s = <<>>
    <3>1. Len(s) = 0
      BY <2>3
    <3> QED BY <2>3, <3>1, SubSeqEmpty
  <2>4. CASE s # <<>>
    <3>1. Len(s) > 0 /\ Len(z) > 0
      BY <2>1, <2>4, <1>1, EmptySeq
    <3>2. Halved(d, s, z)
      BY <1>1, <2>2, <3>1, Halves
    <3> QED BY <3>2 DEF Halved
  <2> QED BY <2>3, <2>4
<1>7. Nul(d) - 1 = Len(s)
  BY <1>4, <1>5
<1> QED BY <1>2, <1>6, <1>7, OthersRead DEF IsBytes, Bytes, TypeString

\* A hash is read back.
LEMMA HashWritten ==
  ASSUME NEW d \in Seq(0..Base-1), Len(d) = HashLen
  PROVE  IsBytes(Bytes(TypeHash16, d), Value("hash", d))
<1>1. d \in Seq(Nat)
  <2>1. 0..Base-1 \subseteq Nat
    BY BaseAssumption
  <2> QED BY <2>1, SeqMonotonic
<1>2. Fit(d, HashLen) = d
  BY <1>1, FitExact, BaseAssumption
<1>3. decodeValue(TypeHash16, d) = Value("hash", d)
  BY <1>2, OthersRead
<1>4. TypeHash16 \in Nat
  BY DEF TypeHash16
<1> QED BY <1>1, <1>3, <1>4, IsBytesIntro

\* An address is read back, the port included.
LEMMA AddressWritten ==
  ASSUME NEW d \in Seq(0..B2-1), Len(d) = 5
  PROVE  IsBytes(Bytes(TypeIpv4, SubSeq(d, 1, 4) \o BE2(d[5])), Value("ipv4", d))
<1>1. d \in Seq(Nat) /\ d[5] \in Nat /\ d[5] < B2
  <2>1. 0..B2-1 \subseteq Nat
    BY Squares
  <2>2. d[5] \in 0..B2-1
    <3>1. 5 \in 1..Len(d)
      OBVIOUS
    <3> QED BY <3>1, ElementOfSeq
  <2> QED BY <2>1, <2>2, SeqMonotonic, Squares
<1>2. PICK port \in Nat : port = d[5] /\ port < B2
  BY <1>1
<1>3. PICK s \in Seq(Nat) : s = BE2(port) /\ Len(s) = 2 /\ Number2(s) = port
  BY <1>2, BE2Written
<1>4. /\ SubSeq(d, 1, 4) \in Seq(Nat) /\ Len(SubSeq(d, 1, 4)) = 4
      /\ \A i \in 1..4 : SubSeq(d, 1, 4)[i] = d[i]
  <2>1. \A i \in 1..4 : d[i] \in Nat
    <3> TAKE i \in 1..4
    <3>1. i \in 1..Len(d)
      OBVIOUS
    <3> QED BY <1>1, <3>1, ElementOfSeq
  <2>2. /\ SubSeq(d, 1, 4) \in Seq(Nat)
        /\ Len(SubSeq(d, 1, 4)) = IF 1 <= 4 THEN 4 - 1 + 1 ELSE 0
        /\ \A i \in 1..4-1+1 : SubSeq(d, 1, 4)[i] = d[1 + i - 1]
    BY <2>1, SubSeqProperties
  <2> QED BY <2>2
<1>5. PICK ip \in Seq(Nat) : ip = SubSeq(d, 1, 4)
  BY <1>4
<1>6. Len(ip) = 4 /\ \A i \in 1..4 : ip[i] = d[i]
  BY <1>4, <1>5
<1>7. PICK data : data = ip \o s
  OBVIOUS
<1>8. Halved(data, ip, s)
  <2>1. Len(ip) > 0 /\ Len(s) > 0
    BY <1>3, <1>6
  <2> QED BY <1>7, <2>1, Halves
<1>9. data \in Seq(Nat) /\ Len(data) = 6 /\ SubSeq(data, 1, 4) = ip /\ SubSeq(data, 5, 6) = s
  BY <1>3, <1>6, <1>8 DEF Halved
<1>10. Fit(data, 4) = ip
  <2>1. Fit(data, 4) = SubSeq(data, 1, 4)
    <3>1. 4 \in Nat /\ 4 <= Len(data) /\ 4 >= 1
      BY <1>9
    <3> QED BY <1>9, <3>1, FitStart
  <2> QED BY <2>1, <1>9
<1>11. ip \o <<port>> = d
  <2>1. ip \o <<port>> = Append(ip, port)
    BY AppendIsConcat
  <2>2. PICK e : e = Append(ip, port)
    OBVIOUS
  <2>3. /\ e \in Seq(Nat) /\ Len(e) = Len(ip) + 1
        /\ \A i \in 1..Len(ip) : e[i] = ip[i]
        /\ e[Len(ip) + 1] = port
    BY <2>2, AppendProperties
  <2>4. Len(e) = 5 /\ e[5] = port /\ \A i \in 1..4 : e[i] = ip[i]
    BY <2>3, <1>6
  <2>5. \A i \in 1..5 : e[i] = d[i]
    <3> TAKE i \in 1..5
    <3>1. CASE i <= 4
      BY <3>1, <2>4, <1>6
    <3>2. CASE i = 5
      BY <3>2, <2>4, <1>2
    <3> QED BY <3>1, <3>2
  <2>6. e = d
    BY <1>1, <2>3, <2>4, <2>5, SeqEqual
  <2> QED BY <2>1, <2>2, <2>6
<1>12. decodeValue(TypeIpv4, data) = Value("ipv4", d)
  <2>1. (IF Len(data) >= 6 THEN Number2(SubSeq(data, 5, 6)) ELSE 0) = port
    <3>1. Len(data) >= 6
      BY <1>9
    <3> QED BY <1>3, <1>9, <3>1
  <2>2. decodeValue(TypeIpv4, data) = Value("ipv4", Fit(data, 4) \o
              <<IF Len(data) >= 6 THEN Number2(SubSeq(data, 5, 6)) ELSE 0>>)
    BY OthersRead
  <2> QED BY <2>1, <2>2, <1>10, <1>11
<1>13. TypeIpv4 \in Nat
  BY DEF TypeIpv4
<1>14. data = SubSeq(d, 1, 4) \o BE2(d[5])
  BY <1>2, <1>3, <1>5, <1>7
<1> QED BY <1>9, <1>12, <1>13, <1>14, IsBytesIntro

\* Every value a tag can carry is read back from its type and its bytes.
LEMMA ValueWritten ==
  ASSUME NEW value \in Values
  PROVE  IsBytes(encodeValue(value), value)
<1>1. CASE value \in [kind : {"Empty"}, data : {<<>>}]
  <2>1. value = Value("Empty", <<>>) /\ value.kind = "Empty"
    BY <1>1 DEF Value
  <2>2. encodeValue(value) = Bytes(TypeCustom, <<>>)
    BY <2>1 DEF encodeValue
  <2>3. decodeValue(TypeCustom, <<>>) = value
    BY <2>1, EmptyRead
  <2>4. <<>> \in Seq(Nat) /\ TypeCustom \in Nat
    BY DEF TypeCustom
  <2> QED BY <2>2, <2>3, <2>4, IsBytesIntro
<1>2. CASE value \in [kind : {"bytes"}, data : Seq(0..Base-1) \ {<<>>}]
  <2>1. value = Value("bytes", value.data) /\ value.kind = "bytes"
    BY <1>2 DEF Value
  <2>2. encodeValue(value) = Bytes(TypeCustom, value.data)
    BY <2>1 DEF encodeValue
  <2>3. decodeValue(TypeCustom, value.data) = value
    BY <1>2, <2>1, BytesRead
  <2>4. value.data \in Seq(Nat) /\ TypeCustom \in Nat
    <3>1. value.data \in Seq(0..Base-1)
      BY <1>2
    <3>2. 0..Base-1 \subseteq Nat
      BY BaseAssumption
    <3> QED BY <3>1, <3>2, SeqMonotonic DEF TypeCustom
  <2> QED BY <2>2, <2>3, <2>4, IsBytesIntro
<1>3. CASE value \in [kind : {"int"}, data : {d \in Seq(0..B8-1) : Len(d) = 1}]
  <2>1. value = Value("int", value.data) /\ value.kind = "int"
    BY <1>3 DEF Value
  <2>2. PICK d \in Seq(0..B8-1) : d = value.data /\ Len(d) = 1
    BY <1>3
  <2>3. d[1] \in 0..B8-1
    <3>1. 1 \in 1..Len(d)
      BY <2>2
    <3> QED BY <3>1, ElementOfSeq
  <2>4. PICK v \in Nat : v = d[1] /\ v < B8
    BY <2>3, Squares
  <2>5. d = <<v>>
    BY <2>2, <2>4
  <2>6. encodeValue(value) = encodeInt(v)
    BY <2>1, <2>2, <2>4 DEF encodeValue
  <2>7. IsBytes(encodeInt(v), Value("int", <<v>>))
    BY <2>4, IntWritten
  <2> QED BY <2>1, <2>2, <2>5, <2>6, <2>7
<1>4. CASE value \in [kind : {"string"}, data : Seq(1..Base-1)]
  <2>1. value = Value("string", value.data) /\ value.kind = "string"
    BY <1>4 DEF Value
  <2>2. encodeValue(value) = Bytes(TypeString, Append(value.data, 0))
    BY <2>1 DEF encodeValue
  <2>3. PICK s \in Seq(1..Base-1) : s = value.data
    BY <1>4
  <2>4. IsBytes(Bytes(TypeString, Append(s, 0)), Value("string", s))
    BY StringWritten
  <2> QED BY <2>1, <2>2, <2>3, <2>4
<1>5. CASE value \in [kind : {"hash"}, data : {d \in Seq(0..Base-1) : Len(d) = HashLen}]
  <2>1. value = Value("hash", value.data) /\ value.kind = "hash"
    BY <1>5 DEF Value
  <2>2. encodeValue(value) = Bytes(TypeHash16, value.data)
    BY <2>1 DEF encodeValue
  <2>3. PICK d \in Seq(0..Base-1) : d = value.data /\ Len(d) = HashLen
    BY <1>5
  <2>4. IsBytes(Bytes(TypeHash16, d), Value("hash", d))
    BY <2>3, HashWritten
  <2> QED BY <2>1, <2>2, <2>3, <2>4
<1>6. CASE value \in [kind : {"ipv4"},
          data : {d \in Seq(0..B2-1) : Len(d) = 5 /\ \A i \in 1..4 : d[i] < Base}]
  <2>1. value = Value("ipv4", value.data) /\ value.kind = "ipv4"
    BY <1>6 DEF Value
  <2>2. encodeValue(value) = Bytes(TypeIpv4, SubSeq(value.data, 1, 4) \o BE2(value.data[5]))
    BY <2>1 DEF encodeValue
  <2>3. PICK d \in Seq(0..B2-1) : d = value.data /\ Len(d) = 5
    BY <1>6
  <2>4. IsBytes(Bytes(TypeIpv4, SubSeq(d, 1, 4) \o BE2(d[5])), Value("ipv4", d))
    BY <2>3, AddressWritten
  <2> QED BY <2>1, <2>2, <2>3, <2>4
<1> QED BY <1>1, <1>2, <1>3, <1>4, <1>5, <1>6 DEF Values

(* ---------------- the recursive functions of the encoder ----------------- *)

\* The sum of a sequence exists and is a number.
LEMMA SumRecursion ==
  /\ Sum \in [Seq(Nat) -> Nat]
  /\ \A ns \in Seq(Nat) : Sum[ns] = IF ns = <<>> THEN 0 ELSE Head(ns) + Sum[Tail(ns)]
<1>0. PICK S : S = Seq(Nat)
  OBVIOUS
<1>1. PICK m : m = [ns \in S |-> Len(ns)]
  OBVIOUS
<1>2. m \in [S -> Nat]
  BY <1>0, <1>1, LenProperties
<1>3. PICK G : G = [ns \in S |-> [f \in [S -> Nat] |->
                     IF ns = <<>> THEN 0 ELSE Head(ns) + f[Tail(ns)]]]
  OBVIOUS
<1>4. ASSUME NEW ns \in S, ns # <<>>
      PROVE  Head(ns) \in Nat /\ Tail(ns) \in S /\ m[Tail(ns)] < m[ns]
  BY <1>0, <1>1, <1>4, HeadTailProperties, LenProperties
<1>5. G \in [S -> [[S -> Nat] -> Nat]]
  <2>1. ASSUME NEW ns \in S, NEW f \in [S -> Nat]
        PROVE  (IF ns = <<>> THEN 0 ELSE Head(ns) + f[Tail(ns)]) \in Nat
    <3>1. CASE ns = <<>>
      BY <3>1
    <3>2. CASE ns # <<>>
      BY <3>2, <1>4
    <3> QED BY <3>1, <3>2
  <2> QED BY <2>1, <1>3
<1>6. Local(G, S, Nat, m)
  BY <1>3, <1>4 DEF Local, Alike
<1>7. PICK f \in [S -> Nat] : \A ns \in S : f[ns] = G[ns][f]
  <2>1. Recursive(S, Nat, m, G)
    BY <1>2, <1>5, <1>6 DEF Recursive
  <2> QED BY <2>1, Recursion
<1>8. f = [ns \in S |-> IF ns = <<>> THEN 0 ELSE Head(ns) + f[Tail(ns)]]
  BY <1>3, <1>7
<1>9. Sum = [ns \in S |-> IF ns = <<>> THEN 0 ELSE Head(ns) + Sum[Tail(ns)]]
  BY <1>0, <1>8 DEF Sum
<1>10. \A ns \in S : Sum[ns] = IF ns = <<>> THEN 0 ELSE Head(ns) + Sum[Tail(ns)]
  BY <1>9
<1>11. S \subseteq {ns \in S : Sum[ns] \in Nat}
  <2> DEFINE T == {ns \in S : Sum[ns] \in Nat}
  <2>1. ASSUME NEW ns \in S, \A t \in S : m[t] < m[ns] => t \in T PROVE ns \in T
    <3>1. CASE ns = <<>>
      BY <3>1, <1>10
    <3>2. CASE ns # <<>>
      BY <3>2, <1>4, <1>10, <2>1
    <3> QED BY <3>1, <3>2
  <2> HIDE DEF T
  <2>2. S \subseteq T
    BY <2>1, <1>2, MeasureInduction
  <2> QED BY <2>2 DEF T
<1> QED BY <1>0, <1>9, <1>10, <1>11

\* The concatenation of a sequence of byte strings exists.
LEMMA FlatRecursion ==
  /\ Flat \in [Seq(Seq(Nat)) -> Seq(Nat)]
  /\ \A ss \in Seq(Seq(Nat)) :
       Flat[ss] = IF ss = <<>> THEN <<>> ELSE Head(ss) \o Flat[Tail(ss)]
<1>0. PICK S, V : S = Seq(Seq(Nat)) /\ V = Seq(Nat)
  OBVIOUS
<1>1. PICK m : m = [ss \in S |-> Len(ss)]
  OBVIOUS
<1>2. m \in [S -> Nat]
  BY <1>0, <1>1, LenProperties
<1>3. PICK G : G = [ss \in S |-> [f \in [S -> V] |->
                     IF ss = <<>> THEN <<>> ELSE Head(ss) \o f[Tail(ss)]]]
  OBVIOUS
<1>4. ASSUME NEW ss \in S, ss # <<>>
      PROVE  Head(ss) \in V /\ Tail(ss) \in S /\ m[Tail(ss)] < m[ss]
  BY <1>0, <1>1, <1>4, HeadTailProperties, LenProperties
<1>5. <<>> \in V /\ \A a, b \in V : a \o b \in V
  BY <1>0, ConcatProperties
<1>6. G \in [S -> [[S -> V] -> V]]
  <2>1. ASSUME NEW ss \in S, NEW f \in [S -> V]
        PROVE  (IF ss = <<>> THEN <<>> ELSE Head(ss) \o f[Tail(ss)]) \in V
    <3>1. CASE ss = <<>>
      BY <3>1, <1>5
    <3>2. CASE ss # <<>>
      BY <3>2, <1>4, <1>5
    <3> QED BY <3>1, <3>2
  <2> QED BY <2>1, <1>3
<1>7. Local(G, S, V, m)
  BY <1>3, <1>4 DEF Local, Alike
<1>8. PICK f \in [S -> V] : \A ss \in S : f[ss] = G[ss][f]
  <2>1. Recursive(S, V, m, G)
    BY <1>2, <1>5, <1>6, <1>7 DEF Recursive
  <2> QED BY <2>1, Recursion
<1>9. f = [ss \in S |-> IF ss = <<>> THEN <<>> ELSE Head(ss) \o f[Tail(ss)]]
  BY <1>3, <1>8
<1>10. Flat = [ss \in S |-> IF ss = <<>> THEN <<>> ELSE Head(ss) \o Flat[Tail(ss)]]
  BY <1>0, <1>9 DEF Flat
<1>11. \A ss \in S : Flat[ss] = IF ss = <<>> THEN <<>> ELSE Head(ss) \o Flat[Tail(ss)]
  BY <1>10
<1>12. S \subseteq {ss \in S : Flat[ss] \in V}
  <2> DEFINE T == {ss \in S : Flat[ss] \in V}
  <2>1. ASSUME NEW ss \in S, \A t \in S : m[t] < m[ss] => t \in T PROVE ss \in T
    <3>1. CASE ss = <<>>
      BY <3>1, <1>5, <1>11
    <3>2. CASE ss # <<>>
      BY <3>2, <1>4, <1>5, <1>11, <2>1
    <3> QED BY <3>1, <3>2
  <2> HIDE DEF T
  <2>2. S \subseteq T
    BY <2>1, <1>2, MeasureInduction
  <2> QED BY <2>2 DEF T
<1> QED BY <1>0, <1>10, <1>11, <1>12

\* What TagsAssumption says of one tag.
LEMMA TagParts ==
  ASSUME NEW tag \in Tags
  PROVE  /\ tag = [name |-> tag.name, value |-> tag.value, children |-> tag.children]
         /\ tag.name \in Nat /\ tag.value \in Values /\ tag.children \in Seq(Tags)
         /\ 2 * tag.name + 1 < B2 /\ Len(tag.children) < B2
         /\ encodeValue(tag.value).type \in Nat /\ encodeValue(tag.value).data \in Seq(Nat)
<1>1. tag \in [name : Nat, value : Values, children : Seq(Tags)]
  BY TagsAssumption
<1> QED BY <1>1, TagsAssumption, ValueWritten DEF IsBytes

\* A child is a tag, and nests less deep.
LEMMA Children ==
  ASSUME NEW tag \in Tags, NEW i \in DOMAIN tag.children
  PROVE  tag.children[i] \in Tags /\ Nesting[tag.children[i]] < Nesting[tag]
<1>1. tag.children \in Seq(Tags)
  BY TagParts
<1>2. i \in 1..Len(tag.children)
  BY <1>1, LenProperties
<1> QED BY <1>1, <1>2, ElementOfSeq, NestingAssumption

\* The measure of the recursions over trees.
LEMMA NestingType == Nesting \in [Tags -> Nat]
BY NestingAssumption

\* What each child adds to the length field of its parent.
Charges(tag, len) == [i \in DOMAIN tag.children |-> charged(tag.children[i], len[tag.children[i]])]

\* What the children are charged is a sequence of numbers.
LEMMA ChargesType ==
  ASSUME NEW tag \in Tags, NEW len,
         \A i \in DOMAIN tag.children : len[tag.children[i]] \in Nat
  PROVE  Charges(tag, len) \in Seq(Nat) /\ Len(Charges(tag, len)) = Len(tag.children)
<1>1. tag.children \in Seq(Tags)
  BY TagParts
<1>2. PICK n \in Nat : n = Len(tag.children) /\ DOMAIN tag.children = 1..n
  BY <1>1, LenProperties
<1>3. PICK e : e = [i \in 1..n |-> charged(tag.children[i], len[tag.children[i]])]
  OBVIOUS
<1>4. \A i \in 1..n : e[i] \in Nat
  BY <1>2, <1>3 DEF charged
<1>5. e \in Seq(Nat) /\ Len(e) = n
  BY <1>3, <1>4
<1> QED BY <1>2, <1>3, <1>5 DEF Charges

\* tagLen exists: the length of a tag needs those of its children only.
LEMMA TagLenRecursion ==
  /\ tagLen \in [Tags -> Nat]
  /\ \A tag \in Tags :
       tagLen[tag] = Len(encodeValue(tag.value).data) + Sum[Charges(tag, tagLen)]
<1>1. PICK G : G = [tag \in Tags |-> [f \in [Tags -> Nat] |->
                     Len(encodeValue(tag.value).data) + Sum[Charges(tag, f)]]]
  OBVIOUS
<1>2. ASSUME NEW tag \in Tags, NEW f,
             \A i \in DOMAIN tag.children : f[tag.children[i]] \in Nat
      PROVE  Len(encodeValue(tag.value).data) + Sum[Charges(tag, f)] \in Nat
  <2>1. Charges(tag, f) \in Seq(Nat)
    BY <1>2, ChargesType
  <2>2. Sum[Charges(tag, f)] \in Nat
    BY <2>1, SumRecursion
  <2>3. Len(encodeValue(tag.value).data) \in Nat
    BY TagParts, LenProperties
  <2> QED BY <2>2, <2>3
<1>3. G \in [Tags -> [[Tags -> Nat] -> Nat]]
  <2>1. ASSUME NEW tag \in Tags, NEW f \in [Tags -> Nat]
        PROVE  Len(encodeValue(tag.value).data) + Sum[Charges(tag, f)] \in Nat
    <3>1. \A i \in DOMAIN tag.children : f[tag.children[i]] \in Nat
      BY Children
    <3> QED BY <3>1, <1>2
  <2> QED BY <2>1, <1>1
<1>4. Local(G, Tags, Nat, Nesting)
  <2> SUFFICES ASSUME NEW tag \in Tags, NEW f \in [Tags -> Nat], NEW g \in [Tags -> Nat],
                      Alike(f, g, Tags, Nesting, Nesting[tag])
               PROVE  G[tag][f] = G[tag][g]
    BY DEF Local
  <2>1. \A i \in DOMAIN tag.children : f[tag.children[i]] = g[tag.children[i]]
    BY Children DEF Alike
  <2>2. Charges(tag, f) = Charges(tag, g)
    BY <2>1 DEF Charges
  <2> QED BY <2>2, <1>1
<1>5. PICK f \in [Tags -> Nat] : \A tag \in Tags : f[tag] = G[tag][f]
  <2>1. Recursive(Tags, Nat, Nesting, G)
    BY <1>3, <1>4, NestingType DEF Recursive
  <2> QED BY <2>1, Recursion
<1>6. f = [tag \in Tags |-> Len(encodeValue(tag.value).data) + Sum[Charges(tag, f)]]
  BY <1>1, <1>5
<1>7. tagLen = [tag \in Tags |-> Len(encodeValue(tag.value).data) + Sum[Charges(tag, tagLen)]]
  BY <1>6 DEF tagLen, Charges
<1>8. \A tag \in Tags :
        tagLen[tag] = Len(encodeValue(tag.value).data) + Sum[Charges(tag, tagLen)]
  BY <1>7
<1>9. Tags \subseteq {tag \in Tags : tagLen[tag] \in Nat}
  <2> DEFINE T == {tag \in Tags : tagLen[tag] \in Nat}
  <2>1. ASSUME NEW tag \in Tags, \A t \in Tags : Nesting[t] < Nesting[tag] => t \in T
        PROVE  tag \in T
    <3>1. \A i \in DOMAIN tag.children : tagLen[tag.children[i]] \in Nat
      BY <2>1, Children
    <3> QED BY <3>1, <1>2, <1>8
  <2> HIDE DEF T
  <2>2. Tags \subseteq T
    BY <2>1, NestingType, MeasureInduction
  <2> QED BY <2>2 DEF T
<1> QED BY <1>7, <1>8, <1>9

HasChildren(tag) == IF tag.children # <<>> THEN 1 ELSE 0

\* The seven bytes every tag begins with, the count, and the tags in sequence as w writes them.
Headed(tag) ==
  BE2(2 * tag.name + HasChildren(tag)) \o <<encodeValue(tag.value).type>> \o BE4(tagLen[tag])
Counted(tag) == IF tag.children # <<>> THEN BE2(Len(tag.children)) ELSE <<>>
Written(tags, w) == Flat[[i \in DOMAIN tags |-> w[tags[i]]]]
Nested(tag, w) ==
  IF tag.children # <<>> THEN BE2(Len(tag.children)) \o Written(tag.children, w) ELSE <<>>

\* The header and the count of a tag are bytes.
LEMMA HeadedType ==
  ASSUME NEW tag \in Tags
  PROVE  Headed(tag) \in Seq(Nat) /\ Len(Headed(tag)) = 7
<1>1. PICK a \in Seq(Nat) : a = BE2(2 * tag.name + HasChildren(tag)) /\ Len(a) = 2
  <2>1. PICK n \in Nat : n = 2 * tag.name + HasChildren(tag) /\ n < B2
    BY TagParts, Squares DEF HasChildren
  <2> QED BY <2>1, BE2Written
<1>2. PICK type \in Nat : type = encodeValue(tag.value).type
  BY TagParts
<1>3. <<type>> \in Seq(Nat) /\ Len(<<type>>) = 1
  OBVIOUS
<1>4. PICK b \in Seq(Nat) : b = <<type>> /\ Len(b) = 1
  BY <1>3
<1>5. PICK c \in Seq(Nat) : c = BE4(tagLen[tag]) /\ Len(c) = 4
  BY TagLenRecursion, LengthsAssumption, BE4Written
<1>6. PICK ab \in Seq(Nat) : ab = a \o b /\ Len(ab) = 3
  <2>1. a \o b \in Seq(Nat) /\ Len(a \o b) = Len(a) + Len(b)
    BY ConcatProperties
  <2>2. Len(a) = 2 /\ Len(b) = 1
    BY <1>1, <1>4
  <2>3. Len(a \o b) = 3
    BY <2>1, <2>2
  <2> QED BY <2>1, <2>3
<1>7. ab \o c \in Seq(Nat) /\ Len(ab \o c) = 7
  <2>1. ab \o c \in Seq(Nat) /\ Len(ab \o c) = Len(ab) + Len(c)
    BY ConcatProperties
  <2> QED BY <2>1, <1>5, <1>6
<1> QED BY <1>1, <1>2, <1>4, <1>5, <1>6, <1>7 DEF Headed

\* A list of tags is written as bytes if each of them is.
LEMMA WritesType ==
  ASSUME NEW tags \in Seq(Tags), NEW w, \A i \in DOMAIN tags : w[tags[i]] \in Seq(Nat)
  PROVE  /\ [i \in DOMAIN tags |-> w[tags[i]]] \in Seq(Seq(Nat))
         /\ Len([i \in DOMAIN tags |-> w[tags[i]]]) = Len(tags)
         /\ Written(tags, w) \in Seq(Nat)
<1>1. PICK n \in Nat : n = Len(tags) /\ DOMAIN tags = 1..n
  BY LenProperties
<1>2. PICK V : V = Seq(Nat)
  OBVIOUS
<1>3. PICK e : e = [i \in 1..n |-> w[tags[i]]]
  OBVIOUS
<1>4. \A i \in 1..n : e[i] \in V
  BY <1>1, <1>2, <1>3
<1>5. e \in Seq(V) /\ Len(e) = n
  BY <1>3, <1>4
<1>6. Flat[e] \in Seq(Nat)
  BY <1>2, <1>5, FlatRecursion
<1> QED BY <1>1, <1>2, <1>3, <1>5, <1>6 DEF Written

\* So is what is between the header and the data.
LEMMA NestedType ==
  ASSUME NEW tag \in Tags, NEW w, \A i \in DOMAIN tag.children : w[tag.children[i]] \in Seq(Nat)
  PROVE  Nested(tag, w) \in Seq(Nat)
<1>1. CASE tag.children # <<>>
  <2>1. Written(tag.children, w) \in Seq(Nat)
    BY TagParts, WritesType
  <2>2. BE2(Len(tag.children)) \in Seq(Nat)
    BY TagParts, LenProperties, BE2Written
  <2> QED BY <1>1, <2>1, <2>2, ConcatProperties DEF Nested
<1>2. CASE tag.children = <<>>
  BY <1>2 DEF Nested
<1> QED BY <1>1, <1>2

\* writeTag exists: the bytes of a tag need those of its children only.
LEMMA WriteTagRecursion ==
  /\ writeTag \in [Tags -> Seq(Nat)]
  /\ \A tag \in Tags :
       writeTag[tag] = Headed(tag) \o Nested(tag, writeTag) \o encodeValue(tag.value).data
<1>0. PICK V : V = Seq(Nat)
  OBVIOUS
<1>1. PICK G : G = [tag \in Tags |-> [f \in [Tags -> V] |->
                     Headed(tag) \o Nested(tag, f) \o encodeValue(tag.value).data]]
  OBVIOUS
<1>2. ASSUME NEW tag \in Tags, NEW f, \A i \in DOMAIN tag.children : f[tag.children[i]] \in V
      PROVE  Headed(tag) \o Nested(tag, f) \o encodeValue(tag.value).data \in V
  <2>1. Headed(tag) \in Seq(Nat) /\ encodeValue(tag.value).data \in Seq(Nat)
    BY HeadedType, TagParts
  <2>2. Nested(tag, f) \in Seq(Nat)
    BY <1>0, <1>2, NestedType
  <2>3. PICK a \in Seq(Nat) : a = Headed(tag) \o Nested(tag, f)
    BY <2>1, <2>2, ConcatProperties
  <2> QED BY <1>0, <2>1, <2>3, ConcatProperties
<1>3. G \in [Tags -> [[Tags -> V] -> V]]
  <2>1. ASSUME NEW tag \in Tags, NEW f \in [Tags -> V]
        PROVE  Headed(tag) \o Nested(tag, f) \o encodeValue(tag.value).data \in V
    <3>1. \A i \in DOMAIN tag.children : f[tag.children[i]] \in V
      BY Children
    <3> QED BY <3>1, <1>2
  <2> QED BY <2>1, <1>1
<1>4. Local(G, Tags, V, Nesting)
  <2> SUFFICES ASSUME NEW tag \in Tags, NEW f \in [Tags -> V], NEW g \in [Tags -> V],
                      Alike(f, g, Tags, Nesting, Nesting[tag])
               PROVE  G[tag][f] = G[tag][g]
    BY DEF Local
  <2>1. \A i \in DOMAIN tag.children : f[tag.children[i]] = g[tag.children[i]]
    BY Children DEF Alike
  <2>2. Nested(tag, f) = Nested(tag, g)
    BY <2>1 DEF Nested, Written
  <2> QED BY <2>2, <1>1
<1>5. PICK f \in [Tags -> V] : \A tag \in Tags : f[tag] = G[tag][f]
  <2>0. V # {}
    BY <1>0, EmptySeq
  <2>1. Recursive(Tags, V, Nesting, G)
    BY <2>0, <1>3, <1>4, NestingType DEF Recursive
  <2> QED BY <2>1, Recursion
<1>6. f = [tag \in Tags |-> Headed(tag) \o Nested(tag, f) \o encodeValue(tag.value).data]
  BY <1>1, <1>5
<1>7. writeTag =
        [tag \in Tags |-> Headed(tag) \o Nested(tag, writeTag) \o encodeValue(tag.value).data]
  BY <1>6 DEF writeTag, Headed, Nested, Written, HasChildren
<1>8. \A tag \in Tags :
        writeTag[tag] = Headed(tag) \o Nested(tag, writeTag) \o encodeValue(tag.value).data
  BY <1>7
<1>9. Tags \subseteq {tag \in Tags : writeTag[tag] \in V}
  <2> DEFINE T == {tag \in Tags : writeTag[tag] \in V}
  <2>1. ASSUME NEW tag \in Tags, \A t \in Tags : Nesting[t] < Nesting[tag] => t \in T
        PROVE  tag \in T
    <3>1. \A i \in DOMAIN tag.children : writeTag[tag.children[i]] \in V
      BY <2>1, Children
    <3> QED BY <3>1, <1>2, <1>8
  <2> HIDE DEF T
  <2>2. Tags \subseteq T
    BY <2>1, NestingType, MeasureInduction
  <2> QED BY <2>2 DEF T
<1> QED BY <1>0, <1>7, <1>8, <1>9

(* ----------------------------- lists of tags ----------------------------- *)

Mapped(f, s) == [i \in DOMAIN s |-> f[s[i]]]

\* A function applied to each element of a sequence.
LEMMA MappedType ==
  ASSUME NEW S, NEW V, NEW s \in Seq(S), NEW f \in [S -> V]
  PROVE  /\ Mapped(f, s) \in Seq(V) /\ Len(Mapped(f, s)) = Len(s)
         /\ \A i \in 1..Len(s) : Mapped(f, s)[i] = f[s[i]]
<1>1. PICK n \in Nat : n = Len(s) /\ DOMAIN s = 1..n
  BY LenProperties
<1>2. PICK e : e = [i \in 1..n |-> f[s[i]]]
  OBVIOUS
<1>3. \A i \in 1..n : s[i] \in S
  BY <1>1, ElementOfSeq
<1>4. \A i \in 1..n : e[i] \in V
  BY <1>2, <1>3
<1>5. e \in Seq(V) /\ Len(e) = n
  BY <1>2, <1>4
<1> QED BY <1>1, <1>2, <1>5 DEF Mapped

Maps(f, S, V) == f \in [S -> V]

Unrolls(f, s) ==
  /\ Mapped(f, s) # <<>> /\ Head(Mapped(f, s)) = f[Head(s)]
  /\ Tail(Mapped(f, s)) = Mapped(f, Tail(s))

\* The tail of what was mapped is the tail, mapped.
LEMMA MappedTail ==
  ASSUME NEW S, NEW V, NEW s \in Seq(S), NEW f, Maps(f, S, V), s # <<>>
  PROVE  Unrolls(f, s)
<1>0. f \in [S -> V]
  BY DEF Maps
<1>1. /\ Head(s) \in S /\ Tail(s) \in Seq(S) /\ Len(Tail(s)) = Len(s) - 1
      /\ \A i \in 1..Len(Tail(s)) : Tail(s)[i] = s[i + 1]
  BY HeadTailProperties
<1>2. Len(s) \in Nat /\ Len(s) > 0 /\ Head(s) = s[1]
  BY EmptySeq, LenProperties
<1>3. PICK e \in Seq(V) : e = Mapped(f, s)
  BY <1>0, MappedType
<1>4. Len(e) = Len(s) /\ \A i \in 1..Len(s) : e[i] = f[s[i]]
  BY <1>0, <1>3, MappedType
<1>5. e # <<>>
  <2>1. Len(e) # 0
    BY <1>2, <1>4
  <2> QED BY <2>1
<1>6. Head(e) = f[Head(s)]
  <2>1. Head(e) = e[1]
    OBVIOUS
  <2>2. 1 \in 1..Len(s)
    BY <1>2
  <2> QED BY <2>1, <2>2, <1>2, <1>4
<1>7. /\ Tail(e) \in Seq(V) /\ Len(Tail(e)) = Len(e) - 1
      /\ \A i \in 1..Len(Tail(e)) : Tail(e)[i] = e[i + 1]
  BY <1>5, HeadTailProperties
<1>8. PICK t \in Seq(S) : t = Tail(s)
  BY <1>1
<1>9. PICK d \in Seq(V) : d = Mapped(f, t)
  BY <1>0, MappedType
<1>10. Len(d) = Len(t) /\ \A i \in 1..Len(t) : d[i] = f[t[i]]
  BY <1>0, <1>9, MappedType
<1>11. PICK u \in Seq(V) : u = Tail(e)
  BY <1>7
<1>12. Len(u) = Len(d)
  BY <1>1, <1>4, <1>7, <1>8, <1>10, <1>11
<1>13. \A i \in 1..Len(u) : u[i] = d[i]
  <2> TAKE i \in 1..Len(u)
  <2>1. u[i] = e[i + 1]
    BY <1>7, <1>11
  <2>2. Len(u) = Len(s) - 1
    BY <1>4, <1>7, <1>11
  <2>3. i + 1 \in 1..Len(s)
    BY <1>2, <2>2
  <2>4. e[i + 1] = f[s[i + 1]]
    BY <1>4, <2>3
  <2>5. i \in 1..Len(t)
    BY <1>10, <1>12
  <2>6. d[i] = f[t[i]] /\ t[i] = s[i + 1]
    BY <1>1, <1>8, <1>10, <2>5
  <2> QED BY <2>1, <2>4, <2>6
<1>14. u = d
  BY <1>12, <1>13, SeqEqual
<1> QED BY <1>3, <1>5, <1>6, <1>8, <1>9, <1>11, <1>14 DEF Unrolls

\* The bytes of a list of tags, and what they add to a parent's length.
Wire(tags) == Written(tags, writeTag)
Weighed(tags) == [i \in DOMAIN tags |-> charged(tags[i], tagLen[tags[i]])]

\* The bytes of a list are those of its first tag and those of the others.
LEMMA WireSteps ==
  ASSUME NEW tags \in Seq(Tags)
  PROVE  /\ Wire(tags) \in Seq(Nat)
         /\ tags = <<>> => Wire(tags) = <<>>
         /\ tags # <<>> => Wire(tags) = writeTag[Head(tags)] \o Wire(Tail(tags))
<1>0. PICK V : V = Seq(Nat)
  OBVIOUS
<1>1. writeTag \in [Tags -> V]
  BY <1>0, WriteTagRecursion
<1>2. PICK e \in Seq(V) : e = Mapped(writeTag, tags)
  BY <1>1, MappedType
<1>3. Wire(tags) = Flat[e]
  BY <1>2 DEF Wire, Written, Mapped
<1>4. Flat[e] \in Seq(Nat) /\ Flat[e] = IF e = <<>> THEN <<>> ELSE Head(e) \o Flat[Tail(e)]
  BY <1>0, FlatRecursion
<1>5. CASE tags = <<>>
  <2>1. Len(e) = Len(tags)
    BY <1>1, <1>2, MappedType
  <2>2. e = <<>>
    BY <1>5, <2>1, EmptySeq
  <2> QED BY <1>3, <1>4, <1>5, <2>2
<1>6. CASE tags # <<>>
  <2>1. e # <<>> /\ Head(e) = writeTag[Head(tags)] /\ Tail(e) = Mapped(writeTag, Tail(tags))
    <3>1. Unrolls(writeTag, tags)
      <4>1. Maps(writeTag, Tags, V)
        BY <1>1 DEF Maps
      <4> QED BY <4>1, <1>6, MappedTail
    <3> QED BY <1>2, <3>1 DEF Unrolls
  <2>2. Wire(Tail(tags)) = Flat[Tail(e)]
    BY <2>1 DEF Wire, Written, Mapped
  <2> QED BY <1>3, <1>4, <1>6, <2>1, <2>2
<1> QED BY <1>5, <1>6

\* And so is what a list is charged.
LEMMA WeighedSteps ==
  ASSUME NEW tags \in Seq(Tags)
  PROVE  /\ Sum[Weighed(tags)] \in Nat
         /\ tags = <<>> => Sum[Weighed(tags)] = 0
         /\ tags # <<>> => Sum[Weighed(tags)] = charged(Head(tags), tagLen[Head(tags)])
                                                  + Sum[Weighed(Tail(tags))]
<1>0. PICK V : V = Nat
  OBVIOUS
<1>1. PICK f : f = [tag \in Tags |-> charged(tag, tagLen[tag])]
  OBVIOUS
<1>2. f \in [Tags -> V]
  BY <1>0, <1>1, TagLenRecursion DEF charged
<1>3. ASSUME NEW s \in Seq(Tags) PROVE Mapped(f, s) = Weighed(s)
  <2>1. \A i \in DOMAIN s : s[i] \in Tags
    BY ElementOfSeq, LenProperties
  <2> QED BY <1>1, <2>1 DEF Mapped, Weighed
<1>4. PICK e \in Seq(V) : e = Mapped(f, tags)
  BY <1>2, MappedType
<1>5. Weighed(tags) = e
  BY <1>3, <1>4
<1>6. Sum[e] \in Nat /\ Sum[e] = IF e = <<>> THEN 0 ELSE Head(e) + Sum[Tail(e)]
  BY <1>0, SumRecursion
<1>7. CASE tags = <<>>
  <2>1. Len(e) = Len(tags)
    BY <1>2, <1>4, MappedType
  <2>2. e = <<>>
    BY <1>7, <2>1, EmptySeq
  <2> QED BY <1>5, <1>6, <1>7, <2>2
<1>8. CASE tags # <<>>
  <2>1. e # <<>> /\ Head(e) = f[Head(tags)] /\ Tail(e) = Mapped(f, Tail(tags))
    <3>1. Unrolls(f, tags)
      <4>1. Maps(f, Tags, V)
        BY <1>2 DEF Maps
      <4> QED BY <4>1, <1>8, MappedTail
    <3> QED BY <1>4, <3>1 DEF Unrolls
  <2>2. Head(tags) \in Tags /\ Tail(tags) \in Seq(Tags)
    BY <1>8, HeadTailProperties
  <2>3. Head(e) = charged(Head(tags), tagLen[Head(tags)]) /\ Tail(e) = Weighed(Tail(tags))
    BY <1>1, <1>3, <2>1, <2>2
  <2> QED BY <1>5, <1>6, <1>8, <2>1, <2>3
<1> QED BY <1>7, <1>8

Measured(tag) == Len(writeTag[tag]) = charged(tag, tagLen[tag])

\* If each tag takes what it is charged, so does a list of them.
LEMMA WireMeasured ==
  ASSUME NEW tags \in Seq(Tags), \A i \in DOMAIN tags : Measured(tags[i])
  PROVE  Len(Wire(tags)) = Sum[Weighed(tags)]
<1>1. PICK S : S = Seq(Tags)
  OBVIOUS
<1>2. PICK m : m = [s \in S |-> Len(s)]
  OBVIOUS
<1>3. m \in [S -> Nat]
  BY <1>1, <1>2, LenProperties
<1> DEFINE T == {s \in S : (\A i \in DOMAIN s : Measured(s[i])) => Len(Wire(s)) = Sum[Weighed(s)]}
<1>4. ASSUME NEW s \in S, \A t \in S : m[t] < m[s] => t \in T PROVE s \in T
  <2> SUFFICES ASSUME \A i \in DOMAIN s : Measured(s[i]) PROVE Len(Wire(s)) = Sum[Weighed(s)]
    OBVIOUS
  <2>1. CASE s = <<>>
    <3>1. Wire(s) = <<>> /\ Sum[Weighed(s)] = 0
      BY <1>1, <2>1, WireSteps, WeighedSteps
    <3> QED BY <3>1
  <2>2. CASE s # <<>>
    <3>1. /\ Head(s) \in Tags /\ Tail(s) \in Seq(Tags) /\ Len(Tail(s)) = Len(s) - 1
          /\ \A i \in 1..Len(Tail(s)) : Tail(s)[i] = s[i + 1]
      BY <1>1, <2>2, HeadTailProperties
    <3>2. Len(s) \in Nat /\ Len(s) > 0 /\ Head(s) = s[1] /\ DOMAIN s = 1..Len(s)
      BY <1>1, <2>2, EmptySeq, LenProperties
    <3>3. Measured(Head(s))
      BY <3>2
    <3>4. \A i \in DOMAIN Tail(s) : Measured(Tail(s)[i])
      <4>1. DOMAIN Tail(s) = 1..Len(Tail(s))
        BY <3>1, LenProperties
      <4> QED BY <4>1, <3>1, <3>2
    <3>5. Tail(s) \in S /\ m[Tail(s)] < m[s]
      BY <1>1, <1>2, <3>1, <3>2
    <3>6. Len(Wire(Tail(s))) = Sum[Weighed(Tail(s))]
      BY <1>4, <3>4, <3>5
    <3>7. PICK a \in Seq(Nat), b \in Seq(Nat) : a = writeTag[Head(s)] /\ b = Wire(Tail(s))
      BY <3>1, WriteTagRecursion, WireSteps
    <3>8. Wire(s) = a \o b
      BY <1>1, <2>2, <3>7, WireSteps
    <3>9. Len(Wire(s)) = Len(a) + Len(b)
      BY <3>8, ConcatProperties
    <3>10. Sum[Weighed(s)] = charged(Head(s), tagLen[Head(s)]) + Sum[Weighed(Tail(s))]
      BY <1>1, <2>2, WeighedSteps
    <3> QED BY <3>3, <3>6, <3>7, <3>9, <3>10 DEF Measured
  <2> QED BY <2>1, <2>2
<1>5. S \subseteq T
  <2> HIDE DEF T
  <2> QED BY <1>3, <1>4, MeasureInduction
<1> QED BY <1>1, <1>5

\* A tag takes what its parent is charged for it.
LEMMA TagMeasured ==
  ASSUME NEW tag \in Tags
  PROVE  Measured(tag)
<1> DEFINE T == {t \in Tags : Measured(t)}
<1>1. ASSUME NEW t \in Tags, \A u \in Tags : Nesting[u] < Nesting[t] => u \in T PROVE t \in T
  <2>1. t.children \in Seq(Tags) /\ encodeValue(t.value).data \in Seq(Nat)
    BY TagParts
  <2>2. \A i \in DOMAIN t.children : Measured(t.children[i])
    BY <1>1, Children
  <2>3. Len(Wire(t.children)) = Sum[Weighed(t.children)]
    BY <2>1, <2>2, WireMeasured
  <2>4. tagLen[t] = Len(encodeValue(t.value).data) + Sum[Weighed(t.children)]
    BY TagLenRecursion DEF Charges, Weighed
  <2>5. PICK h \in Seq(Nat), n \in Seq(Nat), d \in Seq(Nat) :
          h = Headed(t) /\ n = Nested(t, writeTag) /\ d = encodeValue(t.value).data
    <3>1. \A i \in DOMAIN t.children : writeTag[t.children[i]] \in Seq(Nat)
      BY Children, WriteTagRecursion
    <3> QED BY <2>1, <3>1, HeadedType, NestedType
  <2>6. Len(h) = 7
    BY <2>5, HeadedType
  <2>7. Len(n) = (IF t.children # <<>> THEN 2 ELSE 0) + Sum[Weighed(t.children)]
    <3>1. CASE t.children # <<>>
      <4>1. PICK c \in Seq(Nat) : c = BE2(Len(t.children)) /\ Len(c) = 2
        BY TagParts, LenProperties, BE2Written
      <4>2. PICK w \in Seq(Nat) : w = Wire(t.children)
        BY <2>1, WireSteps
      <4>3. n = c \o w
        BY <2>5, <3>1, <4>1, <4>2 DEF Nested, Wire
      <4>4. Len(n) = Len(c) + Len(w)
        BY <4>3, ConcatProperties
      <4> QED BY <2>3, <3>1, <4>1, <4>2, <4>4
    <3>2. CASE t.children = <<>>
      <4>1. Sum[Weighed(t.children)] = 0
        BY <2>1, <3>2, WeighedSteps
      <4>2. n = <<>>
        BY <2>5, <3>2 DEF Nested
      <4> QED BY <3>2, <4>1, <4>2
    <3> QED BY <3>1, <3>2
  <2>8. writeTag[t] = h \o n \o d
    BY <2>5, WriteTagRecursion
  <2>9. Len(writeTag[t]) = Len(h) + Len(n) + Len(d)
    <3>1. PICK a \in Seq(Nat) : a = h \o n
      BY ConcatProperties
    <3>2. Len(a) = Len(h) + Len(n)
      BY <3>1, ConcatProperties
    <3>3. writeTag[t] = a \o d
      BY <2>8, <3>1
    <3>4. Len(writeTag[t]) = Len(a) + Len(d)
      BY <3>3, ConcatProperties
    <3> QED BY <3>2, <3>4
  <2>10. Len(d) \in Nat /\ Sum[Weighed(t.children)] \in Nat
    BY <2>1, LenProperties, WeighedSteps
  <2>11. Measured(t)
    <3>1. PICK k \in Nat, x \in Nat : k = Sum[Weighed(t.children)] /\ x = Len(d)
      BY <2>10
    <3>2. tagLen[t] = x + k
      BY <2>4, <2>5, <3>1
    <3>3. Len(writeTag[t]) = 7 + (IF t.children # <<>> THEN 2 ELSE 0) + k + x
      BY <2>6, <2>7, <2>9, <3>1
    <3>4. charged(t, tagLen[t]) = 7 + (IF t.children # <<>> THEN 2 ELSE 0) + (x + k)
      BY <3>2 DEF charged
    <3> QED BY <3>3, <3>4 DEF Measured
  <2> QED BY <2>11
<1>2. Tags \subseteq T
  <2> HIDE DEF T
  <2> QED BY <1>1, NestingType, MeasureInduction
<1> QED BY <1>2

(* --------------------- taking bytes, and the reader ---------------------- *)

IsTake(r, bytes, n) ==
  /\ r.ok \in BOOLEAN
  /\ r.ok <=> 0 <= n /\ n <= Len(bytes)
  /\ ~r.ok => r = Thrown
  /\ r.ok => /\ r.data \in Seq(Nat) /\ Len(r.data) = n
             /\ r.rest \in Seq(Nat) /\ Len(r.rest) = Len(bytes) - n

\* take throws exactly when fewer bytes are left than are asked for.
LEMMA TakeType ==
  ASSUME NEW bytes \in Seq(Nat), NEW n \in Int
  PROVE  IsTake(take(bytes, n), bytes, n)
<1> USE DEF IsTake
<1>1. Len(bytes) \in Nat
  BY LenProperties
<1>2. CASE n < 0 \/ Len(bytes) < n
  <2>1. take(bytes, n) = Thrown
    BY <1>2 DEF take
  <2> QED BY <1>1, <1>2, <2>1 DEF Thrown
<1>3. CASE ~(n < 0 \/ Len(bytes) < n)
  <2>1. take(bytes, n) = [ok |-> TRUE, data |-> SubSeq(bytes, 1, n),
                          rest |-> SubSeq(bytes, n + 1, Len(bytes))]
    BY <1>3 DEF take
  <2>2. 0 <= n /\ n <= Len(bytes)
    BY <1>1, <1>3
  <2>3. \A i \in 1..Len(bytes) : bytes[i] \in Nat
    BY ElementOfSeq
  <2>4. SubSeq(bytes, 1, n) \in Seq(Nat) /\ Len(SubSeq(bytes, 1, n)) = n
    <3>1. \A i \in 1..n : bytes[i] \in Nat
      BY <1>1, <2>2, <2>3
    <3>2. /\ SubSeq(bytes, 1, n) \in Seq(Nat)
          /\ Len(SubSeq(bytes, 1, n)) = IF 1 <= n THEN n - 1 + 1 ELSE 0
      BY <3>1, SubSeqProperties
    <3> QED BY <2>2, <3>2
  <2>5. /\ SubSeq(bytes, n + 1, Len(bytes)) \in Seq(Nat)
        /\ Len(SubSeq(bytes, n + 1, Len(bytes))) = Len(bytes) - n
    <3>1. PICK k \in Int, l \in Int : k = n + 1 /\ l = Len(bytes)
      BY <1>1
    <3>2. \A i \in k..l : bytes[i] \in Nat
      BY <1>1, <2>2, <2>3, <3>1
    <3>3. /\ SubSeq(bytes, k, l) \in Seq(Nat)
          /\ Len(SubSeq(bytes, k, l)) = IF k <= l THEN l - k + 1 ELSE 0
      BY <3>2, SubSeqProperties
    <3> QED BY <1>1, <2>2, <3>1, <3>3
  <2> QED BY <2>1, <2>2, <2>4, <2>5
<1> QED BY <1>2, <1>3

\* A part of a byte string is a byte string.
LEMMA PartType ==
  ASSUME NEW b \in Seq(Nat), NEW m \in Nat, NEW n \in Nat, 1 <= m, m <= n, n <= Len(b)
  PROVE  SubSeq(b, m, n) \in Seq(Nat) /\ Len(SubSeq(b, m, n)) = n - m + 1
<1>1. \A i \in m..n : b[i] \in Nat
  <2> TAKE i \in m..n
  <2>1. i \in 1..Len(b)
    BY LenProperties
  <2> QED BY <2>1, ElementOfSeq
<1>2. /\ SubSeq(b, m, n) \in Seq(Nat)
      /\ Len(SubSeq(b, m, n)) = IF m <= n THEN n - m + 1 ELSE 0
  BY <1>1, SubSeqProperties
<1> QED BY <1>2

\* Two bytes are a number.
LEMMA Number2Type ==
  ASSUME NEW b \in Seq(Nat), Len(b) >= 2
  PROVE  Number2(b) \in Nat
<1>1. b[1] \in Nat /\ b[2] \in Nat
  BY LenProperties, ElementOfSeq
<1>2. PICK x \in Nat, y \in Nat : x = b[1] /\ y = b[2]
  BY <1>1
<1>3. Base * x + y \in Nat
  BY BaseAssumption
<1> QED BY <1>2, <1>3 DEF Number2

LEMMA PairType == ASSUME NEW b \in Seq(Nat), Len(b) = 2 PROVE Number2(b) \in Nat
<1>1. Len(b) >= 2
  OBVIOUS
<1> QED BY <1>1, Number2Type

\* Four bytes are a number.
LEMMA Number4Type ==
  ASSUME NEW b \in Seq(Nat), Len(b) = 4
  PROVE  Number4(b) \in Nat
<1>1. PICK s, t : s = SubSeq(b, 1, 2) /\ t = SubSeq(b, 3, 4)
  OBVIOUS
<1>2. s \in Seq(Nat) /\ Len(s) = 2
  <2>1. PICK m \in Nat, n \in Nat : m = 1 /\ n = 2
    OBVIOUS
  <2>2. s = SubSeq(b, m, n) /\ 1 <= m /\ m <= n /\ n <= Len(b) /\ n - m + 1 = 2
    BY <1>1, <2>1
  <2>3. s \in Seq(Nat) /\ Len(s) = n - m + 1
    BY <2>2, PartType
  <2> QED BY <2>2, <2>3
<1>3. t \in Seq(Nat) /\ Len(t) = 2
  <2>1. PICK m \in Nat, n \in Nat : m = 3 /\ n = 4
    OBVIOUS
  <2>2. t = SubSeq(b, m, n) /\ 1 <= m /\ m <= n /\ n <= Len(b) /\ n - m + 1 = 2
    BY <1>1, <2>1
  <2>3. t \in Seq(Nat) /\ Len(t) = n - m + 1
    BY <2>2, PartType
  <2> QED BY <2>2, <2>3
<1>4. Len(s) >= 2 /\ Len(t) >= 2
  BY <1>2, <1>3
<1>5. PICK x \in Nat, y \in Nat : x = Number2(s) /\ y = Number2(t)
  BY <1>2, <1>3, <1>4, Number2Type
<1>6. B2 * x + y \in Nat
  BY Squares
<1> QED BY <1>1, <1>5, <1>6 DEF Number4

\* The length field of a header is a number.
LEMMA LengthType ==
  ASSUME NEW b \in Seq(Nat), Len(b) = 7
  PROVE  Number4(SubSeq(b, 4, 7)) \in Nat
<1>1. PICK s : s = SubSeq(b, 4, 7)
  OBVIOUS
<1>2. s \in Seq(Nat) /\ Len(s) = 4
  <2>1. PICK m \in Nat, n \in Nat : m = 4 /\ n = 7
    OBVIOUS
  <2>2. s = SubSeq(b, m, n) /\ 1 <= m /\ m <= n /\ n <= Len(b) /\ n - m + 1 = 4
    BY <1>1, <2>1
  <2>3. s \in Seq(Nat) /\ Len(s) = n - m + 1
    BY <2>2, PartType
  <2> QED BY <2>2, <2>3
<1> QED BY <1>1, <1>2, Number4Type

\* One step of readTags, with f for what it calls.
ReadOn(f, bytes, n) ==
  LET head == take(bytes, 7)
      count == countOf(head)
      kids == f[count.rest][Number2(count.data)]
      data == dataOf(head, count, kids)
      tag == [name |-> Number2(head.data) \div 2, value |-> decodeValue(head.data[3], data.data),
              children |-> kids.tags]
      others == f[data.rest][n - 1]
  IN IF ~head.ok \/ ~count.ok \/ ~kids.ok \/ ~data.ok \/ ~others.ok THEN Thrown
     ELSE [ok |-> TRUE, tags |-> <<tag>> \o others.tags, rest |-> others.rest]
ReadBody(f, bytes) ==
  [n \in Nat |-> IF n = 0 THEN [ok |-> TRUE, tags |-> <<>>, rest |-> bytes]
                 ELSE ReadOn(f, bytes, n)]

Shrinks(bytes, read) ==
  read.ok \in BOOLEAN /\ (read.ok => read.rest \in Seq(Nat) /\ Len(read.rest) <= Len(bytes))
Sound(f) == \A bytes \in Seq(Nat), n \in Nat : Shrinks(bytes, f[bytes][n])
Agree(f, g, k) == \A bytes \in Seq(Nat) : Len(bytes) < k => f[bytes] = g[bytes]
Reads(f, k) == \A bytes \in Seq(Nat) : Len(bytes) < k => f[bytes] = ReadBody(f, bytes)

\* Behind a header and its count there are fewer bytes than there were.
LEMMA CountType ==
  ASSUME NEW bytes \in Seq(Nat), NEW head, head = take(bytes, 7), head.ok,
         NEW count, count = countOf(head)
  PROVE  /\ head.data \in Seq(Nat) /\ Len(head.data) = 7
         /\ head.rest \in Seq(Nat) /\ Len(head.rest) = Len(bytes) - 7
         /\ count.ok \in BOOLEAN
         /\ count.ok => /\ count.rest \in Seq(Nat) /\ Len(count.rest) < Len(bytes)
                        /\ Number2(count.data) \in Nat
<1>1. /\ head.data \in Seq(Nat) /\ Len(head.data) = 7
      /\ head.rest \in Seq(Nat) /\ Len(head.rest) = Len(bytes) - 7
  <2>1. PICK n \in Int : n = 7
    OBVIOUS
  <2>2. IsTake(head, bytes, n)
    BY <2>1, TakeType
  <2> QED BY <2>1, <2>2 DEF IsTake
<1>2. Len(bytes) \in Nat /\ Len(head.rest) \in Nat
  BY <1>1, LenProperties
<1>3. CASE Number2(head.data) % 2 = 1
  <2>1. count = take(head.rest, 2)
    BY <1>3 DEF countOf
  <2>2. PICK n \in Int : n = 2
    OBVIOUS
  <2>3. IsTake(count, head.rest, n)
    BY <1>1, <2>1, <2>2, TakeType
  <2>4. CASE count.ok
    <3>1. /\ count.data \in Seq(Nat) /\ Len(count.data) = 2
          /\ count.rest \in Seq(Nat) /\ Len(count.rest) = Len(head.rest) - 2
      BY <2>2, <2>3, <2>4 DEF IsTake
    <3>2. PICK d \in Seq(Nat) : d = count.data /\ Len(d) = 2
      BY <3>1
    <3>3. Number2(d) \in Nat
      BY <3>2, PairType
    <3>4. Len(count.rest) < Len(bytes)
      BY <1>1, <1>2, <3>1
    <3> QED BY <1>1, <2>4, <3>1, <3>2, <3>3, <3>4
  <2>5. CASE ~count.ok
    BY <1>1, <2>3, <2>5 DEF IsTake
  <2> QED BY <2>4, <2>5
<1>4. CASE ~(Number2(head.data) % 2 = 1)
  <2>1. count = [ok |-> TRUE, data |-> <<0, 0>>, rest |-> head.rest]
    BY <1>4 DEF countOf
  <2>2. PICK d : d = <<0, 0>>
    OBVIOUS
  <2>3. Number2(count.data) \in Nat
    <3>1. count.data = d
      BY <2>1, <2>2
    <3>2. Number2(d) = 0
      BY <2>2, BaseAssumption DEF Number2
    <3> QED BY <3>1, <3>2
  <2>4. Len(count.rest) < Len(bytes)
    BY <1>1, <1>2, <2>1
  <2>5. count.ok = TRUE /\ count.rest = head.rest
    BY <2>1
  <2> QED BY <1>1, <2>3, <2>4, <2>5
<1> QED BY <1>3, <1>4

\* dataOf throws, or leaves no more bytes than were behind the count.
LEMMA DataType ==
  ASSUME NEW head, head.data \in Seq(Nat), Len(head.data) = 7,
         NEW count, count.rest \in Seq(Nat), NEW kids, Shrinks(count.rest, kids), kids.ok,
         NEW data, data = dataOf(head, count, kids)
  PROVE  /\ data.ok \in BOOLEAN
         /\ data.ok => data.rest \in Seq(Nat) /\ Len(data.rest) <= Len(count.rest)
<1>1. kids.rest \in Seq(Nat) /\ Len(kids.rest) <= Len(count.rest)
  BY DEF Shrinks
<1>2. Len(kids.rest) \in Nat /\ Len(count.rest) \in Nat
  BY <1>1, LenProperties
<1>3. PICK n \in Int : n = Number4(SubSeq(head.data, 4, 7)) - (Len(count.rest) - Len(kids.rest))
  <2>1. PICK k \in Nat : k = Number4(SubSeq(head.data, 4, 7))
    BY LengthType
  <2>2. k - (Len(count.rest) - Len(kids.rest)) \in Int
    BY <1>2
  <2> QED BY <2>1, <2>2
<1>4. data = take(kids.rest, n)
  BY <1>3 DEF dataOf
<1>5. IsTake(data, kids.rest, n)
  BY <1>1, <1>4, TakeType
<1>6. data.ok => Len(data.rest) <= Len(count.rest)
  BY <1>1, <1>2, <1>5 DEF IsTake
<1> QED BY <1>5, <1>6 DEF IsTake

\* What a step makes of the parts it read.
Join(head, count, kids, data, others) ==
  IF ~head.ok \/ ~count.ok \/ ~kids.ok \/ ~data.ok \/ ~others.ok THEN Thrown
  ELSE [ok |-> TRUE,
        tags |-> <<[name |-> Number2(head.data) \div 2,
                    value |-> decodeValue(head.data[3], data.data),
                    children |-> kids.tags]>> \o others.tags,
        rest |-> others.rest]

Parts(f, bytes, n, head, count, kids, data, others) ==
  /\ head = take(bytes, 7) /\ count = countOf(head)
  /\ kids = f[count.rest][Number2(count.data)]
  /\ data = dataOf(head, count, kids)
  /\ others = f[data.rest][n - 1]

\* A step of readTags joins the parts it reads.
LEMMA ReadOnJoin ==
  ASSUME NEW f, NEW bytes, NEW n, NEW head, NEW count, NEW kids, NEW data, NEW others,
         Parts(f, bytes, n, head, count, kids, data, others)
  PROVE  ReadOn(f, bytes, n) = Join(head, count, kids, data, others)
BY DEF ReadOn, Join, Parts

\* A thrown result is one that leaves no more bytes than there were.
LEMMA ThrownShrinks ==
  ASSUME NEW bytes
  PROVE  Shrinks(bytes, Thrown)
BY DEF Shrinks, Thrown

\* A step of a sound reader throws or leaves fewer bytes.
LEMMA ReadOnSound ==
  ASSUME NEW f, Sound(f), NEW bytes \in Seq(Nat), NEW n \in Nat, n # 0
  PROVE  Shrinks(bytes, ReadOn(f, bytes, n))
<1>1. PICK head : head = take(bytes, 7)
  OBVIOUS
<1>2. PICK count : count = countOf(head)
  OBVIOUS
<1>3. PICK kids : kids = f[count.rest][Number2(count.data)]
  OBVIOUS
<1>4. PICK data : data = dataOf(head, count, kids)
  OBVIOUS
<1>5. PICK others : others = f[data.rest][n - 1]
  OBVIOUS
<1>6. ReadOn(f, bytes, n) = Join(head, count, kids, data, others)
  <2>1. Parts(f, bytes, n, head, count, kids, data, others)
    BY <1>1, <1>2, <1>3, <1>4, <1>5 DEF Parts
  <2> QED BY <2>1, ReadOnJoin
<1>7. CASE ~head.ok \/ ~count.ok \/ ~kids.ok \/ ~data.ok \/ ~others.ok
  <2>1. Join(head, count, kids, data, others) = Thrown
    BY <1>7 DEF Join
  <2> QED BY <1>6, <2>1, ThrownShrinks
<1>8. CASE head.ok /\ count.ok /\ kids.ok /\ data.ok /\ others.ok
  <2>1. /\ head.data \in Seq(Nat) /\ Len(head.data) = 7 /\ count.rest \in Seq(Nat)
        /\ Len(count.rest) < Len(bytes) /\ Number2(count.data) \in Nat
    BY <1>1, <1>2, <1>8, CountType
  <2>2. Shrinks(count.rest, kids)
    BY <1>3, <2>1 DEF Sound
  <2>3. data.rest \in Seq(Nat) /\ Len(data.rest) <= Len(count.rest)
    BY <1>4, <1>8, <2>1, <2>2, DataType
  <2>4. Shrinks(data.rest, others)
    <3>1. PICK k \in Nat : k = n - 1
      OBVIOUS
    <3> QED BY <1>5, <2>3, <3>1 DEF Sound
  <2>5. others.rest \in Seq(Nat) /\ Len(others.rest) <= Len(data.rest)
    BY <1>8, <2>4 DEF Shrinks
  <2>6. Len(others.rest) <= Len(bytes)
    BY <2>1, <2>3, <2>5, LenProperties
  <2>7. PICK r : r = Join(head, count, kids, data, others)
    OBVIOUS
  <2>8. r.ok = TRUE /\ r.rest = others.rest
    BY <1>8, <2>7 DEF Join
  <2>9. Shrinks(bytes, r)
    BY <2>5, <2>6, <2>8 DEF Shrinks
  <2> QED BY <1>6, <2>7, <2>9
<1> QED BY <1>7, <1>8

\* It looks at the reader for shorter byte strings only.
LEMMA ReadOnLocal ==
  ASSUME NEW f, Sound(f), NEW g, NEW bytes \in Seq(Nat), Agree(f, g, Len(bytes)),
         NEW n \in Nat, n # 0
  PROVE  ReadOn(f, bytes, n) = ReadOn(g, bytes, n)
<1>1. PICK head : head = take(bytes, 7)
  OBVIOUS
<1>2. PICK count : count = countOf(head)
  OBVIOUS
<1>3. PICK kids : kids = f[count.rest][Number2(count.data)]
  OBVIOUS
<1>4. PICK data : data = dataOf(head, count, kids)
  OBVIOUS
<1>5. PICK others : others = f[data.rest][n - 1]
  OBVIOUS
<1>6. ReadOn(f, bytes, n) = Join(head, count, kids, data, others)
  <2>1. Parts(f, bytes, n, head, count, kids, data, others)
    BY <1>1, <1>2, <1>3, <1>4, <1>5 DEF Parts
  <2> QED BY <2>1, ReadOnJoin
<1>13. PICK nearer : nearer = g[count.rest][Number2(count.data)]
  OBVIOUS
<1>14. PICK told : told = dataOf(head, count, nearer)
  OBVIOUS
<1>15. PICK after : after = g[told.rest][n - 1]
  OBVIOUS
<1>16. ReadOn(g, bytes, n) = Join(head, count, nearer, told, after)
  <2>1. Parts(g, bytes, n, head, count, nearer, told, after)
    BY <1>1, <1>2, <1>13, <1>14, <1>15 DEF Parts
  <2> QED BY <2>1, ReadOnJoin
<1>7. CASE ~head.ok \/ ~count.ok
  <2>1. /\ Join(head, count, kids, data, others) = Thrown
        /\ Join(head, count, nearer, told, after) = Thrown
    BY <1>7 DEF Join
  <2> QED BY <1>6, <1>16, <2>1
<1>8. CASE head.ok /\ count.ok
  <2>1. /\ head.data \in Seq(Nat) /\ Len(head.data) = 7 /\ count.rest \in Seq(Nat)
        /\ Len(count.rest) < Len(bytes) /\ Number2(count.data) \in Nat
    BY <1>1, <1>2, <1>8, CountType
  <2>2. nearer = kids /\ told = data
    <3>1. f[count.rest] = g[count.rest]
      BY <2>1 DEF Agree
    <3> QED BY <1>3, <1>4, <1>13, <1>14, <3>1
  <2>3. CASE ~kids.ok \/ ~data.ok
    <3>1. /\ Join(head, count, kids, data, others) = Thrown
          /\ Join(head, count, nearer, told, after) = Thrown
      BY <2>2, <2>3 DEF Join
    <3> QED BY <1>6, <1>16, <3>1
  <2>4. CASE kids.ok /\ data.ok
    <3>1. Shrinks(count.rest, kids)
      BY <1>3, <2>1 DEF Sound
    <3>2. data.rest \in Seq(Nat) /\ Len(data.rest) <= Len(count.rest)
      BY <1>4, <2>1, <2>4, <3>1, DataType
    <3>3. Len(data.rest) < Len(bytes)
      BY <2>1, <3>2, LenProperties
    <3>4. f[data.rest] = g[data.rest]
      BY <3>2, <3>3 DEF Agree
    <3>5. after = others
      BY <1>5, <1>15, <2>2, <3>4
    <3> QED BY <1>6, <1>16, <2>2, <3>5
  <2> QED BY <2>3, <2>4
<1> QED BY <1>7, <1>8

\* One more step of a sound reader is a sound reader.
LEMMA ReadBodySound ==
  ASSUME NEW f, Sound(f), NEW bytes \in Seq(Nat), NEW n \in Nat
  PROVE  Shrinks(bytes, ReadBody(f, bytes)[n])
<1>1. CASE n = 0
  <2>1. PICK r : r = ReadBody(f, bytes)[n]
    OBVIOUS
  <2>2. r = [ok |-> TRUE, tags |-> <<>>, rest |-> bytes]
    BY <1>1, <2>1 DEF ReadBody
  <2>3. r.ok = TRUE /\ r.rest = bytes
    BY <2>2
  <2>4. r.ok \in BOOLEAN
    BY <2>3
  <2>6. r.rest \in Seq(Nat)
    BY <2>3
  <2>7. Len(r.rest) <= Len(bytes)
    <3>1. PICK k \in Nat : k = Len(bytes)
      BY LenProperties
    <3>2. Len(r.rest) = k /\ k <= k
      BY <2>3, <3>1
    <3> QED BY <3>1, <3>2
  <2>5. Shrinks(bytes, r)
    BY <2>4, <2>6, <2>7 DEF Shrinks
  <2> QED BY <2>1, <2>5
<1>2. CASE n # 0
  <2>1. ReadBody(f, bytes)[n] = ReadOn(f, bytes, n)
    BY <1>2 DEF ReadBody
  <2> QED BY <1>2, <2>1, ReadOnSound
<1> QED BY <1>1, <1>2

\* And depends on shorter byte strings only.
LEMMA ReadBodyLocal ==
  ASSUME NEW f, Sound(f), NEW g, NEW bytes \in Seq(Nat), Agree(f, g, Len(bytes))
  PROVE  ReadBody(f, bytes) = ReadBody(g, bytes)
<1>1. \A n \in Nat : n # 0 => ReadOn(f, bytes, n) = ReadOn(g, bytes, n)
  BY ReadOnLocal
<1> QED BY <1>1 DEF ReadBody

\* For every k there is a sound reader of the byte strings shorter than k.
LEMMA SomeReads ==
  \A k \in Nat : \E f : Sound(f) /\ Reads(f, k)
<1> DEFINE T == {k \in Nat : \E f : Sound(f) /\ Reads(f, k)}
<1>1. 0 \in T
  <2>1. PICK f : f = [bytes \in Seq(Nat) |-> [n \in Nat |-> Thrown]]
    OBVIOUS
  <2>2. Sound(f)
    BY <2>1, ThrownShrinks DEF Sound
  <2>3. Reads(f, 0)
    <3>1. \A bytes \in Seq(Nat) : ~(Len(bytes) < 0)
      BY LenProperties
    <3> QED BY <3>1 DEF Reads
  <2> QED BY <2>2, <2>3
<1>2. ASSUME NEW k \in Nat, k \in T PROVE k + 1 \in T
  <2>1. PICK f : Sound(f) /\ Reads(f, k)
    BY <1>2
  <2>2. PICK g : g = [bytes \in Seq(Nat) |-> ReadBody(f, bytes)]
    OBVIOUS
  <2>3. Sound(g)
    BY <2>1, <2>2, ReadBodySound DEF Sound
  <2>4. ASSUME NEW bytes \in Seq(Nat), Len(bytes) < k + 1
        PROVE  g[bytes] = ReadBody(g, bytes)
    <3>1. Agree(f, g, Len(bytes))
      <4>1. ASSUME NEW b \in Seq(Nat), Len(b) < Len(bytes) PROVE f[b] = g[b]
        <5>1. Len(b) < k
          BY <2>4, <4>1, LenProperties
        <5> QED BY <2>1, <2>2, <5>1 DEF Reads
      <4> QED BY <4>1 DEF Agree
    <3>2. ReadBody(f, bytes) = ReadBody(g, bytes)
      BY <2>1, <3>1, ReadBodyLocal
    <3> QED BY <2>2, <3>2
  <2>5. Reads(g, k + 1)
    BY <2>4 DEF Reads
  <2> QED BY <2>3, <2>5
<1>3. Nat \subseteq T
  <2> HIDE DEF T
  <2> QED BY <1>1, <1>2, NatSetInduction
<1> QED BY <1>3

\* Two readers of the byte strings shorter than k agree on them.
LEMMA ReadersAgree ==
  ASSUME NEW f, Sound(f), NEW g, NEW k \in Nat, Reads(f, k), Reads(g, k)
  PROVE  Agree(f, g, k)
<1> DEFINE T == {n \in Nat : n <= k => Agree(f, g, n)}
<1>1. 0 \in T
  <2>1. \A bytes \in Seq(Nat) : ~(Len(bytes) < 0)
    BY LenProperties
  <2> QED BY <2>1 DEF Agree
<1>2. ASSUME NEW n \in Nat, n \in T PROVE n + 1 \in T
  <2> SUFFICES ASSUME n + 1 <= k PROVE Agree(f, g, n + 1)
    OBVIOUS
  <2>1. Agree(f, g, n)
    BY <1>2
  <2>2. ASSUME NEW bytes \in Seq(Nat), Len(bytes) < n + 1 PROVE f[bytes] = g[bytes]
    <3>1. Len(bytes) < k /\ Len(bytes) <= n
      BY <2>2, LenProperties
    <3>2. Agree(f, g, Len(bytes))
      <4>1. ASSUME NEW b \in Seq(Nat), Len(b) < Len(bytes) PROVE f[b] = g[b]
        <5>1. Len(b) < n
          BY <3>1, <4>1, LenProperties
        <5> QED BY <2>1, <5>1 DEF Agree
      <4> QED BY <4>1 DEF Agree
    <3>3. ReadBody(f, bytes) = ReadBody(g, bytes)
      BY <3>2, ReadBodyLocal
    <3> QED BY <3>1, <3>3 DEF Reads
  <2> QED BY <2>2 DEF Agree
<1>3. Nat \subseteq T
  <2> HIDE DEF T
  <2> QED BY <1>1, <1>2, NatSetInduction
<1> QED BY <1>3

\* There is a reader of all byte strings.
LEMMA Reader ==
  \E h : Sound(h) /\ h = [bytes \in Seq(Nat) |-> ReadBody(h, bytes)]
<1>1. PICK F : F = [k \in Nat |-> CHOOSE f : Sound(f) /\ Reads(f, k)]
  OBVIOUS
<1>2. ASSUME NEW k \in Nat PROVE Sound(F[k]) /\ Reads(F[k], k)
  BY <1>1, SomeReads
<1>3. PICK h : h = [bytes \in Seq(Nat) |-> F[Len(bytes) + 1][bytes]]
  OBVIOUS
<1>4. Sound(h)
  <2> SUFFICES ASSUME NEW bytes \in Seq(Nat), NEW n \in Nat PROVE Shrinks(bytes, h[bytes][n])
    BY DEF Sound
  <2>1. PICK k \in Nat : k = Len(bytes) + 1
    BY LenProperties
  <2>2. Shrinks(bytes, F[k][bytes][n])
    BY <1>2 DEF Sound
  <2> QED BY <1>3, <2>1, <2>2
<1>5. ASSUME NEW bytes \in Seq(Nat) PROVE h[bytes] = ReadBody(h, bytes)
  <2>1. PICK k \in Nat : k = Len(bytes) + 1
    BY LenProperties
  <2>2. PICK f : f = F[k] /\ Sound(f) /\ Reads(f, k)
    BY <1>2
  <2>3. Agree(f, h, Len(bytes))
    <3>1. ASSUME NEW b \in Seq(Nat), Len(b) < Len(bytes) PROVE f[b] = h[b]
      <4>1. PICK l \in Nat : l = Len(b) + 1
        BY LenProperties
      <4>2. l <= k /\ Len(b) < l
        BY <2>1, <3>1, <4>1, LenProperties
      <4>3. Reads(f, l)
        <5>1. ASSUME NEW c \in Seq(Nat), Len(c) < l PROVE Len(c) < k
          BY <4>2, <5>1, LenProperties
        <5> QED BY <2>2, <5>1 DEF Reads
      <4>4. Reads(F[l], l)
        BY <1>2
      <4>5. Agree(f, F[l], l)
        BY <2>2, <4>3, <4>4, ReadersAgree
      <4> QED BY <1>3, <4>1, <4>2, <4>5 DEF Agree
    <3> QED BY <3>1 DEF Agree
  <2>4. ReadBody(f, bytes) = ReadBody(h, bytes)
    BY <2>2, <2>3, ReadBodyLocal
  <2>5. Len(bytes) < k
    BY <2>1, LenProperties
  <2>6. f[bytes] = ReadBody(f, bytes)
    BY <2>2, <2>5 DEF Reads
  <2>7. h[bytes] = f[bytes]
    BY <1>3, <2>1, <2>2
  <2> QED BY <2>4, <2>6, <2>7
<1>6. h = [bytes \in Seq(Nat) |-> ReadBody(h, bytes)]
  BY <1>3, <1>5
<1> QED BY <1>4, <1>6

\* readTags written out, as its definition has it.
ReadAll(h) == [bytes \in Seq(Nat) |-> [n \in Nat |->
  IF n = 0 THEN [ok |-> TRUE, tags |-> <<>>, rest |-> bytes]
  ELSE
    LET head == take(bytes, 7)
        count == countOf(head)
        kids == h[count.rest][Number2(count.data)]
        data == dataOf(head, count, kids)
        tag == [name |-> Number2(head.data) \div 2, value |-> decodeValue(head.data[3], data.data),
                children |-> kids.tags]
        others == h[data.rest][n - 1]
    IN IF ~head.ok \/ ~count.ok \/ ~kids.ok \/ ~data.ok \/ ~others.ok THEN Thrown
       ELSE [ok |-> TRUE, tags |-> <<tag>> \o others.tags, rest |-> others.rest]]]

\* readTags as the choice its definition stands for.
LEMMA ReadAllBody ==
  ASSUME NEW h
  PROVE  ReadAll(h) = [bytes \in Seq(Nat) |-> ReadBody(h, bytes)]
BY DEF ReadAll, ReadBody, ReadOn

\* readTags exists, and throws or leaves fewer bytes.
LEMMA ReadTagsRecursion ==
  /\ Sound(readTags)
  /\ \A bytes \in Seq(Nat) : readTags[bytes] = ReadBody(readTags, bytes)
<1>1. PICK h : Sound(h) /\ h = [bytes \in Seq(Nat) |-> ReadBody(h, bytes)]
  BY Reader
<1>2. readTags = [bytes \in Seq(Nat) |-> ReadBody(readTags, bytes)]
  <2>1. h = ReadAll(h)
    BY <1>1, ReadAllBody
  <2>2. readTags = CHOOSE f : f = ReadAll(f)
    BY DEF readTags, ReadAll
  <2>3. (CHOOSE f : f = ReadAll(f)) = ReadAll(CHOOSE f : f = ReadAll(f))
    BY <2>1
  <2> QED BY <2>2, <2>3, ReadAllBody
<1>3. \A bytes \in Seq(Nat) : readTags[bytes] = ReadBody(readTags, bytes)
  BY <1>2
<1>4. ASSUME NEW bytes \in Seq(Nat) PROVE h[bytes] = readTags[bytes]
  <2>1. PICK k \in Nat : k = Len(bytes) + 1 /\ Len(bytes) < k
    BY LenProperties
  <2>2. \A b \in Seq(Nat) : h[b] = ReadBody(h, b)
    BY <1>1
  <2>3. Reads(h, k) /\ Reads(readTags, k)
    BY <1>3, <2>2 DEF Reads
  <2>4. Agree(h, readTags, k)
    BY <1>1, <2>3, ReadersAgree
  <2> QED BY <2>1, <2>4 DEF Agree
<1>5. Sound(readTags)
  BY <1>1, <1>4 DEF Sound
<1> QED BY <1>3, <1>5

(* ------------------------------ the skipper ------------------------------ *)

\* One step of skipTags, with f for the rest of the tags.
SkipOn(f, bytes) ==
  LET head == take(bytes, 7)
      body == take(head.rest, 2 * (Number2(head.data) % 2) + Number4(SubSeq(head.data, 4, 7)))
  IN IF ~head.ok \/ ~body.ok THEN Thrown ELSE f[body.rest]
SkipBody(f, n) ==
  [bytes \in Seq(Nat) |-> IF n = 0 THEN [ok |-> TRUE, rest |-> bytes] ELSE SkipOn(f[n - 1], bytes)]
Skipped == {Thrown} \cup [ok : {TRUE}, rest : Seq(Nat)]

\* A step of skipTags throws or leaves bytes.
LEMMA SkipOnType ==
  ASSUME NEW f \in [Seq(Nat) -> Skipped], NEW bytes \in Seq(Nat)
  PROVE  SkipOn(f, bytes) \in Skipped
<1>1. PICK head : head = take(bytes, 7)
  OBVIOUS
<1>2. PICK body : body = take(head.rest,
                             2 * (Number2(head.data) % 2) + Number4(SubSeq(head.data, 4, 7)))
  OBVIOUS
<1>3. SkipOn(f, bytes) = IF ~head.ok \/ ~body.ok THEN Thrown ELSE f[body.rest]
  BY <1>1, <1>2 DEF SkipOn
<1>4. CASE ~head.ok \/ ~body.ok
  BY <1>3, <1>4 DEF Skipped
<1>5. CASE head.ok /\ body.ok
  <2>1. /\ head.data \in Seq(Nat) /\ Len(head.data) = 7 /\ head.rest \in Seq(Nat)
    <3>1. PICK n \in Int : n = 7
      OBVIOUS
    <3>2. IsTake(head, bytes, n)
      BY <1>1, <3>1, TakeType
    <3> QED BY <1>5, <3>1, <3>2 DEF IsTake
  <2>2. PICK n \in Int : n = 2 * (Number2(head.data) % 2) + Number4(SubSeq(head.data, 4, 7))
    <3>1. PICK d \in Seq(Nat) : d = head.data /\ Len(d) = 7
      BY <2>1
    <3>2. PICK k \in Nat : k = Number4(SubSeq(d, 4, 7))
      BY <3>1, LengthType
    <3>3. PICK l \in Nat : l = Number2(d)
      <4>1. Len(d) >= 2
        BY <3>1
      <4> QED BY <4>1, Number2Type
    <3>4. 2 * (l % 2) + k \in Int
      OBVIOUS
    <3> QED BY <3>1, <3>2, <3>3, <3>4
  <2>3. IsTake(body, head.rest, n)
    BY <1>2, <2>1, <2>2, TakeType
  <2>4. body.rest \in Seq(Nat)
    BY <1>5, <2>3 DEF IsTake
  <2> QED BY <1>3, <1>5, <2>4
<1> QED BY <1>4, <1>5

\* So does one more step of a skipper.
LEMMA SkipBodyType ==
  ASSUME NEW f, NEW n \in Nat, n # 0 => f[n - 1] \in [Seq(Nat) -> Skipped]
  PROVE  SkipBody(f, n) \in [Seq(Nat) -> Skipped]
<1>1. CASE n = 0
  <2>1. ASSUME NEW bytes \in Seq(Nat) PROVE [ok |-> TRUE, rest |-> bytes] \in Skipped
    BY DEF Skipped
  <2> QED BY <1>1, <2>1 DEF SkipBody
<1>2. CASE n # 0
  <2>1. PICK g \in [Seq(Nat) -> Skipped] : g = f[n - 1]
    BY <1>2
  <2>2. \A bytes \in Seq(Nat) : SkipOn(g, bytes) \in Skipped
    BY SkipOnType
  <2> QED BY <1>2, <2>1, <2>2 DEF SkipBody
<1> QED BY <1>1, <1>2

\* skipTags written out, as its definition has it.
SkipAll(f) == [n \in Nat |-> [bytes \in Seq(Nat) |->
  IF n = 0 THEN [ok |-> TRUE, rest |-> bytes]
  ELSE
    LET head == take(bytes, 7)
        body == take(head.rest, 2 * (Number2(head.data) % 2) + Number4(SubSeq(head.data, 4, 7)))
    IN IF ~head.ok \/ ~body.ok THEN Thrown ELSE f[n - 1][body.rest]]]

\* skipTags as the choice its definition stands for.
LEMMA SkipAllBody ==
  ASSUME NEW f
  PROVE  SkipAll(f) = [n \in Nat |-> SkipBody(f, n)]
BY DEF SkipAll, SkipBody, SkipOn

\* skipTags exists: n tags need n - 1.
LEMMA SkipTagsRecursion ==
  \A n \in Nat : skipTags[n] = SkipBody(skipTags, n)
<1>0. PICK V : V = [Seq(Nat) -> Skipped]
  OBVIOUS
<1>1. PICK G : G = [n \in Nat |-> [f \in [Nat -> V] |-> SkipBody(f, n)]]
  OBVIOUS
<1>2. PICK m \in [Nat -> Nat] : m = [n \in Nat |-> n]
  OBVIOUS
<1>3. G \in [Nat -> [[Nat -> V] -> V]]
  <2>1. ASSUME NEW n \in Nat, NEW f \in [Nat -> V] PROVE SkipBody(f, n) \in V
    <3>1. n # 0 => f[n - 1] \in V
      <4>1. n # 0 => n - 1 \in Nat
        OBVIOUS
      <4> QED BY <4>1
    <3> QED BY <1>0, <3>1, SkipBodyType
  <2> QED BY <1>1, <2>1
<1>4. Local(G, Nat, V, m)
  <2> SUFFICES ASSUME NEW n \in Nat, NEW f \in [Nat -> V], NEW g \in [Nat -> V],
                      Alike(f, g, Nat, m, m[n])
               PROVE  G[n][f] = G[n][g]
    BY DEF Local
  <2>1. n # 0 => f[n - 1] = g[n - 1]
    <3>1. n # 0 => n - 1 \in Nat /\ m[n - 1] < m[n]
      BY <1>2
    <3> QED BY <3>1 DEF Alike
  <2>2. SkipBody(f, n) = SkipBody(g, n)
    BY <2>1 DEF SkipBody
  <2> QED BY <1>1, <2>2
<1>5. PICK f \in [Nat -> V] : \A n \in Nat : f[n] = G[n][f]
  <2>1. V # {}
    <3>1. Thrown \in Skipped
      BY DEF Skipped
    <3>2. [bytes \in Seq(Nat) |-> Thrown] \in [Seq(Nat) -> Skipped]
      BY <3>1
    <3> QED BY <1>0, <3>2
  <2>2. Recursive(Nat, V, m, G)
    BY <1>3, <1>4, <2>1 DEF Recursive
  <2>3. PICK N : N = Nat
    OBVIOUS
  <2>4. Recursive(N, V, m, G)
    BY <2>2, <2>3
  <2>5. \E f \in [N -> V] : \A n \in N : f[n] = G[n][f]
    BY <2>4, Recursion
  <2> QED BY <2>3, <2>5
<1>6. f = SkipAll(f)
  <2>1. f = [n \in Nat |-> SkipBody(f, n)]
    BY <1>1, <1>5
  <2> QED BY <2>1, SkipAllBody
<1>7. skipTags = CHOOSE g : g = SkipAll(g)
  BY DEF skipTags, SkipAll
<1>8. (CHOOSE g : g = SkipAll(g)) = SkipAll(CHOOSE g : g = SkipAll(g))
  BY <1>6
<1>9. skipTags = [n \in Nat |-> SkipBody(skipTags, n)]
  BY <1>7, <1>8, SkipAllBody
<1> QED BY <1>9

(* ----------------------- splitting what was joined ----------------------- *)

\* A concatenation of byte strings.
LEMMA Joined ==
  ASSUME NEW s \in Seq(Nat), NEW t \in Seq(Nat)
  PROVE  /\ s \o t \in Seq(Nat) /\ Len(s) \in Nat /\ Len(t) \in Nat
         /\ Len(s \o t) = Len(s) + Len(t)
BY ConcatProperties, LenProperties

Regroups(s, t, u) == (s \o t) \o u = s \o (t \o u)

\* Concatenation is associative.
LEMMA RegroupsAnywhere ==
  ASSUME NEW S, NEW s \in Seq(S), NEW t \in Seq(S), NEW u \in Seq(S)
  PROVE  Regroups(s, t, u)
BY ConcatAssociative DEF Regroups

\* The same of byte strings.
LEMMA Associates ==
  ASSUME NEW s \in Seq(Nat), NEW t \in Seq(Nat), NEW u \in Seq(Nat)
  PROVE  Regroups(s, t, u)
BY RegroupsAnywhere

\* And as an equation.
LEMMA JoinedTwice ==
  ASSUME NEW s \in Seq(Nat), NEW t \in Seq(Nat), NEW u \in Seq(Nat)
  PROVE  (s \o t) \o u = s \o (t \o u)
<1>1. Regroups(s, t, u)
  BY Associates
<1> QED BY <1>1 DEF Regroups

\* What is put in front is what is taken.
LEMMA Taken ==
  ASSUME NEW s \in Seq(Nat), NEW t \in Seq(Nat), NEW n, n = Len(s)
  PROVE  take(s \o t, n) = [ok |-> TRUE, data |-> s, rest |-> t]
<1>1. PICK b \in Seq(Nat) : b = s \o t
  BY Joined
<1>2. n \in Nat /\ Len(t) \in Nat /\ Len(b) = n + Len(t)
  BY <1>1, Joined
<1>3. take(b, n) = [ok |-> TRUE, data |-> SubSeq(b, 1, n), rest |-> SubSeq(b, n + 1, Len(b))]
  <2>1. ~(n < 0) /\ ~(Len(b) < n)
    BY <1>2
  <2> QED BY <2>1 DEF take
<1>4. SubSeq(b, 1, n) = s
  <2>1. CASE n = 0
    <3>1. s = <<>>
      BY <2>1, EmptySeq
    <3>2. SubSeq(b, 1, 0) = <<>>
      BY SubSeqEmpty
    <3> QED BY <2>1, <3>1, <3>2
  <2>2. CASE n # 0
    <3>1. 1 \in 1..Len(s) /\ n \in 1..Len(s)
      BY <1>2, <2>2
    <3>2. SubSeq(s \o t, 1, n) = SubSeq(s, 1, n)
      BY <3>1, SubSeqOfConcat1
    <3>3. SubSeq(s, 1, Len(s)) = s
      BY SubSeqFull
    <3> QED BY <1>1, <3>2, <3>3
  <2> QED BY <2>1, <2>2
<1>5. SubSeq(b, n + 1, Len(b)) = t
  <2>1. PICK i \in Int, j \in Int : i = n + 1 /\ j = Len(b)
    BY <1>2
  <2>2. CASE Len(t) = 0
    <3>1. t = <<>>
      BY <2>2, EmptySeq
    <3>2. j < i
      BY <1>2, <2>1, <2>2
    <3>3. SubSeq(b, i, j) = <<>>
      BY <3>2, SubSeqEmpty
    <3> QED BY <2>1, <3>1, <3>3
  <2>3. CASE Len(t) # 0
    <3>1. i \in Len(s)+1 .. Len(s)+Len(t) /\ j \in Len(s)+1 .. Len(s)+Len(t)
      BY <1>2, <2>1, <2>3
    <3>2. SubSeq(s \o t, i, j) = SubSeq(t, i - Len(s), j - Len(s))
      BY <3>1, SubSeqOfConcat2
    <3>3. i - Len(s) = 1 /\ j - Len(s) = Len(t)
      BY <1>2, <2>1
    <3>4. SubSeq(t, 1, Len(t)) = t
      BY SubSeqFull
    <3> QED BY <1>1, <2>1, <3>2, <3>3, <3>4
  <2> QED BY <2>2, <2>3
<1> QED BY <1>1, <1>3, <1>4, <1>5

\* take throws when too few bytes are left.
LEMMA TakenShort ==
  ASSUME NEW s, NEW n, Len(s) < n
  PROVE  take(s, n) = Thrown
BY DEF take

\* A byte string can be split anywhere.
LEMMA SplitAt ==
  ASSUME NEW p \in Seq(Nat), NEW k \in Nat, k <= Len(p)
  PROVE  \E a, b \in Seq(Nat) : p = a \o b /\ Len(a) = k
<1>1. Len(p) \in Nat
  BY LenProperties
<1>2. IsTake(take(p, k), p, k)
  BY TakeType
<1>3. take(p, k) = [ok |-> TRUE, data |-> SubSeq(p, 1, k), rest |-> SubSeq(p, k + 1, Len(p))]
  BY <1>1 DEF take
<1>4. PICK a, b : a = SubSeq(p, 1, k) /\ b = SubSeq(p, k + 1, Len(p))
  OBVIOUS
<1>5. take(p, k).ok = TRUE /\ take(p, k).data = a /\ take(p, k).rest = b
  BY <1>3, <1>4
<1>6. a \in Seq(Nat) /\ b \in Seq(Nat) /\ Len(a) = k
  BY <1>2, <1>5 DEF IsTake
<1>7. a \o b = p
  <2>1. PICK m \in 1..Len(p)+1, n \in k..Len(p) : m = 1 /\ n = Len(p)
    BY <1>1
  <2>2. k \in m-1..Len(p)
    BY <1>1, <2>1
  <2>3. SubSeq(p, m, k) \o SubSeq(p, k + 1, n) = SubSeq(p, m, n)
    BY <2>2, ConcatAdjacentSubSeq
  <2>4. SubSeq(p, 1, Len(p)) = p
    BY SubSeqFull
  <2> QED BY <1>4, <2>1, <2>3, <2>4
<1> QED BY <1>6, <1>7

\* The same bytes split at the same place have the same parts.
LEMMA SameStart ==
  ASSUME NEW a \in Seq(Nat), NEW b \in Seq(Nat), NEW p \in Seq(Nat), NEW q \in Seq(Nat),
         a \o b = p \o q, Len(a) = Len(p)
  PROVE  a = p /\ b = q
<1>1. PICK n : n = Len(a) /\ n = Len(p)
  OBVIOUS
<1>2. take(a \o b, n) = [ok |-> TRUE, data |-> a, rest |-> b]
  BY <1>1, Taken
<1>3. take(p \o q, n) = [ok |-> TRUE, data |-> p, rest |-> q]
  BY <1>1, Taken
<1>4. PICK r : r = [ok |-> TRUE, data |-> a, rest |-> b]
  OBVIOUS
<1>5. r.data = a /\ r.rest = b
  BY <1>4
<1>6. r = [ok |-> TRUE, data |-> p, rest |-> q]
  BY <1>2, <1>3, <1>4
<1>7. r.data = p /\ r.rest = q
  BY <1>6
<1> QED BY <1>5, <1>7

Continues(a, b, p, q) == \E x \in Seq(Nat) : p = a \o x /\ b = x \o q

\* Of two ways to split the same bytes, the longer beginning starts with the shorter one.
LEMMA Split ==
  ASSUME NEW a \in Seq(Nat), NEW b \in Seq(Nat), NEW p \in Seq(Nat), NEW q \in Seq(Nat),
         a \o b = p \o q, Len(a) <= Len(p)
  PROVE  Continues(a, b, p, q)
<1>1. Len(a) \in Nat
  BY LenProperties
<1>2. PICK s \in Seq(Nat), x \in Seq(Nat) : p = s \o x /\ Len(s) = Len(a)
  BY <1>1, SplitAt
<1>3. PICK y \in Seq(Nat) : y = x \o q
  BY Joined
<1>4. a \o b = s \o y
  <2>1. (s \o x) \o q = s \o (x \o q)
    BY JoinedTwice
  <2> QED BY <1>2, <1>3, <2>1
<1>5. a = s /\ b = y
  BY <1>2, <1>4, SameStart
<1> QED BY <1>2, <1>3, <1>5 DEF Continues

StrictlyBegins(p, a) == \E x \in Seq(Nat) : a = p \o x /\ x # <<>>

\* A beginning that is shorter than a is a strict beginning of a.
LEMMA SplitShort ==
  ASSUME NEW a \in Seq(Nat), NEW b \in Seq(Nat), NEW p \in Seq(Nat), NEW q \in Seq(Nat),
         a \o b = p \o q, Len(p) < Len(a)
  PROVE  StrictlyBegins(p, a)
<1>1. Len(a) \in Nat /\ Len(p) \in Nat
  BY LenProperties
<1>2. Len(p) <= Len(a)
  BY <1>1
<1>3. PICK x \in Seq(Nat) : a = p \o x
  <2>1. p \o q = a \o b
    OBVIOUS
  <2>2. Continues(p, q, a, b)
    BY <1>2, <2>1, Split
  <2> QED BY <2>2 DEF Continues
<1>4. x # <<>>
  <2>1. Len(a) = Len(p) + Len(x)
    BY <1>3, Joined
  <2>2. Len(x) # 0
    BY <1>1, <2>1
  <2> QED BY <2>2, EmptySeq
<1> QED BY <1>3, <1>4 DEF StrictlyBegins

\* The parts of what take returns.
LEMMA Fields ==
  ASSUME NEW d, NEW r, NEW x, x = [ok |-> TRUE, data |-> d, rest |-> r]
  PROVE  x.ok = TRUE /\ x.data = d /\ x.rest = r
OBVIOUS

\* The low bit of the name field, and what is above it.
LEMMA Parity ==
  ASSUME NEW n \in Nat, NEW e \in {0, 1}
  PROVE  (2 * n + e) % 2 = e /\ (2 * n + e) \div 2 = n
OBVIOUS

\* The seven bytes of a header are read back: name, type, length.
LEMMA HeaderRead ==
  ASSUME NEW tag \in Tags, NEW h, h = Headed(tag)
  PROVE  /\ Number2(h) % 2 = HasChildren(tag) /\ Number2(h) \div 2 = tag.name
         /\ h[3] = encodeValue(tag.value).type
         /\ Number4(SubSeq(h, 4, 7)) = tagLen[tag]
<1>1. PICK n \in Nat : n = 2 * tag.name + HasChildren(tag) /\ n < B2
  BY TagParts, Squares DEF HasChildren
<1>2. PICK a \in Seq(Nat) : a = BE2(n) /\ Len(a) = 2 /\ Number2(a) = n
  BY <1>1, BE2Written
<1>3. PICK type \in Nat : type = encodeValue(tag.value).type
  BY TagParts
<1>4. <<type>> \in Seq(Nat) /\ Len(<<type>>) = 1
  OBVIOUS
<1>5. PICK b \in Seq(Nat) : b = <<type>> /\ Len(b) = 1 /\ b[1] = type
  BY <1>4
<1>6. PICK c \in Seq(Nat) : c = BE4(tagLen[tag]) /\ Len(c) = 4 /\ Number4(c) = tagLen[tag]
  BY TagLenRecursion, LengthsAssumption, BE4Written
<1>7. PICK ab \in Seq(Nat) : ab = a \o b
  BY Joined
<1>8. Len(ab) = 3 /\ ab[1] = a[1] /\ ab[2] = a[2] /\ ab[3] = type
  <2>1. /\ Len(ab) = Len(a) + Len(b)
        /\ \A i \in 1..Len(a) + Len(b) : ab[i] = IF i <= Len(a) THEN a[i] ELSE b[i - Len(a)]
    BY <1>7, ConcatProperties
  <2>2. Len(ab) = 3 /\ \A i \in 1..3 : ab[i] = IF i <= 2 THEN a[i] ELSE b[i - 2]
    BY <1>2, <1>5, <2>1
  <2> QED BY <1>5, <2>2
<1>9. h = ab \o c
  BY <1>1, <1>2, <1>3, <1>5, <1>6, <1>7 DEF Headed
<1>10. /\ h[1] = a[1] /\ h[2] = a[2] /\ h[3] = type
  <2>1. \A i \in 1..Len(ab) + Len(c) : h[i] = IF i <= Len(ab) THEN ab[i] ELSE c[i - Len(ab)]
    BY <1>9, ConcatProperties
  <2>2. PICK k \in Nat, l \in Nat : k = Len(ab) /\ l = Len(c) /\ k = 3 /\ l = 4
    BY <1>6, <1>8
  <2>3. \A i \in 1..k + l : h[i] = IF i <= k THEN ab[i] ELSE c[i - k]
    BY <2>1, <2>2
  <2>4. \A i \in 1..k : h[i] = ab[i]
    <3> TAKE i \in 1..k
    <3>1. i \in 1..k + l /\ i <= k
      OBVIOUS
    <3> QED BY <2>3, <3>1
  <2>5. 1 \in 1..k /\ 2 \in 1..k /\ 3 \in 1..k
    BY <2>2
  <2>6. h[1] = ab[1] /\ h[2] = ab[2] /\ h[3] = ab[3]
    BY <2>4, <2>5
  <2> QED BY <1>8, <2>6
<1>11. SubSeq(h, 4, 7) = c
  <2>1. Len(ab) > 0 /\ Len(c) > 0
    BY <1>6, <1>8
  <2>2. Halved(h, ab, c)
    BY <1>9, <2>1, Halves
  <2> QED BY <1>6, <1>8, <2>2 DEF Halved
<1>12. Number2(h) = n
  BY <1>2, <1>10 DEF Number2
<1>13. n % 2 = HasChildren(tag) /\ n \div 2 = tag.name
  <2>1. PICK k \in Nat, e \in {0, 1} : k = tag.name /\ e = HasChildren(tag)
    BY TagParts DEF HasChildren
  <2> QED BY <1>1, <2>1, Parity
<1> QED BY <1>3, <1>6, <1>10, <1>11, <1>12, <1>13

Content(tag) == encodeValue(tag.value).data

\* The parts of a tag are bytes.
LEMMA PartsType ==
  ASSUME NEW tag \in Tags
  PROVE  /\ Headed(tag) \in Seq(Nat) /\ Len(Headed(tag)) = 7
         /\ Counted(tag) \in Seq(Nat) /\ Wire(tag.children) \in Seq(Nat)
         /\ Content(tag) \in Seq(Nat) /\ writeTag[tag] \in Seq(Nat)
         /\ tag.children \in Seq(Tags)
<1>1. Counted(tag) \in Seq(Nat)
  <2>1. BE2(Len(tag.children)) \in Seq(Nat)
    BY TagParts, LenProperties, BE2Written
  <2> QED BY <2>1 DEF Counted
<1> QED BY <1>1, HeadedType, TagParts, WireSteps, WriteTagRecursion DEF Content

\* A tag is its header, its count, its children and its data, in this order.
LEMMA TagWritten ==
  ASSUME NEW tag \in Tags
  PROVE  writeTag[tag] =
           Headed(tag) \o (Counted(tag) \o (Wire(tag.children) \o Content(tag)))
<1>1. PICK h \in Seq(Nat), c \in Seq(Nat), w \in Seq(Nat), d \in Seq(Nat) :
        h = Headed(tag) /\ c = Counted(tag) /\ w = Wire(tag.children) /\ d = Content(tag)
  BY PartsType
<1>2. Nested(tag, writeTag) = c \o w
  <2>1. CASE tag.children # <<>>
    BY <1>1, <2>1 DEF Nested, Counted, Wire
  <2>2. CASE tag.children = <<>>
    <3>1. w = <<>> /\ c = <<>>
      BY <1>1, <2>2, PartsType, WireSteps DEF Counted
    <3>2. <<>> \o w = w
      BY ConcatEmptySeq
    <3> QED BY <2>2, <3>1, <3>2 DEF Nested
  <2> QED BY <2>1, <2>2
<1>3. writeTag[tag] = h \o (c \o w) \o d
  BY <1>1, <1>2, WriteTagRecursion DEF Content
<1>4. PICK x \in Seq(Nat) : x = c \o w
  BY Joined
<1>5. (h \o x) \o d = h \o (x \o d)
  BY JoinedTwice
<1>6. (c \o w) \o d = c \o (w \o d)
  BY JoinedTwice
<1> QED BY <1>1, <1>3, <1>4, <1>5, <1>6

\* The length field is that of the children and the data.
LEMMA TagLength ==
  ASSUME NEW tag \in Tags
  PROVE  tagLen[tag] = Len(Content(tag)) + Len(Wire(tag.children))
<1>1. \A i \in DOMAIN tag.children : Measured(tag.children[i])
  BY Children, TagMeasured
<1>2. Len(Wire(tag.children)) = Sum[Weighed(tag.children)]
  BY <1>1, PartsType, WireMeasured
<1> QED BY <1>2, TagLenRecursion DEF Charges, Weighed, Content

\* A tag without children announces no count.
LEMMA NoCount ==
  ASSUME NEW head, ~(Number2(head.data) % 2 = 1), NEW count, count = countOf(head)
  PROVE  count.ok = TRUE /\ count.rest = head.rest /\ Number2(count.data) = 0
<1>1. PICK d : d = <<0, 0>>
  OBVIOUS
<1>2. PICK r : r = head.rest
  OBVIOUS
<1>3. count = [ok |-> TRUE, data |-> d, rest |-> r]
  BY <1>1, <1>2 DEF countOf
<1>4. count.ok = TRUE /\ count.data = d /\ count.rest = r
  BY <1>3, Fields
<1>5. Number2(d) = 0
  BY <1>1, BaseAssumption DEF Number2
<1> QED BY <1>2, <1>4, <1>5

CountFollows(tag, y, head, count) ==
  /\ head = [ok |-> TRUE, data |-> Headed(tag), rest |-> Counted(tag) \o y]
  /\ count = countOf(head)
CountIs(tag, y, count) ==
  count.ok /\ count.rest = y /\ Number2(count.data) = Len(tag.children)

\* The count of a tag is read back.
LEMMA CountRead ==
  ASSUME NEW tag \in Tags, NEW y \in Seq(Nat), NEW head, NEW count,
         CountFollows(tag, y, head, count)
  PROVE  CountIs(tag, y, count)
<1> USE DEF CountFollows, CountIs
<1>1. head.data = Headed(tag) /\ head.rest = Counted(tag) \o y
  BY Fields
<1>2. Number2(head.data) % 2 = HasChildren(tag)
  BY <1>1, HeaderRead
<1>3. CASE tag.children # <<>>
  <2>1. PICK c \in Seq(Nat) : c = BE2(Len(tag.children)) /\ Len(c) = 2
                                /\ Number2(c) = Len(tag.children)
    BY TagParts, LenProperties, BE2Written
  <2>2. count = take(head.rest, 2)
    BY <1>2, <1>3 DEF countOf, HasChildren
  <2>3. head.rest = c \o y
    BY <1>1, <1>3, <2>1 DEF Counted
  <2>4. take(c \o y, 2) = [ok |-> TRUE, data |-> c, rest |-> y]
    <3>1. PICK n : n = 2 /\ n = Len(c)
      BY <2>1
    <3>2. take(c \o y, n) = [ok |-> TRUE, data |-> c, rest |-> y]
      BY <3>1, Taken
    <3> QED BY <3>1, <3>2
  <2>5. count = [ok |-> TRUE, data |-> c, rest |-> y]
    BY <2>2, <2>3, <2>4
  <2>6. count.ok = TRUE /\ count.rest = y /\ count.data = c
    BY <2>5, Fields
  <2> QED BY <2>1, <2>6
<1>4. CASE tag.children = <<>>
  <2>1. count.ok = TRUE /\ count.rest = head.rest /\ Number2(count.data) = 0
    <3>1. ~(Number2(head.data) % 2 = 1)
      BY <1>2, <1>4 DEF HasChildren
    <3> QED BY <3>1, NoCount
  <2>5. head.rest = y
    BY <1>1, <1>4, ConcatEmptySeq DEF Counted
  <2>6. Len(tag.children) = 0
    BY <1>4
  <2> QED BY <2>1, <2>5, <2>6
<1> QED BY <1>3, <1>4

DataFollows(tag, p, head, count, kids) ==
  head.data = Headed(tag) /\ count.rest = Wire(tag.children) \o p /\ kids.rest = p

\* Once the children are read, what is left of the length is that of the data.
LEMMA DataRead ==
  ASSUME NEW tag \in Tags, NEW p \in Seq(Nat), NEW head, NEW count, NEW kids,
         DataFollows(tag, p, head, count, kids)
  PROVE  dataOf(head, count, kids) = take(p, Len(Content(tag)))
<1> USE DEF DataFollows
<1>1. Number4(SubSeq(head.data, 4, 7)) = Len(Content(tag)) + Len(Wire(tag.children))
  BY HeaderRead, TagLength
<1>2. PICK w \in Seq(Nat), d \in Seq(Nat) : w = Wire(tag.children) /\ d = Content(tag)
  BY PartsType
<1>3. Len(w) \in Nat /\ Len(p) \in Nat /\ Len(d) \in Nat /\ Len(w \o p) = Len(w) + Len(p)
  BY Joined, LenProperties
<1>4. Number4(SubSeq(head.data, 4, 7)) - (Len(count.rest) - Len(kids.rest)) = Len(d)
  <2>1. Number4(SubSeq(head.data, 4, 7)) = Len(d) + Len(w)
    BY <1>1, <1>2
  <2>2. Len(count.rest) = Len(w) + Len(p) /\ Len(kids.rest) = Len(p)
    BY <1>2, <1>3
  <2> QED BY <1>3, <2>1, <2>2
<1> QED BY <1>2, <1>4 DEF dataOf

(* ----------------------------- reading back ------------------------------ *)

\* No tag is read of no tags.
LEMMA ReadNone ==
  ASSUME NEW bytes \in Seq(Nat)
  PROVE  readTags[bytes][0] = [ok |-> TRUE, tags |-> <<>>, rest |-> bytes]
<1>1. readTags[bytes] = ReadBody(readTags, bytes)
  BY ReadTagsRecursion
<1> QED BY <1>1 DEF ReadBody

\* One tag is a step of readTags.
LEMMA ReadMore ==
  ASSUME NEW bytes \in Seq(Nat), NEW n \in Nat, n # 0
  PROVE  readTags[bytes][n] = ReadOn(readTags, bytes, n)
<1>1. readTags[bytes] = ReadBody(readTags, bytes)
  BY ReadTagsRecursion
<1> QED BY <1>1 DEF ReadBody

\* The header and the count of a tag are read back, whatever follows them.
LEMMA ReadHeaded ==
  ASSUME NEW tag \in Tags, NEW y \in Seq(Nat), NEW n \in Nat, n # 0
  PROVE  \E head, count :
           /\ head.ok /\ head.data = Headed(tag)
           /\ CountIs(tag, y, count)
           /\ \A kids, data, others :
                /\ kids = readTags[y][Len(tag.children)]
                /\ data = dataOf(head, count, kids)
                /\ others = readTags[data.rest][n - 1]
                => readTags[Headed(tag) \o (Counted(tag) \o y)][n]
                     = Join(head, count, kids, data, others)
<1>1. PICK h \in Seq(Nat), c \in Seq(Nat) : h = Headed(tag) /\ c = Counted(tag) /\ Len(h) = 7
  BY PartsType
<1>2. PICK x \in Seq(Nat) : x = c \o y
  BY Joined
<1>3. PICK bytes \in Seq(Nat) : bytes = h \o x
  BY Joined
<1>4. PICK head : head = take(bytes, 7)
  OBVIOUS
<1>5. head = [ok |-> TRUE, data |-> h, rest |-> x]
  <2>1. PICK k : k = 7 /\ k = Len(h)
    BY <1>1
  <2>2. take(h \o x, k) = [ok |-> TRUE, data |-> h, rest |-> x]
    BY <2>1, Taken
  <2> QED BY <1>3, <1>4, <2>1, <2>2
<1>6. PICK count : count = countOf(head)
  OBVIOUS
<1>7. CountIs(tag, y, count)
  <2>1. CountFollows(tag, y, head, count)
    BY <1>1, <1>2, <1>5, <1>6 DEF CountFollows
  <2> QED BY <2>1, CountRead
<1>8. head.ok = TRUE /\ head.data = h /\ head.rest = x
  BY <1>5, Fields
<1>9. ASSUME NEW kids, NEW data, NEW others,
             kids = readTags[y][Len(tag.children)],
             data = dataOf(head, count, kids),
             others = readTags[data.rest][n - 1]
      PROVE  readTags[bytes][n] = Join(head, count, kids, data, others)
  <2>1. Parts(readTags, bytes, n, head, count, kids, data, others)
    BY <1>4, <1>6, <1>7, <1>9 DEF Parts, CountIs
  <2>2. ReadOn(readTags, bytes, n) = Join(head, count, kids, data, others)
    BY <2>1, ReadOnJoin
  <2> QED BY <2>2, ReadMore
<1>10. bytes = Headed(tag) \o (Counted(tag) \o y)
  BY <1>1, <1>2, <1>3
<1> QED BY <1>1, <1>7, <1>8, <1>9, <1>10

\* What a tag makes of the data that follows its children, and of what is read after it.
Ended(tag, data, others) ==
  IF ~data.ok \/ ~others.ok THEN Thrown
  ELSE [ok |-> TRUE,
        tags |-> <<[name |-> tag.name,
                    value |-> decodeValue(encodeValue(tag.value).type, data.data),
                    children |-> tag.children]>> \o others.tags,
        rest |-> others.rest]

NestedFollows(tag, p, n, y, kids, data, others) ==
  /\ y = Wire(tag.children) \o p
  /\ kids = readTags[y][Len(tag.children)]
  /\ kids.ok /\ kids.tags = tag.children /\ kids.rest = p
  /\ data = take(p, Len(Content(tag)))
  /\ others = readTags[data.rest][n - 1]

\* Reading a tag whose children have been read goes on with its data.
LEMMA ReadNested ==
  ASSUME NEW tag \in Tags, NEW p \in Seq(Nat), NEW n \in Nat, n # 0,
         NEW y, NEW kids, NEW data, NEW others, NestedFollows(tag, p, n, y, kids, data, others)
  PROVE  readTags[Headed(tag) \o (Counted(tag) \o y)][n] = Ended(tag, data, others)
<1> USE DEF NestedFollows
<1>1. y \in Seq(Nat)
  BY PartsType, Joined
<1>2. PICK head, count :
           /\ head.ok /\ head.data = Headed(tag)
           /\ CountIs(tag, y, count)
           /\ \A k, d, o :
                /\ k = readTags[y][Len(tag.children)]
                /\ d = dataOf(head, count, k)
                /\ o = readTags[d.rest][n - 1]
                => readTags[Headed(tag) \o (Counted(tag) \o y)][n]
                     = Join(head, count, k, d, o)
  BY <1>1, ReadHeaded
<1>3. data = dataOf(head, count, kids)
  <2>1. DataFollows(tag, p, head, count, kids)
    BY <1>2 DEF DataFollows, CountIs
  <2>2. dataOf(head, count, kids) = take(p, Len(Content(tag)))
    BY <2>1, DataRead
  <2> QED BY <2>2
<1>4. readTags[Headed(tag) \o (Counted(tag) \o y)][n] = Join(head, count, kids, data, others)
  BY <1>2, <1>3
<1>5. /\ Number2(head.data) \div 2 = tag.name
      /\ head.data[3] = encodeValue(tag.value).type
  BY <1>2, HeaderRead
<1>6. Join(head, count, kids, data, others) = Ended(tag, data, others)
  BY <1>2, <1>5 DEF Join, Ended, CountIs
<1> QED BY <1>4, <1>6

\* With its data read, the first tag of a list is the tag that was written.
LEMMA EndedWell ==
  ASSUME NEW tag \in Tags, NEW data, data.ok, data.data = Content(tag), NEW others, others.ok
  PROVE  Ended(tag, data, others) =
           [ok |-> TRUE, tags |-> <<tag>> \o others.tags, rest |-> others.rest]
<1>1. decodeValue(encodeValue(tag.value).type, data.data) = tag.value
  BY TagParts, ValueWritten DEF IsBytes, Content
<1>2. tag = [name |-> tag.name, value |-> tag.value, children |-> tag.children]
  BY TagParts
<1> QED BY <1>1, <1>2 DEF Ended

\* A list is its first element and the others.
LEMMA HeadAndTail ==
  ASSUME NEW S, NEW s \in Seq(S), s # <<>>
  PROVE  <<Head(s)>> \o Tail(s) = s
<1>1. PICK h \in S, t \in Seq(S) : h = Head(s) /\ t = Tail(s)
  BY HeadTailProperties
<1>2. Len(t) = Len(s) - 1 /\ \A i \in 1..Len(t) : t[i] = s[i + 1]
  BY <1>1, HeadTailProperties
<1>3. Len(s) \in Nat /\ Len(s) > 0 /\ h = s[1]
  BY <1>1, EmptySeq, LenProperties
<1>4. <<h>> \in Seq(S) /\ Len(<<h>>) = 1
  OBVIOUS
<1>5. PICK b \in Seq(S) : b = <<h>> /\ Len(b) = 1 /\ b[1] = h
  BY <1>4
<1>6. PICK c : c = b \o t
  OBVIOUS
<1>7. /\ c \in Seq(S) /\ Len(c) = Len(b) + Len(t)
      /\ \A i \in 1..Len(b) + Len(t) : c[i] = IF i <= Len(b) THEN b[i] ELSE t[i - Len(b)]
  BY <1>6, ConcatProperties
<1>8. Len(c) = Len(s)
  BY <1>2, <1>3, <1>5, <1>7
<1>9. ASSUME NEW i \in 1..Len(s) PROVE c[i] = s[i]
  <2>1. i \in 1..Len(b) + Len(t)
    BY <1>2, <1>3, <1>5
  <2>2. c[i] = IF i <= 1 THEN b[i] ELSE t[i - 1]
    BY <1>5, <1>7, <2>1
  <2>3. CASE i = 1
    BY <1>3, <1>5, <2>2, <2>3
  <2>4. CASE i # 1
    <3>1. i - 1 \in 1..Len(t) /\ (i - 1) + 1 = i /\ ~(i <= 1)
      BY <1>2, <1>3, <2>4
    <3>2. t[i - 1] = s[(i - 1) + 1]
      BY <1>2, <3>1
    <3> QED BY <2>2, <3>1, <3>2
  <2> QED BY <2>3, <2>4
<1>10. c = s
  BY <1>7, <1>8, <1>9, SeqEqual
<1> QED BY <1>1, <1>5, <1>6, <1>10

RegroupsAll(h, c, w, d, z) ==
  (h \o (c \o (w \o d))) \o z = h \o (c \o (w \o (d \o z)))

\* Five pieces, grouped in two ways.
LEMMA Regrouped ==
  ASSUME NEW h \in Seq(Nat), NEW c \in Seq(Nat), NEW w \in Seq(Nat), NEW d \in Seq(Nat),
         NEW z \in Seq(Nat)
  PROVE  RegroupsAll(h, c, w, d, z)
<1>1. PICK wd \in Seq(Nat) : wd = w \o d
  BY Joined
<1>2. PICK cwd \in Seq(Nat) : cwd = c \o wd
  BY Joined
<1>3. Regroups(h, cwd, z)
  BY Associates
<1>4. Regroups(c, wd, z)
  BY Associates
<1>5. Regroups(w, d, z)
  BY Associates
<1> QED BY <1>1, <1>2, <1>3, <1>4, <1>5 DEF Regroups, RegroupsAll

\* The bytes of a tag and of what follows it.
LEMMA TagFollowed ==
  ASSUME NEW tag \in Tags, NEW z \in Seq(Nat)
  PROVE  writeTag[tag] \o z =
           Headed(tag) \o (Counted(tag) \o (Wire(tag.children) \o (Content(tag) \o z)))
<1>1. PICK h \in Seq(Nat), c \in Seq(Nat), w \in Seq(Nat), d \in Seq(Nat) :
        h = Headed(tag) /\ c = Counted(tag) /\ w = Wire(tag.children) /\ d = Content(tag)
  BY PartsType
<1>2. RegroupsAll(h, c, w, d, z)
  BY Regrouped
<1> QED BY <1>1, <1>2, TagWritten DEF RegroupsAll

\* Reading the bytes of these tags gives them back, and what follows is left alone.
ReadBack(tags, z) ==
  readTags[Wire(tags) \o z][Len(tags)] = [ok |-> TRUE, tags |-> tags, rest |-> z]

\* The parts of what readTags returns.
LEMMA ResultFields ==
  ASSUME NEW ts, NEW r, NEW x, x = [ok |-> TRUE, tags |-> ts, rest |-> r]
  PROVE  x.ok = TRUE /\ x.tags = ts /\ x.rest = r
OBVIOUS

OthersFollow(tag, z, n, others) ==
  /\ ReadBack(tag.children, Content(tag) \o z)
  /\ others = readTags[z][n - 1] /\ others.ok

TagIsRead(tag, z, n, others) ==
  readTags[writeTag[tag] \o z][n] =
    [ok |-> TRUE, tags |-> <<tag>> \o others.tags, rest |-> others.rest]

\* The first tag of a list is read back if its children and the tags after it are.
LEMMA TagReadBack ==
  ASSUME NEW tag \in Tags, NEW z \in Seq(Nat), NEW n \in Nat, n # 0,
         NEW others, OthersFollow(tag, z, n, others)
  PROVE  TagIsRead(tag, z, n, others)
<1>1. PICK h \in Seq(Nat), c \in Seq(Nat), w \in Seq(Nat), d \in Seq(Nat) :
        h = Headed(tag) /\ c = Counted(tag) /\ w = Wire(tag.children) /\ d = Content(tag)
  BY PartsType
<1>2. PICK p \in Seq(Nat) : p = d \o z
  BY Joined
<1>3. PICK y \in Seq(Nat) : y = w \o p
  BY Joined
<1>4. PICK kids : kids = readTags[y][Len(tag.children)]
  OBVIOUS
<1>5. kids.ok = TRUE /\ kids.tags = tag.children /\ kids.rest = p
  <2>1. kids = [ok |-> TRUE, tags |-> tag.children, rest |-> p]
    BY <1>1, <1>2, <1>3, <1>4 DEF ReadBack, OthersFollow
  <2> QED BY <2>1, ResultFields
<1>6. PICK data : data = take(p, Len(d))
  OBVIOUS
<1>7. data.ok = TRUE /\ data.data = d /\ data.rest = z
  <2>1. PICK k : k = Len(d)
    OBVIOUS
  <2>2. take(d \o z, k) = [ok |-> TRUE, data |-> d, rest |-> z]
    BY <2>1, Taken
  <2>3. data = [ok |-> TRUE, data |-> d, rest |-> z]
    BY <1>2, <1>6, <2>1, <2>2
  <2> QED BY <2>3, Fields
<1>8. NestedFollows(tag, p, n, y, kids, data, others)
  BY <1>1, <1>3, <1>4, <1>5, <1>6, <1>7 DEF NestedFollows, OthersFollow
<1>9. readTags[h \o (c \o y)][n] = Ended(tag, data, others)
  BY <1>1, <1>8, ReadNested
<1>10. Ended(tag, data, others) =
         [ok |-> TRUE, tags |-> <<tag>> \o others.tags, rest |-> others.rest]
  BY <1>1, <1>7, EndedWell DEF OthersFollow
<1>11. writeTag[tag] \o z = h \o (c \o y)
  BY <1>1, <1>2, <1>3, TagFollowed
<1> QED BY <1>9, <1>10, <1>11 DEF TagIsRead

\* The children of the first tag, and the tags after it, are fewer bytes.
LEMMA Shorter ==
  ASSUME NEW tags \in Seq(Tags), tags # <<>>
  PROVE  /\ Head(tags) \in Tags /\ Tail(tags) \in Seq(Tags) /\ Len(tags) \in Nat /\ Len(tags) # 0
         /\ Len(Tail(tags)) = Len(tags) - 1
         /\ Head(tags).children \in Seq(Tags)
         /\ Wire(tags) = writeTag[Head(tags)] \o Wire(Tail(tags))
         /\ Len(Wire(Head(tags).children)) < Len(Wire(tags))
         /\ Len(Wire(Tail(tags))) < Len(Wire(tags))
<1>1. /\ Head(tags) \in Tags /\ Tail(tags) \in Seq(Tags)
      /\ Len(tags) \in Nat /\ Len(tags) # 0 /\ Len(Tail(tags)) = Len(tags) - 1
  BY HeadTailProperties, EmptySeq, LenProperties
<1>2. PICK tag \in Tags : tag = Head(tags)
  BY <1>1
<1>3. Wire(tags) = writeTag[tag] \o Wire(Tail(tags)) /\ Wire(Tail(tags)) \in Seq(Nat)
  BY <1>1, <1>2, WireSteps
<1>4. PICK h \in Seq(Nat), c \in Seq(Nat), w \in Seq(Nat), d \in Seq(Nat), r \in Seq(Nat) :
        /\ h = Headed(tag) /\ c = Counted(tag) /\ w = Wire(tag.children) /\ d = Content(tag)
        /\ r = Wire(Tail(tags)) /\ Len(h) = 7
  BY <1>3, PartsType
<1>5. PICK wd \in Seq(Nat) : wd = w \o d /\ Len(wd) = Len(w) + Len(d)
  BY Joined
<1>6. PICK cwd \in Seq(Nat) : cwd = c \o wd /\ Len(cwd) = Len(c) + Len(wd)
  BY Joined
<1>7. PICK t \in Seq(Nat) : t = h \o cwd /\ Len(t) = Len(h) + Len(cwd)
  BY Joined
<1>8. t = writeTag[tag]
  BY <1>4, <1>5, <1>6, <1>7, TagWritten
<1>9. Len(t \o r) = Len(t) + Len(r)
  BY Joined
<1>10. Len(Wire(tags)) = 7 + (Len(c) + (Len(w) + Len(d))) + Len(r)
  BY <1>3, <1>4, <1>5, <1>6, <1>7, <1>8, <1>9
<1>11. Len(c) \in Nat /\ Len(w) \in Nat /\ Len(d) \in Nat /\ Len(r) \in Nat
  BY LenProperties
<1>12. Len(w) < Len(Wire(tags)) /\ Len(r) < Len(Wire(tags))
  BY <1>10, <1>11
<1>13. tag.children \in Seq(Tags)
  BY PartsType
<1> QED BY <1>1, <1>2, <1>3, <1>4, <1>12, <1>13

\* The bytes of a list of tags are read back as these tags, whatever follows.
LEMMA WireReadBack ==
  ASSUME NEW tags \in Seq(Tags), NEW z \in Seq(Nat)
  PROVE  ReadBack(tags, z)
<1>1. PICK S : S = Seq(Tags)
  OBVIOUS
<1>2. PICK m : m = [s \in S |-> Len(Wire(s))]
  OBVIOUS
<1>3. m \in [S -> Nat]
  BY <1>1, <1>2, WireSteps, LenProperties
<1> DEFINE T == {s \in S : \A y \in Seq(Nat) : ReadBack(s, y)}
<1>4. ASSUME NEW s \in S, \A t \in S : m[t] < m[s] => t \in T PROVE s \in T
  <2> SUFFICES ASSUME NEW y \in Seq(Nat) PROVE ReadBack(s, y)
    OBVIOUS
  <2>1. CASE s = <<>>
    <3>1. Wire(s) = <<>> /\ Len(s) = 0
      BY <1>1, <2>1, WireSteps
    <3>2. <<>> \o y = y
      BY ConcatEmptySeq
    <3> QED BY <2>1, <3>1, <3>2, ReadNone DEF ReadBack
  <2>2. CASE s # <<>>
    <3>1. PICK tag \in Tags, rest \in Seq(Tags), n \in Nat :
            /\ tag = Head(s) /\ rest = Tail(s) /\ n = Len(s) /\ n # 0 /\ Len(rest) = n - 1
            /\ Wire(s) = writeTag[tag] \o Wire(rest) /\ tag.children \in S /\ rest \in S
            /\ m[tag.children] < m[s] /\ m[rest] < m[s]
      <4>1. /\ Head(s) \in Tags /\ Tail(s) \in Seq(Tags) /\ Len(s) \in Nat /\ Len(s) # 0
            /\ Len(Tail(s)) = Len(s) - 1
            /\ Head(s).children \in Seq(Tags)
            /\ Wire(s) = writeTag[Head(s)] \o Wire(Tail(s))
            /\ Len(Wire(Head(s).children)) < Len(Wire(s))
            /\ Len(Wire(Tail(s))) < Len(Wire(s))
        BY <1>1, <2>2, Shorter
      <4> QED BY <1>1, <1>2, <4>1
    <3>2. PICK w \in Seq(Nat) : w = Wire(rest)
      BY WireSteps
    <3>3. PICK z1 \in Seq(Nat) : z1 = w \o y
      BY Joined
    <3>4. ReadBack(rest, y)
      BY <1>4, <3>1
    <3>5. PICK others : others = readTags[z1][n - 1]
      OBVIOUS
    <3>6. others.ok = TRUE /\ others.tags = rest /\ others.rest = y
      <4>1. others = [ok |-> TRUE, tags |-> rest, rest |-> y]
        BY <3>1, <3>2, <3>3, <3>4, <3>5 DEF ReadBack
      <4> QED BY <4>1, ResultFields
    <3>7. ReadBack(tag.children, Content(tag) \o z1)
      <4>1. Content(tag) \o z1 \in Seq(Nat)
        BY PartsType, Joined
      <4> QED BY <1>4, <3>1, <4>1
    <3>8. readTags[writeTag[tag] \o z1][n] =
            [ok |-> TRUE, tags |-> <<tag>> \o others.tags, rest |-> others.rest]
      <4>1. OthersFollow(tag, z1, n, others)
        BY <3>5, <3>6, <3>7 DEF OthersFollow
      <4>2. TagIsRead(tag, z1, n, others)
        BY <3>1, <4>1, TagReadBack
      <4> QED BY <4>2 DEF TagIsRead
    <3>9. Wire(s) \o y = writeTag[tag] \o z1
      <4>1. PICK t \in Seq(Nat) : t = writeTag[tag]
        BY PartsType
      <4>2. (t \o w) \o y = t \o (w \o y)
        BY JoinedTwice
      <4> QED BY <3>1, <3>2, <3>3, <4>1, <4>2
    <3>10. <<tag>> \o rest = s
      BY <1>1, <2>2, <3>1, HeadAndTail
    <3> QED BY <3>1, <3>6, <3>8, <3>9, <3>10 DEF ReadBack
  <2> QED BY <2>1, <2>2
<1>5. S \subseteq T
  <2> HIDE DEF T
  <2> QED BY <1>3, <1>4, MeasureInduction
<1> QED BY <1>1, <1>5

(* ------------------------------ a torn list ------------------------------ *)

\* p ends early in a \o b; what is left of it throws.
EndsIn(p, a, b) == \E q \in Seq(Nat) : a \o b = p \o q /\ q # <<>>
Throws(bytes, n) == readTags[bytes][n] = Thrown
Tears(bytes, n) ==
  \A p \in Seq(Nat) : (\E q \in Seq(Nat) : bytes = p \o q /\ q # <<>>) => Throws(p, n)

\* A thrown result is not ok.
LEMMA ThrownFails == Thrown.ok = FALSE
BY DEF Thrown

\* Fewer than seven bytes are no tag.
LEMMA HeaderThrows ==
  ASSUME NEW p \in Seq(Nat), NEW n \in Nat, n # 0, Len(p) < 7
  PROVE  Throws(p, n)
<1>1. take(p, 7) = Thrown
  BY TakenShort
<1>2. ReadOn(readTags, p, n) = Thrown
  BY <1>1, ThrownFails DEF ReadOn
<1> QED BY <1>2, ReadMore DEF Throws

\* A count that ends early throws.
LEMMA CountThrows ==
  ASSUME NEW tag \in Tags, NEW x \in Seq(Nat), NEW n \in Nat, n # 0, Len(x) < Len(Counted(tag))
  PROVE  Throws(Headed(tag) \o x, n)
<1>1. PICK h \in Seq(Nat), c \in Seq(Nat) : h = Headed(tag) /\ c = Counted(tag) /\ Len(h) = 7
  BY PartsType
<1>2. PICK head : head = take(h \o x, 7)
  OBVIOUS
<1>3. head.ok = TRUE /\ head.data = h /\ head.rest = x
  <2>1. PICK k : k = 7 /\ k = Len(h)
    BY <1>1
  <2>2. take(h \o x, k) = [ok |-> TRUE, data |-> h, rest |-> x]
    BY <2>1, Taken
  <2>3. head = [ok |-> TRUE, data |-> h, rest |-> x]
    BY <1>2, <2>1, <2>2
  <2> QED BY <2>3, Fields
<1>4. tag.children # <<>>
  <2>1. Len(x) \in Nat
    BY LenProperties
  <2>2. tag.children = <<>> => Len(Counted(tag)) = 0
    BY DEF Counted
  <2> QED BY <2>1, <2>2
<1>5. Number2(head.data) % 2 = 1
  BY <1>1, <1>3, <1>4, HeaderRead DEF HasChildren
<1>6. Len(Counted(tag)) = 2
  BY <1>4, TagParts, LenProperties, BE2Written DEF Counted
<1>7. countOf(head) = Thrown
  <2>1. countOf(head) = take(x, 2)
    BY <1>3, <1>5 DEF countOf
  <2>2. Len(x) < 2
    BY <1>6
  <2> QED BY <2>1, <2>2, TakenShort
<1>8. PICK bytes \in Seq(Nat) : bytes = h \o x
  BY Joined
<1>9. ReadOn(readTags, bytes, n) = Thrown
  BY <1>2, <1>7, <1>8, ThrownFails DEF ReadOn
<1>10. Throws(bytes, n)
  BY <1>9, ReadMore DEF Throws
<1> QED BY <1>1, <1>8, <1>10

\* If the children throw, so does their parent.
LEMMA ChildrenThrow ==
  ASSUME NEW tag \in Tags, NEW y \in Seq(Nat), NEW n \in Nat, n # 0,
         Throws(y, Len(tag.children))
  PROVE  Throws(Headed(tag) \o (Counted(tag) \o y), n)
<1>1. PICK head, count :
           /\ head.ok /\ head.data = Headed(tag)
           /\ CountIs(tag, y, count)
           /\ \A k, d, o :
                /\ k = readTags[y][Len(tag.children)]
                /\ d = dataOf(head, count, k)
                /\ o = readTags[d.rest][n - 1]
                => readTags[Headed(tag) \o (Counted(tag) \o y)][n]
                     = Join(head, count, k, d, o)
  BY ReadHeaded
<1>2. PICK d : d = dataOf(head, count, Thrown)
  OBVIOUS
<1>3. PICK o : o = readTags[d.rest][n - 1]
  OBVIOUS
<1>4. readTags[Headed(tag) \o (Counted(tag) \o y)][n] = Join(head, count, Thrown, d, o)
  BY <1>1, <1>2, <1>3 DEF Throws
<1>5. Join(head, count, Thrown, d, o) = Thrown
  BY ThrownFails DEF Join
<1> QED BY <1>4, <1>5 DEF Throws

\* If the data is not all there, its tag throws.
LEMMA DataThrows ==
  ASSUME NEW tag \in Tags, NEW p \in Seq(Nat), NEW n \in Nat, n # 0,
         NEW data, data = take(p, Len(Content(tag))),
         NEW others, others = readTags[data.rest][n - 1],
         ~data.ok \/ ~others.ok
  PROVE  Throws(Headed(tag) \o (Counted(tag) \o (Wire(tag.children) \o p)), n)
<1>1. PICK y : y = Wire(tag.children) \o p
  OBVIOUS
<1>2. PICK kids : kids = readTags[y][Len(tag.children)]
  OBVIOUS
<1>3. kids.ok = TRUE /\ kids.tags = tag.children /\ kids.rest = p
  <2>1. ReadBack(tag.children, p)
    BY PartsType, WireReadBack
  <2>2. kids = [ok |-> TRUE, tags |-> tag.children, rest |-> p]
    BY <1>1, <1>2, <2>1 DEF ReadBack
  <2> QED BY <2>2, ResultFields
<1>4. NestedFollows(tag, p, n, y, kids, data, others)
  BY <1>1, <1>2, <1>3 DEF NestedFollows
<1>5. readTags[Headed(tag) \o (Counted(tag) \o y)][n] = Ended(tag, data, others)
  BY <1>4, ReadNested
<1>6. Ended(tag, data, others) = Thrown
  BY DEF Ended
<1> QED BY <1>1, <1>5, <1>6 DEF Throws

\* A tag whose data or what follows it ends early.
LEMMA TornData ==
  ASSUME NEW tag \in Tags, NEW r \in Seq(Nat), NEW v \in Seq(Nat), NEW n \in Nat, n # 0,
         Tears(r, n - 1), EndsIn(v, Content(tag), r)
  PROVE  Throws(Headed(tag) \o (Counted(tag) \o (Wire(tag.children) \o v)), n)
<1>1. PICK d \in Seq(Nat) : d = Content(tag)
  BY PartsType
<1>2. PICK q \in Seq(Nat) : d \o r = v \o q /\ q # <<>>
  BY <1>1 DEF EndsIn
<1>3. Len(d) \in Nat /\ Len(v) \in Nat
  BY LenProperties
<1>4. PICK data : data = take(v, Len(d))
  OBVIOUS
<1>5. PICK others : others = readTags[data.rest][n - 1]
  OBVIOUS
<1>6. ~data.ok \/ ~others.ok
  <2>1. CASE Len(v) < Len(d)
    <3>1. data = Thrown
      BY <1>4, <2>1, TakenShort
    <3> QED BY <3>1, ThrownFails
  <2>2. CASE ~(Len(v) < Len(d))
    <3>1. Len(d) <= Len(v)
      BY <1>3, <2>2
    <3>2. PICK z \in Seq(Nat) : v = d \o z /\ r = z \o q
      <4>1. Continues(d, r, v, q)
        BY <1>2, <3>1, Split
      <4> QED BY <4>1 DEF Continues
    <3>3. data.rest = z
      <4>1. PICK k : k = Len(d)
        OBVIOUS
      <4>2. take(d \o z, k) = [ok |-> TRUE, data |-> d, rest |-> z]
        BY <4>1, Taken
      <4>3. data = [ok |-> TRUE, data |-> d, rest |-> z]
        BY <1>4, <3>2, <4>1, <4>2
      <4> QED BY <4>3, Fields
    <3>4. Throws(z, n - 1)
      BY <1>2, <3>2 DEF Tears
    <3> QED BY <1>5, <3>3, <3>4, ThrownFails DEF Throws
  <2> QED BY <2>1, <2>2
<1> QED BY <1>1, <1>4, <1>5, <1>6, DataThrows

\* A tag whose children end early.
LEMMA TornChildren ==
  ASSUME NEW tag \in Tags, NEW r \in Seq(Nat), NEW y \in Seq(Nat), NEW n \in Nat, n # 0,
         Tears(r, n - 1), Tears(Wire(tag.children), Len(tag.children)),
         EndsIn(y, Wire(tag.children), Content(tag) \o r)
  PROVE  Throws(Headed(tag) \o (Counted(tag) \o y), n)
<1>1. PICK w \in Seq(Nat) : w = Wire(tag.children)
  BY PartsType
<1>2. PICK dr \in Seq(Nat) : dr = Content(tag) \o r
  BY PartsType, Joined
<1>3. PICK q \in Seq(Nat) : w \o dr = y \o q /\ q # <<>>
  BY <1>1, <1>2 DEF EndsIn
<1>4. Len(w) \in Nat /\ Len(y) \in Nat
  BY LenProperties
<1>5. CASE Len(y) < Len(w)
  <2>1. PICK u \in Seq(Nat) : w = y \o u /\ u # <<>>
    <3>1. StrictlyBegins(y, w)
      BY <1>3, <1>5, SplitShort
    <3> QED BY <3>1 DEF StrictlyBegins
  <2>2. Throws(y, Len(tag.children))
    BY <1>1, <2>1 DEF Tears
  <2> QED BY <2>2, ChildrenThrow
<1>6. CASE ~(Len(y) < Len(w))
  <2>1. Len(w) <= Len(y)
    BY <1>4, <1>6
  <2>2. PICK v \in Seq(Nat) : y = w \o v /\ dr = v \o q
    <3>1. Continues(w, dr, y, q)
      BY <1>3, <2>1, Split
    <3> QED BY <3>1 DEF Continues
  <2>3. EndsIn(v, Content(tag), r)
    BY <1>2, <1>3, <2>2 DEF EndsIn
  <2>4. Throws(Headed(tag) \o (Counted(tag) \o (Wire(tag.children) \o v)), n)
    BY <2>3, TornData
  <2> QED BY <1>1, <2>2, <2>4
<1> QED BY <1>5, <1>6

\* The first tag ends early or a later one does.
LEMMA TornTag ==
  ASSUME NEW tag \in Tags, NEW r \in Seq(Nat), NEW n \in Nat, n # 0,
         Tears(r, n - 1), Tears(Wire(tag.children), Len(tag.children))
  PROVE  Tears(writeTag[tag] \o r, n)
<1> SUFFICES ASSUME NEW p \in Seq(Nat), NEW q \in Seq(Nat), writeTag[tag] \o r = p \o q, q # <<>>
             PROVE  Throws(p, n)
  BY DEF Tears
<1>1. PICK h \in Seq(Nat), c \in Seq(Nat) : h = Headed(tag) /\ c = Counted(tag) /\ Len(h) = 7
  BY PartsType
<1>2. PICK wdr \in Seq(Nat) : wdr = Wire(tag.children) \o (Content(tag) \o r)
  <2>1. PICK dr \in Seq(Nat) : dr = Content(tag) \o r
    BY PartsType, Joined
  <2> QED BY <2>1, PartsType, Joined
<1>3. PICK b \in Seq(Nat) : b = c \o wdr
  BY Joined
<1>4. h \o b = p \o q
  BY <1>1, <1>2, <1>3, TagFollowed
<1>5. CASE Len(p) < 7
  BY <1>5, HeaderThrows
<1>6. CASE ~(Len(p) < 7)
  <2>1. Len(h) <= Len(p)
    BY <1>1, <1>6, LenProperties
  <2>2. PICK x \in Seq(Nat) : p = h \o x /\ b = x \o q
    <3>1. Continues(h, b, p, q)
      BY <1>4, <2>1, Split
    <3> QED BY <3>1 DEF Continues
  <2>3. CASE Len(x) < Len(c)
    <3>1. Throws(Headed(tag) \o x, n)
      BY <1>1, <2>3, CountThrows
    <3> QED BY <1>1, <2>2, <3>1
  <2>4. CASE ~(Len(x) < Len(c))
    <3>1. Len(c) <= Len(x)
      BY <2>4, LenProperties
    <3>2. PICK y \in Seq(Nat) : x = c \o y /\ wdr = y \o q
      <4>1. c \o wdr = x \o q
        BY <1>3, <2>2
      <4>2. Continues(c, wdr, x, q)
        BY <3>1, <4>1, Split
      <4> QED BY <4>2 DEF Continues
    <3>3. EndsIn(y, Wire(tag.children), Content(tag) \o r)
      BY <1>2, <3>2 DEF EndsIn
    <3>4. Throws(Headed(tag) \o (Counted(tag) \o y), n)
      BY <3>3, TornChildren
    <3> QED BY <1>1, <2>2, <3>2, <3>4
  <2> QED BY <2>3, <2>4
<1> QED BY <1>5, <1>6

\* Reading the bytes of these tags throws wherever they end early.
LEMMA WireTears ==
  ASSUME NEW tags \in Seq(Tags)
  PROVE  Tears(Wire(tags), Len(tags))
<1>1. PICK S : S = Seq(Tags)
  OBVIOUS
<1>2. PICK m : m = [s \in S |-> Len(Wire(s))]
  OBVIOUS
<1>3. m \in [S -> Nat]
  BY <1>1, <1>2, WireSteps, LenProperties
<1> DEFINE T == {s \in S : Tears(Wire(s), Len(s))}
<1>4. ASSUME NEW s \in S, \A t \in S : m[t] < m[s] => t \in T PROVE s \in T
  <2>1. CASE s = <<>>
    <3>1. Wire(s) = <<>>
      BY <1>1, <2>1, WireSteps
    <3>2. ASSUME NEW p \in Seq(Nat), NEW q \in Seq(Nat), <<>> = p \o q PROVE q = <<>>
      <4>1. Len(p \o q) = Len(p) + Len(q) /\ Len(p) \in Nat /\ Len(q) \in Nat
        BY Joined
      <4>2. Len(p \o q) = 0
        <5>1. PICK e \in Seq(Nat) : e = p \o q
          BY Joined
        <5>2. e = <<>>
          BY <3>2, <5>1
        <5> QED BY <5>1, <5>2
      <4>3. Len(q) = 0
        BY <4>1, <4>2
      <4> QED BY <4>3, EmptySeq
    <3>3. Tears(Wire(s), Len(s))
      BY <3>1, <3>2 DEF Tears
    <3> QED BY <3>3
  <2>2. CASE s # <<>>
    <3>1. PICK tag \in Tags, rest \in Seq(Tags), n \in Nat :
            /\ tag = Head(s) /\ rest = Tail(s) /\ n = Len(s) /\ n # 0 /\ Len(rest) = n - 1
            /\ Wire(s) = writeTag[tag] \o Wire(rest) /\ tag.children \in S /\ rest \in S
            /\ m[tag.children] < m[s] /\ m[rest] < m[s]
      <4>1. /\ Head(s) \in Tags /\ Tail(s) \in Seq(Tags) /\ Len(s) \in Nat /\ Len(s) # 0
            /\ Len(Tail(s)) = Len(s) - 1
            /\ Head(s).children \in Seq(Tags)
            /\ Wire(s) = writeTag[Head(s)] \o Wire(Tail(s))
            /\ Len(Wire(Head(s).children)) < Len(Wire(s))
            /\ Len(Wire(Tail(s))) < Len(Wire(s))
        BY <1>1, <2>2, Shorter
      <4> QED BY <1>1, <1>2, <4>1
    <3>2. Tears(Wire(rest), n - 1) /\ Tears(Wire(tag.children), Len(tag.children))
      <4>1. rest \in T /\ tag.children \in T
        BY <1>4, <3>1
      <4> QED BY <3>1, <4>1
    <3>3. PICK r \in Seq(Nat) : r = Wire(rest)
      BY WireSteps
    <3>4. Tears(writeTag[tag] \o r, n)
      BY <3>1, <3>2, <3>3, TornTag
    <3> QED BY <3>1, <3>3, <3>4
  <2> QED BY <2>1, <2>2
<1>5. S \subseteq T
  <2> HIDE DEF T
  <2> QED BY <1>3, <1>4, MeasureInduction
<1> QED BY <1>1, <1>5

(* ------------------------------- skipping -------------------------------- *)

\* The count takes two bytes if there is one.
LEMMA CountedLength ==
  ASSUME NEW tag \in Tags
  PROVE  Len(Counted(tag)) = 2 * HasChildren(tag)
<1>1. CASE tag.children # <<>>
  <2>1. Len(BE2(Len(tag.children))) = 2
    BY TagParts, LenProperties, BE2Written
  <2> QED BY <1>1, <2>1 DEF Counted, HasChildren
<1>2. CASE tag.children = <<>>
  BY <1>2 DEF Counted, HasChildren
<1> QED BY <1>1, <1>2

\* A tag is skipped by its header and its length alone.
LEMMA TagSkipped ==
  ASSUME NEW tag \in Tags, NEW r \in Seq(Nat), NEW n \in Nat, n # 0
  PROVE  skipTags[n][writeTag[tag] \o r] = skipTags[n - 1][r]
<1>1. PICK h \in Seq(Nat), c \in Seq(Nat), wd \in Seq(Nat) :
        h = Headed(tag) /\ c = Counted(tag) /\ wd = Wire(tag.children) \o Content(tag)
  BY PartsType, Joined
<1>2. Len(h) = 7
  BY <1>1, PartsType
<1>3. PICK cwd \in Seq(Nat) : cwd = c \o wd
  BY Joined
<1>4. Len(cwd) = 2 * HasChildren(tag) + tagLen[tag]
  <2>1. Len(cwd) = Len(c) + Len(wd)
    BY <1>3, Joined
  <2>2. Len(wd) = Len(Wire(tag.children)) + Len(Content(tag))
    BY <1>1, PartsType, Joined
  <2>3. Len(Wire(tag.children)) \in Nat /\ Len(Content(tag)) \in Nat
    BY PartsType, LenProperties
  <2>4. Len(c) = 2 * HasChildren(tag)
    BY <1>1, CountedLength
  <2>5. tagLen[tag] = Len(Wire(tag.children)) + Len(Content(tag))
    BY <2>3, TagLength
  <2> QED BY <2>1, <2>2, <2>4, <2>5
<1>5. PICK x \in Seq(Nat) : x = cwd \o r
  BY Joined
<1>6. PICK bytes \in Seq(Nat) : bytes = h \o x
  BY Joined
<1>7. writeTag[tag] \o r = bytes
  <2>1. writeTag[tag] = h \o cwd
    BY <1>1, <1>3, TagWritten
  <2>2. Regroups(h, cwd, r)
    BY Associates
  <2> QED BY <1>5, <1>6, <2>1, <2>2 DEF Regroups
<1>8. PICK head : head = take(bytes, 7)
  OBVIOUS
<1>9. head.ok = TRUE /\ head.data = h /\ head.rest = x
  <2>1. PICK k : k = 7 /\ k = Len(h)
    BY <1>2
  <2>2. take(h \o x, k) = [ok |-> TRUE, data |-> h, rest |-> x]
    BY <2>1, Taken
  <2>3. head = [ok |-> TRUE, data |-> h, rest |-> x]
    BY <1>6, <1>8, <2>1, <2>2
  <2> QED BY <2>3, Fields
<1>10. PICK k : k = 2 * (Number2(head.data) % 2) + Number4(SubSeq(head.data, 4, 7))
  OBVIOUS
<1>11. k = Len(cwd)
  BY <1>1, <1>4, <1>9, <1>10, HeaderRead
<1>12. PICK body : body = take(head.rest, k)
  OBVIOUS
<1>13. body.ok = TRUE /\ body.data = cwd /\ body.rest = r
  <2>1. take(cwd \o r, k) = [ok |-> TRUE, data |-> cwd, rest |-> r]
    BY <1>11, Taken
  <2>2. body = [ok |-> TRUE, data |-> cwd, rest |-> r]
    BY <1>5, <1>9, <1>12, <2>1
  <2> QED BY <2>2, Fields
<1>14. SkipOn(skipTags[n - 1], bytes) = skipTags[n - 1][r]
  BY <1>8, <1>9, <1>10, <1>12, <1>13 DEF SkipOn
<1>15. skipTags[n][bytes] = SkipOn(skipTags[n - 1], bytes)
  BY SkipTagsRecursion DEF SkipBody
<1> QED BY <1>7, <1>14, <1>15

\* No tag is skipped of no tags.
LEMMA NoneSkipped ==
  ASSUME NEW bytes \in Seq(Nat)
  PROVE  skipTags[0][bytes] = [ok |-> TRUE, rest |-> bytes]
<1>1. skipTags[0] = SkipBody(skipTags, 0)
  BY SkipTagsRecursion
<1> QED BY <1>1 DEF SkipBody

Skips(tags) == skipTags[Len(tags)][Wire(tags)] = [ok |-> TRUE, rest |-> <<>>]

\* Skipping all the tags ends where their bytes end.
LEMMA WireSkips ==
  ASSUME NEW tags \in Seq(Tags)
  PROVE  Skips(tags)
<1>1. PICK S : S = Seq(Tags)
  OBVIOUS
<1>2. PICK m : m = [s \in S |-> Len(s)]
  OBVIOUS
<1>3. m \in [S -> Nat]
  BY <1>1, <1>2, LenProperties
<1> DEFINE T == {s \in S : Skips(s)}
<1>4. ASSUME NEW s \in S, \A t \in S : m[t] < m[s] => t \in T PROVE s \in T
  <2>1. CASE s = <<>>
    <3>1. Wire(s) = <<>> /\ Len(s) = 0 /\ <<>> \in Seq(Nat)
      BY <1>1, <2>1, WireSteps
    <3>2. Skips(s)
      BY <3>1, NoneSkipped DEF Skips
    <3> QED BY <3>2
  <2>2. CASE s # <<>>
    <3>1. PICK tag \in Tags, rest \in Seq(Tags), n \in Nat :
            /\ tag = Head(s) /\ rest = Tail(s) /\ n = Len(s) /\ n # 0 /\ Len(rest) = n - 1
            /\ Wire(s) = writeTag[tag] \o Wire(rest) /\ rest \in S /\ m[rest] < m[s]
      <4>1. /\ Head(s) \in Tags /\ Tail(s) \in Seq(Tags) /\ Len(s) \in Nat /\ Len(s) # 0
            /\ Len(Tail(s)) = Len(s) - 1
            /\ Wire(s) = writeTag[Head(s)] \o Wire(Tail(s))
        BY <1>1, <2>2, Shorter
      <4>2. Tail(s) \in S /\ m[Tail(s)] = Len(Tail(s)) /\ m[s] = Len(s)
        BY <1>1, <1>2, <4>1
      <4>3. m[Tail(s)] < m[s]
        BY <4>1, <4>2
      <4> QED BY <4>1, <4>2, <4>3
    <3>2. Skips(rest)
      BY <1>4, <3>1
    <3>3. PICK r \in Seq(Nat) : r = Wire(rest)
      BY WireSteps
    <3>4. skipTags[n][writeTag[tag] \o r] = skipTags[n - 1][r]
      BY <3>1, TagSkipped
    <3>5. Skips(s)
      BY <3>1, <3>2, <3>3, <3>4 DEF Skips
    <3> QED BY <3>5
  <2> QED BY <2>1, <2>2
<1>5. S \subseteq T
  <2> HIDE DEF T
  <2> QED BY <1>3, <1>4, MeasureInduction
<1> QED BY <1>1, <1>5

(* ----------------------- the payload and the frame ----------------------- *)

\* Quotient and remainder of a number are numbers.
LEMMA DivNat ==
  ASSUME NEW b \in Nat, b >= 2, NEW v \in Nat
  PROVE  v \div b \in Nat /\ v % b \in Nat
<1>1. PICK q : q = v \div b
  OBVIOUS
<1>2. PICK r : r = v % b
  OBVIOUS
<1>3. q \in Int /\ r \in 0..b-1 /\ v = b * q + r
  BY <1>1, <1>2
<1>4. q >= 0
  <2> SUFFICES ASSUME q <= -1 PROVE FALSE
    BY <1>3
  <2>1. b * q <= b * (-1)
    BY <1>3
  <2> QED BY <2>1, <1>3
<1> QED BY <1>1, <1>2, <1>3, <1>4

\* What does not fit is cut off: four bytes are written whatever the number.
LEMMA BE4Type ==
  ASSUME NEW v \in Nat
  PROVE  BE4(v) \in Seq(Nat) /\ Len(BE4(v)) = 4
<1>1. ASSUME NEW u \in Nat PROVE BE2(u) \in Seq(Nat) /\ Len(BE2(u)) = 2
  <2>1. PICK x \in Nat, y \in Nat : x = (u \div Base) % Base /\ y = u % Base
    <3>1. PICK q \in Nat : q = u \div Base
      BY DivNat, BaseAssumption
    <3>2. q % Base \in Nat /\ u % Base \in Nat
      BY DivNat, BaseAssumption
    <3> QED BY <3>1, <3>2
  <2>2. BE2(u) = <<x>> \o <<y>>
    BY <2>1 DEF BE2, BE1
  <2>3. <<x>> \o <<y>> = <<x, y>>
    BY Pair
  <2>4. <<x, y>> \in Seq(Nat) /\ Len(<<x, y>>) = 2
    OBVIOUS
  <2> QED BY <2>2, <2>3, <2>4
<1>2. v \div B2 \in Nat /\ v % B2 \in Nat
  BY DivNat, Squares
<1>3. PICK s \in Seq(Nat), t \in Seq(Nat) :
        s = BE2(v \div B2) /\ t = BE2(v % B2) /\ Len(s) = 2 /\ Len(t) = 2
  BY <1>1, <1>2
<1>4. BE4(v) = s \o t
  BY <1>3 DEF BE4
<1>5. PICK c \in Seq(Nat) : c = s \o t /\ Len(c) = Len(s) + Len(t)
  BY Joined
<1>6. Len(c) = 4
  <2>1. Len(s) = 2 /\ Len(t) = 2
    BY <1>3
  <2>2. Len(c) = Len(s) + Len(t)
    BY <1>5
  <2> QED BY <2>1, <2>2
<1> QED BY <1>4, <1>5, <1>6

\* What PacketsAssumption says of one packet.
LEMMA PacketParts ==
  ASSUME NEW p \in Packets
  PROVE  /\ p = [opcode |-> p.opcode, tags |-> p.tags]
         /\ p.opcode \in Nat /\ p.tags \in Seq(Tags) /\ Len(p.tags) \in Nat /\ Len(p.tags) < B2
<1>1. p \in [opcode : Nat, tags : Seq(Tags)] /\ Len(p.tags) < B2
  BY PacketsAssumption
<1> QED BY <1>1, LenProperties

\* A payload is the opcode and the count, three bytes, and the tags.
Opening(p) == <<p.opcode>> \o BE2(Len(p.tags))

\* The opcode and the count are the first three bytes of a payload.
LEMMA OpeningRead ==
  ASSUME NEW p \in Packets, NEW h, h = Opening(p)
  PROVE  /\ h \in Seq(Nat) /\ Len(h) = 3 /\ h[1] = p.opcode
         /\ Number2(SubSeq(h, 2, 3)) = Len(p.tags)
<1>1. PICK op \in Nat : op = p.opcode
  BY PacketParts
<1>2. <<op>> \in Seq(Nat) /\ Len(<<op>>) = 1
  OBVIOUS
<1>3. PICK a \in Seq(Nat) : a = <<op>> /\ Len(a) = 1 /\ a[1] = op
  BY <1>2
<1>4. PICK b \in Seq(Nat) : b = BE2(Len(p.tags)) /\ Len(b) = 2 /\ Number2(b) = Len(p.tags)
  BY PacketParts, BE2Written
<1>5. h = a \o b
  BY <1>1, <1>3, <1>4 DEF Opening
<1>6. h \in Seq(Nat) /\ Len(h) = 3
  <2>1. h \in Seq(Nat) /\ Len(h) = Len(a) + Len(b)
    BY <1>5, Joined
  <2> QED BY <1>3, <1>4, <2>1
<1>7. h[1] = op
  <2>1. \A i \in 1..Len(a) + Len(b) : h[i] = IF i <= Len(a) THEN a[i] ELSE b[i - Len(a)]
    BY <1>5, ConcatProperties
  <2>2. 1 \in 1..Len(a) + Len(b) /\ 1 <= Len(a)
    BY <1>3, <1>4
  <2> QED BY <1>3, <2>1, <2>2
<1>8. SubSeq(h, 2, 3) = b
  <2>1. Len(a) > 0 /\ Len(b) > 0
    BY <1>3, <1>4
  <2>2. Halved(h, a, b)
    BY <1>5, <2>1, Halves
  <2> QED BY <1>3, <1>4, <2>2 DEF Halved
<1> QED BY <1>1, <1>4, <1>6, <1>7, <1>8

\* A payload is its opening and its tags.
LEMMA PayloadParts ==
  ASSUME NEW p \in Packets
  PROVE  /\ payloadOf(p) = Opening(p) \o Wire(p.tags)
         /\ payloadOf(p) \in Seq(Nat) /\ Wire(p.tags) \in Seq(Nat)
         /\ Len(payloadOf(p)) \in Nat /\ Len(payloadOf(p)) < B4
<1>1. payloadOf(p) = Opening(p) \o Wire(p.tags)
  BY DEF payloadOf, Opening, Wire, Written
<1>2. Opening(p) \in Seq(Nat) /\ Wire(p.tags) \in Seq(Nat)
  BY OpeningRead, PacketParts, WireSteps
<1>3. payloadOf(p) \in Seq(Nat)
  BY <1>1, <1>2, Joined
<1> QED BY <1>1, <1>2, <1>3, LenProperties, LengthsAssumption

\* A frame is the flags and the length of the payload, eight bytes, and the payload.
Leading(p) == BE4(FlagBase) \o BE4(Len(payloadOf(p)))

\* A frame is its header and its payload, and the header measures the payload.
LEMMA FrameParts ==
  ASSUME NEW p \in Packets, NEW f, f = encode(p)
  PROVE  /\ f = Leading(p) \o payloadOf(p) /\ f \in Seq(Nat)
         /\ Leading(p) \in Seq(Nat) /\ Len(Leading(p)) = 8
         /\ Len(f) = 8 + Len(payloadOf(p))
         /\ Number4(SubSeq(f, 5, 8)) = Len(payloadOf(p))
<1>1. PICK w \in Seq(Nat) : w = payloadOf(p)
  BY PayloadParts
<1>2. PICK a \in Seq(Nat) : a = BE4(FlagBase) /\ Len(a) = 4
  BY BE4Type DEF FlagBase
<1>3. PICK b \in Seq(Nat) : b = BE4(Len(w)) /\ Len(b) = 4 /\ Number4(b) = Len(w)
  BY <1>1, PayloadParts, BE4Written
<1>4. PICK ab \in Seq(Nat) : ab = a \o b /\ Len(ab) = 8
  <2>1. a \o b \in Seq(Nat) /\ Len(a \o b) = Len(a) + Len(b)
    BY Joined
  <2>2. Len(a \o b) = 8
    BY <1>2, <1>3, <2>1
  <2> QED BY <2>1, <2>2
<1>5. Leading(p) = ab /\ f = ab \o w
  BY <1>1, <1>2, <1>3, <1>4 DEF Leading, encode
<1>6. f \in Seq(Nat) /\ Len(f) = Len(ab) + Len(w)
  BY <1>5, Joined
<1>7. SubSeq(f, 5, 8) = b
  <2>1. Regroups(a, b, w)
    BY Associates
  <2>2. PICK bw \in Seq(Nat) : bw = b \o w
    BY Joined
  <2>3. f = a \o bw
    BY <1>4, <1>5, <2>1, <2>2 DEF Regroups
  <2>4. SubSeq(ab, 5, 8) = b
    <3>1. Len(a) > 0 /\ Len(b) > 0
      BY <1>2, <1>3
    <3>2. Halved(ab, a, b)
      BY <1>4, <3>1, Halves
    <3> QED BY <1>2, <1>3, <3>2 DEF Halved
  <2>5. PICK i, j : i = 5 /\ j = 8
    OBVIOUS
  <2>6. i \in 1..Len(ab) /\ j \in 1..Len(ab)
    BY <1>4, <2>5
  <2>7. SubSeq(ab \o w, i, j) = SubSeq(ab, i, j)
    BY <2>6, SubSeqOfConcat1
  <2> QED BY <1>5, <2>4, <2>5, <2>7
<1> QED BY <1>1, <1>3, <1>4, <1>5, <1>6, <1>7

\* What is decoded from a payload that begins with the opcode and the count of p.
LEMMA Decoded ==
  ASSUME NEW p \in Packets, NEW y \in Seq(Nat), NEW all, all = readTags[y][Len(p.tags)]
  PROVE  decodePayload(Opening(p) \o y) =
           IF ~all.ok THEN Error ELSE [opcode |-> p.opcode, tags |-> all.tags]
<1>1. PICK h \in Seq(Nat) : h = Opening(p) /\ Len(h) = 3
  BY OpeningRead
<1>2. PICK bytes : bytes = h \o y
  OBVIOUS
<1>3. PICK head : head = take(bytes, 3)
  OBVIOUS
<1>4. head.ok = TRUE /\ head.data = h /\ head.rest = y
  <2>1. PICK k : k = 3 /\ k = Len(h)
    BY <1>1
  <2>2. take(h \o y, k) = [ok |-> TRUE, data |-> h, rest |-> y]
    BY <2>1, Taken
  <2>3. head = [ok |-> TRUE, data |-> h, rest |-> y]
    BY <1>2, <1>3, <2>1, <2>2
  <2> QED BY <2>3, Fields
<1>5. Number2(SubSeq(head.data, 2, 3)) = Len(p.tags) /\ head.data[1] = p.opcode
  BY <1>1, <1>4, OpeningRead
<1>6. decodePayload(bytes) = IF ~all.ok THEN Error ELSE [opcode |-> p.opcode, tags |-> all.tags]
  BY <1>3, <1>4, <1>5 DEF decodePayload
<1> QED BY <1>1, <1>2, <1>6

\* What is written is read.
LEMMA PayloadRead ==
  ASSUME NEW p \in Packets
  PROVE  decodePayload(payloadOf(p)) = p
<1>1. PICK w \in Seq(Nat) : w = Wire(p.tags)
  BY PayloadParts
<1>2. PICK all : all = readTags[w][Len(p.tags)]
  OBVIOUS
<1>3. all.ok = TRUE /\ all.tags = p.tags
  <2>1. PICK z \in Seq(Nat) : z = <<>>
    BY EmptySeq
  <2>2. ReadBack(p.tags, z)
    BY PacketParts, WireReadBack
  <2>3. w \o z = w
    BY <2>1, ConcatEmptySeq
  <2>4. all = [ok |-> TRUE, tags |-> p.tags, rest |-> z]
    BY <1>1, <1>2, <2>2, <2>3 DEF ReadBack
  <2> QED BY <2>4, ResultFields
<1>4. decodePayload(payloadOf(p)) = [opcode |-> p.opcode, tags |-> p.tags]
  <2>1. decodePayload(Opening(p) \o w) =
          IF ~all.ok THEN Error ELSE [opcode |-> p.opcode, tags |-> all.tags]
    BY <1>2, Decoded
  <2> QED BY <1>1, <1>3, <2>1, PayloadParts
<1> QED BY <1>4, PacketParts

\* What ends early is an error.
LEMMA PayloadTears ==
  ASSUME NEW p \in Packets, NEW x \in Seq(Nat), NEW q \in Seq(Nat),
         payloadOf(p) = x \o q, q # <<>>
  PROVE  decodePayload(x) = Error
<1>1. PICK h \in Seq(Nat), w \in Seq(Nat) : h = Opening(p) /\ Len(h) = 3 /\ w = Wire(p.tags)
  BY OpeningRead, PayloadParts
<1>2. h \o w = x \o q
  BY <1>1, PayloadParts
<1>3. CASE Len(x) < 3
  <2>1. take(x, 3) = Thrown
    BY <1>3, TakenShort
  <2> QED BY <2>1, ThrownFails DEF decodePayload
<1>4. CASE ~(Len(x) < 3)
  <2>1. Len(h) <= Len(x)
    BY <1>1, <1>4, LenProperties
  <2>2. PICK y \in Seq(Nat) : x = h \o y /\ w = y \o q
    <3>1. Continues(h, w, x, q)
      BY <1>2, <2>1, Split
    <3> QED BY <3>1 DEF Continues
  <2>3. Throws(y, Len(p.tags))
    <3>1. Tears(w, Len(p.tags))
      BY <1>1, PacketParts, WireTears
    <3> QED BY <2>2, <3>1 DEF Tears
  <2>4. PICK all : all = readTags[y][Len(p.tags)]
    OBVIOUS
  <2>5. decodePayload(Opening(p) \o y) =
          IF ~all.ok THEN Error ELSE [opcode |-> p.opcode, tags |-> all.tags]
    BY <2>4, Decoded
  <2>6. ~all.ok
    BY <2>3, <2>4, ThrownFails DEF Throws
  <2> QED BY <1>1, <2>2, <2>5, <2>6
<1> QED BY <1>3, <1>4

\* What is decoded of a frame is what follows its first eight bytes.
LEMMA BehindLeading ==
  ASSUME NEW a \in Seq(Nat), NEW x \in Seq(Nat), Len(a) = 8, NEW f, f = a \o x
  PROVE  SubSeq(f, HeaderSize + 1, Len(f)) = x
<1>1. Len(f) = 8 + Len(x) /\ Len(x) \in Nat
  BY Joined
<1>2. PICK k : k = 8 /\ k = Len(a)
  OBVIOUS
<1>3. PICK r : r = take(f, k)
  OBVIOUS
<1>4. r = [ok |-> TRUE, data |-> a, rest |-> x]
  BY <1>2, <1>3, Taken
<1>5. r = [ok |-> TRUE, data |-> SubSeq(f, 1, k), rest |-> SubSeq(f, k + 1, Len(f))]
  <2>1. ~(k < 0) /\ ~(Len(f) < k)
    BY <1>1, <1>2
  <2> QED BY <1>3, <2>1 DEF take
<1>6. r.rest = x
  BY <1>4, Fields
<1>7. r.rest = SubSeq(f, k + 1, Len(f))
  <2>1. PICK d, u : d = SubSeq(f, 1, k) /\ u = SubSeq(f, k + 1, Len(f))
    OBVIOUS
  <2>2. r = [ok |-> TRUE, data |-> d, rest |-> u]
    BY <1>5, <2>1
  <2> QED BY <2>1, <2>2, Fields
<1> QED BY <1>2, <1>6, <1>7 DEF HeaderSize

\* The tags begin behind the header, the opcode and the count.
LEMMA BehindOpening ==
  ASSUME NEW p \in Packets, NEW f, f = encode(p)
  PROVE  SubSeq(f, HeaderSize + 4, Len(f)) = Wire(p.tags)
<1>1. PICK a \in Seq(Nat), h \in Seq(Nat), w \in Seq(Nat) :
        /\ a = Leading(p) /\ Len(a) = 8 /\ h = Opening(p) /\ Len(h) = 3 /\ w = Wire(p.tags)
  BY FrameParts, OpeningRead, PayloadParts
<1>2. PICK ah \in Seq(Nat) : ah = a \o h /\ Len(ah) = 11
  <2>1. PICK b \in Seq(Nat) : b = a \o h /\ Len(b) = Len(a) + Len(h)
    BY Joined
  <2>2. Len(b) = 11
    BY <1>1, <2>1
  <2> QED BY <2>1, <2>2
<1>3. f = ah \o w
  <2>1. Regroups(a, h, w)
    BY Associates
  <2>2. f = a \o (h \o w)
    BY <1>1, FrameParts, PayloadParts
  <2> QED BY <1>2, <2>1, <2>2 DEF Regroups
<1>4. Len(f) = 11 + Len(w) /\ Len(w) \in Nat
  BY <1>2, <1>3, Joined
<1>5. PICK k : k = 11 /\ k = Len(ah)
  BY <1>2
<1>6. PICK r : r = take(f, k)
  OBVIOUS
<1>7. r = [ok |-> TRUE, data |-> ah, rest |-> w]
  <2>1. take(ah \o w, k) = [ok |-> TRUE, data |-> ah, rest |-> w]
    BY <1>5, Taken
  <2> QED BY <1>3, <1>6, <2>1
<1>8. r = [ok |-> TRUE, data |-> SubSeq(f, 1, k), rest |-> SubSeq(f, k + 1, Len(f))]
  <2>1. ~(k < 0) /\ ~(Len(f) < k)
    BY <1>4, <1>5
  <2> QED BY <1>6, <2>1 DEF take
<1>9. r.rest = w
  BY <1>7, Fields
<1>10. r.rest = SubSeq(f, k + 1, Len(f))
  <2>1. PICK d, u : d = SubSeq(f, 1, k) /\ u = SubSeq(f, k + 1, Len(f))
    OBVIOUS
  <2>2. r = [ok |-> TRUE, data |-> d, rest |-> u]
    BY <1>8, <2>1
  <2> QED BY <2>1, <2>2, Fields
<1>11. k + 1 = HeaderSize + 4
  BY <1>5 DEF HeaderSize
<1> QED BY <1>1, <1>9, <1>10, <1>11

(* ------------------------------ the machine ------------------------------ *)

\* The frame that arrives is the one that was sent, or a strict beginning of it that
\* still has the header; what was decoded is the packet, or an error.
CodecInv ==
  /\ packet \in Packets /\ phase \in {"made", "sent", "cut", "read", "misread"}
  /\ phase = "made" => frame = <<>>
  /\ phase \in {"sent", "read"} => frame = encode(packet)
  /\ phase \in {"cut", "misread"} =>
       \E n \in HeaderSize..Len(encode(packet)) - 1 : frame = SubSeq(encode(packet), 1, n)
  /\ decoded = IF phase = "read" THEN packet ELSE Error

\* A frame that is cut behind its header is the header and a strict beginning of the payload.
LEMMA CutFrame ==
  ASSUME NEW p \in Packets, NEW n \in HeaderSize..Len(encode(p)) - 1,
         NEW f, f = SubSeq(encode(p), 1, n)
  PROVE  /\ f \in Seq(Nat)
         /\ \E x \in Seq(Nat) : f = Leading(p) \o x /\ StrictlyBegins(x, payloadOf(p))
<1>1. PICK e \in Seq(Nat), a \in Seq(Nat), w \in Seq(Nat) :
        e = encode(p) /\ a = Leading(p) /\ w = payloadOf(p) /\ e = a \o w /\ Len(a) = 8
  BY FrameParts, PayloadParts
<1>2. n \in Nat /\ Len(e) \in Nat /\ 8 <= n /\ n < Len(e)
  BY <1>1, LenProperties DEF HeaderSize
<1>3. PICK r : r = take(e, n)
  OBVIOUS
<1>4. r.data = f
  <2>1. PICK d, u : d = SubSeq(e, 1, n) /\ u = SubSeq(e, n + 1, Len(e))
    OBVIOUS
  <2>2. r = [ok |-> TRUE, data |-> d, rest |-> u]
    <3>1. ~(n < 0) /\ ~(Len(e) < n)
      BY <1>2
    <3> QED BY <1>3, <2>1, <3>1 DEF take
  <2> QED BY <1>1, <2>1, <2>2, Fields
<1>5. PICK b \in Seq(Nat), q \in Seq(Nat) : e = b \o q /\ Len(b) = n
  <2>1. n <= Len(e)
    BY <1>2
  <2> QED BY <1>2, <2>1, SplitAt
<1>6. f = b
  <2>1. take(b \o q, n) = [ok |-> TRUE, data |-> b, rest |-> q]
    BY <1>5, Taken
  <2>2. r = [ok |-> TRUE, data |-> b, rest |-> q]
    BY <1>3, <1>5, <2>1
  <2>3. r.data = b
    BY <2>2, Fields
  <2> QED BY <1>4, <2>3
<1>7. PICK x \in Seq(Nat) : b = a \o x /\ w = x \o q
  <2>1. a \o w = b \o q /\ Len(a) <= Len(b)
    BY <1>1, <1>2, <1>5
  <2>2. Continues(a, w, b, q)
    BY <2>1, Split
  <2> QED BY <2>2 DEF Continues
<1>8. q # <<>>
  <2>1. Len(e) = Len(b) + Len(q)
    BY <1>5, Joined
  <2>2. Len(q) # 0
    BY <1>2, <1>5, <2>1
  <2> QED BY <2>2, EmptySeq
<1>9. StrictlyBegins(x, w)
  BY <1>7, <1>8 DEF StrictlyBegins
<1> QED BY <1>1, <1>6, <1>7, <1>9

\* CodecInv holds at every step: Cut tears the frame, Receive reads or rejects it.
LEMMA CodecInductive ==
  Spec => []CodecInv
<1>1. Init => CodecInv
  BY DEF Init, CodecInv
<1>2. CodecInv /\ [Next]_vars => CodecInv'
  <2> SUFFICES ASSUME CodecInv, [Next]_vars PROVE CodecInv'
    OBVIOUS
  <2>1. CASE Send
    BY <2>1 DEF CodecInv, Send
  <2>2. CASE Cut
    <3>1. frame = encode(packet) /\ phase = "sent"
      BY <2>2 DEF CodecInv, Cut
    <3>2. PICK n \in HeaderSize..Len(frame) - 1 : frame' = SubSeq(frame, 1, n)
      BY <2>2 DEF Cut
    <3>3. /\ packet' = packet /\ decoded' = decoded /\ phase' = "cut"
          /\ n \in HeaderSize..Len(encode(packet)) - 1
          /\ frame' = SubSeq(encode(packet), 1, n)
      BY <2>2, <3>1, <3>2 DEF Cut
    <3> QED BY <3>1, <3>3 DEF CodecInv
  <2>3. CASE Receive
    <3>1. packet \in Packets /\ packet' = packet /\ frame' = frame
      BY <2>3 DEF CodecInv, Receive
    <3>2. decoded' = decodePayload(SubSeq(frame, HeaderSize + 1, Len(frame)))
      BY <2>3 DEF Receive
    <3>3. CASE phase = "sent"
      <4>1. frame = encode(packet) /\ phase' = "read"
        BY <2>3, <3>3 DEF CodecInv, Receive
      <4>2. PICK a \in Seq(Nat), w \in Seq(Nat) :
              a = Leading(packet) /\ w = payloadOf(packet) /\ frame = a \o w /\ Len(a) = 8
        BY <3>1, <4>1, FrameParts, PayloadParts
      <4>3. SubSeq(frame, HeaderSize + 1, Len(frame)) = w
        BY <4>2, BehindLeading
      <4>4. decoded' = packet
        BY <3>1, <3>2, <4>2, <4>3, PayloadRead
      <4> QED BY <3>1, <4>1, <4>4 DEF CodecInv
    <3>4. CASE phase = "cut"
      <4>1. phase' = "misread"
        BY <2>3, <3>4 DEF Receive
      <4>2. PICK n \in HeaderSize..Len(encode(packet)) - 1 :
              frame = SubSeq(encode(packet), 1, n)
        BY <3>4 DEF CodecInv
      <4>3. PICK x \in Seq(Nat) :
              frame = Leading(packet) \o x /\ StrictlyBegins(x, payloadOf(packet))
        BY <3>1, <4>2, CutFrame
      <4>4. PICK a \in Seq(Nat) : a = Leading(packet) /\ Len(a) = 8
        BY <3>1, FrameParts
      <4>5. SubSeq(frame, HeaderSize + 1, Len(frame)) = x
        BY <4>3, <4>4, BehindLeading
      <4>6. decodePayload(x) = Error
        <5>1. PICK q \in Seq(Nat) : payloadOf(packet) = x \o q /\ q # <<>>
          BY <4>3 DEF StrictlyBegins
        <5> QED BY <3>1, <5>1, PayloadTears
      <4>7. decoded' = Error
        BY <3>2, <4>5, <4>6
      <4> QED BY <3>1, <4>1, <4>2, <4>7 DEF CodecInv
    <3> QED BY <2>3, <3>3, <3>4 DEF Receive
  <2>4. CASE UNCHANGED vars
    BY <2>4 DEF CodecInv, vars
  <2> QED BY <2>1, <2>2, <2>3, <2>4 DEF Next
<1> QED BY <1>1, <1>2, PTL DEF Spec

\* Whatever is on the wire is bytes.
LEMMA FrameType ==
  ASSUME CodecInv
  PROVE  frame \in Seq(Nat)
<1>1. CASE phase = "made"
  BY <1>1 DEF CodecInv
<1>2. CASE phase \in {"sent", "read"}
  <2>1. packet \in Packets /\ frame = encode(packet)
    BY <1>2 DEF CodecInv
  <2> QED BY <2>1, FrameParts
<1>3. CASE phase \in {"cut", "misread"}
  <2>1. packet \in Packets
    BY DEF CodecInv
  <2>2. PICK n \in HeaderSize..Len(encode(packet)) - 1 : frame = SubSeq(encode(packet), 1, n)
    BY <1>3 DEF CodecInv
  <2> QED BY <2>1, <2>2, CutFrame
<1> QED BY <1>1, <1>2, <1>3 DEF CodecInv

\* Types: what is on the wire is a sequence of bytes whatever was cut off, and what
\* was decoded has an opcode and tags, an error included.
THEOREM CodecTypeCorrect ==
  Spec => []TypeOK
<1>1. ASSUME CodecInv PROVE TypeOK
  <2>1. frame \in Seq(Nat)
    BY <1>1, FrameType
  <2>2. DOMAIN decoded = {"opcode", "tags"} /\ decoded.opcode \in Int
    <3>1. CASE phase = "read"
      <4>1. packet \in Packets /\ decoded = packet
        BY <1>1, <3>1 DEF CodecInv
      <4>2. packet \in [opcode : Nat, tags : Seq(Tags)]
        BY <4>1, PacketsAssumption
      <4> QED BY <4>1, <4>2
    <3>2. CASE phase # "read"
      BY <1>1, <3>2 DEF CodecInv, Error
    <3> QED BY <3>1, <3>2
  <2> QED BY <1>1, <2>1, <2>2 DEF TypeOK, CodecInv
<1> QED BY <1>1, CodecInductive, PTL

\* Reading back a frame gives the packet that was written, for every tree of tags and
\* every value a tag can carry (encode and decodePayload).
THEOREM CodecRoundTrip ==
  Spec => []RoundTrip
<1>1. CodecInv => RoundTrip
  BY DEF CodecInv, RoundTrip
<1> QED BY <1>1, CodecInductive, PTL

\* A payload that ends early, wherever, is a decode error and never another packet
\* (Cursor::take and what readTag makes of it).
THEOREM CodecCutIsError ==
  Spec => []CutIsError
<1>1. CodecInv => CutIsError
  BY DEF CodecInv, CutIsError
<1> QED BY <1>1, CodecInductive, PTL

\* The length in the header is that of what follows it: readPacket finds the next
\* frame behind this one.
THEOREM CodecHeaderMeasures ==
  Spec => []HeaderMeasures
<1>1. ASSUME CodecInv PROVE HeaderMeasures
  <2> SUFFICES ASSUME phase = "sent"
               PROVE  Number4(SubSeq(frame, 5, 8)) = Len(frame) - HeaderSize
    BY DEF HeaderMeasures
  <2>1. packet \in Packets /\ frame = encode(packet)
    BY <1>1 DEF CodecInv
  <2>2. /\ Len(frame) = 8 + Len(payloadOf(packet))
        /\ Number4(SubSeq(frame, 5, 8)) = Len(payloadOf(packet))
    BY <2>1, FrameParts
  <2>3. Len(payloadOf(packet)) \in Nat
    BY <2>1, PayloadParts
  <2> QED BY <2>2, <2>3 DEF HeaderSize
<1> QED BY <1>1, CodecInductive, PTL

\* Going from tag to tag by their length fields alone ends where the frame ends:
\* tagLen counts all that writeTag writes below a tag's header, and nothing twice.
THEOREM CodecLengthsSkip ==
  Spec => []LengthsSkip
<1>1. ASSUME CodecInv PROVE LengthsSkip
  <2> SUFFICES ASSUME phase = "sent"
               PROVE  skipTags[Len(packet.tags)][SubSeq(frame, HeaderSize + 4, Len(frame))]
                        = [ok |-> TRUE, rest |-> <<>>]
    BY DEF LengthsSkip
  <2>1. packet \in Packets /\ frame = encode(packet)
    BY <1>1 DEF CodecInv
  <2>2. SubSeq(frame, HeaderSize + 4, Len(frame)) = Wire(packet.tags)
    BY <2>1, BehindOpening
  <2>3. Skips(packet.tags)
    BY <2>1, PacketParts, WireSkips
  <2> QED BY <2>2, <2>3 DEF Skips
<1> QED BY <1>1, CodecInductive, PTL

=============================================================================
