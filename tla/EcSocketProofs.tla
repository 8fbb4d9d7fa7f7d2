--------------------------- MODULE EcSocketProofs ---------------------------
(***************************************************************************)
(* Theorems about EcSocket, for bodies of any size and any number of       *)
(* exchanges.                                                              *)
(***************************************************************************)
EXTENDS EcSocket, SequenceTheorems, TLAPS

(* -------------------------- lemmas on the operators ---------------------- *)

\* A function on 1..m is a sequence of length m.
LEMMA FunctionIsSeq ==
  ASSUME NEW S, NEW m \in Nat, NEW f \in [1..m -> S]
  PROVE  f \in Seq(S) /\ Len(f) = m
<1>1. f \in Seq(S)
  BY SeqDef
<1>2. Len(f) \in Nat /\ DOMAIN f = 1..Len(f)
  BY <1>1, LenProperties
<1>3. DOMAIN f = 1..m
  OBVIOUS
<1>4. Len(f) = m
  <2>1. CASE Len(f) < m
    <3>1. m \in 1..m /\ m \notin 1..Len(f)
      BY <1>2, <2>1
    <3> QED BY <1>2, <1>3, <3>1
  <2>2. CASE Len(f) > m
    <3>1. Len(f) \in 1..Len(f) /\ Len(f) \notin 1..m
      BY <1>2, <2>2
    <3> QED BY <1>2, <1>3, <3>1
  <2> QED BY <1>2, <2>1, <2>2
<1> QED BY <1>1, <1>4

\* The cells of a reply: their request and their place, the length in the second.
LEMMA ReplyCells ==
  ASSUME NEW r \in Nat, NEW n \in Nat, NEW z \in Nat
  PROVE  /\ Reply(r, n, z) \in Seq(Cell) /\ Len(Reply(r, n, z)) = n + 2
         /\ Reply(r, n, z)[1].val = z /\ Reply(r, n, z)[2].val = n
         /\ \A k \in 1..n + 2 : Reply(r, n, z)[k].of = r /\ Reply(r, n, z)[k].at = k
<1>1. HeaderCells + n = n + 2 /\ n + 2 \in Nat
  BY DEF HeaderCells
<1>2. Reply(r, n, z) \in [1..n + 2 -> Cell]
  BY <1>1 DEF Reply, Cell
<1>3. \A k \in 1..n + 2 :
        Reply(r, n, z)[k] = [of |-> r, at |-> k,
                             val |-> IF k = 1 THEN z ELSE IF k = 2 THEN n ELSE 0]
  BY <1>1 DEF Reply
<1>4. 1 \in 1..n + 2 /\ 2 \in 1..n + 2
  OBVIOUS
<1> QED BY <1>1, <1>2, <1>3, <1>4, FunctionIsSeq

\* The same by name: the cells are a reply of length n to request r, with flag z.
IsReply(cells, r, n, z) ==
  /\ cells \in Seq(Cell) /\ Len(cells) = n + 2 /\ cells[1].val = z /\ cells[2].val = n
  /\ \A k \in 1..n + 2 : cells[k].of = r /\ cells[k].at = k

LEMMA ReplyIsReply ==
  ASSUME NEW r \in Nat, NEW n \in Nat, NEW z \in Nat
  PROVE  IsReply(Reply(r, n, z), r, n, z)
BY ReplyCells DEF IsReply

\* The least of two numbers.
LEMMA MinOfTwo ==
  ASSUME NEW a \in Int, NEW b \in Int
  PROVE  Min({a, b}) = IF a <= b THEN a ELSE b
<1> DEFINE m == IF a <= b THEN a ELSE b
           P(x) == x \in {a, b} /\ \A y \in {a, b} : x <= y
<1>1. P(m)
  OBVIOUS
<1>2. \A x : P(x) => x = m
  OBVIOUS
<1>3. Min({a, b}) = CHOOSE x : P(x)
  BY DEF Min
<1>4. P(CHOOSE x : P(x))
  BY <1>1
<1> QED BY <1>2, <1>3, <1>4

\* Consecutive numbers, from lo to hi.
LEMMA NumbersSeq ==
  ASSUME NEW lo \in Nat, NEW hi \in Int, lo <= hi + 1
  PROVE  /\ Numbers(lo, hi) \in Seq(Nat) /\ Len(Numbers(lo, hi)) = hi + 1 - lo
         /\ \A i \in 1..hi + 1 - lo : Numbers(lo, hi)[i] = lo + i - 1
<1>1. hi + 1 - lo \in Nat
  OBVIOUS
<1>2. Numbers(lo, hi) \in [1..hi + 1 - lo -> Nat]
  BY DEF Numbers
<1> QED BY <1>1, <1>2, FunctionIsSeq DEF Numbers

LEMMA NumbersNone ==
  ASSUME NEW lo \in Int, NEW hi \in Int, hi < lo
  PROVE  Numbers(lo, hi) = <<>>
<1>1. 1..hi + 1 - lo = 1..0
  OBVIOUS
<1>2. Numbers(lo, hi) \in [1..0 -> Nat]
  BY <1>1 DEF Numbers
<1>3. Numbers(lo, hi) \in Seq(Nat) /\ Len(Numbers(lo, hi)) = 0
  BY <1>2, FunctionIsSeq
<1> QED BY <1>3, EmptySeq

LEMMA NumbersAppend ==
  ASSUME NEW lo \in Nat, NEW hi \in Nat, lo <= hi
  PROVE  Append(Numbers(lo, hi - 1), hi) = Numbers(lo, hi)
<1>1. /\ Numbers(lo, hi - 1) \in Seq(Nat) /\ Len(Numbers(lo, hi - 1)) = hi - lo
      /\ \A i \in 1..hi - lo : Numbers(lo, hi - 1)[i] = lo + i - 1
  BY NumbersSeq
<1>2. /\ Numbers(lo, hi) \in Seq(Nat) /\ Len(Numbers(lo, hi)) = hi + 1 - lo
      /\ \A i \in 1..hi + 1 - lo : Numbers(lo, hi)[i] = lo + i - 1
  BY NumbersSeq
<1>3. /\ Append(Numbers(lo, hi - 1), hi) \in Seq(Nat)
      /\ Len(Append(Numbers(lo, hi - 1), hi)) = hi + 1 - lo
      /\ \A i \in 1..hi - lo : Append(Numbers(lo, hi - 1), hi)[i] = lo + i - 1
      /\ Append(Numbers(lo, hi - 1), hi)[hi + 1 - lo] = hi
  <2>1. hi - lo + 1 = hi + 1 - lo
    OBVIOUS
  <2> QED BY <1>1, <2>1, AppendProperties
<1>4. \A i \in 1..hi + 1 - lo : i \in 1..hi - lo \/ i = hi + 1 - lo
  OBVIOUS
<1>5. \A i \in 1..hi + 1 - lo : Append(Numbers(lo, hi - 1), hi)[i] = Numbers(lo, hi)[i]
  BY <1>2, <1>3, <1>4
<1> QED BY <1>2, <1>3, <1>5, SeqEqual

LEMMA NumbersFirst ==
  ASSUME NEW lo \in Nat, NEW hi \in Nat, lo <= hi
  PROVE  /\ Numbers(lo, hi) # <<>> /\ Head(Numbers(lo, hi)) = lo
         /\ Tail(Numbers(lo, hi)) = Numbers(lo + 1, hi)
<1>1. /\ Numbers(lo, hi) \in Seq(Nat) /\ Len(Numbers(lo, hi)) = hi + 1 - lo
      /\ \A i \in 1..hi + 1 - lo : Numbers(lo, hi)[i] = lo + i - 1
  BY NumbersSeq
<1>2. /\ Numbers(lo + 1, hi) \in Seq(Nat) /\ Len(Numbers(lo + 1, hi)) = hi - lo
      /\ \A i \in 1..hi - lo : Numbers(lo + 1, hi)[i] = lo + i
  <2>1. /\ lo + 1 \in Nat /\ lo + 1 <= hi + 1 /\ hi + 1 - (lo + 1) = hi - lo
        /\ \A i \in 1..hi - lo : lo + 1 + i - 1 = lo + i
    OBVIOUS
  <2>2. /\ Numbers(lo + 1, hi) \in Seq(Nat)
        /\ Len(Numbers(lo + 1, hi)) = hi + 1 - (lo + 1)
        /\ \A i \in 1..hi + 1 - (lo + 1) : Numbers(lo + 1, hi)[i] = lo + 1 + i - 1
    BY <2>1, NumbersSeq
  <2> QED BY <2>1, <2>2
<1>3. Numbers(lo, hi) # <<>> /\ Head(Numbers(lo, hi)) = lo
  BY <1>1
<1>4. /\ Tail(Numbers(lo, hi)) \in Seq(Nat) /\ Len(Tail(Numbers(lo, hi))) = hi - lo
      /\ \A i \in 1..hi - lo : Tail(Numbers(lo, hi))[i] = lo + i
  BY <1>1, <1>3, HeadTailProperties
<1> QED BY <1>2, <1>3, <1>4, SeqEqual

LEMMA NumbersPrefix ==
  ASSUME NEW lo \in Nat, NEW hi \in Int, NEW mid \in Int, lo <= mid + 1, mid <= hi
  PROVE  /\ mid + 1 - lo \in 0..Len(Numbers(lo, hi))
         /\ Numbers(lo, mid) = SubSeq(Numbers(lo, hi), 1, mid + 1 - lo)
<1>0. lo <= hi + 1
  OBVIOUS
<1>1. /\ Numbers(lo, hi) \in Seq(Nat) /\ Len(Numbers(lo, hi)) = hi + 1 - lo
      /\ \A i \in 1..hi + 1 - lo : Numbers(lo, hi)[i] = lo + i - 1
  BY <1>0, NumbersSeq
<1>2. /\ Numbers(lo, mid) \in Seq(Nat) /\ Len(Numbers(lo, mid)) = mid + 1 - lo
      /\ \A i \in 1..mid + 1 - lo : Numbers(lo, mid)[i] = lo + i - 1
  BY NumbersSeq
<1>3. \A i \in 1..mid + 1 - lo : Numbers(lo, hi)[i] \in Nat
  BY <1>1
<1>4. /\ SubSeq(Numbers(lo, hi), 1, mid + 1 - lo) \in Seq(Nat)
      /\ Len(SubSeq(Numbers(lo, hi), 1, mid + 1 - lo)) = mid + 1 - lo
      /\ \A i \in 1..mid + 1 - lo :
           SubSeq(Numbers(lo, hi), 1, mid + 1 - lo)[i] = lo + i - 1
  BY <1>1, <1>3, SubSeqProperties
<1>5. Numbers(lo, mid) = SubSeq(Numbers(lo, hi), 1, mid + 1 - lo)
  BY <1>2, <1>4, SeqEqual
<1> QED BY <1>1, <1>5

(* ----------------------------- rows of replies --------------------------- *)

\* The cells from place j on are a reply, as far as they go, and then the next.
FrameAt(row, j) ==
  LET n == row[j + 1].val IN
  \A i \in j..Len(row) :
    /\ i <= j + 1 + n => row[i] = Reply(row[j].of, n, row[j].val)[i + 1 - j]
    /\ i = j + 2 + n => row[i].at = 1 /\ row[i].of = row[j].of + 1

\* The row is cut into replies of consecutive requests, the first one whole.
Framing(row) ==
  /\ row # <<>> => row[1].at = 1
  /\ \A j \in 1..Len(row) : row[j].at = 1 /\ j < Len(row) => FrameAt(row, j)

Ordered(row) == \A i, j \in 1..Len(row) : i <= j => row[i].of <= row[j].of

\* The last reply is not cut short, and the next one to come is to request r.
Whole(row, r) ==
  \A j \in 1..Len(row) : row[j].at = 1 =>
    /\ j < Len(row) /\ j + 1 + row[j + 1].val <= Len(row)
    /\ j + 1 + row[j + 1].val = Len(row) => row[j].of + 1 = r

\* No reply in the row is to request r or a later one.
Below(row, r) == \A i \in 1..Len(row) : row[i].of < r

\* How rows may be part of each other: the one begins or ends with the other.
Begins(row, part) == Len(part) <= Len(row) /\ \A i \in 1..Len(part) : part[i] = row[i]
Ends(row, m, part) ==
  Len(row) = m + Len(part) /\ \A i \in 1..Len(part) : part[i] = row[m + i]

LEMMA ConcatCells ==
  ASSUME NEW s \in Seq(Cell), NEW t \in Seq(Cell)
  PROVE  s \o t \in Seq(Cell) /\ Begins(s \o t, s) /\ Ends(s \o t, Len(s), t)
<1>1. /\ s \o t \in Seq(Cell) /\ Len(s \o t) = Len(s) + Len(t)
      /\ \A i \in 1..Len(s) + Len(t) : (s \o t)[i] =
                      IF i <= Len(s) THEN s[i] ELSE t[i - Len(s)]
  BY ConcatProperties
<1>2. Len(s) \in Nat /\ Len(t) \in Nat
  OBVIOUS
<1>3. ASSUME NEW i \in 1..Len(s) PROVE (s \o t)[i] = s[i]
  <2>1. i \in 1..Len(s) + Len(t) /\ i <= Len(s)
    BY <1>2
  <2> QED BY <1>1, <2>1
<1>4. ASSUME NEW i \in 1..Len(t) PROVE t[i] = (s \o t)[Len(s) + i]
  <2>1. /\ Len(s) + i \in 1..Len(s) + Len(t) /\ ~(Len(s) + i <= Len(s))
        /\ Len(s) + i - Len(s) = i
    BY <1>2
  <2> QED BY <1>1, <2>1
<1>5. Len(s) <= Len(s \o t)
  BY <1>1, <1>2
<1> QED BY <1>1, <1>3, <1>4, <1>5 DEF Begins, Ends

\* What is left of a row once its end is lost.
LEMMA RowPrefix ==
  ASSUME NEW row \in Seq(Cell), NEW part \in Seq(Cell), Begins(row, part),
         Framing(row), Ordered(row)
  PROVE  Framing(part) /\ Ordered(part)
<1>0. /\ Len(row) \in Nat /\ Len(part) \in Nat /\ Len(part) <= Len(row)
      /\ \A i \in 1..Len(part) : i \in 1..Len(row) /\ part[i] = row[i]
  BY DEF Begins
<1>1. Ordered(part)
  BY <1>0 DEF Ordered
<1>2. part # <<>> => part[1].at = 1
  <2> SUFFICES ASSUME part # <<>> PROVE part[1].at = 1
    OBVIOUS
  <2>1. 1 \in 1..Len(part)
    <3>1. Len(part) # 0
      BY EmptySeq
    <3> QED BY <1>0, <3>1
  <2>2. part[1] = row[1] /\ 1 \in 1..Len(row)
    BY <1>0, <2>1
  <2>3. row # <<>>
    BY <2>2
  <2>4. row[1].at = 1
    BY <2>3 DEF Framing
  <2> QED BY <2>2, <2>4
<1>3. ASSUME NEW j \in 1..Len(part), part[j].at = 1, j < Len(part)
      PROVE  FrameAt(part, j)
  <2>1. /\ j \in 1..Len(row) /\ j < Len(row) /\ part[j] = row[j] /\ part[j + 1] = row[j + 1]
    BY <1>0, <1>3
  <2>2. FrameAt(row, j)
    BY <1>3, <2>1 DEF Framing
  <2>3. \A i \in j..Len(part) : i \in j..Len(row) /\ part[i] = row[i]
    BY <1>0
  <2> QED BY <2>1, <2>2, <2>3 DEF FrameAt
<1> QED BY <1>1, <1>2, <1>3 DEF Framing

\* The fields of a cell are numbers.
LEMMA CellFields ==
  ASSUME NEW row \in Seq(Cell), NEW i \in 1..Len(row)
  PROVE  /\ row[i] \in Cell
         /\ row[i].of \in Nat /\ row[i].at \in Nat /\ row[i].val \in Nat
<1>1. row[i] \in Cell
  OBVIOUS
<1> QED BY <1>1 DEF Cell

\* What is left of a row once its first reply is read.
LEMMA RowRest ==
  ASSUME NEW row \in Seq(Cell), NEW rest \in Seq(Cell), NEW m \in Nat, NEW n \in Nat,
         1 < Len(row), row[2].val = n, m = n + 2, Ends(row, m, rest),
         Framing(row), Ordered(row)
  PROVE  /\ Framing(rest) /\ Ordered(rest)
         /\ rest # <<>> => rest[1].of = row[1].of + 1
         /\ \A r : Whole(row, r) => Whole(rest, r)
<1>0. Len(row) \in Nat /\ Len(rest) \in Nat /\ Len(row) = m + Len(rest)
  BY DEF Ends
<1>1. ASSUME NEW i \in 1..Len(rest)
      PROVE  rest[i] = row[m + i] /\ m + i \in 1..Len(row) /\ i \in Nat
  BY <1>0 DEF Ends
<1>2. ASSUME NEW i \in 1..Len(rest), i < Len(rest)
      PROVE  /\ rest[i + 1] = row[m + i + 1] /\ m + i < Len(row)
             /\ m + i + 1 \in 1..Len(row)
  <2>1. i + 1 \in 1..Len(rest) /\ m + (i + 1) = m + i + 1 /\ m + i < Len(row)
    BY <1>0, <1>2
  <2>2. rest[i + 1] = row[m + (i + 1)] /\ m + (i + 1) \in 1..Len(row)
    BY <1>1, <2>1
  <2> QED BY <2>1, <2>2
<1>3. Ordered(rest)
  <2> SUFFICES ASSUME NEW i \in 1..Len(rest), NEW j \in 1..Len(rest), i <= j
               PROVE  rest[i].of <= rest[j].of
    BY DEF Ordered
  <2>1. /\ m + i \in 1..Len(row) /\ m + j \in 1..Len(row)
        /\ rest[i] = row[m + i] /\ rest[j] = row[m + j]
    BY <1>1
  <2>2. m + i <= m + j
    BY <1>0
  <2>3. row[m + i].of <= row[m + j].of
    BY <2>1, <2>2 DEF Ordered
  <2> QED BY <2>1, <2>3
<1>4. rest # <<>> => rest[1].at = 1 /\ rest[1].of = row[1].of + 1
  <2> SUFFICES ASSUME rest # <<>> PROVE rest[1].at = 1 /\ rest[1].of = row[1].of + 1
    OBVIOUS
  <2>1. 1 \in 1..Len(row) /\ 1 < Len(row) /\ row # <<>> /\ 1 \in 1..Len(rest)
    BY <1>0
  <2>2. FrameAt(row, 1)
    BY <2>1 DEF Framing
  <2>3. m + 1 \in 1..Len(row) /\ rest[1] = row[m + 1]
    BY <1>1, <2>1
  <2>4. m + 1 = 1 + 2 + n /\ row[1 + 1].val = n
    OBVIOUS
  <2> QED BY <2>2, <2>3, <2>4 DEF FrameAt
<1>5. ASSUME NEW j \in 1..Len(rest), rest[j].at = 1, j < Len(rest)
      PROVE  FrameAt(rest, j)
  <2>1. /\ m + j \in 1..Len(row) /\ m + j < Len(row) /\ rest[j] = row[m + j]
        /\ rest[j + 1] = row[m + j + 1] /\ m + j + 1 \in 1..Len(row)
    BY <1>1, <1>2, <1>5
  <2>2. FrameAt(row, m + j)
    BY <1>5, <2>1 DEF Framing
  <2>3. PICK v \in Nat : v = row[m + j + 1].val
    BY <2>1, CellFields
  <2> SUFFICES ASSUME NEW i \in j..Len(rest)
               PROVE  /\ i <= j + 1 + v => rest[i] = Reply(rest[j].of, v, rest[j].val)[i + 1 - j]
                      /\ i = j + 2 + v => rest[i].at = 1 /\ rest[i].of = rest[j].of + 1
    BY <2>1, <2>3 DEF FrameAt
  <2>4. i \in 1..Len(rest) /\ m + i \in m + j..Len(row)
    BY <1>0
  <2>5. rest[i] = row[m + i]
    BY <1>1, <2>4
  <2>6. /\ m + i + 1 - (m + j) = i + 1 - j
        /\ i <= j + 1 + v => m + i <= m + j + 1 + v
        /\ i = j + 2 + v => m + i = m + j + 2 + v
    BY <1>0
  <2>7. /\ m + i <= m + j + 1 + v
             => row[m + i] = Reply(row[m + j].of, v, row[m + j].val)[m + i + 1 - (m + j)]
        /\ m + i = m + j + 2 + v => row[m + i].at = 1 /\ row[m + i].of = row[m + j].of + 1
    BY <2>2, <2>3, <2>4 DEF FrameAt
  <2> QED BY <2>1, <2>5, <2>6, <2>7
<1>6. ASSUME NEW r, Whole(row, r), NEW j \in 1..Len(rest), rest[j].at = 1
      PROVE  /\ j < Len(rest) /\ j + 1 + rest[j + 1].val <= Len(rest)
             /\ j + 1 + rest[j + 1].val = Len(rest) => rest[j].of + 1 = r
  <2>1. m + j \in 1..Len(row) /\ rest[j] = row[m + j]
    BY <1>1
  <2>2. /\ m + j < Len(row) /\ m + j + 1 + row[m + j + 1].val <= Len(row)
        /\ m + j + 1 + row[m + j + 1].val = Len(row) => row[m + j].of + 1 = r
    BY <1>6, <2>1 DEF Whole
  <2>3. j < Len(rest)
    BY <1>0, <2>2
  <2>4. rest[j + 1] = row[m + j + 1] /\ m + j + 1 \in 1..Len(row)
    BY <1>2, <2>3
  <2>5. PICK v \in Nat : v = row[m + j + 1].val
    BY <2>4, CellFields
  <2>6. m + j + 1 + v <= Len(row) => j + 1 + v <= Len(rest)
    BY <1>0
  <2>7. j + 1 + v = Len(rest) => m + j + 1 + v = Len(row)
    BY <1>0
  <2> QED BY <2>1, <2>2, <2>3, <2>4, <2>5, <2>6, <2>7
<1> QED BY <1>3, <1>4, <1>5, <1>6 DEF Framing, Whole

\* A row with one more reply behind it.
LEMMA RowAppend ==
  ASSUME NEW row \in Seq(Cell), NEW r \in Nat, NEW n \in Nat, NEW z \in Nat,
         NEW more \in Seq(Cell), Begins(more, row), Ends(more, Len(row), Reply(r, n, z)),
         Framing(row), Ordered(row), Whole(row, r), Below(row, r)
  PROVE  /\ Framing(more) /\ Ordered(more) /\ Whole(more, r + 1) /\ Below(more, r + 1)
<1>a. PICK L \in Nat : L = Len(row)
  OBVIOUS
<1>b. /\ Len(Reply(r, n, z)) = n + 2 /\ Len(more) = L + n + 2
  <2>1. Len(Reply(r, n, z)) = n + 2
    BY ReplyCells
  <2>2. Len(more) = L + Len(Reply(r, n, z))
    BY <1>a DEF Ends
  <2> QED BY <2>1, <2>2
<1>0. L + 1 \in 1..Len(more) /\ L + 1 < Len(more) /\ Len(more) \in Nat
  BY <1>b
<1>1. ASSUME NEW i \in 1..Len(more), i \notin 1..L
      PROVE  /\ more[i] = Reply(r, n, z)[i - L] /\ i - L \in 1..n + 2
             /\ more[i].of = r /\ more[i].at = i - L
  <2>1. PICK k \in 1..n + 2 : k = i - L /\ i = L + k
    BY <1>0, <1>1, <1>b
  <2>2. more[i] = Reply(r, n, z)[k]
    BY <1>a, <1>b, <2>1 DEF Ends
  <2>3. Reply(r, n, z)[k].of = r /\ Reply(r, n, z)[k].at = k
    BY ReplyCells
  <2> QED BY <2>1, <2>2, <2>3
<1>2. ASSUME NEW i \in 1..L PROVE more[i] = row[i] /\ row[i].of \in Nat /\ row[i].of < r
  BY <1>a, CellFields DEF Begins, Below
<1>3. \A i \in 1..Len(more) : more[i].of \in Nat /\ more[i].of <= r
  <2> SUFFICES ASSUME NEW i \in 1..Len(more) PROVE more[i].of \in Nat /\ more[i].of <= r
    OBVIOUS
  <2>1. CASE i \in 1..L
    BY <1>2, <2>1
  <2>2. CASE i \notin 1..L
    <3>1. more[i].of = r
      BY <1>1, <2>2
    <3> QED BY <3>1
  <2> QED BY <2>1, <2>2
<1>4. Ordered(more)
  <2> SUFFICES ASSUME NEW i \in 1..Len(more), NEW j \in 1..Len(more), i <= j
               PROVE  more[i].of <= more[j].of
    BY DEF Ordered
  <2>1. CASE j \notin 1..L
    <3>1. more[j].of = r
      BY <1>1, <2>1
    <3> QED BY <1>3, <3>1
  <2>2. CASE j \in 1..L
    <3>1. i \in 1..L
      BY <1>0, <2>2
    <3>2. row[i].of <= row[j].of
      BY <1>a, <2>2, <3>1 DEF Ordered
    <3> QED BY <1>2, <2>2, <3>1, <3>2
  <2> QED BY <2>1, <2>2
<1>5. /\ more[L + 1].at = 1 /\ more[L + 1].of = r
      /\ more[L + 1].val = z /\ more[L + 1 + 1].val = n
  <2>1. 1 \in 1..n + 2 /\ 2 \in 1..n + 2 /\ L + 1 + 1 = L + 2
    OBVIOUS
  <2>2. more[L + 1] = Reply(r, n, z)[1] /\ more[L + 2] = Reply(r, n, z)[2]
    BY <1>a, <1>b, <2>1 DEF Ends
  <2>3. IsReply(Reply(r, n, z), r, n, z)
    BY ReplyIsReply
  <2>4. /\ Reply(r, n, z)[1].of = r /\ Reply(r, n, z)[1].at = 1
        /\ Reply(r, n, z)[1].val = z /\ Reply(r, n, z)[2].val = n
    BY <2>1, <2>3 DEF IsReply
  <2> QED BY <2>1, <2>2, <2>4
\* Replies begin where they did, or with the new one.
<1>6. ASSUME NEW j \in 1..Len(more), more[j].at = 1
      PROVE  j = L + 1 \/ (j \in 1..L /\ row[j].at = 1)
  <2>1. CASE j \in 1..L
    BY <1>2, <1>6, <2>1
  <2>2. CASE j \notin 1..L
    <3>1. j - L = 1
      BY <1>1, <1>6, <2>2
    <3> QED BY <1>0, <3>1
  <2> QED BY <2>1, <2>2
<1>7. ASSUME NEW j \in 1..L, row[j].at = 1
      PROVE  /\ j < L /\ j + 1 \in 1..L /\ more[j] = row[j] /\ more[j + 1] = row[j + 1]
             /\ j + 1 + row[j + 1].val <= L /\ row[j + 1].val \in Nat
             /\ j + 1 + row[j + 1].val = L => row[j].of + 1 = r
  <2>1. /\ j < L /\ j + 1 + row[j + 1].val <= L
        /\ j + 1 + row[j + 1].val = L => row[j].of + 1 = r
    BY <1>7, <1>a DEF Whole
  <2>2. j + 1 \in 1..L
    BY <2>1
  <2>3. row[j + 1].val \in Nat
    BY <1>a, <2>2, CellFields
  <2> QED BY <1>2, <2>1, <2>2, <2>3
<1>8. more # <<>> => more[1].at = 1
  <2>1. CASE L = 0
    BY <1>5, <2>1
  <2>2. CASE L # 0
    <3>1. 1 \in 1..L /\ row # <<>>
      BY <1>a, <2>2
    <3>2. row[1].at = 1
      BY <3>1 DEF Framing
    <3> QED BY <1>2, <3>1, <3>2
  <2> QED BY <2>1, <2>2
<1>9. FrameAt(more, L + 1)
  <2> SUFFICES ASSUME NEW i \in L + 1..Len(more)
               PROVE  /\ i <= L + 1 + 1 + n => more[i] = Reply(r, n, z)[i + 1 - (L + 1)]
                      /\ i # L + 1 + 2 + n
    BY <1>5 DEF FrameAt
  <2>1. i \in 1..Len(more) /\ i \notin 1..L /\ i + 1 - (L + 1) = i - L /\ i # L + 1 + 2 + n
    BY <1>0, <1>b
  <2> QED BY <1>1, <2>1
<1>10. ASSUME NEW j \in 1..L, row[j].at = 1 PROVE FrameAt(more, j)
  <2>1. PICK v \in Nat : v = row[j + 1].val
    BY <1>7, <1>10
  <2>2. /\ FrameAt(row, j) /\ more[j] = row[j] /\ more[j + 1] = row[j + 1]
        /\ j + 1 + v <= L /\ (j + 1 + v = L => row[j].of + 1 = r)
    BY <1>7, <1>10, <1>a, <2>1 DEF Framing
  <2> SUFFICES ASSUME NEW i \in j..Len(more)
               PROVE  /\ i <= j + 1 + v => more[i] = Reply(row[j].of, v, row[j].val)[i + 1 - j]
                      /\ i = j + 2 + v => more[i].at = 1 /\ more[i].of = row[j].of + 1
    BY <2>1, <2>2 DEF FrameAt
  <2>3. CASE i <= L
    <3>1. i \in j..Len(row) /\ i \in 1..L
      BY <1>0, <1>a, <2>3
    <3>2. more[i] = row[i]
      BY <1>2, <3>1
    <3>3. /\ i <= j + 1 + v => row[i] = Reply(row[j].of, v, row[j].val)[i + 1 - j]
          /\ i = j + 2 + v => row[i].at = 1 /\ row[i].of = row[j].of + 1
      BY <2>1, <2>2, <3>1 DEF FrameAt
    <3> QED BY <3>2, <3>3
  <2>4. CASE i > L
    <3>1. ~(i <= j + 1 + v)
      BY <2>2, <2>4
    <3>2. i = j + 2 + v => i = L + 1 /\ j + 1 + v = L
      BY <1>0, <2>2, <2>4
    <3> QED BY <1>5, <2>2, <3>1, <3>2
  <2> QED BY <2>3, <2>4
<1>11. Framing(more)
  BY <1>6, <1>8, <1>9, <1>10 DEF Framing
<1>12. Whole(more, r + 1)
  <2> SUFFICES ASSUME NEW j \in 1..Len(more), more[j].at = 1
               PROVE  /\ j < Len(more) /\ j + 1 + more[j + 1].val <= Len(more)
                      /\ j + 1 + more[j + 1].val = Len(more) => more[j].of + 1 = r + 1
    BY DEF Whole
  <2>1. CASE j = L + 1
    <3>1. L + 1 + 1 + n = Len(more)
      BY <1>b
    <3> QED BY <1>0, <1>5, <2>1, <3>1
  <2>2. CASE j \in 1..L /\ row[j].at = 1
    <3>1. PICK v \in Nat : v = row[j + 1].val
      BY <1>7, <2>2
    <3>2. more[j + 1].val = v /\ j < L /\ j + 1 + v <= L
      BY <1>7, <2>2, <3>1
    <3>3. j < Len(more) /\ j + 1 + v < Len(more)
      BY <1>0, <3>2
    <3> QED BY <3>2, <3>3
  <2> QED BY <1>6, <2>1, <2>2
<1>13. Below(more, r + 1)
  BY <1>3 DEF Below
<1> QED BY <1>4, <1>11, <1>12, <1>13

(* -------------------------- the inductive invariant ---------------------- *)

\* The oldest request not answered yet.
First == made + 1 - Len(pending)

PhaseInv ==
  /\ pc = "idle" => header = <<>> /\ got = <<>> /\ need = 0
  /\ pc = "header" => header = <<>> /\ need = HeaderCells
  /\ pc = "payload" => Len(header) = HeaderCells
  /\ pc # "idle" => made >= 1

\* The requests still to be answered are the last ones made.
LinkInv ==
  /\ Len(pending) <= made
  /\ \A i \in 1..Len(pending) : pending[i] = made - Len(pending) + i
  /\ ~up => pending = <<>> /\ arrived = Len(stream)

\* What is unread is whole replies to the requests before those, in order.
Rows ==
  /\ Framing(Row) /\ Ordered(Row) /\ Below(Row, First)
  /\ up => Whole(Row, First)

RowInv ==
  framed => /\ Rows
            /\ pc = "payload" => need = header[2].val
            /\ up /\ pc # "idle" => Oldest <= made

IInv == TypeOK /\ PhaseInv /\ LinkInv /\ RowInv

LEMMA RowType ==
  ASSUME TypeOK
  PROVE  /\ Row \in Seq(Cell) /\ Len(Row) = Len(header) + Len(got) + Len(stream)
         /\ Len(Row) \in Nat /\ header \o got \in Seq(Cell)
         /\ Len(header \o got) = Len(header) + Len(got)
BY ConcatProperties DEF TypeOK, Row

LEMMA RowSame ==
  ASSUME TypeOK, TypeOK', header' \o got' = header \o got, stream' = stream
  PROVE  Row' = Row
BY DEF Row

LEMMA FirstType ==
  ASSUME TypeOK, LinkInv
  PROVE  /\ First \in Nat /\ First >= 1 /\ First <= made + 1
         /\ made \in Nat /\ Len(pending) \in Nat
<1>1. made \in Nat /\ Len(pending) \in Nat
  BY SocketAssumption DEF TypeOK
<1> QED BY <1>1 DEF First, LinkInv

\* The next reply to read is to a request before those, or to the first of them.
LEMMA OldestType ==
  ASSUME TypeOK, LinkInv, Rows
  PROVE  /\ Oldest \in Nat /\ Oldest <= First
         /\ Row = <<>> => Oldest = First
         /\ Row # <<>> => /\ Oldest = Row[1].of /\ Oldest < First
                         /\ 1 \in 1..Len(Row) /\ Len(Row) \in 1..Len(Row)
<1>1. First \in Nat
  BY FirstType
<1>2. CASE Row = <<>>
  BY <1>1, <1>2 DEF Oldest, First
<1>3. CASE Row # <<>>
  <2>1. Row \in Seq(Cell) /\ Len(Row) \in Nat \ {0}
    BY <1>3, RowType, EmptySeq
  <2>2. 1 \in 1..Len(Row) /\ Len(Row) \in 1..Len(Row)
    BY <2>1
  <2>3. Row[1].of \in Nat /\ Row[1].of < First
    BY <2>1, <2>2, CellFields DEF Rows, Below
  <2> QED BY <1>1, <1>3, <2>2, <2>3 DEF Oldest
<1> QED BY <1>2, <1>3

\* Rows that stay as they are, on a connection that stays as it is.
LEMMA RowsStay ==
  ASSUME TypeOK, LinkInv, Rows, Row' = Row, up' = up,
         First' = First \/ (~up /\ First' = First + 1)
  PROVE  Rows'
<1>1. First \in Nat /\ Row \in Seq(Cell)
  BY FirstType, RowType
<1>2. CASE First' = First
  BY <1>2 DEF Rows
<1>3. CASE ~up /\ First' = First + 1
  <2>1. Below(Row, First + 1)
    <3> SUFFICES ASSUME NEW i \in 1..Len(Row) PROVE Row[i].of < First + 1
      BY DEF Below
    <3>1. Row[i].of \in Nat /\ Row[i].of < First
      BY <1>1, CellFields DEF Rows, Below
    <3> QED BY <1>1, <3>1
  <2> QED BY <1>3, <2>1 DEF Rows
<1> QED BY <1>2, <1>3

(* --------------------------- type correctness ---------------------------- *)

LEMMA InitInv == Init => IInv
<1> SUFFICES ASSUME Init PROVE IInv
  OBVIOUS
<1>1. TypeOK
  BY SocketAssumption DEF Init, TypeOK, Kinds
<1>2. Row = <<>> /\ Len(Row) = 0 /\ Len(pending) = 0 /\ Len(stream) = 0
  BY <1>1, RowType, EmptySeq DEF Init, Row
<1>3. PhaseInv /\ LinkInv
  BY <1>2 DEF Init, PhaseInv, LinkInv
<1>4. Framing(<<>>) /\ Ordered(<<>>) /\ Below(<<>>, First) /\ Whole(<<>>, First)
  BY <1>2 DEF Framing, Ordered, Below, Whole, Init
<1>5. RowInv
  BY <1>2, <1>4 DEF RowInv, Rows, Init
<1> QED BY <1>1, <1>3, <1>5 DEF IInv

\* How an exchange that is over leaves the reader.
LEMMA Returned ==
  ASSUME NEW kind \in Kinds, NEW of \in Nat, Return(kind, of)
  PROVE  /\ pc' = "idle" /\ header' = <<>> /\ got' = <<>> /\ need' = 0
         /\ answer' = [kind |-> kind, of |-> of]
         /\ answer' \in [kind : Kinds, of : Nat]
         /\ header' \in Seq(Cell) /\ got' \in Seq(Cell) /\ need' \in Nat /\ Len(got') <= need'
<1>1. /\ pc' = "idle" /\ header' = <<>> /\ got' = <<>> /\ need' = 0
      /\ answer' = [kind |-> kind, of |-> of]
  BY DEF Return, Await
<1> QED BY <1>1, EmptySeq

(* ------------------------- what each step leaves ------------------------- *)

\* A request is written: it is the last in line.
LEMMA WriteStep ==
  ASSUME IInv, Write
  PROVE  IInv' /\ Row' = Row /\ (up => First' = First) /\ (~up => pending' = <<>>)
<1> USE DEF IInv
<1>1. /\ pc = "idle" /\ made \in Nat /\ made < MaxExchanges /\ made' = made + 1
      /\ made' \in 1..MaxExchanges
      /\ UNCHANGED <<stream, arrived, up, framed>>
  BY SocketAssumption DEF Write, TypeOK
<1>2. header = <<>> /\ got = <<>> /\ need = 0
  BY <1>1 DEF PhaseInv
<1>3. /\ pc' \in {"idle", "header"} /\ header' = <<>> /\ got' = <<>>
      /\ pc' = "idle" => need' = 0
      /\ pc' = "header" => need' = HeaderCells
      /\ need' \in Nat /\ Len(got') <= need' /\ header' \in Seq(Cell) /\ got' \in Seq(Cell)
      /\ answer' \in [kind : Kinds, of : Nat]
  <2>1. CASE pc' = "header" /\ Await(HeaderCells) /\ UNCHANGED <<header, answer>>
    BY <1>2, <2>1, EmptySeq DEF Await, HeaderCells, TypeOK
  <2>2. CASE Return(IF up THEN "timeout" ELSE "closed", 0)
    <3>1. (IF up THEN "timeout" ELSE "closed") \in Kinds
      BY DEF Kinds
    <3> QED BY <2>2, <3>1, Returned
  <2> QED BY <2>1, <2>2 DEF Write
<1>4. /\ pending' \in Seq(1..MaxExchanges)
      /\ up => /\ Len(pending') = Len(pending) + 1
               /\ \A i \in 1..Len(pending) : pending'[i] = pending[i]
               /\ pending'[Len(pending) + 1] = made'
      /\ ~up => pending' = <<>> /\ Len(pending') = 0 /\ Len(pending) = 0
  <2>1. pending \in Seq(1..MaxExchanges) /\ pending' = IF up THEN Append(pending, made') ELSE pending
    BY DEF Write, TypeOK
  <2>2. ~up => pending = <<>>
    BY DEF LinkInv
  <2>3. CASE up
    <3>1. pending' = Append(pending, made')
      BY <2>1, <2>3
    <3> QED BY <1>1, <2>1, <2>3, <3>1, AppendProperties
  <2>4. CASE ~up
    BY <2>1, <2>2, <2>4, EmptySeq
  <2> QED BY <2>3, <2>4
<1>5. TypeOK'
  BY <1>1, <1>3, <1>4 DEF TypeOK
<1>6. Row' = Row
  BY <1>1, <1>2, <1>3, <1>5, RowSame
<1>7. PhaseInv'
  BY <1>1, <1>3 DEF PhaseInv
<1>8. Len(pending) \in Nat /\ Len(pending) <= made
  BY FirstType DEF LinkInv
<1>9. (up => First' = First) /\ (~up => First' = First + 1)
  BY <1>1, <1>4, <1>8 DEF First
<1>10. LinkInv'
  <2>1. ~up' => pending' = <<>> /\ arrived' = Len(stream')
    BY <1>1, <1>4 DEF LinkInv
  <2>2. Len(pending') <= made'
    BY <1>1, <1>4, <1>8
  <2>3. ASSUME NEW i \in 1..Len(pending') PROVE pending'[i] = made' - Len(pending') + i
    <3>1. CASE up
      <4>1. i \in 1..Len(pending) \/ i = Len(pending) + 1
        BY <1>4, <1>8, <3>1
      <4>2. i \in 1..Len(pending) => pending[i] = made - Len(pending) + i
        BY DEF LinkInv
      <4> QED BY <1>1, <1>4, <1>8, <3>1, <4>1, <4>2
    <3>2. CASE ~up
      BY <1>4, <3>2
    <3> QED BY <3>1, <3>2
  <2> QED BY <2>1, <2>2, <2>3 DEF LinkInv
<1>11. RowInv'
  <2> SUFFICES ASSUME framed' PROVE Rows' /\ (up' => Oldest' <= made')
    BY <1>3 DEF RowInv
  <2>1. Rows
    BY <1>1 DEF RowInv
  <2>2. Rows'
    BY <1>1, <1>6, <1>9, <2>1, RowsStay
  <2>3. up' => Oldest' <= made'
    <3>1. Oldest' = IF Row = <<>> THEN First' ELSE Row[1].of
      BY <1>6 DEF Oldest, First
    <3>2. First <= made + 1 /\ First \in Nat
      BY FirstType
    <3>3. Row # <<>> => Row[1].of \in Nat /\ Row[1].of < First
      BY <2>1, OldestType
    <3> QED BY <1>1, <1>9, <3>1, <3>2, <3>3
  <2> QED BY <2>2, <2>3
<1> QED BY <1>4, <1>5, <1>6, <1>7, <1>9, <1>10, <1>11
\* A step that leaves the row, the requests and the connection as they are.
LEMMA RowInvStay ==
  ASSUME IInv, Row' = Row, UNCHANGED <<made, pending, up, framed>>,
         pc' = "payload" => pc = "payload" /\ need' = need /\ header' = header,
         pc' # "idle" => pc # "idle"
  PROVE  RowInv' /\ First' = First /\ Oldest' = Oldest
<1>1. First' = First /\ Oldest' = Oldest
  BY DEF First, Oldest
<1>2. ASSUME framed' PROVE RowInv'
  <2>1. Rows'
    BY <1>1, <1>2, RowsStay DEF IInv, RowInv
  <2> QED BY <1>1, <2>1 DEF IInv, RowInv
<1> QED BY <1>1, <1>2 DEF RowInv

\* Cells go from the socket to the buffer.
LEMMA ReadStep ==
  ASSUME IInv, Read
  PROVE  IInv' /\ Row' = Row /\ First' = First /\ Oldest' = Oldest
<1>1. /\ need \in Nat /\ got \in Seq(Cell) /\ stream \in Seq(Cell) /\ header \in Seq(Cell)
      /\ Len(got) \in Nat /\ Len(stream) \in Nat /\ arrived \in 0..Len(stream)
      /\ Len(got) < need /\ arrived > 0
  BY DEF IInv, TypeOK, Read
<1>2. PICK k : k = Min({need - Len(got), arrived})
  OBVIOUS
<1>3. /\ got' = got \o SubSeq(stream, 1, k) /\ stream' = SubSeq(stream, k + 1, Len(stream))
      /\ arrived' = arrived - k
      /\ UNCHANGED <<pc, made, pending, header, need, up, framed, answer>>
  BY <1>2 DEF Read
<1>4. k \in 1..Len(stream) /\ k <= arrived /\ Len(got) + k <= need /\ k \in Nat
  <2>1. need - Len(got) \in Int /\ arrived \in Int
    BY <1>1
  <2>2. k = IF need - Len(got) <= arrived THEN need - Len(got) ELSE arrived
    BY <1>2, <2>1, MinOfTwo
  <2> QED BY <1>1, <2>2
<1>5. /\ SubSeq(stream, 1, k) \in Seq(Cell) /\ Len(SubSeq(stream, 1, k)) = k
      /\ SubSeq(stream, k + 1, Len(stream)) \in Seq(Cell)
      /\ Len(SubSeq(stream, k + 1, Len(stream))) = Len(stream) - k
  <2>1. \A i \in 1..Len(stream) : stream[i] \in Cell
    BY <1>1
  <2>2. \A i \in 1..k : stream[i] \in Cell
    BY <1>4, <2>1
  <2>3. \A i \in k + 1..Len(stream) : stream[i] \in Cell
    BY <1>4, <2>1
  <2>4. SubSeq(stream, 1, k) \in Seq(Cell) /\ Len(SubSeq(stream, 1, k)) = k
    BY <1>4, <2>2, SubSeqProperties
  <2>5. /\ SubSeq(stream, k + 1, Len(stream)) \in Seq(Cell)
        /\ Len(SubSeq(stream, k + 1, Len(stream))) = Len(stream) - k
    BY <1>1, <1>4, <2>3, SubSeqProperties
  <2> QED BY <2>4, <2>5
<1>6. SubSeq(stream, 1, k) \o SubSeq(stream, k + 1, Len(stream)) = stream
  <2>1. /\ 1 \in 1..Len(stream) + 1 /\ k \in 1 - 1..Len(stream)
        /\ Len(stream) \in k..Len(stream)
    BY <1>1, <1>4
  <2>2. SubSeq(stream, 1, k) \o SubSeq(stream, k + 1, Len(stream))
          = SubSeq(stream, 1, Len(stream))
    BY <1>1, <2>1, ConcatAdjacentSubSeq
  <2> QED BY <1>1, <2>2, SubSeqFull
<1>7. Row' = Row
  <2>a. PICK s1 \in Seq(Cell) : s1 = SubSeq(stream, 1, k)
    BY <1>5
  <2>b. PICK s2 \in Seq(Cell) : s2 = SubSeq(stream, k + 1, Len(stream))
    BY <1>5
  <2>1. Row' = (header \o (got \o s1)) \o s2
    BY <1>3, <2>a, <2>b DEF Row
  <2>2. header \o (got \o s1) = (header \o got) \o s1
    <3>1. PICK h \in Seq(Cell) : h = header
      BY <1>1
    <3>2. PICK g \in Seq(Cell) : g = got
      BY <1>1
    <3>3. (h \o g) \o s1 = h \o (g \o s1)
      BY ConcatAssociative
    <3> QED BY <3>1, <3>2, <3>3
  <2>3. header \o got \in Seq(Cell)
    BY RowType DEF IInv
  <2>4. ((header \o got) \o s1) \o s2 = (header \o got) \o (s1 \o s2)
    <3>1. PICK front \in Seq(Cell) : front = header \o got
      BY <2>3
    <3>2. (front \o s1) \o s2 = front \o (s1 \o s2)
      BY ConcatAssociative
    <3> QED BY <3>1, <3>2
  <2> QED BY <1>6, <2>a, <2>b, <2>1, <2>2, <2>4 DEF Row
<1>8. TypeOK'
  <2>1. got' \in Seq(Cell) /\ Len(got') = Len(got) + k
    BY <1>1, <1>3, <1>5, ConcatProperties
  <2>2. Len(got') <= need' /\ arrived' \in 0..Len(stream')
    BY <1>1, <1>3, <1>4, <1>5, <2>1
  <2> QED BY <1>3, <1>5, <2>1, <2>2 DEF IInv, TypeOK
<1>9. PhaseInv'
  <2>1. pc # "idle"
    <3>1. pc = "idle" => need = 0
      BY DEF IInv, PhaseInv
    <3> QED BY <1>1, <3>1
  <2> QED BY <1>3, <2>1 DEF IInv, PhaseInv
<1>10. LinkInv'
  <2>1. ~up' => pending' = <<>> /\ arrived' = Len(stream')
    BY <1>1, <1>3, <1>4, <1>5 DEF IInv, LinkInv
  <2> QED BY <1>3, <2>1 DEF IInv, LinkInv
<1> QED BY <1>3, <1>7, <1>8, <1>9, <1>10, RowInvStay DEF IInv

\* A wait that ends without enough; only one before the first cell keeps the frames.
LEMMA GiveUpStep ==
  ASSUME IInv, GiveUp
  PROVE  /\ IInv' /\ pc # "idle" /\ pc' = "idle" /\ UNCHANGED <<made, pending, up>>
         /\ answer' = [kind |-> IF up THEN "timeout" ELSE "closed", of |-> 0]
         /\ framed' => framed /\ Row' = Row /\ First' = First /\ Oldest' = Oldest
         /\ framed' /\ ~up => Row = <<>>
<1>1. /\ need \in Nat /\ Len(got) < need /\ got \in Seq(Cell) /\ stream \in Seq(Cell)
      /\ Len(got) \in Nat /\ arrived = 0 /\ UNCHANGED <<made, pending, stream, arrived, up>>
      /\ framed' = (framed /\ pc = "header" /\ got = <<>>)
  BY DEF IInv, TypeOK, GiveUp, wire
<1>2. /\ pc' = "idle" /\ header' = <<>> /\ got' = <<>> /\ need' = 0
      /\ answer' = [kind |-> IF up THEN "timeout" ELSE "closed", of |-> 0]
      /\ answer' \in [kind : Kinds, of : Nat]
      /\ header' \in Seq(Cell) /\ got' \in Seq(Cell) /\ need' \in Nat /\ Len(got') <= need'
  <2>1. (IF up THEN "timeout" ELSE "closed") \in Kinds
    BY DEF Kinds
  <2>2. Return(IF up THEN "timeout" ELSE "closed", 0)
    BY DEF GiveUp
  <2> QED BY <2>1, <2>2, Returned
<1>3. TypeOK'
  <2>1. framed' \in BOOLEAN
    BY <1>1 DEF IInv, TypeOK
  <2> QED BY <1>1, <1>2, <2>1 DEF IInv, TypeOK
<1>4. pc # "idle"
  <2>1. pc = "idle" => need = 0
    BY DEF IInv, PhaseInv
  <2> QED BY <1>1, <2>1
<1>5. PhaseInv' /\ LinkInv'
  BY <1>1, <1>2 DEF IInv, PhaseInv, LinkInv
<1>6. ASSUME framed' PROVE framed /\ Row' = Row /\ (~up => Row = <<>>)
  <2>1. framed /\ pc = "header" /\ got = <<>>
    BY <1>1, <1>6
  <2>2. header = <<>>
    BY <2>1 DEF IInv, PhaseInv
  <2>3. Row' = Row
    BY <1>1, <1>2, <1>3, <2>1, <2>2, RowSame DEF IInv
  <2>4. ~up => Row = <<>>
    <3> SUFFICES ASSUME ~up PROVE Row = <<>>
      OBVIOUS
    <3>1. Len(stream) = 0
      BY <1>1 DEF IInv, LinkInv
    <3>2. Len(Row) = 0 /\ Row \in Seq(Cell)
      BY <2>1, <2>2, <3>1, RowType, EmptySeq DEF IInv
    <3> QED BY <3>2, EmptySeq
  <2> QED BY <2>1, <2>3, <2>4
<1>7. framed' => RowInv' /\ First' = First /\ Oldest' = Oldest
  <2> SUFFICES ASSUME framed' PROVE RowInv' /\ First' = First /\ Oldest' = Oldest
    OBVIOUS
  <2>1. framed' = framed
    BY <1>6 DEF IInv, TypeOK
  <2> QED BY <1>1, <1>2, <1>6, <2>1, RowInvStay
<1>8. RowInv'
  BY <1>7 DEF RowInv
<1> QED BY <1>1, <1>2, <1>3, <1>4, <1>5, <1>6, <1>7, <1>8 DEF IInv

\* The length read is the one the daemon wrote, as long as the frames are kept.
LEMMA HeaderReadStep ==
  ASSUME IInv, HeaderRead
  PROVE  /\ IInv' /\ Row' = Row /\ First' = First /\ Oldest' = Oldest
         /\ pc = "header" /\ pc' = "payload" /\ UNCHANGED <<made, pending, up, framed, answer>>
<1>1. /\ pc = "header" /\ Len(got) = need /\ pc' = "payload" /\ header' = got /\ got' = <<>>
      /\ need' \in 0..MaxBody /\ (got[2].at = 2 => need' = got[2].val)
      /\ UNCHANGED <<made, pending, stream, arrived, up, framed, answer>>
  BY DEF HeaderRead, Await, wire
<1>2. header = <<>> /\ Len(got) = 2 /\ got \in Seq(Cell) /\ stream \in Seq(Cell)
  BY <1>1 DEF IInv, PhaseInv, HeaderCells, TypeOK
<1>3. TypeOK'
  BY <1>1, <1>2, EmptySeq, SocketAssumption DEF IInv, TypeOK
<1>4. Row' = Row
  <2>1. header' \o got' = header \o got
    <3>1. got \o <<>> = got /\ <<>> \o got = got
      BY <1>2, ConcatEmptySeq
    <3> QED BY <1>1, <1>2, <3>1
  <2> QED BY <1>1, <1>3, <2>1, RowSame DEF IInv
<1>5. PhaseInv' /\ LinkInv'
  BY <1>1, <1>2 DEF IInv, PhaseInv, LinkInv, HeaderCells
<1>6. First' = First /\ Oldest' = Oldest
  BY <1>1, <1>4 DEF First, Oldest
<1>7. ASSUME framed' PROVE Rows' /\ need' = header'[2].val /\ (up' => Oldest' <= made')
  <2>1. framed /\ Rows /\ (up => Oldest <= made)
    BY <1>1, <1>7 DEF IInv, RowInv
  <2>2. Rows'
    BY <1>1, <1>4, <1>6, <2>1, RowsStay DEF IInv
  <2>3. got[2].at = 2
    <3>1. Row \in Seq(Cell) /\ Len(Row) \in Nat /\ Len(Row) >= 2
      BY <1>2, RowType, EmptySeq DEF IInv, TypeOK
    <3>2. Row[1] = got[1] /\ Row[2] = got[2]
      <4>1. header \o got = got
        BY <1>2, ConcatEmptySeq
      <4>2. Row = got \o stream
        BY <4>1 DEF Row
      <4>3. Begins(got \o stream, got)
        BY <1>2, ConcatCells
      <4> QED BY <1>2, <4>2, <4>3 DEF Begins
    <3>3. FrameAt(Row, 1) /\ Row[1].at = 1
      <4>1. Row # <<>> /\ 1 \in 1..Len(Row) /\ 1 < Len(Row)
        BY <3>1, EmptySeq
      <4> QED BY <2>1, <4>1 DEF Rows, Framing
    <3>4. PICK v \in Nat : v = Row[2].val
      BY <3>1, CellFields
    <3>5. PICK z \in Nat : z = Row[1].val
      BY <3>1, CellFields
    <3>6. PICK o \in Nat : o = Row[1].of
      BY <3>1, CellFields
    <3>7. Row[2] = Reply(o, v, z)[2]
      <4>1. 2 \in 1..Len(Row) /\ 2 <= 1 + 1 + v /\ 2 + 1 - 1 = 2 /\ 1 + 1 = 2
        BY <3>1
      <4>2. \A i \in 1..Len(Row) :
              i <= 1 + 1 + Row[1 + 1].val
                => Row[i] = Reply(Row[1].of, Row[1 + 1].val, Row[1].val)[i + 1 - 1]
        BY <3>3 DEF FrameAt
      <4> QED BY <3>4, <3>5, <3>6, <4>1, <4>2
    <3>8. Reply(o, v, z)[2].at = 2
      <4>1. IsReply(Reply(o, v, z), o, v, z) /\ 2 \in 1..v + 2
        BY ReplyIsReply
      <4> QED BY <4>1 DEF IsReply
    <3> QED BY <3>2, <3>7, <3>8
  <2> QED BY <1>1, <1>6, <2>1, <2>2, <2>3
<1> QED BY <1>1, <1>3, <1>4, <1>5, <1>6, <1>7 DEF IInv, RowInv

\* A packet read in step with the frames is the first reply of the row.
LEMMA PacketRead ==
  ASSUME IInv, framed, pc = "payload", Len(got) = need
  PROVE  /\ 1 < Len(Row) /\ 1 \in 1..Len(Row) /\ Row[2].val = need /\ Row[1].at = 1
         /\ Ends(Row, need + 2, stream) /\ need \in Nat
         /\ header \o got = Reply(Row[1].of, need, Row[1].val)
         /\ Row[1].of \in Nat /\ Row[1].val \in Nat
         /\ need + 2 \in 1..Len(Row) /\ Row[need + 2].of = Row[1].of
<1>1. /\ need \in Nat /\ Len(header) = 2 /\ header \in Seq(Cell) /\ got \in Seq(Cell)
      /\ stream \in Seq(Cell) /\ Len(stream) \in Nat /\ need = header[2].val /\ Rows
  BY DEF IInv, TypeOK, PhaseInv, HeaderCells, RowInv
<1>2. PICK read \in Seq(Cell) : read = header \o got
  BY RowType DEF IInv
<1>3. PICK m \in Nat : m = need + 2
  BY <1>1
<1>4. /\ Len(read) = m /\ Len(Row) = m + Len(stream)
      /\ Begins(Row, read) /\ Ends(Row, m, stream)
  <2>1. Len(read) = m /\ Row = read \o stream
    BY <1>1, <1>2, <1>3, RowType DEF IInv, Row
  <2>2. stream \in Seq(Cell)
    BY <1>1
  <2>3. Begins(Row, read) /\ Ends(Row, m, stream)
    BY <2>1, <2>2, ConcatCells
  <2> QED BY <2>1, <2>3 DEF Ends
<1>5. /\ Row \in Seq(Cell) /\ 1 < Len(Row) /\ 1 \in 1..Len(Row) /\ 2 \in 1..Len(Row)
      /\ Len(Row) \in Nat /\ m <= Len(Row)
  <2>1. Row \in Seq(Cell)
    BY RowType DEF IInv
  <2>2. need \in Nat /\ Len(stream) \in Nat
    BY <1>1
  <2>3. Len(Row) = m + Len(stream)
    BY <1>4
  <2> QED BY <1>3, <2>1, <2>2, <2>3
<1>6. Row[2] = header[2]
  <2>1. header \in Seq(Cell) /\ got \in Seq(Cell)
    BY <1>1
  <2>2. Begins(read, header)
    BY <1>2, <2>1, ConcatCells
  <2>3. 2 \in 1..Len(header) /\ 2 \in 1..Len(read)
    BY <1>1, <1>3, <1>4
  <2> QED BY <1>4, <2>2, <2>3 DEF Begins
<1>7. Ends(Row, need + 2, stream)
  BY <1>3, <1>4
<1>8. FrameAt(Row, 1) /\ Row[1].at = 1
  <2>1. Row # <<>>
    BY <1>5, EmptySeq
  <2> QED BY <1>1, <1>5, <2>1 DEF Rows, Framing
<1>9. PICK o \in Nat : o = Row[1].of
  BY <1>5, CellFields
<1>10. PICK z \in Nat : z = Row[1].val
  BY <1>5, CellFields
<1>n. PICK n \in Nat : n = need /\ m = n + 2
  BY <1>1, <1>3
<1>a. IsReply(Reply(o, n, z), o, n, z)
  BY ReplyIsReply
<1>11. PICK reply \in Seq(Cell) : reply = Reply(o, n, z)
  BY <1>a DEF IsReply
<1>b. /\ Len(reply) = n + 2
      /\ \A k \in 1..n + 2 : reply[k].of = o /\ reply[k].at = k
  BY <1>a, <1>11 DEF IsReply
<1>12. ASSUME NEW i \in 1..m PROVE i \in 1..Len(Row) /\ Row[i] = reply[i]
  <2>1. i \in 1..Len(Row) /\ i + 1 - 1 = i /\ i <= 1 + 1 + n /\ 1 + 1 = 2
    BY <1>5, <1>n
  <2>2. i <= 1 + 1 + Row[1 + 1].val
            => Row[i] = Reply(Row[1].of, Row[1 + 1].val, Row[1].val)[i + 1 - 1]
    BY <1>8, <2>1 DEF FrameAt
  <2>3. Row[1 + 1].val = n
    BY <1>1, <1>6, <1>n, <2>1
  <2> QED BY <1>9, <1>10, <1>11, <2>1, <2>2, <2>3
<1>13. read = reply
  <2>1. ASSUME NEW i \in 1..m PROVE read[i] = reply[i]
    BY <1>4, <1>12 DEF Begins
  <2> QED BY <1>4, <1>n, <1>b, <2>1, SeqEqual
<1>14. m \in 1..Len(Row) /\ Row[m].of = o
  <2>1. m \in 1..m /\ m \in 1..n + 2
    BY <1>n
  <2>2. reply[m].of = o
    BY <1>b, <2>1
  <2> QED BY <1>12, <2>1, <2>2
<1>15. header \o got = Reply(Row[1].of, need, Row[1].val)
  BY <1>2, <1>9, <1>10, <1>n, <1>11, <1>13
<1>16. need + 2 \in 1..Len(Row) /\ Row[need + 2].of = Row[1].of
  BY <1>3, <1>9, <1>14
<1> QED BY <1>1, <1>5, <1>6, <1>7, <1>8, <1>9, <1>10, <1>15, <1>16

\* A packet leaves the rest of the row, headed by the reply to the next request.
LEMMA PayloadReadStep ==
  ASSUME IInv, PayloadRead
  PROVE  /\ IInv' /\ pc = "payload" /\ pc' = "idle" /\ Len(got) = need
         /\ UNCHANGED <<made, pending, up, framed>> /\ First' = First /\ Row' = stream
         /\ \E kind \in {"packet", "malformed", "compressed"} :
              answer' = [kind |-> kind, of |-> Answering(header \o got)]
         /\ framed => (stream # <<>> => stream[1].of = Row[1].of + 1)
<1>1. /\ pc = "payload" /\ Len(got) = need
      /\ UNCHANGED <<made, pending, stream, arrived, up, framed>>
  BY DEF PayloadRead, wire
<1>2. Answering(header \o got) \in Nat
  <2>1. (header \o got)[1] \in Cell
    <3>1. header \o got \in Seq(Cell) /\ Len(header \o got) = Len(header) + Len(got)
      BY RowType DEF IInv
    <3>2. Len(header) = 2 /\ Len(got) \in Nat
      BY <1>1 DEF IInv, TypeOK, PhaseInv, HeaderCells
    <3>3. 1 \in 1..Len(header \o got)
      BY <3>1, <3>2
    <3> QED BY <3>1, <3>3, ElementOfSeq
  <2> QED BY <2>1 DEF Answering, Cell
<1>3. PICK kind \in {"packet", "malformed", "compressed"} : Return(kind, Answering(header \o got))
  BY DEF PayloadRead
<1>4. /\ pc' = "idle" /\ header' = <<>> /\ got' = <<>> /\ need' = 0
      /\ answer' = [kind |-> kind, of |-> Answering(header \o got)]
      /\ answer' \in [kind : Kinds, of : Nat]
      /\ header' \in Seq(Cell) /\ got' \in Seq(Cell) /\ need' \in Nat /\ Len(got') <= need'
  <2>1. kind \in Kinds
    BY DEF Kinds
  <2> QED BY <1>2, <1>3, <2>1, Returned
<1>5. TypeOK'
  BY <1>1, <1>4 DEF IInv, TypeOK
<1>6. PhaseInv' /\ LinkInv' /\ First' = First
  BY <1>1, <1>4 DEF IInv, PhaseInv, LinkInv, First
<1>7. Row' = stream
  <2>1. Row' = (<<>> \o <<>>) \o stream
    BY <1>1, <1>4 DEF Row
  <2>2. stream \in Seq(Cell) /\ <<>> \in Seq(Cell)
    BY EmptySeq DEF IInv, TypeOK
  <2>3. <<>> \o <<>> = <<>> /\ <<>> \o stream = stream
    BY <2>2, ConcatEmptySeq
  <2> QED BY <2>1, <2>3
<1>8. ASSUME framed PROVE Rows' /\ (stream # <<>> => stream[1].of = Row[1].of + 1)
  <2>1. /\ 1 < Len(Row) /\ Row[2].val = need /\ Ends(Row, need + 2, stream) /\ need \in Nat
    BY <1>1, <1>8, PacketRead
  <2>2. Rows /\ Row \in Seq(Cell) /\ stream \in Seq(Cell)
    BY <1>8, RowType DEF IInv, RowInv, TypeOK
  <2>3. PICK m \in Nat : m = need + 2
    BY <2>1
  <2>4. /\ Framing(stream) /\ Ordered(stream)
        /\ stream # <<>> => stream[1].of = Row[1].of + 1
        /\ \A r : Whole(Row, r) => Whole(stream, r)
    <3>1. Framing(Row) /\ Ordered(Row) /\ Ends(Row, m, stream)
      BY <2>1, <2>2, <2>3 DEF Rows
    <3> QED BY <2>1, <2>2, <2>3, <3>1, RowRest
  <2>5. Below(stream, First)
    <3> SUFFICES ASSUME NEW i \in 1..Len(stream) PROVE stream[i].of < First
      BY DEF Below
    <3>1. stream[i] = Row[m + i] /\ Len(Row) = m + Len(stream) /\ Len(stream) \in Nat
      BY <2>1, <2>2, <2>3 DEF Ends
    <3>2. m + i \in 1..Len(Row)
      BY <3>1
    <3> QED BY <2>2, <3>1, <3>2 DEF Rows, Below
  <2> QED BY <1>1, <1>6, <1>7, <2>2, <2>4, <2>5 DEF Rows
<1>9. RowInv'
  BY <1>1, <1>4, <1>8 DEF RowInv
<1> QED BY <1>1, <1>3, <1>4, <1>5, <1>6, <1>7, <1>8, <1>9 DEF IInv

\* The daemon's next reply goes behind the row.
LEMMA AnswerStep ==
  ASSUME IInv, Answer
  PROVE  /\ IInv' /\ up /\ UNCHANGED <<pc, made, up, framed, answer>>
         /\ framed => Oldest' = Oldest
<1>1. /\ up /\ pending # <<>> /\ pending' = Tail(pending)
      /\ UNCHANGED <<pc, made, arrived, header, need, got, up, framed, answer>>
  BY DEF Answer, reading
<1>2. PICK n \in 0..MaxBody, z \in {0, 1} : stream' = stream \o Reply(Head(pending), n, z)
  BY DEF Answer
<1>3. /\ Len(pending) \in Nat \ {0} /\ pending' \in Seq(1..MaxExchanges)
      /\ Len(pending') = Len(pending) - 1 /\ made \in Nat
      /\ \A i \in 1..Len(pending') : pending'[i] = pending[i + 1]
  <2>1. pending \in Seq(1..MaxExchanges) /\ made \in Nat
    BY SocketAssumption DEF IInv, TypeOK
  <2>2. Len(pending) \in Nat \ {0}
    BY <1>1, <2>1, EmptySeq
  <2> QED BY <1>1, <2>1, <2>2, HeadTailProperties
<1>4. /\ \A i \in 1..Len(pending) : pending[i] = made - Len(pending) + i
      /\ Len(pending) <= made
  BY DEF IInv, LinkInv
<1>5. Head(pending) = First /\ First \in Nat /\ First <= made /\ First' = First + 1
  <2>1. pending[1] = made - Len(pending) + 1
    BY <1>3, <1>4
  <2>2. Head(pending) = pending[1]
    BY DEF IInv, TypeOK
  <2> QED BY <1>1, <1>3, <1>4, <2>1, <2>2 DEF First
<1>6. PICK reply \in Seq(Cell) : reply = Reply(First, n, z) /\ IsReply(reply, First, n, z)
  <2>1. n \in Nat /\ z \in Nat
    BY SocketAssumption
  <2>2. IsReply(Reply(First, n, z), First, n, z)
    BY <1>5, <2>1, ReplyIsReply
  <2> QED BY <2>2 DEF IsReply
<1>7. stream' = stream \o reply /\ stream \in Seq(Cell) /\ arrived \in 0..Len(stream)
  BY <1>2, <1>5, <1>6 DEF IInv, TypeOK
<1>8. stream' \in Seq(Cell) /\ Len(stream) \in Nat /\ Len(stream') = Len(stream) + Len(reply)
  BY <1>7, ConcatProperties
<1>9. TypeOK'
  <2>1. arrived' \in 0..Len(stream')
    <3>1. Len(reply) \in Nat
      OBVIOUS
    <3> QED BY <1>1, <1>7, <1>8, <3>1
  <2> QED BY <1>1, <1>3, <1>8, <2>1 DEF IInv, TypeOK
<1>10. LinkInv'
  <2>1. ASSUME NEW i \in 1..Len(pending') PROVE pending'[i] = made' - Len(pending') + i
    <3>1. i + 1 \in 1..Len(pending) /\ pending'[i] = pending[i + 1]
      BY <1>3
    <3>2. pending[i + 1] = made - Len(pending) + (i + 1)
      BY <1>4, <3>1
    <3> QED BY <1>1, <1>3, <3>1, <3>2
  <2>2. Len(pending') <= made'
    BY <1>1, <1>3, <1>4
  <2> QED BY <1>1, <2>1, <2>2 DEF LinkInv
<1>11. PhaseInv'
  BY <1>1 DEF IInv, PhaseInv
<1>12. Row' = Row \o reply /\ Row \in Seq(Cell) /\ Row' \in Seq(Cell)
  <2>1. header \o got \in Seq(Cell) /\ Row \in Seq(Cell)
    BY RowType DEF IInv
  <2>2. ((header \o got) \o stream) \o reply = (header \o got) \o (stream \o reply)
    <3>1. stream \in Seq(Cell)
      BY <1>7
    <3>2. PICK front \in Seq(Cell) : front = header \o got
      BY <2>1
    <3>3. (front \o stream) \o reply = front \o (stream \o reply)
      BY <3>1, ConcatAssociative
    <3> QED BY <3>2, <3>3
  <2>3. Row' = (header \o got) \o (stream \o reply)
    BY <1>1, <1>7 DEF Row
  <2> QED BY <2>1, <2>2, <2>3, ConcatProperties DEF Row
<1>13. ASSUME framed
       PROVE  Rows' /\ Oldest' = Oldest /\ Oldest' <= made'
  <2>1. Rows /\ TypeOK /\ LinkInv
    BY <1>13 DEF IInv, RowInv
  <2>2. Begins(Row', Row) /\ Ends(Row', Len(Row), reply)
    BY <1>12, ConcatCells
  <2>3. n \in Nat /\ z \in Nat
    BY SocketAssumption
  <2>4. Framing(Row') /\ Ordered(Row') /\ Whole(Row', First + 1) /\ Below(Row', First + 1)
    <3>1. Framing(Row) /\ Ordered(Row) /\ Whole(Row, First) /\ Below(Row, First)
      BY <1>1, <2>1 DEF Rows
    <3>2. Ends(Row', Len(Row), Reply(First, n, z))
      BY <1>6, <2>2
    <3> QED BY <1>5, <1>12, <2>2, <2>3, <3>1, <3>2, RowAppend
  <2>5. Rows'
    BY <1>1, <1>5, <2>4 DEF Rows
  <2>6. Len(reply) = n + 2 /\ reply[1].of = First
    <3>1. 1 \in 1..n + 2
      BY <2>3
    <3> QED BY <1>6, <3>1 DEF IsReply
  <2>7. Len(Row) \in Nat /\ Len(Row') = Len(Row) + Len(reply)
    BY <1>12, <2>2 DEF Ends
  <2>8. Row' # <<>>
    BY <1>12, <2>3, <2>6, <2>7, EmptySeq
  <2>9. Oldest' = Row'[1].of
    BY <2>8 DEF Oldest
  <2>10. CASE Row = <<>>
    <3>1. Oldest = First /\ Len(Row) = 0
      BY <2>1, <2>10, OldestType, EmptySeq
    <3>2. Row'[1] = reply[1]
      <4>1. 1 \in 1..Len(reply) /\ Len(Row) + 1 = 1
        BY <2>3, <2>6, <3>1
      <4>2. reply[1] = Row'[Len(Row) + 1]
        BY <2>2, <4>1 DEF Ends
      <4> QED BY <4>1, <4>2
    <3> QED BY <1>1, <1>5, <2>5, <2>6, <2>9, <3>1, <3>2
  <2>11. CASE Row # <<>>
    <3>1. Oldest = Row[1].of /\ Oldest < First /\ 1 \in 1..Len(Row) /\ Oldest \in Nat
      BY <2>1, <2>11, OldestType
    <3>2. Row'[1] = Row[1]
      BY <2>2, <3>1 DEF Begins
    <3> QED BY <1>1, <1>5, <2>5, <2>9, <3>1, <3>2, <1>3
  <2> QED BY <2>10, <2>11
<1>14. RowInv'
  BY <1>1, <1>13 DEF IInv, RowInv
<1> QED BY <1>1, <1>9, <1>10, <1>11, <1>13, <1>14 DEF IInv

LEMMA ArriveStep ==
  ASSUME IInv, Arrive
  PROVE  /\ IInv' /\ UNCHANGED <<pc, made, up, framed, answer>>
         /\ Row' = Row /\ First' = First /\ Oldest' = Oldest
<1>1. /\ up /\ arrived < Len(stream) /\ arrived' = arrived + 1
      /\ UNCHANGED <<pc, made, pending, stream, header, need, got, up, framed, answer>>
  BY DEF Arrive, reading
<1>2. TypeOK'
  <2>1. Len(stream) \in Nat /\ arrived \in 0..Len(stream)
    BY DEF IInv, TypeOK
  <2>2. arrived' \in 0..Len(stream')
    BY <1>1, <2>1
  <2> QED BY <1>1, <2>2 DEF IInv, TypeOK
<1>3. PhaseInv' /\ LinkInv'
  BY <1>1 DEF IInv, PhaseInv, LinkInv
<1>4. Row' = Row
  BY <1>1 DEF Row
<1> QED BY <1>1, <1>2, <1>3, <1>4, RowInvStay DEF IInv

\* Keeping the beginning of a row's end keeps the beginning of the row.
LEMMA ConcatBegins ==
  ASSUME NEW front \in Seq(Cell), NEW s \in Seq(Cell), NEW t \in Seq(Cell), Begins(s, t)
  PROVE  Begins(front \o s, front \o t)
<1>1. /\ Begins(front \o s, front) /\ Ends(front \o s, Len(front), s)
      /\ Begins(front \o t, front) /\ Ends(front \o t, Len(front), t)
  BY ConcatCells
<1>2. /\ Len(front) \in Nat /\ Len(s) \in Nat /\ Len(t) \in Nat /\ Len(t) <= Len(s)
      /\ Len(front \o s) = Len(front) + Len(s) /\ Len(front \o t) = Len(front) + Len(t)
  BY <1>1 DEF Begins, Ends
<1>3. ASSUME NEW i \in 1..Len(front \o t) PROVE (front \o t)[i] = (front \o s)[i]
  <2>1. CASE i \in 1..Len(front)
    BY <1>1, <2>1 DEF Begins
  <2>2. CASE i \notin 1..Len(front)
    <3>1. PICK k \in 1..Len(t) : i = Len(front) + k
      <4>1. i - Len(front) \in 1..Len(t) /\ i = Len(front) + (i - Len(front))
        BY <1>2, <2>2
      <4> QED BY <4>1
    <3>2. k \in 1..Len(s)
      BY <1>2
    <3>3. (front \o t)[i] = t[k] /\ (front \o s)[i] = s[k]
      BY <1>1, <3>1, <3>2 DEF Ends
    <3>4. t[k] = s[k]
      BY DEF Begins
    <3> QED BY <3>3, <3>4
  <2> QED BY <2>1, <2>2
<1>4. Len(front \o t) <= Len(front \o s)
  BY <1>2
<1> QED BY <1>3, <1>4 DEF Begins

\* The connection takes with it the end of the row, and the answers still to come.
LEMMA DieStep ==
  ASSUME IInv, Die
  PROVE  /\ IInv' /\ up /\ ~up' /\ UNCHANGED <<pc, made, framed, answer>>
         /\ Row' \in Seq(Cell) /\ Begins(Row, Row') /\ First' = made + 1
         /\ pending' = <<>> /\ (framed => Rows')
<1>1. /\ up /\ up' = FALSE /\ pending' = <<>> /\ stream' = SubSeq(stream, 1, arrived)
      /\ UNCHANGED <<pc, made, arrived, header, need, got, framed, answer>>
  BY DEF Die, reading
<1>2. /\ stream \in Seq(Cell) /\ Len(stream) \in Nat /\ arrived \in 0..Len(stream)
      /\ made \in Nat /\ Len(pending) \in Nat
  BY FirstType DEF IInv, TypeOK
<1>3. stream' \in Seq(Cell) /\ Len(stream') = arrived /\ Begins(stream, stream')
  <2>1. \A i \in 1..arrived : stream[i] \in Cell
    BY <1>2
  <2>2. /\ SubSeq(stream, 1, arrived) \in Seq(Cell)
        /\ Len(SubSeq(stream, 1, arrived)) = IF 1 <= arrived THEN arrived - 1 + 1 ELSE 0
        /\ \A i \in 1..arrived - 1 + 1 : SubSeq(stream, 1, arrived)[i] = stream[1 + i - 1]
    BY <1>2, <2>1, SubSeqProperties
  <2>3. Len(stream') = arrived
    BY <1>1, <1>2, <2>2
  <2>4. \A i \in 1..arrived : stream'[i] = stream[i]
    BY <1>1, <1>2, <2>2
  <2> QED BY <1>1, <1>2, <2>2, <2>3, <2>4 DEF Begins
<1>4. TypeOK'
  <2>1. arrived' \in 0..Len(stream') /\ pending' \in Seq(1..MaxExchanges)
    BY <1>1, <1>2, <1>3, EmptySeq
  <2> QED BY <1>1, <1>3, <2>1 DEF IInv, TypeOK
<1>5. PhaseInv'
  BY <1>1 DEF IInv, PhaseInv
<1>6. Len(pending') = 0 /\ First' = made + 1
  BY <1>1, <1>2, EmptySeq DEF First
<1>7. LinkInv'
  BY <1>1, <1>2, <1>3, <1>6 DEF LinkInv
<1>8. Row \in Seq(Cell) /\ Row' \in Seq(Cell) /\ Begins(Row, Row')
  <2>1. PICK front \in Seq(Cell) : front = header \o got
    BY RowType DEF IInv
  <2>2. Row = front \o stream /\ Row' = front \o stream'
    BY <1>1, <2>1 DEF Row
  <2>3. Begins(front \o stream, front \o stream')
    BY <1>2, <1>3, ConcatBegins
  <2>4. front \o stream \in Seq(Cell) /\ front \o stream' \in Seq(Cell)
    BY <1>2, <1>3, ConcatProperties
  <2> QED BY <2>2, <2>3, <2>4
<1>9. ASSUME framed PROVE Rows'
  <2>1. Rows
    BY <1>9 DEF IInv, RowInv
  <2>2. Framing(Row') /\ Ordered(Row')
    BY <1>8, <2>1, RowPrefix DEF Rows
  <2>3. Below(Row', made + 1)
    <3> SUFFICES ASSUME NEW i \in 1..Len(Row') PROVE Row'[i].of < made + 1
      BY DEF Below
    <3>1. i \in 1..Len(Row) /\ Row'[i] = Row[i]
      BY <1>8 DEF Begins
    <3>2. Row[i].of \in Nat /\ Row[i].of < First
      BY <1>8, <2>1, <3>1, CellFields DEF Rows, Below
    <3>3. First \in Nat /\ First <= made + 1
      BY FirstType DEF IInv
    <3> QED BY <1>2, <3>1, <3>2, <3>3
  <2> QED BY <1>1, <1>6, <2>2, <2>3 DEF Rows
<1>10. RowInv'
  BY <1>1, <1>9 DEF IInv, RowInv
<1> QED BY <1>1, <1>4, <1>5, <1>6, <1>7, <1>8, <1>9, <1>10 DEF IInv

(* ------------------------------ safety ----------------------------------- *)

\* The reader and the connection are in step, the requests still to be answered are the
\* last ones made, and what is unread is whole replies to those before them, in order.
THEOREM InductiveInvariant == Spec => []IInv
<1>1. IInv /\ [Next]_vars => IInv'
  <2> SUFFICES ASSUME IInv, [Next]_vars PROVE IInv'
    OBVIOUS
  <2>1. CASE Write
    BY <2>1, WriteStep
  <2>2. CASE Read
    BY <2>2, ReadStep
  <2>3. CASE GiveUp
    BY <2>3, GiveUpStep
  <2>4. CASE HeaderRead
    BY <2>4, HeaderReadStep
  <2>5. CASE PayloadRead
    BY <2>5, PayloadReadStep
  <2>6. CASE Answer
    BY <2>6, AnswerStep
  <2>7. CASE Arrive
    BY <2>7, ArriveStep
  <2>8. CASE Die
    BY <2>8, DieStep
  <2>9. CASE UNCHANGED vars
    <3>1. UNCHANGED <<Row, Oldest, First>>
      BY <2>9 DEF vars, wire, reading, Row, Oldest, First
    <3> QED BY <2>9, <3>1 DEF vars, wire, reading, IInv, TypeOK, PhaseInv, LinkInv, RowInv, Rows
  <2> QED BY <2>1, <2>2, <2>3, <2>4, <2>5, <2>6, <2>7, <2>8, <2>9 DEF Next, Step
<1> QED BY <1>1, InitInv, PTL DEF Spec

\* The state variables keep their types: at most what is needed is collected, and
\* the socket never holds more than what was sent.
THEOREM TypeCorrect == Spec => []TypeOK
<1>1. IInv => TypeOK
  BY DEF IInv
<1> QED BY <1>1, InductiveInvariant, PTL

(* ------------------ EcSocket implements ReplyLine ------------------------ *)

LEMMA DoneType ==
  ASSUME IInv
  PROVE  /\ made \in Nat /\ Done \in Nat
         /\ pc = "idle" => Done = made
         /\ pc # "idle" => Done = made - 1
<1>1. made \in Nat
  BY FirstType DEF IInv
<1> QED BY <1>1 DEF IInv, PhaseInv, Done

\* The last reply of the row is to a request between the oldest and those still open.
LEMMA LastOfRow ==
  ASSUME IInv, framed, Row # <<>>
  PROVE  /\ Row[Len(Row)].of \in Nat /\ Row[Len(Row)].of < First
         /\ Oldest <= Row[Len(Row)].of
<1>1. Rows /\ Row \in Seq(Cell) /\ 1 \in 1..Len(Row) /\ Len(Row) \in 1..Len(Row)
  BY OldestType, RowType DEF IInv, RowInv
<1>2. Oldest = Row[1].of /\ Row[Len(Row)].of < First /\ Row[1].of <= Row[Len(Row)].of
  <2>1. 1 <= Len(Row)
    BY <1>1
  <2> QED BY <1>1, <2>1, OldestType DEF IInv, Rows, Below, Ordered
<1> QED BY <1>1, <1>2, CellFields

\* An exchange that does not read leaves its own reply to be read.
LEMMA OneMoreUnread ==
  ASSUME NEW lo \in Nat, NEW hi \in Nat, lo <= hi + 1
  PROVE  Append(Numbers(lo, hi), hi + 1) = Numbers(lo, hi + 1)
<1>1. PICK h \in Nat : h = hi + 1
  OBVIOUS
<1>2. hi = h - 1 /\ lo <= h
  BY <1>1
<1> QED BY <1>1, <1>2, NumbersAppend

\* What a step that changes neither the row nor what is done leaves.
LEMMA UnreadSame ==
  ASSUME Row' = Row, Done' = Done, UNCHANGED <<up, framed>>, Oldest' = Oldest
  PROVE  Unread' = Unread
BY DEF Unread, Newest

\* The first request out on the wire, and how the wait for that can fail.
LEMMA WriteRefines == ASSUME IInv, Write PROVE [Line!Next]_Line!vars
<1>1. /\ pc = "idle" /\ made \in Nat /\ made' = made + 1 /\ UNCHANGED <<up, framed>>
      /\ Done = made /\ Done \in Nat
  BY DoneType DEF Write
<1>2. Row' = Row /\ (up => First' = First) /\ (~up => pending' = <<>>)
  BY WriteStep
<1>3. framed => Oldest \in Nat /\ Oldest <= made + 1
  BY OldestType, FirstType, <1>1 DEF IInv, RowInv
<1>4. ~up => Len(pending) = 0 /\ Len(pending') = 0 /\ First = made + 1
  <2>1. ~up => pending = <<>>
    BY DEF IInv, LinkInv
  <2> QED BY <1>1, <1>2, <2>1, EmptySeq DEF First
<1>5. up => Oldest' = Oldest
  BY <1>2 DEF Oldest, First
<1>6. ~up => Unread' = Unread
  <2> SUFFICES ASSUME ~up, framed PROVE Unread' = Unread
    BY <1>1 DEF Unread
  <2>1. CASE Row = <<>>
    <3>1. Oldest = made + 1 /\ Oldest' = made + 2
      BY <1>1, <1>2, <1>4, <2>1 DEF Oldest
    <3>2. Newest = made /\ Newest' = Done'
      BY <1>1, <1>2, <2>1 DEF Newest
    <3>3. Done' = made \/ Done' = made + 1
      BY <1>1 DEF Done
    <3>4. Unread = <<>>
      BY <1>1, <3>1, <3>2, NumbersNone DEF Unread
    <3>5. Numbers(Oldest', Newest') = <<>>
      BY <1>1, <3>1, <3>2, <3>3, NumbersNone
    <3> QED BY <1>1, <3>4, <3>5 DEF Unread
  <2>2. CASE Row # <<>>
    <3>1. PICK last \in Nat : last = Row[Len(Row)].of /\ last <= made
      <4>1. Row[Len(Row)].of \in Nat /\ Row[Len(Row)].of < First
        BY <2>2, LastOfRow
      <4> QED BY <1>1, <1>4, <4>1
    <3>2. Newest = Min({last, made}) /\ Newest' = Min({last, Done'})
      BY <1>1, <1>2, <2>2, <3>1 DEF Newest
    <3>3. Done' = made \/ Done' = made + 1
      BY <1>1 DEF Done
    <3>4. Newest = last
      BY <1>1, <3>1, <3>2, MinOfTwo
    <3>5. Newest' = last
      <4>1. Done' \in Int /\ last <= Done' /\ last \in Int
        BY <1>1, <3>1, <3>3
      <4> QED BY <3>2, <4>1, MinOfTwo
    <3>6. Oldest' = Oldest
      BY <1>2, <2>2 DEF Oldest
    <3> QED BY <1>1, <3>4, <3>5, <3>6 DEF Unread
  <2> QED BY <2>1, <2>2
<1>7. CASE pc' = "header" /\ UNCHANGED answer
  <2>1. Done' = Done
    BY <1>1, <1>7 DEF Done
  <2>2. up => Unread' = Unread
    BY <1>1, <1>2, <1>5, <2>1, UnreadSame
  <2> QED BY <1>1, <1>6, <1>7, <2>1, <2>2 DEF Line!vars
<1>8. CASE pc' = "idle" /\ answer' = [kind |-> IF up THEN "timeout" ELSE "closed", of |-> 0]
  <2>1. Done' = Done + 1
    BY <1>1, <1>8 DEF Done
  <2>2. CASE ~framed
    <3>1. Unread' = Unread /\ UNCHANGED framed
      BY <1>1, <2>2 DEF Unread
    <3>2. answer' \in [kind : {"packet", "malformed", "compressed", "timeout", "closed"}, of : Nat]
      BY <1>8
    <3> QED BY <1>1, <2>1, <2>2, <3>1, <3>2 DEF Line!Next, Line!Exchange, Line!Garbled
  <2>3. CASE framed /\ ~up
    BY <1>1, <1>6, <1>8, <2>1, <2>3 DEF Line!Next, Line!Exchange, Line!Closed
  <2>4. CASE framed /\ up
    <3>1. Unread = Numbers(Oldest, made) /\ Unread' = Numbers(Oldest, made + 1)
      BY <1>1, <1>5, <2>1, <2>4 DEF Unread, Newest
    <3>2. Unread' = Append(Unread, Done + 1)
      BY <1>1, <1>3, <2>4, <3>1, OneMoreUnread
    <3> QED BY <1>1, <1>8, <2>1, <2>4, <3>2 DEF Line!Next, Line!Exchange, Line!TimedOut
  <2> QED BY <2>2, <2>3, <2>4
<1> QED BY <1>7, <1>8 DEF Write, Return

\* Giving up before the first cell leaves one more reply unread; later, it loses step.
LEMMA GiveUpRefines == ASSUME IInv, GiveUp PROVE [Line!Next]_Line!vars
<1>1. /\ pc # "idle" /\ pc' = "idle" /\ UNCHANGED <<made, pending, up>>
      /\ answer' = [kind |-> IF up THEN "timeout" ELSE "closed", of |-> 0]
      /\ framed' => framed /\ Row' = Row /\ First' = First /\ Oldest' = Oldest
      /\ framed' /\ ~up => Row = <<>>
  BY GiveUpStep
<1>2. made \in Nat /\ Done \in Nat /\ Done = made - 1 /\ Done' = Done + 1 /\ Done' = made
  BY <1>1, DoneType DEF Done
<1>3. framed \in BOOLEAN /\ framed' \in BOOLEAN
  BY GiveUpStep DEF IInv, TypeOK
<1>4. CASE ~framed
  <2>1. ~framed' /\ Unread' = Unread
    BY <1>1, <1>4 DEF Unread
  <2>2. UNCHANGED framed
    BY <1>3, <1>4, <2>1
  <2>3. answer' \in [kind : {"packet", "malformed", "compressed", "timeout", "closed"}, of : Nat]
    BY <1>1
  <2> QED BY <1>1, <1>2, <1>4, <2>1, <2>2, <2>3 DEF Line!Next, Line!Exchange, Line!Garbled
<1>5. CASE framed /\ ~framed'
  <2>1. Unread' = <<>> /\ framed' = FALSE
    BY <1>3, <1>5 DEF Unread
  <2> QED BY <1>1, <1>2, <1>5, <2>1
       DEF Line!Next, Line!Exchange, Line!TimedOut, Line!Closed
<1>6. CASE framed' /\ up
  <2>1. framed /\ UNCHANGED framed /\ Oldest \in Nat /\ Oldest <= made
    BY <1>1, <1>3, <1>6, OldestType DEF IInv, RowInv
  <2>2. Unread = Numbers(Oldest, Done) /\ Unread' = Numbers(Oldest, Done + 1)
    BY <1>1, <1>2, <1>6, <2>1 DEF Unread, Newest
  <2>3. Unread' = Append(Unread, Done + 1)
    BY <1>2, <2>1, <2>2, OneMoreUnread
  <2> QED BY <1>1, <1>2, <1>6, <2>1, <2>3 DEF Line!Next, Line!Exchange, Line!TimedOut
<1>7. CASE framed' /\ ~up
  <2>1. framed /\ UNCHANGED framed /\ Row = <<>> /\ Row' = <<>> /\ Oldest' = Oldest
    BY <1>1, <1>3, <1>7
  <2>2. Oldest = made + 1
    <3>1. pending = <<>>
      BY <1>7 DEF IInv, LinkInv
    <3>2. Len(pending) = 0
      BY <3>1, EmptySeq
    <3> QED BY <1>2, <2>1, <3>2 DEF Oldest
  <2>3. Unread = Numbers(made + 1, made - 1) /\ Unread' = Numbers(made + 1, made)
    BY <1>1, <1>2, <2>1, <2>2 DEF Unread, Newest
  <2>4. Unread = <<>> /\ Unread' = <<>>
    BY <1>2, <2>3, NumbersNone
  <2> QED BY <1>1, <1>2, <1>7, <2>1, <2>4 DEF Line!Next, Line!Exchange, Line!Closed
<1> QED BY <1>3, <1>4, <1>5, <1>6, <1>7

\* A packet read in step is the reply to the oldest exchange that has one to come.
LEMMA PayloadReadRefines == ASSUME IInv, PayloadRead PROVE [Line!Next]_Line!vars
<1>1. /\ IInv' /\ pc = "payload" /\ pc' = "idle" /\ Len(got) = need
      /\ UNCHANGED <<made, pending, up, framed>> /\ First' = First /\ Row' = stream
      /\ framed => (stream # <<>> => stream[1].of = Row[1].of + 1)
  BY PayloadReadStep
<1>2. PICK kind \in {"packet", "malformed", "compressed"} :
        answer' = [kind |-> kind, of |-> Answering(header \o got)]
  BY PayloadReadStep
<1>3. made \in Nat /\ Done \in Nat /\ Done = made - 1 /\ Done' = Done + 1 /\ Done' = made
  BY <1>1, DoneType DEF Done
<1>4. CASE ~framed
  <2>1. Unread' = Unread
    BY <1>1, <1>4 DEF Unread
  <2>2. Answering(header \o got) \in Nat
    <3>1. answer'.of \in Nat
      BY <1>1 DEF IInv, TypeOK
    <3> QED BY <1>2, <3>1
  <2>3. answer' \in [kind : {"packet", "malformed", "compressed", "timeout", "closed"}, of : Nat]
    BY <1>2, <2>2
  <2> QED BY <1>1, <1>3, <1>4, <2>1, <2>3 DEF Line!Next, Line!Exchange, Line!Garbled
<1>5. CASE framed
  <2>1. /\ 1 < Len(Row) /\ 1 \in 1..Len(Row) /\ Row[2].val = need /\ Row[1].at = 1
        /\ Ends(Row, need + 2, stream) /\ need \in Nat
        /\ header \o got = Reply(Row[1].of, need, Row[1].val)
        /\ Row[1].of \in Nat /\ Row[1].val \in Nat
        /\ need + 2 \in 1..Len(Row) /\ Row[need + 2].of = Row[1].of
    BY <1>1, <1>5, PacketRead
  <2>2. Rows /\ Row \in Seq(Cell) /\ Row # <<>> /\ Len(Row) \in Nat
    BY <1>5, <2>1, RowType, EmptySeq DEF IInv, RowInv
  <2>3. Oldest \in Nat /\ Oldest = Row[1].of /\ Oldest < First /\ First \in Nat
    BY <2>2, OldestType, FirstType DEF IInv
  <2>4. Answering(header \o got) = Oldest
    <3>1. PICK lo \in Nat, n \in Nat, z \in Nat : lo = Row[1].of /\ n = need /\ z = Row[1].val
      BY <2>1
    <3>2. IsReply(Reply(lo, n, z), lo, n, z)
      BY ReplyIsReply
    <3>3. /\ Reply(lo, n, z)[1].of = lo /\ Reply(lo, n, z)[1].val = z
          /\ Len(Reply(lo, n, z)) = n + 2
      <4>1. 1 \in 1..n + 2
        OBVIOUS
      <4> QED BY <3>2, <4>1 DEF IsReply
    <3>4. header \o got = Reply(lo, n, z) /\ n + 2 - HeaderCells = n
      BY <2>1, <3>1 DEF HeaderCells
    <3>5. PICK cells \in Seq(Cell) : cells = header \o got
      BY RowType DEF IInv
    <3>6. cells[1].of = lo /\ cells[1].val = z /\ Len(cells) - HeaderCells = n
      <4>1. cells = Reply(lo, n, z)
        BY <3>4, <3>5
      <4>2. Len(cells) - HeaderCells = n
        <5>1. Len(cells) = n + 2
          BY <3>3, <4>1
        <5>2. n + 2 - 2 = n
          OBVIOUS
        <5> QED BY <5>1, <5>2 DEF HeaderCells
      <4>3. cells[1].of = lo /\ cells[1].val = z
        BY <3>3, <4>1
      <4> QED BY <4>2, <4>3
    <3>7. cells = Reply(cells[1].of, Len(cells) - HeaderCells, cells[1].val)
      BY <3>4, <3>5, <3>6
    <3> QED BY <2>3, <3>1, <3>5, <3>6, <3>7 DEF Answering
  <2>5. PICK last \in Nat : last = Row[Len(Row)].of /\ Oldest <= last /\ last < First
    BY <1>5, <2>2, LastOfRow
  <2>6. First <= made + 1 /\ (~up => First = made + 1)
    <3>1. ~up => pending = <<>>
      BY DEF IInv, LinkInv
    <3>2. ~up => Len(pending) = 0
      BY <3>1, EmptySeq
    <3> QED BY <1>3, <3>2, FirstType DEF IInv, First
  <2>7. stream \in Seq(Cell) /\ Len(stream) \in Nat /\ Len(Row) = need + 2 + Len(stream)
    BY <2>1 DEF IInv, TypeOK, Ends
  <2>8. stream # <<>> => /\ stream[Len(stream)] = Row[Len(Row)]
                         /\ Oldest' = Oldest + 1
    <3> SUFFICES ASSUME stream # <<>>
                 PROVE  stream[Len(stream)] = Row[Len(Row)] /\ Oldest' = Oldest + 1
      OBVIOUS
    <3>1. Len(stream) \in 1..Len(stream)
      BY <2>7, EmptySeq
    <3>2. stream[Len(stream)] = Row[need + 2 + Len(stream)]
      BY <2>1, <3>1 DEF Ends
    <3>3. Oldest' = stream[1].of
      BY <1>1 DEF Oldest
    <3> QED BY <1>1, <1>5, <2>3, <2>7, <3>2, <3>3
  <2>9. stream = <<>> => Len(Row) = need + 2 /\ last = Oldest
    <3> SUFFICES ASSUME stream = <<>> PROVE Len(Row) = need + 2 /\ last = Oldest
      OBVIOUS
    <3>1. Len(Row) = need + 2
      BY <2>1, <2>7, EmptySeq
    <3> QED BY <2>1, <2>3, <2>5, <3>1
  <2>10. stream = <<>> => Oldest' = First
    BY <1>1 DEF Oldest, First
  \* The line the exchange reads from: up to its own request, or to what is left.
  <2>11. CASE up
    <3>1. Unread = Numbers(Oldest, Done) /\ Unread' = Numbers(Oldest', made)
      BY <1>1, <1>3, <1>5, <2>11 DEF Unread, Newest
    <3>2. Oldest <= made
      BY <1>3, <2>3, <2>6
    <3>3. Append(Unread, Done + 1) = Numbers(Oldest, made)
      <4>1. PICK lo \in Nat, hi \in Nat : lo = Oldest /\ hi = Done
        BY <1>3, <2>3
      <4>2. lo <= hi + 1 /\ made = hi + 1
        BY <1>3, <3>2, <4>1
      <4>3. Append(Numbers(lo, hi), hi + 1) = Numbers(lo, hi + 1)
        BY <4>2, OneMoreUnread
      <4> QED BY <3>1, <4>1, <4>2, <4>3
    <3>4. Oldest' = Oldest + 1
      <4>1. CASE stream = <<>>
        <5>1. Whole(Row, First)
          BY <2>2, <2>11 DEF Rows
        <5>2. /\ 1 + 1 + Row[1 + 1].val = Len(Row) => Row[1].of + 1 = First
          BY <2>1, <5>1 DEF Whole
        <5>3. 1 + 1 + Row[1 + 1].val = Len(Row)
          <6>1. 1 + 1 = 2 /\ Row[1 + 1].val = need
            BY <2>1
          <6> QED BY <2>1, <2>9, <4>1, <6>1
        <5> QED BY <2>3, <2>10, <4>1, <5>2, <5>3
      <4> QED BY <2>8, <4>1
    <3>5. /\ Append(Unread, Done + 1) # <<>> /\ Head(Append(Unread, Done + 1)) = Oldest
          /\ Tail(Append(Unread, Done + 1)) = Unread'
      <4>1. PICK lo \in Nat, hi \in Nat : lo = Oldest /\ hi = made
        BY <1>3, <2>3
      <4>2. /\ Numbers(lo, hi) # <<>> /\ Head(Numbers(lo, hi)) = lo
            /\ Tail(Numbers(lo, hi)) = Numbers(lo + 1, hi)
        BY <3>2, <4>1, NumbersFirst
      <4> QED BY <3>1, <3>3, <3>4, <4>1, <4>2
    <3>6. Append(Unread, Done + 1) \in Line!Lines \ {<<>>}
      BY <3>5 DEF Line!Lines
    <3>7. Line!Answered
      BY <1>1, <1>2, <1>5, <2>4, <3>5, <3>6 DEF Line!Answered
    <3> QED BY <1>1, <1>3, <3>7 DEF Line!Next, Line!Exchange
  <2>12. CASE ~up
    <3>1. Unread = Numbers(Oldest, Min({last, Done})) /\ last <= made
      BY <1>3, <1>5, <2>2, <2>5, <2>6, <2>12 DEF Unread, Newest
    <3>2. PICK line \in Line!Lines : line = Numbers(Oldest, last)
      <4>1. CASE last <= Done
        <5>1. Unread = Numbers(Oldest, last)
          BY <1>3, <3>1, <4>1, MinOfTwo
        <5> QED BY <2>12, <5>1 DEF Line!Lines
      <4>2. CASE last > Done
        <5>1. last = Done + 1
          BY <1>3, <3>1, <4>2
        <5>2. Unread = Numbers(Oldest, Done)
          BY <1>3, <3>1, <4>2, MinOfTwo
        <5>3. Append(Unread, Done + 1) = Numbers(Oldest, last)
          BY <1>3, <2>3, <2>5, <5>1, <5>2, OneMoreUnread
        <5> QED BY <5>3 DEF Line!Lines
      <4> QED BY <1>3, <4>1, <4>2
    <3>3. line # <<>> /\ Head(line) = Oldest /\ Tail(line) = Numbers(Oldest + 1, last)
      BY <2>3, <2>5, <3>2, NumbersFirst
    <3>4. Unread' = Numbers(Oldest + 1, last)
      <4>1. CASE stream = <<>>
        <5>1. Oldest' = made + 1 /\ Newest' = made
          BY <1>1, <1>3, <2>6, <2>10, <2>12, <4>1 DEF Newest
        <5>2. Unread' = <<>>
          BY <1>1, <1>3, <1>5, <5>1, NumbersNone DEF Unread
        <5>3. Numbers(Oldest + 1, last) = <<>>
          BY <2>3, <2>5, <2>9, <4>1, NumbersNone
        <5> QED BY <5>2, <5>3
      <4>2. CASE stream # <<>>
        <5>1. Newest' = Min({last, made})
          BY <1>1, <1>3, <2>5, <2>8, <2>12, <4>2 DEF Newest
        <5>2. Newest' = last
          BY <1>3, <3>1, <5>1, MinOfTwo
        <5> QED BY <1>1, <1>5, <2>8, <4>2, <5>2 DEF Unread
      <4> QED BY <4>1, <4>2
    <3>5. Line!Answered
      BY <1>1, <1>2, <1>5, <2>4, <3>2, <3>3, <3>4 DEF Line!Answered
    <3> QED BY <1>1, <1>3, <3>5 DEF Line!Next, Line!Exchange
  <2> QED BY <2>11, <2>12
<1> QED BY <1>4, <1>5

\* What the connection takes with it are the latest of the unread replies.
LEMMA DieRefines == ASSUME IInv, Die PROVE Line!Next
<1>1. /\ up /\ ~up' /\ UNCHANGED <<pc, made, framed, answer>>
      /\ Row' \in Seq(Cell) /\ Begins(Row, Row') /\ First' = made + 1
      /\ pending' = <<>> /\ (framed => Rows')
  BY DieStep
<1>2. made \in Nat /\ Done \in Nat /\ Done <= made /\ Done' = Done
  BY <1>1, DoneType DEF Done
<1>3. \E n \in 0..Len(Unread) : Unread' = SubSeq(Unread, 1, n)
  <2>1. CASE ~framed
    <3>1. Unread = <<>> /\ Unread' = <<>> /\ Len(<<>>) = 0 /\ 0 \in 0..0
      BY <1>1, <2>1, EmptySeq DEF Unread
    <3>2. SubSeq(<<>>, 1, 0) = <<>>
      BY SubSeqEmpty
    <3> QED BY <3>1, <3>2
  <2>2. CASE framed
    <3>1. Rows /\ Row \in Seq(Cell) /\ Oldest \in Nat /\ Oldest <= Done + 1
      <4>1. Rows /\ Row \in Seq(Cell) /\ Oldest \in Nat /\ Oldest <= First
        BY <2>2, OldestType, RowType DEF IInv, RowInv
      <4>2. First <= made + 1 /\ First \in Nat
        BY FirstType DEF IInv
      <4>3. CASE pc = "idle"
        BY <1>2, <4>1, <4>2, <4>3, DoneType
      <4>4. CASE pc # "idle"
        <5>1. Oldest <= made
          BY <1>1, <2>2, <4>4 DEF IInv, RowInv
        <5> QED BY <1>2, <4>1, <4>4, <5>1, DoneType
      <4> QED BY <4>3, <4>4
    <3>2. Unread = Numbers(Oldest, Done)
      BY <1>1, <2>2 DEF Unread, Newest
    <3>3. PICK mid \in Int : Oldest <= mid + 1 /\ mid <= Done /\ Unread' = Numbers(Oldest, mid)
      <4>1. CASE Row' = <<>>
        <5>1. Oldest' = made + 1 /\ Newest' = Done
          <6>1. Len(pending') = 0
            BY <1>1, EmptySeq
          <6> QED BY <1>1, <1>2, <4>1, <6>1 DEF Oldest, Newest
        <5>2. Unread' = <<>>
          BY <1>1, <1>2, <2>2, <5>1, NumbersNone DEF Unread
        <5>3. Numbers(Oldest, Oldest - 1) = <<>> /\ Oldest - 1 \in Int
          BY <3>1, NumbersNone
        <5> QED BY <1>2, <3>1, <5>2, <5>3
      <4>2. CASE Row' # <<>>
        <5>1. Len(Row') \in 1..Len(Row') /\ 1 \in 1..Len(Row') /\ 1 <= Len(Row')
          <6>1. Len(Row') \in Nat \ {0}
            BY <1>1, <4>2, EmptySeq
          <6> QED BY <6>1
        <5>2. Row'[1] = Row[1] /\ Row # <<>>
          <6>1. Row'[1] = Row[1] /\ Len(Row') <= Len(Row)
            BY <1>1, <5>1 DEF Begins
          <6> QED BY <3>1, <5>1, <6>1, EmptySeq
        <5>3. Oldest' = Oldest
          BY <4>2, <5>2 DEF Oldest
        <5>4. PICK last \in Nat : last = Row'[Len(Row')].of
          BY <1>1, <5>1, CellFields
        <5>5. Oldest <= last
          <6>1. Row'[1].of <= Row'[Len(Row')].of
            BY <1>1, <2>2, <5>1 DEF Rows, Ordered
          <6>2. Oldest' = Row'[1].of
            BY <4>2 DEF Oldest
          <6> QED BY <5>3, <5>4, <6>1, <6>2
        <5>6. Newest' = Min({last, Done})
          BY <1>1, <1>2, <4>2, <5>4 DEF Newest
        <5>7. PICK mid \in Int : mid = Newest' /\ Oldest <= mid + 1 /\ mid <= Done
          BY <1>2, <3>1, <5>5, <5>6, MinOfTwo
        <5> QED BY <1>1, <2>2, <5>3, <5>7 DEF Unread
      <4> QED BY <4>1, <4>2
    <3>4. /\ mid + 1 - Oldest \in 0..Len(Numbers(Oldest, Done))
          /\ Numbers(Oldest, mid) = SubSeq(Numbers(Oldest, Done), 1, mid + 1 - Oldest)
      <4>1. PICK lo \in Nat : lo = Oldest
        BY <3>1
      <4>2. PICK hi \in Int : hi = Done
        BY <1>2
      <4>3. lo <= mid + 1 /\ mid <= hi
        BY <3>3, <4>1, <4>2
      <4>4. /\ mid + 1 - lo \in 0..Len(Numbers(lo, hi))
            /\ Numbers(lo, mid) = SubSeq(Numbers(lo, hi), 1, mid + 1 - lo)
        BY <4>3, NumbersPrefix
      <4> QED BY <4>1, <4>2, <4>4
    <3> QED BY <3>2, <3>3, <3>4
  <2> QED BY <2>1, <2>2
<1> QED BY <1>1, <1>2, <1>3 DEF Line!Next, Line!Break

\* The line of replies EcWorker's exchanges are modelled on is what the socket code
\* provides: whole replies in the order of the requests, one more unread per timeout,
\* however TCP cuts them and whenever the connection goes.
THEOREM SocketIsALine == Spec => RepliesInLine
<1>1. Init => Line!Init
  <2> SUFFICES ASSUME Init PROVE Line!Init
    OBVIOUS
  <2>1. Row = <<>> /\ Len(pending) = 0
    <3>1. Row = (<<>> \o <<>>) \o <<>>
      BY DEF Init, Row
    <3>2. <<>> \in Seq(Nat) /\ <<>> \o <<>> = <<>>
      BY EmptySeq, ConcatEmptySeq
    <3> QED BY <3>1, <3>2, EmptySeq DEF Init
  <2>2. Done = 0 /\ Oldest = 1 /\ Newest = 0
    BY <2>1 DEF Init, Done, Oldest, Newest
  <2>3. Unread = <<>>
    BY <2>2, NumbersNone DEF Unread
  <2> QED BY <2>2, <2>3 DEF Init, Line!Init
<1>2. IInv /\ [Next]_vars => [Line!Next]_Line!vars
  <2> SUFFICES ASSUME IInv, [Next]_vars PROVE [Line!Next]_Line!vars
    OBVIOUS
  <2>1. CASE Write
    BY <2>1, WriteRefines
  <2>2. CASE Read
    <3>1. Row' = Row /\ Oldest' = Oldest /\ UNCHANGED <<pc, made, up, framed, answer>>
      BY <2>2, ReadStep DEF Read
    <3>2. Done' = Done
      BY <3>1 DEF Done
    <3> QED BY <3>1, <3>2, UnreadSame DEF Line!vars
  <2>3. CASE GiveUp
    BY <2>3, GiveUpRefines
  <2>4. CASE HeaderRead
    <3>1. /\ Row' = Row /\ Oldest' = Oldest /\ pc = "header" /\ pc' = "payload"
          /\ UNCHANGED <<made, up, framed, answer>>
      BY <2>4, HeaderReadStep
    <3>2. Done' = Done
      BY <3>1 DEF Done
    <3> QED BY <3>1, <3>2, UnreadSame DEF Line!vars
  <2>5. CASE PayloadRead
    BY <2>5, PayloadReadRefines
  <2>6. CASE Answer
    <3>1. up /\ UNCHANGED <<pc, made, up, framed, answer>> /\ (framed => Oldest' = Oldest)
      BY <2>6, AnswerStep
    <3>2. Done' = Done
      BY <3>1 DEF Done
    <3>3. Unread' = Unread
      BY <3>1, <3>2 DEF Unread, Newest
    <3> QED BY <3>1, <3>2, <3>3 DEF Line!vars
  <2>7. CASE Arrive
    <3>1. Row' = Row /\ Oldest' = Oldest /\ UNCHANGED <<pc, made, up, framed, answer>>
      BY <2>7, ArriveStep
    <3>2. Done' = Done
      BY <3>1 DEF Done
    <3> QED BY <3>1, <3>2, UnreadSame DEF Line!vars
  <2>8. CASE Die
    BY <2>8, DieRefines
  <2>9. CASE UNCHANGED vars
    <3>1. UNCHANGED <<Row, Oldest, Done, up, framed, answer>>
      BY <2>9 DEF vars, wire, reading, Row, Oldest, Done
    <3> QED BY <3>1, UnreadSame DEF Line!vars
  <2> QED BY <2>1, <2>2, <2>3, <2>4, <2>5, <2>6, <2>7, <2>8, <2>9 DEF Next, Step
<1> QED BY <1>1, <1>2, InductiveInvariant, PTL DEF Spec, RepliesInLine, Line!Spec

=============================================================================
