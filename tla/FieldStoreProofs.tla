-------------------------- MODULE FieldStoreProofs --------------------------
(* What FieldStore guarantees for arrays of numbers of any length that is    *)
(* followed, and any number of updates the code handles.                     *)
EXTENDS FieldStore, SequenceTheorems, WellFoundedInduction, TLAPS

-----------------------------------------------------------------------------
(* Sequences and the least of a set of numbers.                              *)

LEMMA Least ==
  ASSUME NEW S \in SUBSET Nat, S # {} PROVE \E x \in S : \A y \in S : x <= y
<1>1. PICK x \in S : \A y \in S : ~ (<<y, x>> \in OpToRel(<, Nat))
  BY NatLessThanWellFounded, WFMin
<1>2. \A y \in S : ~ (y < x)
  BY <1>1 DEF OpToRel
<1> QED BY <1>2

LEMMA SeqOfFunction ==
  ASSUME NEW S, NEW m \in Nat, NEW f \in [1..m -> S]
  PROVE  f \in Seq(S) /\ Len(f) = m /\ DOMAIN f = 1..m
<1>1. f \in Seq(S)
  BY SeqDef
<1>2. DOMAIN f = 1..Len(f) /\ Len(f) \in Nat
  BY <1>1, LenProperties
<1>3. 1..m = 1..Len(f)
  BY <1>2
<1>4. \A i \in Nat \ {0} : i <= m <=> i <= Len(f)
  <2>1. \A i \in Nat \ {0} : i \in 1..m <=> i \in 1..Len(f)
    BY <1>3
  <2> QED BY <1>2, <2>1
<1>5. m > 0 => m <= Len(f)
  BY <1>4
<1>6. Len(f) > 0 => Len(f) <= m
  BY <1>2, <1>4
<1> QED BY <1>1, <1>2, <1>5, <1>6

-----------------------------------------------------------------------------
(* Bytes: what a write changes and what it leaves.                           *)

Stream0 == [d : Seq(Nat), fp : Nat, grown : Nat, eof : Nat, back : Nat, ok : BOOLEAN]

LEMMA ByteIsNumber == ASSUME NEW d \in Seq(Nat), NEW p \in Nat PROVE ByteAt(d, p) \in Nat
<1>1. Len(d) \in Nat
  BY LenProperties
<1>2. CASE p < Len(d)
  <2>1. p + 1 \in 1 .. Len(d)
    BY <1>1, <1>2
  <2> QED BY <1>2, <2>1, ElementOfSeq DEF ByteAt
<1> QED BY <1>1, <1>2 DEF ByteAt

LEMMA ZerosAreBytes == ASSUME NEW m \in Int PROVE Zeros(m) \in Seq(Nat) /\ Len(Zeros(m)) = IF m > 0 THEN m ELSE 0
<1>1. CASE m > 0
  <2>1. Zeros(m) \in [1 .. m -> Nat]
    BY DEF Zeros
  <2> QED BY <1>1, <2>1, SeqOfFunction
<1>2. CASE ~ (m > 0)
  <2>1. 1 .. m = 1 .. 0
    BY <1>2
  <2>2. Zeros(m) \in [1 .. 0 -> Nat]
    BY <2>1 DEF Zeros
  <2> QED BY <1>2, <2>2, SeqOfFunction
<1> QED BY <1>1, <1>2

\* The bytes of d outside lo .. hi - 1 are those of e.
SameBut(d, e, lo, hi) == \A q \in Nat : q < lo \/ q >= hi => ByteAt(d, q) = ByteAt(e, q)

LEMMA ThreeParts ==
  ASSUME NEW S, NEW x \in Seq(S), NEW y \in Seq(S), NEW z \in Seq(S)
  PROVE  /\ (x \o y) \o z \in Seq(S) /\ Len((x \o y) \o z) = Len(x) + Len(y) + Len(z)
         /\ \A i \in 1 .. Len((x \o y) \o z) :
              ((x \o y) \o z)[i] = IF i <= Len(x) THEN x[i]
                                   ELSE IF i <= Len(x) + Len(y) THEN y[i - Len(x)]
                                   ELSE z[i - (Len(x) + Len(y))]
<1> DEFINE g == x \o y
           e == g \o z
<1>1. Len(x) \in Nat /\ Len(y) \in Nat /\ Len(z) \in Nat
  BY LenProperties
<1>2. /\ g \in Seq(S) /\ Len(g) = Len(x) + Len(y)
      /\ \A i \in 1 .. Len(x) + Len(y) : g[i] = IF i <= Len(x) THEN x[i] ELSE y[i - Len(x)]
  BY ConcatProperties
<1> HIDE DEF g
<1>3. /\ e \in Seq(S) /\ Len(e) = Len(g) + Len(z)
      /\ \A i \in 1 .. Len(g) + Len(z) : e[i] = IF i <= Len(g) THEN g[i] ELSE z[i - Len(g)]
  <2>1. g \in Seq(S)
    BY <1>2
  <2> QED BY <2>1, ConcatProperties
<1> HIDE DEF e
<1>4. ASSUME NEW i \in 1 .. Len(e), i <= Len(x) + Len(y) PROVE i \in 1 .. Len(x) + Len(y) /\ e[i] = g[i]
  <2>1. i \in Nat /\ i >= 1 /\ Len(g) \in Nat
    BY <1>1, <1>2, <1>3
  <2>2. i \in 1 .. Len(g) + Len(z) /\ i <= Len(g)
    BY <1>1, <1>2, <1>3, <1>4, <2>1
  <2>3. e[i] = g[i]
    BY <1>3, <2>2
  <2> QED BY <1>4, <2>1, <2>3, <1>1
<1>5. ASSUME NEW i \in 1 .. Len(e), ~ (i <= Len(x) + Len(y)) PROVE ~ (i <= Len(x)) /\ e[i] = z[i - (Len(x) + Len(y))]
  BY <1>1, <1>2, <1>3, <1>5
<1>6. /\ e \in Seq(S) /\ Len(e) = Len(x) + Len(y) + Len(z)
      /\ \A i \in 1 .. Len(e) : e[i] = IF i <= Len(x) THEN x[i]
                                       ELSE IF i <= Len(x) + Len(y) THEN y[i - Len(x)]
                                       ELSE z[i - (Len(x) + Len(y))]
  <2>1. ASSUME NEW i \in 1 .. Len(e), i <= Len(x) PROVE e[i] = x[i]
    <3>1. i <= Len(x) + Len(y)
      BY <1>1, <2>1
    <3> QED BY <1>2, <1>4, <2>1, <3>1
  <2>2. ASSUME NEW i \in 1 .. Len(e), ~ (i <= Len(x)), i <= Len(x) + Len(y) PROVE e[i] = y[i - Len(x)]
    BY <1>2, <1>4, <2>2
  <2> QED BY <1>1, <1>2, <1>3, <1>5, <2>1, <2>2
<1> QED BY <1>6 DEF e, g

\* What Put makes of the file.
Spliced(d, p, b) == SubSeq(d \o Zeros(p - Len(d)), 1, p) \o b \o SubSeq(d, p + Len(b) + 1, Len(d))

\* What Put makes of the bytes: those before and behind stay, a gap is filled with zeros.
LEMMA SplicedIs ==
  ASSUME NEW d \in Seq(Nat), NEW p \in Nat, NEW b \in Seq(Nat)
  PROVE  /\ Spliced(d, p, b) \in Seq(Nat)
         /\ Len(Spliced(d, p, b)) = IF p + Len(b) > Len(d) THEN p + Len(b) ELSE Len(d)
         /\ \A i \in 1 .. Len(b) : ByteAt(Spliced(d, p, b), p + i - 1) = b[i]
         /\ SameBut(Spliced(d, p, b), d, p, p + Len(b))
<1> DEFINE gap == Zeros(p - Len(d))
           z == d \o gap
           front == SubSeq(z, 1, p)
           rest == SubSeq(d, p + Len(b) + 1, Len(d))
           e == (front \o b) \o rest
<1>1. Len(d) \in Nat /\ Len(b) \in Nat /\ p - Len(d) \in Int
  BY LenProperties
<1>2. gap \in Seq(Nat) /\ Len(gap) = (IF p - Len(d) > 0 THEN p - Len(d) ELSE 0)
  BY <1>1, ZerosAreBytes
<1>3. \A i \in 1 .. p - Len(d) : gap[i] = 0
  BY DEF Zeros
<1>4. Spliced(d, p, b) = e
  BY DEF Spliced
<1> HIDE DEF gap
<1>5. /\ z \in Seq(Nat) /\ Len(z) = (IF p > Len(d) THEN p ELSE Len(d))
      /\ \A i \in 1 .. Len(z) : z[i] = IF i <= Len(d) THEN d[i] ELSE 0
  <2>1. z \in Seq(Nat) /\ Len(z) = Len(d) + Len(gap)
    BY <1>2, ConcatProperties
  <2>2. \A i \in 1 .. Len(d) + Len(gap) : z[i] = IF i <= Len(d) THEN d[i] ELSE gap[i - Len(d)]
    BY <1>2, ConcatProperties
  <2>3. Len(z) = (IF p > Len(d) THEN p ELSE Len(d))
    BY <1>1, <1>2, <2>1
  <2>4. ASSUME NEW i \in 1 .. Len(z), ~ (i <= Len(d)) PROVE gap[i - Len(d)] = 0
    <3>1. i - Len(d) \in 1 .. p - Len(d)
      BY <1>1, <2>3, <2>4
    <3> QED BY <1>3, <3>1
  <2> HIDE DEF z
  <2> QED BY <2>1, <2>2, <2>3, <2>4
<1> HIDE DEF z
<1>6. front \in Seq(Nat) /\ Len(front) = p /\ \A i \in 1 .. p : front[i] = z[i]
  <2>1. \A i \in 1 .. p : z[i] \in Nat
    <3>1. \A i \in 1 .. p : i \in 1 .. Len(z)
      BY <1>1, <1>5
    <3> QED BY <1>5, <3>1, ElementOfSeq
  <2>2. /\ front \in Seq(Nat) /\ Len(front) = (IF 1 <= p THEN p - 1 + 1 ELSE 0)
        /\ \A i \in 1 .. p - 1 + 1 : front[i] = z[1 + i - 1]
    BY <2>1, SubSeqProperties
  <2> HIDE DEF front
  <2>3. p - 1 + 1 = p /\ \A i \in 1 .. p : 1 + i - 1 = i
    OBVIOUS
  <2> QED BY <2>2, <2>3
<1>7. /\ rest \in Seq(Nat)
      /\ Len(rest) = (IF p + Len(b) + 1 <= Len(d) THEN Len(d) - (p + Len(b)) ELSE 0)
      /\ \A i \in 1 .. Len(d) - (p + Len(b)) : rest[i] = d[p + Len(b) + i]
  <2>1. p + Len(b) + 1 \in Int /\ \A i \in p + Len(b) + 1 .. Len(d) : d[i] \in Nat
    <3>1. \A i \in p + Len(b) + 1 .. Len(d) : i \in 1 .. Len(d)
      BY <1>1
    <3> QED BY <1>1, <3>1, ElementOfSeq
  <2>2. /\ rest \in Seq(Nat)
        /\ Len(rest) = (IF p + Len(b) + 1 <= Len(d) THEN Len(d) - (p + Len(b) + 1) + 1 ELSE 0)
        /\ \A i \in 1 .. Len(d) - (p + Len(b) + 1) + 1 : rest[i] = d[p + Len(b) + 1 + i - 1]
    BY <1>1, <2>1, SubSeqProperties
  <2> HIDE DEF rest
  <2>3. /\ Len(d) - (p + Len(b) + 1) + 1 = Len(d) - (p + Len(b))
        /\ \A i \in 1 .. Len(d) - (p + Len(b)) : p + Len(b) + 1 + i - 1 = p + Len(b) + i
    BY <1>1
  <2> QED BY <2>2, <2>3
<1> HIDE DEF front, rest
<1>8. /\ e \in Seq(Nat) /\ Len(e) = p + Len(b) + Len(rest)
      /\ \A i \in 1 .. Len(e) : e[i] = IF i <= p THEN z[i]
                                       ELSE IF i <= p + Len(b) THEN b[i - p] ELSE rest[i - (p + Len(b))]
  <2>1. /\ e \in Seq(Nat) /\ Len(e) = p + Len(b) + Len(rest)
        /\ \A i \in 1 .. Len(e) : e[i] = IF i <= p THEN front[i]
                                         ELSE IF i <= p + Len(b) THEN b[i - p] ELSE rest[i - (p + Len(b))]
    <3> DEFINE t == (front \o b) \o rest
    <3>1. /\ t \in Seq(Nat) /\ Len(t) = Len(front) + Len(b) + Len(rest)
          /\ \A i \in 1 .. Len(t) : t[i] = IF i <= Len(front) THEN front[i]
                                           ELSE IF i <= Len(front) + Len(b) THEN b[i - Len(front)]
                                           ELSE rest[i - (Len(front) + Len(b))]
      <4>1. front \in Seq(Nat) /\ rest \in Seq(Nat)
        BY <1>6, <1>7
      <4> QED BY <4>1, ThreeParts
    <3>2. t = e /\ Len(front) = p
      BY <1>6 DEF e
    <3> HIDE DEF t
    <3> QED BY <3>1, <3>2
  <2> HIDE DEF e
  <2>2. \A i \in 1 .. Len(e) : i <= p => i \in 1 .. p
    BY <1>1
  <2> QED BY <1>6, <2>1, <2>2
<1>9. Len(e) = IF p + Len(b) > Len(d) THEN p + Len(b) ELSE Len(d)
  <2> HIDE DEF e
  <2>1. PICK l \in Nat, q \in Nat : l = Len(d) /\ q = p + Len(b)
    BY <1>1
  <2>2. Len(e) = q + Len(rest) /\ Len(rest) = (IF q + 1 <= l THEN l - q ELSE 0)
    BY <1>7, <1>8, <2>1
  <2>3. (q + IF q + 1 <= l THEN l - q ELSE 0) = IF q > l THEN q ELSE l
    OBVIOUS
  <2> QED BY <2>1, <2>2, <2>3
<1>10. ASSUME NEW i \in 1 .. Len(b) PROVE ByteAt(e, p + i - 1) = b[i]
  <2>1. p + i - 1 < Len(e) /\ p + i - 1 + 1 = p + i /\ p + i \in 1 .. Len(e) /\ ~ (p + i <= p) /\ p + i <= p + Len(b) /\ p + i - p = i
    BY <1>1, <1>9
  <2> QED BY <1>8, <2>1 DEF ByteAt
<1>11. ASSUME NEW q \in Nat, q < p PROVE ByteAt(e, q) = ByteAt(d, q)
  <2>1. q < Len(e) /\ q + 1 \in 1 .. Len(e) /\ q + 1 <= p /\ q + 1 \in 1 .. Len(z)
    BY <1>1, <1>5, <1>9, <1>11
  <2>2. ByteAt(e, q) = z[q + 1]
    BY <1>8, <2>1 DEF ByteAt
  <2> QED BY <1>1, <1>5, <2>1, <2>2 DEF ByteAt
<1>12. ASSUME NEW q \in Nat, q >= p + Len(b) PROVE ByteAt(e, q) = ByteAt(d, q)
  <2>1. CASE q < Len(d)
    <3>1. /\ q < Len(e) /\ q + 1 \in 1 .. Len(e) /\ ~ (q + 1 <= p) /\ ~ (q + 1 <= p + Len(b))
          /\ q + 1 - (p + Len(b)) \in 1 .. Len(d) - (p + Len(b))
          /\ p + Len(b) + (q + 1 - (p + Len(b))) = q + 1
      BY <1>1, <1>9, <1>12, <2>1
    <3>2. e[q + 1] = rest[q + 1 - (p + Len(b))]
      BY <1>8, <3>1, SMTT(30)
    <3>3. rest[q + 1 - (p + Len(b))] = d[p + Len(b) + (q + 1 - (p + Len(b)))]
      BY <1>7, <3>1
    <3> QED BY <2>1, <3>1, <3>2, <3>3 DEF ByteAt
  <2>2. CASE ~ (q < Len(d))
    <3>1. ~ (q < Len(e))
      BY <1>1, <1>9, <1>12, <2>2
    <3> QED BY <2>2, <3>1 DEF ByteAt
  <2> QED BY <2>1, <2>2
<1> QED BY <1>4, <1>8, <1>9, <1>10, <1>11, <1>12 DEF SameBut

\* write() at the file pointer changes the bytes it writes and no other.
LEMMA PutIs ==
  ASSUME NEW s \in Stream0, NEW b \in Seq(Nat)
  PROVE  /\ Put(s, b) \in Stream0
         /\ Put(s, b).fp = s.fp + Len(b) /\ Put(s, b).grown = s.grown /\ Put(s, b).eof = s.eof
         /\ Put(s, b).back = s.back /\ Put(s, b).ok = s.ok
         /\ Len(Put(s, b).d) = IF s.fp + Len(b) > Len(s.d) THEN s.fp + Len(b) ELSE Len(s.d)
         /\ \A i \in 1 .. Len(b) : ByteAt(Put(s, b).d, s.fp + i - 1) = b[i]
         /\ SameBut(Put(s, b).d, s.d, s.fp, s.fp + Len(b))
<1>1. s.d \in Seq(Nat) /\ s.fp \in Nat /\ Len(b) \in Nat /\ s.fp + Len(b) \in Nat
  BY LenProperties DEF Stream0
<1>2. Put(s, b) = [[s EXCEPT !.fp = s.fp + Len(b)] EXCEPT !.d = Spliced(s.d, s.fp, b)]
  BY DEF Put, Spliced
<1> DEFINE f == s.fp + Len(b)
           e == Spliced(s.d, s.fp, b)
<1>3. e \in Seq(Nat)
  BY <1>1, SplicedIs
<1> HIDE DEF e, f
<1>4. Put(s, b) = [d |-> e, fp |-> f, grown |-> s.grown, eof |-> s.eof, back |-> s.back, ok |-> s.ok]
  BY <1>2 DEF e, f, Stream0
<1>5. f \in Nat
  BY <1>1 DEF f
<1>6. /\ Put(s, b) \in Stream0 /\ Put(s, b).fp = f /\ Put(s, b).d = e
      /\ Put(s, b).grown = s.grown /\ Put(s, b).eof = s.eof /\ Put(s, b).back = s.back /\ Put(s, b).ok = s.ok
  BY <1>3, <1>4, <1>5 DEF Stream0
<1> QED BY <1>1, <1>6, SplicedIs DEF e, f

LEMMA SameButWider ==
  ASSUME NEW d, NEW e, NEW lo \in Nat, NEW hi \in Nat, NEW lo2 \in Nat, NEW hi2 \in Nat,
         SameBut(d, e, lo, hi), lo2 <= lo, hi <= hi2
  PROVE  SameBut(d, e, lo2, hi2)
BY DEF SameBut

LEMMA SameButAgain ==
  ASSUME NEW d, NEW e, NEW f, NEW lo \in Nat, NEW hi \in Nat,
         SameBut(d, e, lo, hi), SameBut(e, f, lo, hi)
  PROVE  SameBut(d, f, lo, hi)
BY DEF SameBut

Widths == {2, 4, 8}

LEMMA SameNumber ==
  ASSUME NEW d, NEW e, NEW p \in Nat, NEW m \in Widths,
         \A q \in Nat : p <= q /\ q < p + m => ByteAt(d, q) = ByteAt(e, q)
  PROVE  NumberAt(d, p, m) = NumberAt(e, p, m)
<1>1. \A i \in 0 .. m - 3 : ByteAt(d, p + i) = ByteAt(e, p + i)
  BY DEF Widths
<1>2. ByteAt(d, p + m - 2) = ByteAt(e, p + m - 2) /\ ByteAt(d, p + m - 1) = ByteAt(e, p + m - 1)
  BY DEF Widths
<1> QED BY <1>1, <1>2 DEF NumberAt

\* A number outside what is written stays.
LEMMA NumberOutside ==
  ASSUME NEW d, NEW e, NEW lo \in Nat, NEW hi \in Nat, SameBut(d, e, lo, hi),
         NEW p \in Nat, NEW m \in Widths, p + m <= lo \/ p >= hi
  PROVE  NumberAt(d, p, m) = NumberAt(e, p, m)
<1>1. m \in Nat
  BY DEF Widths
<1>2. \A q \in Nat : p <= q /\ q < p + m => ByteAt(d, q) = ByteAt(e, q)
  BY <1>1 DEF SameBut
<1> QED BY <1>2, SameNumber

LEMMA NumberIsNumber ==
  ASSUME NEW d \in Seq(Nat), NEW p \in Nat, NEW m \in Widths
  PROVE  NumberAt(d, p, m) \in Nat \cup {Huge}
<1>1. p + m - 2 \in Nat /\ p + m - 1 \in Nat
  BY DEF Widths
<1>2. ByteAt(d, p + m - 2) \in Nat /\ ByteAt(d, p + m - 1) \in Nat
  BY <1>1, ByteIsNumber
<1> QED BY <1>2 DEF NumberAt

\* A number of eight bytes is zero when all its bytes are.
LEMMA ZeroBytes ==
  ASSUME NEW d \in Seq(Nat), NEW p \in Nat
  PROVE  NumberAt(d, p, 8) = 0 <=> \A q \in Nat : p <= q /\ q < p + 8 => ByteAt(d, q) = 0
<1>1. ByteAt(d, p + 8 - 2) \in Nat /\ ByteAt(d, p + 8 - 1) \in Nat
  BY ByteIsNumber, SMTT(30)
<1>2. ASSUME NumberAt(d, p, 8) = 0, NEW q \in Nat, p <= q, q < p + 8 PROVE ByteAt(d, q) = 0
  <2>1. ~ (\E i \in 0 .. 8 - 3 : ByteAt(d, p + i) # 0) /\ 256 * ByteAt(d, p + 8 - 2) + ByteAt(d, p + 8 - 1) = 0
    BY <1>2 DEF NumberAt, Huge
  <2>2. ByteAt(d, p + 8 - 2) = 0 /\ ByteAt(d, p + 8 - 1) = 0
    BY <1>1, <2>1
  <2>3. q - p \in 0 .. 5 \/ q = p + 8 - 2 \/ q = p + 8 - 1
    BY <1>2
  <2>4. q = p + (q - p)
    OBVIOUS
  <2>5. q - p \in 0 .. 5 => ByteAt(d, p + (q - p)) = 0
    BY <2>1
  <2> QED BY <2>2, <2>3, <2>4, <2>5
<1>3. ASSUME \A q \in Nat : p <= q /\ q < p + 8 => ByteAt(d, q) = 0 PROVE NumberAt(d, p, 8) = 0
  <2>1. \A i \in 0 .. 8 - 3 : ByteAt(d, p + i) = 0
    BY <1>3
  <2>2. ByteAt(d, p + 8 - 2) = 0 /\ ByteAt(d, p + 8 - 1) = 0
    BY <1>3
  <2> QED BY <2>1, <2>2 DEF NumberAt
<1> QED BY <1>2, <1>3

\* The bytes of a number are read back as that number.
LEMMA NumberIsBytes ==
  ASSUME NEW v \in Nat, NEW m \in Widths
  PROVE  /\ Number(v, m) \in Seq(Nat) /\ Len(Number(v, m)) = m
         /\ \A i \in 1 .. m - 2 : Number(v, m)[i] = 0
         /\ 256 * Number(v, m)[m - 1] + Number(v, m)[m] = v
<1>1. m \in Nat /\ m - 1 \in 1 .. m /\ m \in 1 .. m /\ m - 1 # m
  BY DEF Widths
<1>2. v % 256 \in Nat /\ v \div 256 \in Nat /\ 256 * (v \div 256) + (v % 256) = v
  <2>1. v % 256 \in Nat
    OBVIOUS
  <2>2. v \div 256 \in Int
    OBVIOUS
  <2>3. v \div 256 >= 0
    OBVIOUS
  <2>4. 256 * (v \div 256) + (v % 256) = v
    OBVIOUS
  <2> QED BY <2>1, <2>2, <2>3, <2>4
<1>3. Number(v, m) \in [1 .. m -> Nat]
  BY <1>1, <1>2 DEF Number
<1>4. Number(v, m)[m] = v % 256 /\ Number(v, m)[m - 1] = v \div 256
  BY <1>1 DEF Number
<1>5. \A i \in 1 .. m - 2 : i \in 1 .. m /\ i # m /\ i # m - 1
  BY <1>1
<1>6. \A i \in 1 .. m - 2 : Number(v, m)[i] = 0
  BY <1>5 DEF Number
<1> QED BY <1>1, <1>2, <1>3, <1>4, <1>6, SeqOfFunction

\* Where the bytes of a number are, the number is read.
LEMMA NumberOfBytes ==
  ASSUME NEW d, NEW p \in Nat, NEW v \in Nat, NEW m \in Widths,
         \A i \in 1 .. m : ByteAt(d, p + i - 1) = Number(v, m)[i]
  PROVE  NumberAt(d, p, m) = v
<1>1. m \in Nat /\ m - 1 \in 1 .. m /\ m \in 1 .. m
  BY DEF Widths
<1>2. ByteAt(d, p + m - 2) = Number(v, m)[m - 1] /\ ByteAt(d, p + m - 1) = Number(v, m)[m]
  <2>1. p + (m - 1) - 1 = p + m - 2
    BY <1>1
  <2> QED BY <1>1, <2>1
<1>3. ASSUME NEW i \in 0 .. m - 3 PROVE ByteAt(d, p + i) = 0
  <2>1. i + 1 \in 1 .. m /\ i + 1 \in 1 .. m - 2 /\ p + (i + 1) - 1 = p + i
    BY <1>1
  <2>2. ByteAt(d, p + i) = Number(v, m)[i + 1]
    BY <2>1
  <2>3. Number(v, m)[i + 1] = 0
    BY <2>1, NumberIsBytes
  <2> QED BY <2>2, <2>3
<1>4. 256 * Number(v, m)[m - 1] + Number(v, m)[m] = v
  BY NumberIsBytes
<1>5. ~ (\E i \in 0 .. m - 3 : ByteAt(d, p + i) # 0)
  BY <1>3
<1> QED BY <1>2, <1>4, <1>5 DEF NumberAt

\* A number is written and read back.
LEMMA PutNumberIs ==
  ASSUME NEW s \in Stream0, NEW v \in Nat, NEW m \in Widths
  PROVE  /\ PutNumber(s, v, m) \in Stream0
         /\ PutNumber(s, v, m).fp = s.fp + m
         /\ PutNumber(s, v, m).grown = s.grown /\ PutNumber(s, v, m).eof = s.eof
         /\ PutNumber(s, v, m).back = s.back /\ PutNumber(s, v, m).ok = s.ok
         /\ Len(PutNumber(s, v, m).d) = IF s.fp + m > Len(s.d) THEN s.fp + m ELSE Len(s.d)
         /\ NumberAt(PutNumber(s, v, m).d, s.fp, m) = v
         /\ SameBut(PutNumber(s, v, m).d, s.d, s.fp, s.fp + m)
<1>1. Number(v, m) \in Seq(Nat) /\ Len(Number(v, m)) = m
  BY NumberIsBytes
<1>2. s.fp \in Nat
  BY DEF Stream0
<1>3. \A i \in 1 .. m : ByteAt(PutNumber(s, v, m).d, s.fp + i - 1) = Number(v, m)[i]
  BY <1>1, PutIs DEF PutNumber
<1>4. NumberAt(PutNumber(s, v, m).d, s.fp, m) = v
  BY <1>2, <1>3, NumberOfBytes
<1> QED BY <1>1, <1>4, PutIs DEF PutNumber

-----------------------------------------------------------------------------
(* The elements of an array of numbers.                                      *)

NumberKinds == {"int", "long", "float", "byte", "double"}

Width(k) == Copy(k).element
Bytes(k, x) == x * Width(k)

Element == [1 .. 1 -> Nat]

\* The bytes of an element, by type.
LEMMA WidthIs ==
  ASSUME NEW k \in NumberKinds
  PROVE  /\ Width(k) \in Widths
         /\ k # "byte" => Copy(k).skip = Width(k)
BY DEF NumberKinds, Width, Widths, Copy, IntCopy, LongCopy, FloatCopy, ByteCopy, DoubleCopy

LEMMA BytesLaws ==
  ASSUME NEW k \in NumberKinds
  PROVE  /\ \A a \in Nat : Bytes(k, a) \in Nat
         /\ \A a, b \in Nat : Bytes(k, a + b) = Bytes(k, a) + Bytes(k, b)
         /\ \A a, b \in Nat : a <= b => Bytes(k, a) <= Bytes(k, b)
         /\ \A a \in Nat : Bytes(k, a + 1) = Bytes(k, a) + Width(k)
         /\ Bytes(k, 0) = 0
<1>1. Width(k) = 2 \/ Width(k) = 4 \/ Width(k) = 8
  BY WidthIs DEF Widths
<1> HIDE DEF Width
<1>2. CASE Width(k) = 2
  BY <1>2 DEF Bytes
<1>3. CASE Width(k) = 4
  BY <1>3 DEF Bytes
<1>4. CASE Width(k) = 8
  BY <1>4 DEF Bytes
<1> QED BY <1>1, <1>2, <1>3, <1>4

\* In the bytes of an array each element is found at its place.
LEMMA NumbersAre ==
  ASSUME NEW es \in Seq(Element), NEW m \in Widths
  PROVE  /\ Numbers(es, m) \in Seq(Nat) /\ Len(Numbers(es, m)) = m * Len(es)
         /\ \A j \in 1 .. Len(es) : \A i \in 1 .. m :
              /\ m * (j - 1) + i \in 1 .. m * Len(es)
              /\ Numbers(es, m)[m * (j - 1) + i] = Number(es[j][1], m)[i]
<1>1. Len(es) \in Nat /\ \A j \in 1 .. Len(es) : es[j][1] \in Nat
  <2>1. \A j \in 1 .. Len(es) : es[j] \in Element
    BY ElementOfSeq
  <2> QED BY <2>1, LenProperties DEF Element
<1>2. m = 2 \/ m = 4 \/ m = 8
  BY DEF Widths
<1>3. ASSUME NEW q \in 1 .. m * Len(es)
      PROVE  ((q - 1) \div m) + 1 \in 1 .. Len(es) /\ ((q - 1) % m) + 1 \in 1 .. m
  <2>1. CASE m = 2
    BY <1>1, <2>1
  <2>2. CASE m = 4
    BY <1>1, <2>2
  <2>3. CASE m = 8
    BY <1>1, <2>3
  <2> QED BY <1>2, <2>1, <2>2, <2>3
<1>4. ASSUME NEW j \in 1 .. Len(es), NEW i \in 1 .. m, NEW q, q = m * (j - 1) + i
      PROVE  q \in 1 .. m * Len(es) /\ ((q - 1) \div m) + 1 = j /\ ((q - 1) % m) + 1 = i
  <2>1. PICK a \in Nat : a = j - 1 /\ a + 1 <= Len(es)
    BY <1>1
  <2>2. PICK c \in Nat : c = i - 1 /\ c < m
    BY <1>2
  <2>3. q - 1 = m * a + c /\ q \in Int
    <3>1. CASE m = 2
      BY <1>4, <2>1, <2>2, <3>1
    <3>2. CASE m = 4
      BY <1>4, <2>1, <2>2, <3>2
    <3>3. CASE m = 8
      BY <1>4, <2>1, <2>2, <3>3
    <3> QED BY <1>2, <3>1, <3>2, <3>3
  <2>4. ASSUME NEW x \in {2, 4, 8}
        PROVE  (x * a + c) \in Nat /\ (c < x => (x * a + c) \div x = a) /\ (c < x => (x * a + c) % x = c)
    <3>1. x = 2 \/ x = 4 \/ x = 8
      OBVIOUS
    <3>2. 2 * a + c \in Nat /\ 4 * a + c \in Nat /\ 8 * a + c \in Nat
      OBVIOUS
    <3>3. /\ c < 2 => (2 * a + c) \div 2 = a
          /\ c < 4 => (4 * a + c) \div 4 = a
          /\ c < 8 => (8 * a + c) \div 8 = a
      OBVIOUS
    <3>4. /\ c < 2 => (2 * a + c) % 2 = c
          /\ c < 4 => (4 * a + c) % 4 = c
          /\ c < 8 => (8 * a + c) % 8 = c
      OBVIOUS
    <3> QED BY <3>1, <3>2, <3>3, <3>4
  <2>5. (q - 1) \div m = a /\ (q - 1) % m = c
    BY <1>2, <2>2, <2>3, <2>4
  <2>6. q \in 1 .. m * Len(es)
    <3>1. CASE m = 2
      BY <1>1, <2>1, <2>2, <2>3, <3>1
    <3>2. CASE m = 4
      BY <1>1, <2>1, <2>2, <2>3, <3>2
    <3>3. CASE m = 8
      BY <1>1, <2>1, <2>2, <2>3, <3>3
    <3> QED BY <1>2, <3>1, <3>2, <3>3
  <2>7. a + 1 = j /\ c + 1 = i
    BY <1>1, <1>2, <2>1, <2>2
  <2> QED BY <2>5, <2>6, <2>7
<1>5. ASSUME NEW v \in Nat, NEW i \in 1 .. m PROVE Number(v, m)[i] \in Nat
  BY NumberIsBytes, ElementOfSeq
<1>6. m * Len(es) \in Nat
  BY <1>1, <1>2
<1>7. Numbers(es, m) \in [1 .. m * Len(es) -> Nat]
  BY <1>1, <1>3, <1>5 DEF Numbers
<1>8. \A j \in 1 .. Len(es) : \A i \in 1 .. m :
        Numbers(es, m)[m * (j - 1) + i] = Number(es[j][1], m)[i]
  <2> SUFFICES ASSUME NEW j \in 1 .. Len(es), NEW i \in 1 .. m
               PROVE  Numbers(es, m)[m * (j - 1) + i] = Number(es[j][1], m)[i]
    OBVIOUS
  <2>1. PICK q : q = m * (j - 1) + i
    OBVIOUS
  <2>2. q \in 1 .. m * Len(es) /\ ((q - 1) \div m) + 1 = j /\ ((q - 1) % m) + 1 = i
    BY <1>4, <2>1
  <2>3. Numbers(es, m)[q] = Number(es[((q - 1) \div m) + 1][1], m)[((q - 1) % m) + 1]
    BY <2>2 DEF Numbers
  <2> QED BY <2>1, <2>2, <2>3
<1> QED BY <1>4, <1>6, <1>7, <1>8, SeqOfFunction

\* The elements of an array are written one after the other.
LEMMA NewElementsAre ==
  ASSUME NEW k \in NumberKinds, NEW s \in Stream0, NEW es \in Seq(Element)
  PROVE  LET t == NewElements(k, s, es)
         IN  /\ t \in Stream0
             /\ t.fp = s.fp + Bytes(k, Len(es))
             /\ t.grown = s.grown /\ t.eof = s.eof /\ t.back = s.back /\ t.ok = s.ok
             /\ Len(t.d) = IF t.fp > Len(s.d) THEN t.fp ELSE Len(s.d)
             /\ \A j \in 1 .. Len(es) : NumberAt(t.d, s.fp + Bytes(k, j - 1), Width(k)) = es[j][1]
             /\ SameBut(t.d, s.d, s.fp, t.fp)
<1> DEFINE m == Width(k)
           b == Numbers(es, m)
           t == Put(s, b)
<1>1. NewElements(k, s, es) = t
  BY DEF NewElements, NumberKinds, Width
<1>2. m \in Widths
  BY WidthIs
<1> HIDE DEF m
<1>3. /\ b \in Seq(Nat) /\ Len(b) = m * Len(es)
      /\ \A j \in 1 .. Len(es) : \A i \in 1 .. m :
           /\ m * (j - 1) + i \in 1 .. m * Len(es)
           /\ b[m * (j - 1) + i] = Number(es[j][1], m)[i]
  BY <1>2, NumbersAre
<1> HIDE DEF b
<1>4. Len(es) \in Nat /\ s.fp \in Nat
  BY LenProperties DEF Stream0
<1>5. m * Len(es) = Bytes(k, Len(es)) /\ Bytes(k, Len(es)) \in Nat
  <2>1. m * Len(es) = Len(es) * m
    BY <1>2, <1>4 DEF Widths
  <2> QED BY <1>4, <2>1, BytesLaws DEF Bytes, m
<1>6. /\ t \in Stream0 /\ t.fp = s.fp + Len(b)
      /\ t.grown = s.grown /\ t.eof = s.eof /\ t.back = s.back /\ t.ok = s.ok
      /\ Len(t.d) = (IF s.fp + Len(b) > Len(s.d) THEN s.fp + Len(b) ELSE Len(s.d))
      /\ \A i \in 1 .. Len(b) : ByteAt(t.d, s.fp + i - 1) = b[i]
      /\ SameBut(t.d, s.d, s.fp, s.fp + Len(b))
  BY <1>3, PutIs
<1> HIDE DEF t
<1>7. ASSUME NEW j \in 1 .. Len(es) PROVE NumberAt(t.d, s.fp + Bytes(k, j - 1), m) = es[j][1]
  <2>1. j - 1 \in Nat /\ Bytes(k, j - 1) \in Nat /\ Bytes(k, j - 1) = m * (j - 1)
    <3>1. j - 1 \in Nat
      BY <1>4
    <3>2. (j - 1) * m = m * (j - 1)
      BY <1>2, <3>1 DEF Widths
    <3> QED BY <3>1, <3>2, BytesLaws DEF Bytes, m
  <2>2. es[j][1] \in Nat
    <3>1. es[j] \in Element
      BY ElementOfSeq
    <3> QED BY <3>1 DEF Element
  <2>3. ASSUME NEW i \in 1 .. m
        PROVE  ByteAt(t.d, s.fp + Bytes(k, j - 1) + i - 1) = Number(es[j][1], m)[i]
    <3>1. m * (j - 1) + i \in 1 .. Len(b) /\ b[m * (j - 1) + i] = Number(es[j][1], m)[i]
      BY <1>3
    <3>2. s.fp + (m * (j - 1) + i) - 1 = s.fp + Bytes(k, j - 1) + i - 1
      <4>1. i \in Int
        BY <1>2
      <4> QED BY <1>4, <2>1, <4>1
    <3>3. ByteAt(t.d, s.fp + (m * (j - 1) + i) - 1) = b[m * (j - 1) + i]
      BY <1>6, <3>1
    <3> QED BY <3>1, <3>2, <3>3
  <2>4. s.fp + Bytes(k, j - 1) \in Nat
    BY <1>4, <2>1
  <2> QED BY <1>2, <2>2, <2>3, <2>4, NumberOfBytes
<1>8. t.fp = s.fp + Bytes(k, Len(es))
  BY <1>3, <1>5, <1>6
<1> QED BY <1>1, <1>3, <1>5, <1>6, <1>7, <1>8 DEF m

-----------------------------------------------------------------------------
(* The layout of the file.                                                   *)

\* A block: where it is, its size and padding, the elements before it.
Piece == [at : Nat, size : Nat, pad : Nat, from : Nat]

LinkAt(k, b) == b.at + 8 + Bytes(k, b.size + b.pad)
EndOf(k, b) == LinkAt(k, b) + 8

InFile(k, d, b, next) ==
  /\ NumberAt(d, b.at, 4) = b.size
  /\ NumberAt(d, b.at + 4, 4) = b.pad
  /\ NumberAt(d, LinkAt(k, b), 8) = next
  /\ EndOf(k, b) <= Len(d)

\* The elements of the block are those of the array from its place on.
Holds(k, d, b, array) ==
  \A j \in 1 .. b.size : NumberAt(d, b.at + 8 + Bytes(k, j - 1), Width(k)) = array[b.from + j][1]

NextAt(c, i) == IF i < Len(c) THEN c[i + 1].at ELSE 0

Bounded(k, b) == b.size + b.pad <= MaxElements /\ (k = "byte" => b.pad = 0)

\* The blocks of an array: linked, one behind the other in the file and in the array.
IsChain(k, d, c) ==
  /\ c \in Seq(Piece) /\ Len(c) >= 1
  /\ c[1].at = ArrayAt /\ c[1].from = 0 /\ c[1].size >= 1
  /\ \A i \in 1 .. Len(c) : Bounded(k, c[i]) /\ InFile(k, d, c[i], NextAt(c, i))
  /\ \A i \in 1 .. Len(c) - 1 : c[i + 1].from = c[i].from + c[i].size
  /\ \A i, j \in 1 .. Len(c) :
       i < j => EndOf(k, c[i]) <= c[j].at /\ c[i].from + c[i].size <= c[j].from

Total(c) == c[Len(c)].from + c[Len(c)].size

\* The text after the array: t.loc is the offset of the buffer that replaces its own, of
\* t.own bytes, t.size the size of that buffer.  The record ends at end, and its
\* neighbour comes next.
TextPlace == [loc : Nat, own : Nat, size : Nat]

IsText(d, place, t, end) ==
  /\ t \in TextPlace
  /\ NumberAt(d, place, 8) = t.loc
  /\ NumberAt(d, place + 8, 8) = t.own
  /\ end = place + 24 + t.own
  /\ end + 4 <= Len(d)
  /\ t.loc > 0 => /\ end + 4 <= t.loc
                  /\ NumberAt(d, t.loc, 8) = t.size
                  /\ t.loc + 8 + t.size <= Len(d)

NextTo(d, end) == \A q \in Nat : end <= q /\ q < end + 4 => ByteAt(d, q) = 255

\* What has been moved or added lies behind the neighbour.
Behind(k, b, t, end) ==
  /\ end + 4 <= b.at
  /\ t.loc > 0 => EndOf(k, b) <= t.loc \/ t.loc + 8 + t.size <= b.at

Layout(k, d, c, t, end) ==
  /\ IsChain(k, d, c)
  /\ IsText(d, EndOf(k, c[1]), t, end)
  /\ NextTo(d, end)
  /\ \A i \in 2 .. Len(c) : Behind(k, c[i], t, end)

-----------------------------------------------------------------------------
(* What remains of an update when the first blocks are written.              *)

\* The update goes on after the block.
Goes(k, b, len) == b.size < len /\ (Copy(k).stops /\ b.from < b.size => b.from + b.size < len)

\* A later block that the code handles.
Fits(k, c, i, len) ==
  /\ k # "double"
  /\ c[i].size <= len
  /\ c[i].size < len /\ c[i].from >= c[i].size =>
       \/ c[i].from + c[i].size < len
       \/ c[i].pad = 0 /\ (c[i].from + c[i].size = len \/ i = Len(c))

FutureFits(k, c, done, len) ==
  \A i \in 2 .. Len(c) :
    i > done /\ (\A j \in done + 1 .. i - 1 : Goes(k, c[j], len)) => Fits(k, c, i, len)

Written(k, d, c, done, array) == \A i \in 1 .. done : Holds(k, d, c[i], array)

\* An array that does not become shorter: the other blocks are as before the update.
Kept(k, d, c, done, old, len) ==
  len >= Len(old) => /\ Total(c) = Len(old)
                     /\ \A i \in done + 1 .. Len(c) : Holds(k, d, c[i], old)

\* The block that is not linked yet.
Pending(k, d, c, t, end, b, array) ==
  /\ b \in Piece /\ b.from = Total(c) /\ b.from + b.size = Len(array) /\ b.pad = 0
  /\ b.size <= MaxElements
  /\ InFile(k, d, b, 0) /\ Holds(k, d, b, array)
  /\ \A i \in 1 .. Len(c) : EndOf(k, c[i]) <= b.at
  /\ end + 4 <= b.at
  /\ t.loc > 0 => t.loc + 8 + t.size <= b.at

GoodRecord(r) ==
  /\ r \in [array : Seq(Element), text : Seq(Nat \ {0})]
  /\ Len(r.array) \in 1 .. MaxElements

\* The places where a block has been found but not yet written.
Reading == {"size", "over", "fill", "shrink", "same"}

\* The variables of write_file, when done blocks are written.
AtBlock(c, done) ==
  LET b == c[done + 1]
  IN  /\ done < Len(c)
      /\ w.step = b.from /\ b.from <= n
      /\ w.first = IF done = 0 THEN 0 ELSE EndOf(kind, c[1])
      /\ pc = "size" => io.fp = b.at
      /\ pc # "size" => w.sz = b.size
      /\ pc \in {"over", "fill"} =>
           /\ io.fp = b.at + 8 /\ w.pad = b.pad /\ b.size < n
           /\ pc = "over" <=> b.from >= b.size
      /\ pc \in {"shrink", "same"} =>
           /\ io.fp = b.at + 4
           /\ IF pc = "shrink" THEN n < b.size ELSE n = b.size

AfterBlock(c, done) ==
  LET b == c[done]
  IN  /\ done \in 1 .. Len(c)
      /\ w.step = b.from + b.size /\ w.step <= n
      /\ pc = "link" =>
           /\ io.fp = b.at + 8 + Bytes(kind, b.size) /\ w.pad = b.pad
           /\ w.first = IF done = 1 THEN 0 ELSE EndOf(kind, c[1])

AtNewBlock(c, done) ==
  /\ done = Len(c)
  /\ w.link = LinkAt(kind, c[done]) /\ w.first = EndOf(kind, c[1])
  /\ pc = "append" => w.step = Total(c) /\ w.step <= n /\ io.fp = Len(io.d) /\ w.update = Len(io.d)

\* The array is written.
Done(c, done) ==
  /\ done = Len(c) /\ Total(c) = n
  /\ pc = "return" => IF w.first = 0 THEN io.fp = EndOf(kind, c[1]) ELSE w.first = EndOf(kind, c[1])
  /\ pc = "text" => io.fp = EndOf(kind, c[1])
  /\ pc = "end" => io.fp + 8 = home

Places == Reading \cup {"link", "append", "linked", "return", "text", "end", "idle"}

Types ==
  /\ kind \in NumberKinds
  /\ io \in Stream0 /\ io.ok
  /\ w \in [step : Nat, sz : Nat, pad : Nat, first : Nat, link : Nat, update : Nat]
  /\ pc \in Places
  /\ GoodRecord(stored) /\ GoodRecord(want)
  /\ gen \in Nat \ {0}
  /\ home \in Nat

State(c, t, done) ==
  /\ Layout(kind, io.d, c, t, home)
  /\ Written(kind, io.d, c, done, want.array)
  /\ TextAt(io.d, EndOf(kind, c[1])) = IF pc = "end" THEN want.text ELSE stored.text
  /\ pc = "idle" => want = stored
  /\ pc # "idle" => (kind = "byte" => n >= Len(stored.array))
  /\ pc \notin {"return", "text", "end"} => Kept(kind, io.d, c, done, stored.array, n)
  /\ pc \in Reading \cup {"link"} => FutureFits(kind, c, done, n)
  /\ pc \in Reading => AtBlock(c, done)
  /\ pc = "link" => AfterBlock(c, done)
  /\ pc \in {"append", "linked"} => AtNewBlock(c, done)
  /\ pc = "linked" => \E b \in Piece : b.at = w.update /\ Pending(kind, io.d, c, t, home, b, want.array)
  /\ pc \in {"idle", "return", "text", "end"} => Done(c, done)

Inv == Types /\ \E c \in Seq(Piece), t \in TextPlace, done \in Nat : State(c, t, done)

-----------------------------------------------------------------------------
(* What read_file finds.                                                     *)

\* Padding is skipped by the bytes it has; of bytes there must be none.
LEMMA OverPaddingIs ==
  ASSUME NEW k \in NumberKinds, NEW s, NEW p \in Nat, s.fp = p, NEW m \in Nat, k = "byte" => m = 0
  PROVE  OverPadding(k, s, m) = [s EXCEPT !.fp = p + Bytes(k, m)]
<1>1. p + m * Copy(k).skip = p + Bytes(k, m)
  <2>1. CASE k # "byte"
    BY <2>1, WidthIs DEF Bytes
  <2>2. CASE k = "byte"
    <3>1. Bytes(k, m) = 0
      BY <2>2, BytesLaws
    <3>2. m * Copy(k).skip = 0
      BY <2>2 DEF Copy, ByteCopy
    <3> QED BY <3>1, <3>2
  <2> QED BY <2>1, <2>2
<1>2. k # "string"
  BY DEF NumberKinds
<1>3. OverPadding(k, s, m) = [s EXCEPT !.fp = s.fp + m * Copy(k).skip]
  BY <1>2 DEF OverPadding, Seek
<1> QED BY <1>1, <1>3

\* A block that is in the file as the chain has it.
LEMMA BlockAtIs ==
  ASSUME NEW k \in NumberKinds, NEW d, NEW b \in Piece, NEW next, Bounded(k, b), InFile(k, d, b, next)
  PROVE  BlockAt(k, d, b.at) =
           [at |-> b.at, size |-> b.size, pad |-> b.pad, link |-> LinkAt(k, b), next |-> next,
            elements |-> [j \in 1 .. b.size |-> <<NumberAt(d, b.at + 8 + Bytes(k, j - 1), Width(k))>>]]
<1> DEFINE p == b.at
           last == [d |-> d, fp |-> p + 8 + Bytes(k, b.size)]
<1>1. p \in Nat /\ b.size \in Nat /\ b.pad \in Nat
  BY DEF Piece
<1>2. Bytes(k, b.size) \in Nat /\ Bytes(k, b.pad) \in Nat /\ Bytes(k, b.size + b.pad) = Bytes(k, b.size) + Bytes(k, b.pad)
  BY <1>1, BytesLaws
<1>3. b.size \in 0 .. MaxElements /\ b.pad \in 0 .. MaxElements
  BY <1>1 DEF Bounded, MaxElements
<1>4. OverPadding(k, last, b.pad).fp = LinkAt(k, b)
  <2>1. p + 8 + Bytes(k, b.size) \in Nat
    BY <1>1, <1>2
  <2>2. OverPadding(k, last, b.pad) = [last EXCEPT !.fp = p + 8 + Bytes(k, b.size) + Bytes(k, b.pad)]
    BY <1>1, <2>1, OverPaddingIs DEF Bounded
  <2>3. OverPadding(k, last, b.pad).fp = p + 8 + Bytes(k, b.size) + Bytes(k, b.pad)
    BY <2>2
  <2> QED BY <1>1, <1>2, <2>3 DEF LinkAt
<1>5. ReadElements(k, d, p + 8, b.size) = [j \in 1 .. b.size |-> <<NumberAt(d, p + 8 + Bytes(k, j - 1), Width(k))>>]
  BY DEF ReadElements, NumberKinds, Bytes, Width
<1>6. k # "string"
  BY DEF NumberKinds
<1>7. last = [d |-> d, fp |-> p + 8 + b.size * Copy(k).element]
  BY DEF Bytes, Width
<1>8. NumberAt(d, p, 4) = b.size /\ NumberAt(d, p + 4, 4) = b.pad /\ NumberAt(d, LinkAt(k, b), 8) = next
  BY DEF InFile
<1> HIDE DEF last
<1> QED BY <1>3, <1>4, <1>5, <1>6, <1>7, <1>8 DEF BlockAt

\* What read_file takes from the front and the end of a block.
LEMMA BlockFields ==
  ASSUME NEW k \in NumberKinds, NEW d, NEW b \in Piece, NEW next, Bounded(k, b), InFile(k, d, b, next)
  PROVE  /\ BlockAt(k, d, b.at).size = b.size
         /\ BlockAt(k, d, b.at).pad = b.pad
         /\ BlockAt(k, d, b.at).link = LinkAt(k, b)
         /\ BlockAt(k, d, b.at).next = next
<1> DEFINE es == [j \in 1 .. b.size |-> <<NumberAt(d, b.at + 8 + Bytes(k, j - 1), Width(k))>>]
<1>1. BlockAt(k, d, b.at) = [at |-> b.at, size |-> b.size, pad |-> b.pad, link |-> LinkAt(k, b),
                             next |-> next, elements |-> es]
  BY BlockAtIs
<1> HIDE DEF es
<1> QED BY <1>1

LEMMA BlockElements ==
  ASSUME NEW k \in NumberKinds, NEW d, NEW b \in Piece, NEW next, Bounded(k, b), InFile(k, d, b, next)
  PROVE  BlockAt(k, d, b.at).elements =
           [j \in 1 .. b.size |-> <<NumberAt(d, b.at + 8 + Bytes(k, j - 1), Width(k))>>]
<1> DEFINE es == [j \in 1 .. b.size |-> <<NumberAt(d, b.at + 8 + Bytes(k, j - 1), Width(k))>>]
<1>1. BlockAt(k, d, b.at) = [at |-> b.at, size |-> b.size, pad |-> b.pad, link |-> LinkAt(k, b),
                             next |-> next, elements |-> es]
  BY BlockAtIs
<1> HIDE DEF es
<1>2. BlockAt(k, d, b.at).elements = es
  BY <1>1
<1> QED BY <1>2 DEF es

\* From the block at p on, when what comes from the next one on is known.
From(k, d, p, from) ==
  LET b    == BlockAt(k, d, p)
      rest == IF b.next > p /\ b.next < Len(d) THEN from[b.next]
              ELSE [blocks |-> <<>>, array |-> <<>>]
  IN  [blocks |-> <<b>> \o rest.blocks, array |-> b.elements \o rest.array]

\* What a block says of the next one is a number or not followed.
LEMMA NextIsNumber ==
  ASSUME NEW k \in NumberKinds, NEW d \in Seq(Nat), NEW p \in Nat
  PROVE  BlockAt(k, d, p).next \in Nat \cup {Huge}
<1> DEFINE size == NumberAt(d, p, 4)
           pad == NumberAt(d, p + 4, 4)
           last == [d |-> d, fp |-> p + 8 + size * Copy(k).element]
           link == OverPadding(k, last, pad).fp
<1>1. CASE size \notin 0 .. MaxElements \/ pad \notin 0 .. MaxElements
  <2>1. BlockAt(k, d, p) =
          [at |-> p, elements |-> <<>>, size |-> Huge, pad |-> Huge, link |-> p, next |-> Huge]
    BY <1>1 DEF BlockAt
  <2> QED BY <2>1
<1>2. CASE ~ (size \notin 0 .. MaxElements \/ pad \notin 0 .. MaxElements)
  <2>1. size \in Nat /\ pad \in Nat
    <3>1. \A x \in 0 .. MaxElements : x \in Nat
      BY DEF MaxElements
    <3>2. size \in 0 .. MaxElements /\ pad \in 0 .. MaxElements
      BY <1>2
    <3> HIDE DEF size, pad
    <3> QED BY <3>1, <3>2
  <2>2. k # "string"
    BY DEF NumberKinds
  <2>3. Copy(k).element \in Nat /\ Copy(k).skip \in Nat
    BY DEF NumberKinds, Copy, IntCopy, LongCopy, FloatCopy, ByteCopy, DoubleCopy
  <2>4. link = p + 8 + size * Copy(k).element + pad * Copy(k).skip
    BY <2>2 DEF OverPadding, Seek
  <2>5. BlockAt(k, d, p).next = NumberAt(d, link, 8)
    <3> HIDE DEF link, size, pad
    <3>1. BlockAt(k, d, p) =
            [at |-> p, elements |-> ReadElements(k, d, p + 8, size), size |-> size,
             pad |-> pad, link |-> link, next |-> NumberAt(d, link, 8)]
      BY <1>2, <2>2 DEF BlockAt, link, size, pad
    <3> QED BY <3>1
  <2> HIDE DEF link, size, pad
  <2>6. size * Copy(k).element \in Nat /\ pad * Copy(k).skip \in Nat
    BY <2>1, <2>3
  <2>7. link \in Nat
    BY <2>4, <2>6
  <2> QED BY <2>5, <2>7, NumberIsNumber DEF Widths
<1> QED BY <1>1, <1>2

\* read_file from a block on: the block, then what its link leads to.  The recursive function is
\* defined because it follows only links that lead forward.
LEMMA ReadFromUnfolds ==
  ASSUME NEW k \in NumberKinds, NEW d \in Seq(Nat)
  PROVE  \A p \in 0 .. Len(d) : ReadFrom(k, d)[p] = From(k, d, p, ReadFrom(k, d))
<1> DEFINE top == Len(d)
           IsFrom(g, m) == g = [p \in m .. top |-> From(k, d, p, g)]
           Reached == {x \in 0 .. top : \E g : IsFrom(g, top - x)}
           Missed == (0 .. top) \ Reached
<1>1. top \in Nat
  BY LenProperties
<1>2. ReadFrom(k, d) = CHOOSE g : IsFrom(g, 0)
  BY DEF ReadFrom, From
<1>3. ASSUME NEW p \in 0 .. top, NEW g, NEW h, \A q \in p + 1 .. top : g[q] = h[q]
      PROVE  From(k, d, p, g) = From(k, d, p, h)
  <2> DEFINE b == BlockAt(k, d, p)
  <2>1. b.next \in Int
    <3>1. p \in Nat
      OBVIOUS
    <3> QED BY <3>1, NextIsNumber DEF Huge
  <2> HIDE DEF b
  <2>2. b.next > p /\ b.next < top => g[b.next] = h[b.next]
    <3>1. b.next > p /\ b.next < top => b.next \in p + 1 .. top
      BY <1>1, <2>1
    <3> QED BY <1>3, <3>1
  <2> QED BY <2>2 DEF From, b
<1> HIDE DEF top, IsFrom, Reached, Missed
<1>4. Missed = {}
  <2> SUFFICES ASSUME Missed # {} PROVE FALSE
    OBVIOUS
  <2>1. PICK x \in Missed : \A m \in Missed : x <= m
    <3>1. Missed \in SUBSET Nat
      BY DEF Missed
    <3> QED BY <3>1, Least
  <2>2. x \in 0 .. top /\ x \notin Reached
    BY <2>1 DEF Missed
  <2>3. CASE x = 0
    <3> DEFINE g == [p \in top .. top |-> From(k, d, p, <<>>)]
    <3> HIDE DEF g
    <3>1. ASSUME NEW p \in top .. top PROVE From(k, d, p, <<>>) = From(k, d, p, g)
      <4>1. p \in 0 .. top /\ p + 1 .. top = {}
        BY <1>1
      <4> QED BY <1>3, <4>1
    <3>2. IsFrom(g, top - x)
      BY <1>1, <2>3, <3>1 DEF IsFrom, g
    <3> QED BY <2>2, <3>2 DEF Reached
  <2>4. CASE x > 0
    <3> DEFINE m == top - x
    <3>1. x - 1 \in 0 .. top /\ ~ (x <= x - 1) /\ top - (x - 1) = m + 1 /\ m \in Nat /\ m <= top
      BY <1>1, <2>2, <2>4
    <3>2. x - 1 \in Reached
      BY <2>1, <3>1 DEF Missed
    <3>3. PICK g : IsFrom(g, m + 1)
      BY <3>1, <3>2 DEF Reached
    <3> DEFINE h == [p \in m .. top |-> IF p = m THEN From(k, d, m, g) ELSE g[p]]
    <3> HIDE DEF m, h
    <3>4. \A p \in m + 1 .. top : g[p] = From(k, d, p, g)
      BY <3>3 DEF IsFrom
    <3>5. \A q \in m + 1 .. top : h[q] = g[q]
      BY <1>1, <3>1 DEF h
    <3>6. ASSUME NEW p \in m .. top PROVE h[p] = From(k, d, p, h)
      <4>1. p \in 0 .. top /\ \A q \in p + 1 .. top : h[q] = g[q]
        BY <1>1, <3>1, <3>5
      <4>2. From(k, d, p, h) = From(k, d, p, g)
        BY <1>3, <4>1
      <4>3. p = m \/ p \in m + 1 .. top
        BY <1>1, <3>1
      <4>4. p = m => h[p] = From(k, d, p, g)
        BY DEF h
      <4>5. p \in m + 1 .. top => h[p] = From(k, d, p, g)
        BY <3>4, <3>5
      <4> QED BY <4>2, <4>3, <4>4, <4>5
    <3>7. IsFrom(h, m)
      <4>1. h = [p \in m .. top |-> h[p]]
        BY DEF h
      <4> QED BY <3>6, <4>1 DEF IsFrom
    <3>8. x \in Reached
      BY <2>2, <3>7 DEF Reached, m
    <3> QED BY <2>2, <3>8
  <2>5. x = 0 \/ x > 0
    BY <1>1, <2>2
  <2> QED BY <2>3, <2>4, <2>5
<1>5. PICK g : IsFrom(g, 0)
  <2>1. top \in 0 .. top /\ top - top = 0
    BY <1>1
  <2>2. top \in Reached
    BY <1>4, <2>1 DEF Missed
  <2> QED BY <2>1, <2>2 DEF Reached
<1>6. IsFrom(ReadFrom(k, d), 0)
  BY <1>2, <1>5
<1> DEFINE r == ReadFrom(k, d)
<1> HIDE DEF r
<1>7. r = [p \in 0 .. top |-> From(k, d, p, r)]
  BY <1>6 DEF IsFrom, r
<1>8. \A p \in 0 .. top : r[p] = From(k, d, p, r)
  BY <1>7
<1> QED BY <1>8 DEF r, top

LEMMA PieceIs ==
  ASSUME NEW c \in Seq(Piece)
  PROVE  /\ Len(c) \in Nat
         /\ \A i \in 1 .. Len(c) : c[i] \in Piece
         /\ \A i \in 1 .. Len(c) : c[i].at \in Nat /\ c[i].size \in Nat /\ c[i].pad \in Nat /\ c[i].from \in Nat
<1>1. \A i \in 1 .. Len(c) : c[i] \in Piece
  BY ElementOfSeq
<1> QED BY <1>1, LenProperties DEF Piece

LEMMA PieceEnds ==
  ASSUME NEW k \in NumberKinds, NEW b \in Piece
  PROVE  /\ LinkAt(k, b) \in Nat /\ EndOf(k, b) \in Nat
         /\ Bytes(k, b.size) \in Nat /\ Bytes(k, b.pad) \in Nat
         /\ LinkAt(k, b) = b.at + 8 + Bytes(k, b.size) + Bytes(k, b.pad)
         /\ EndOf(k, b) = LinkAt(k, b) + 8
<1>1. b.at \in Nat /\ b.size \in Nat /\ b.pad \in Nat
  BY DEF Piece
<1>2. Bytes(k, b.size) \in Nat /\ Bytes(k, b.pad) \in Nat /\ Bytes(k, b.size + b.pad) = Bytes(k, b.size) + Bytes(k, b.pad)
  BY <1>1, BytesLaws
<1> QED BY <1>1, <1>2 DEF LinkAt, EndOf

\* Every element that is read is in its place in a block.
InBlock(k, d, c, i, y, element) ==
  \E x \in i .. Len(c) : \E j \in 1 .. c[x].size :
    /\ y = c[x].from - c[i].from + j
    /\ element = <<NumberAt(d, c[x].at + 8 + Bytes(k, j - 1), Width(k))>>

IsRead(k, d, c, i) ==
  LET r == ReadFrom(k, d)[c[i].at]
  IN  /\ r.blocks \in Seq({BlockAt(k, d, q) : q \in Nat})
      /\ Len(r.blocks) = Len(c) - i + 1
      /\ \A j \in 1 .. Len(c) - i + 1 : r.blocks[j] = BlockAt(k, d, c[i + j - 1].at)
      /\ r.array \in Seq({<<NumberAt(d, q, Width(k))>> : q \in Nat})
      /\ Len(r.array) = Total(c) - c[i].from
      /\ \A y \in 1 .. Len(r.array) : InBlock(k, d, c, i, y, r.array[y])

\* The elements of a block are the numbers in it.
LEMMA ElementsOfBlock ==
  ASSUME NEW k \in NumberKinds, NEW d, NEW b \in Piece, NEW next, Bounded(k, b), InFile(k, d, b, next)
  PROVE  LET es == BlockAt(k, d, b.at).elements
         IN  /\ es \in Seq({<<NumberAt(d, q, Width(k))>> : q \in Nat}) /\ Len(es) = b.size
             /\ \A j \in 1 .. b.size : es[j] = <<NumberAt(d, b.at + 8 + Bytes(k, j - 1), Width(k))>>
<1> DEFINE S == {<<NumberAt(d, q, Width(k))>> : q \in Nat}
           es == [j \in 1 .. b.size |-> <<NumberAt(d, b.at + 8 + Bytes(k, j - 1), Width(k))>>]
<1>1. BlockAt(k, d, b.at).elements = es
  BY BlockElements
<1>2. b.size \in Nat /\ b.at \in Nat
  BY DEF Piece
<1>3. ASSUME NEW j \in 1 .. b.size PROVE es[j] \in S
  <2>1. PICK a \in Nat : a = j - 1
    BY <1>2
  <2>2. b.at + 8 + Bytes(k, j - 1) \in Nat
    <3>1. Bytes(k, a) \in Nat
      BY BytesLaws
    <3> QED BY <1>2, <2>1, <3>1
  <2>3. <<NumberAt(d, b.at + 8 + Bytes(k, j - 1), Width(k))>> \in S
    BY <2>2
  <2> QED BY <2>3
<1>4. es = [j \in 1 .. b.size |-> es[j]]
  OBVIOUS
<1> HIDE DEF es, S
<1>5. es \in [1 .. b.size -> S]
  BY <1>3, <1>4
<1>6. es \in Seq(S) /\ Len(es) = b.size
  BY <1>2, <1>5, SeqOfFunction
<1> QED BY <1>1, <1>6 DEF es, S

\* The last block of a chain is read, and nothing after it.
LEMMA LastIsRead ==
  ASSUME NEW k \in NumberKinds, NEW d \in Seq(Nat), NEW c, IsChain(k, d, c)
  PROVE  IsRead(k, d, c, Len(c))
<1>0. c \in Seq(Piece) /\ Len(c) \in Nat /\ Len(c) >= 1 /\ Len(c) \in 1 .. Len(c)
  BY PieceIs DEF IsChain
<1>m. PICK m \in Nat : m = Len(c)
  BY <1>0
<1>b. PICK b \in Piece : b = c[m]
  BY <1>0, <1>m, PieceIs
<1> DEFINE S == {<<NumberAt(d, q, Width(k))>> : q \in Nat}
           B == {BlockAt(k, d, q) : q \in Nat}
           es == BlockAt(k, d, b.at).elements
           r == ReadFrom(k, d)[b.at]
<1>1. c \in Seq(Piece) /\ m \in 1 .. m /\ b \in Piece /\ b.at \in Nat
  BY <1>0, <1>m DEF Piece
<1>2. Bounded(k, b) /\ InFile(k, d, b, 0)
  BY <1>0, <1>m, <1>b DEF IsChain, NextAt
<1>3. b.at \in 0 .. Len(d)
  <2>1. EndOf(k, b) <= Len(d)
    BY <1>2 DEF InFile
  <2>2. b.at <= EndOf(k, b) /\ EndOf(k, b) \in Nat
    <3>1. b \in Piece
      BY <1>1
    <3>2. /\ LinkAt(k, b) \in Nat /\ EndOf(k, b) \in Nat
         /\ Bytes(k, b.size) \in Nat /\ Bytes(k, b.pad) \in Nat
         /\ LinkAt(k, b) = b.at + 8 + Bytes(k, b.size) + Bytes(k, b.pad)
         /\ EndOf(k, b) = LinkAt(k, b) + 8
      BY <3>1, PieceEnds
    <3> QED BY <1>1, <3>2
  <2>3. Len(d) \in Nat
    BY LenProperties
  <2> QED BY <1>1, <2>1, <2>2, <2>3
<1>4. r = [blocks |-> <<BlockAt(k, d, b.at)>> \o <<>>, array |-> es \o <<>>]
  <2>1. BlockAt(k, d, b.at).next = 0
    <3>1. b \in Piece /\ 0 \in Nat
      BY <1>1
    <3>2. Bounded(k, b) /\ InFile(k, d, b, 0)
      BY <1>2
    <3> QED BY <3>1, <3>2, BlockFields
  <2>2. ~ (0 > b.at)
    BY <1>1
  <2>3. r = From(k, d, b.at, ReadFrom(k, d))
    BY <1>3, ReadFromUnfolds
  <2> QED BY <2>1, <2>2, <2>3 DEF From
<1>5. es \in Seq(S) /\ Len(es) = b.size /\ \A j \in 1 .. b.size : es[j] = <<NumberAt(d, b.at + 8 + Bytes(k, j - 1), Width(k))>>
  BY <1>1, <1>2, ElementsOfBlock
<1> HIDE DEF es
<1>6. es \o <<>> = es
  BY <1>5, ConcatEmptySeq
<1>7. BlockAt(k, d, b.at) \in B
  BY <1>1
<1>8. /\ <<BlockAt(k, d, b.at)>> \o <<>> = <<BlockAt(k, d, b.at)>>
      /\ <<BlockAt(k, d, b.at)>> \in Seq(B)
  <2> HIDE DEF B
  <2>1. <<BlockAt(k, d, b.at)>> \in Seq(B)
    BY <1>7
  <2> QED BY <2>1, ConcatEmptySeq
<1>9. r.blocks = <<BlockAt(k, d, b.at)>> /\ r.array = es
  BY <1>4, <1>6, <1>8
<1> HIDE DEF r
<1>10. Total(c) - b.from = b.size /\ b.from \in Nat /\ b.size \in Nat
  BY <1>m, <1>b DEF Total, Piece
<1>11. ASSUME NEW y \in 1 .. Len(es) PROVE InBlock(k, d, c, m, y, es[y])
  <2>1. m \in m .. Len(c) /\ y \in 1 .. c[m].size /\ y = c[m].from - c[m].from + y
    BY <1>m, <1>b, <1>1, <1>5, <1>10
  <2>2. es[y] = <<NumberAt(d, c[m].at + 8 + Bytes(k, y - 1), Width(k))>>
    BY <1>b, <1>5
  <2> QED BY <2>1, <2>2 DEF InBlock
<1>12. m - m + 1 = 1 /\ \A j \in 1 .. 1 : j = 1 /\ m + j - 1 = m
  BY <1>1
<1>13. r = ReadFrom(k, d)[c[m].at]
  BY <1>b DEF r
<1>14. /\ r.blocks \in Seq(B) /\ Len(r.blocks) = m - m + 1
       /\ \A j \in 1 .. m - m + 1 : r.blocks[j] = BlockAt(k, d, c[m + j - 1].at)
  <2>1. Len(<<BlockAt(k, d, b.at)>>) = 1 /\ <<BlockAt(k, d, b.at)>>[1] = BlockAt(k, d, b.at)
    OBVIOUS
  <2> HIDE DEF B
  <2> QED BY <1>b, <1>8, <1>9, <1>12, <2>1
<1>15. /\ r.array \in Seq(S) /\ Len(r.array) = Total(c) - c[m].from
       /\ \A y \in 1 .. Len(r.array) : InBlock(k, d, c, m, y, r.array[y])
  <2> HIDE DEF S
  <2> QED BY <1>b, <1>5, <1>9, <1>10, <1>11
<1> QED BY <1>m, <1>13, <1>14, <1>15 DEF IsRead

\* A block is read and, after it, what is read from the next one.
LEMMA EarlierIsRead ==
  ASSUME NEW k \in NumberKinds, NEW d \in Seq(Nat), NEW c, IsChain(k, d, c),
         NEW i \in Nat, i >= 1, i < Len(c), IsRead(k, d, c, i + 1)
  PROVE  IsRead(k, d, c, i)
<1>0. c \in Seq(Piece) /\ Len(c) \in Nat /\ i \in 1 .. Len(c) /\ i + 1 \in 1 .. Len(c) /\ i \in 1 .. Len(c) - 1
  BY PieceIs DEF IsChain
<1>m. PICK m \in Nat : m = Len(c)
  BY <1>0
<1>b. PICK b \in Piece : b = c[i]
  BY <1>0, PieceIs
<1>e. PICK e \in Piece : e = c[i + 1]
  BY <1>0, PieceIs
<1> DEFINE S == {<<NumberAt(d, q, Width(k))>> : q \in Nat}
           B == {BlockAt(k, d, q) : q \in Nat}
           es == BlockAt(k, d, b.at).elements
           r == ReadFrom(k, d)[b.at]
           rest == ReadFrom(k, d)[e.at]
           blk == BlockAt(k, d, b.at)
<1>1. b \in Piece /\ e \in Piece
  BY <1>b, <1>e
<1>2. b.at \in Nat /\ e.at \in Nat /\ b.from \in Nat /\ e.from \in Nat /\ b.size \in Nat /\ e.size \in Nat
  BY <1>1 DEF Piece
<1>3. Bounded(k, b) /\ InFile(k, d, b, e.at)
  BY <1>0, <1>b, <1>e DEF IsChain, NextAt
<1>4. EndOf(k, b) <= e.at /\ e.from = b.from + b.size
  BY <1>0, <1>b, <1>e DEF IsChain
<1>5. EndOf(k, e) <= Len(d)
  BY <1>0, <1>e DEF IsChain, InFile
<1>6. b.at < EndOf(k, b) /\ EndOf(k, b) \in Nat
  <2>1. /\ LinkAt(k, b) \in Nat /\ EndOf(k, b) \in Nat
        /\ Bytes(k, b.size) \in Nat /\ Bytes(k, b.pad) \in Nat
        /\ LinkAt(k, b) = b.at + 8 + Bytes(k, b.size) + Bytes(k, b.pad)
        /\ EndOf(k, b) = LinkAt(k, b) + 8
    BY <1>1, PieceEnds
  <2> QED BY <1>2, <2>1
<1>7. e.at < EndOf(k, e) /\ EndOf(k, e) \in Nat
  <2>1. /\ LinkAt(k, e) \in Nat /\ EndOf(k, e) \in Nat
        /\ Bytes(k, e.size) \in Nat /\ Bytes(k, e.pad) \in Nat
        /\ LinkAt(k, e) = e.at + 8 + Bytes(k, e.size) + Bytes(k, e.pad)
        /\ EndOf(k, e) = LinkAt(k, e) + 8
    BY <1>1, PieceEnds
  <2> QED BY <1>2, <2>1
<1>8. b.at \in 0 .. Len(d) /\ e.at > b.at /\ e.at < Len(d)
  <2>1. Len(d) \in Nat
    BY LenProperties
  <2>2. e.at > b.at
    BY <1>2, <1>4, <1>6
  <2>3. e.at < Len(d)
    BY <1>2, <1>5, <1>7, <2>1
  <2> QED BY <1>2, <2>1, <2>2, <2>3
<1>9. BlockAt(k, d, b.at).next = e.at
  BY <1>1, <1>3, BlockFields
<1>10. r = [blocks |-> <<blk>> \o rest.blocks, array |-> es \o rest.array]
  <2>1. r = From(k, d, b.at, ReadFrom(k, d))
    BY <1>8, ReadFromUnfolds
  <2> QED BY <1>8, <1>9, <2>1 DEF From
<1>11. es \in Seq(S) /\ Len(es) = b.size /\ \A j \in 1 .. b.size : es[j] = <<NumberAt(d, b.at + 8 + Bytes(k, j - 1), Width(k))>>
  BY <1>1, <1>3, ElementsOfBlock
<1>12. /\ rest.blocks \in Seq(B)
       /\ Len(rest.blocks) = m - (i + 1) + 1
       /\ \A j \in 1 .. m - (i + 1) + 1 : rest.blocks[j] = BlockAt(k, d, c[i + 1 + j - 1].at)
       /\ rest.array \in Seq(S)
       /\ Len(rest.array) = Total(c) - e.from
       /\ \A y \in 1 .. Len(rest.array) : InBlock(k, d, c, i + 1, y, rest.array[y])
  BY <1>m, <1>e DEF IsRead
<1>13. blk \in B
  BY <1>2
<1>15. r = ReadFrom(k, d)[c[i].at]
  BY <1>b
<1> HIDE DEF blk, es, rest, r, B, S
<1>14. r.blocks = <<blk>> \o rest.blocks /\ r.array = es \o rest.array
  BY <1>10
<1>16. /\ r.blocks \in Seq(B) /\ Len(r.blocks) = m - i + 1
       /\ \A j \in 1 .. m - i + 1 : r.blocks[j] = BlockAt(k, d, c[i + j - 1].at)
  <2>1. <<blk>> \in Seq(B) /\ Len(<<blk>>) = 1 /\ <<blk>>[1] = blk
    BY <1>13
  <2>2. rest.blocks \in Seq(B)
    BY <1>12
  <2>3. /\ <<blk>> \o rest.blocks \in Seq(B) /\ Len(<<blk>> \o rest.blocks) = 1 + (m - (i + 1) + 1)
        /\ \A j \in 1 .. 1 + (m - (i + 1) + 1) :
             (<<blk>> \o rest.blocks)[j] = IF j <= 1 THEN blk ELSE rest.blocks[j - 1]
    <3>1. /\ <<blk>> \o rest.blocks \in Seq(B)
          /\ Len(<<blk>> \o rest.blocks) = Len(<<blk>>) + Len(rest.blocks)
          /\ \A j \in 1 .. Len(<<blk>>) + Len(rest.blocks) :
               (<<blk>> \o rest.blocks)[j] = IF j <= Len(<<blk>>) THEN <<blk>>[j] ELSE rest.blocks[j - Len(<<blk>>)]
      BY <2>1, <2>2, ConcatProperties
    <3>2. Len(rest.blocks) = m - (i + 1) + 1
      BY <1>12
    <3>3. \A j \in 1 .. 1 + (m - (i + 1) + 1) : j <= 1 => j = 1
      BY <1>0, <1>m
    <3> QED BY <2>1, <3>1, <3>2, <3>3
  <2>4. 1 + (m - (i + 1) + 1) = m - i + 1
    BY <1>0, <1>m
  <2>5. ASSUME NEW j \in 1 .. m - i + 1 PROVE r.blocks[j] = BlockAt(k, d, c[i + j - 1].at)
    <3>1. CASE j = 1
      <4>1. i + 1 - 1 = i
        BY <1>0
      <4>2. r.blocks[1] = blk
        BY <1>14, <2>3, <2>4, <3>1
      <4> QED BY <1>b, <3>1, <4>1, <4>2 DEF blk
    <3>2. CASE j # 1
      <4>1. j - 1 \in 1 .. m - (i + 1) + 1 /\ i + 1 + (j - 1) - 1 = i + j - 1 /\ ~ (j <= 1)
        BY <1>0, <1>m, <3>2
      <4>2. r.blocks[j] = rest.blocks[j - 1]
        BY <1>14, <2>3, <2>4, <4>1
      <4>3. rest.blocks[j - 1] = BlockAt(k, d, c[i + 1 + (j - 1) - 1].at)
        BY <1>12, <4>1
      <4> QED BY <4>1, <4>2, <4>3
    <3> QED BY <3>1, <3>2
  <2> QED BY <1>14, <2>3, <2>4, <2>5
<1>17. Total(c) - e.from \in Nat /\ Total(c) \in Nat
  <2>1. Len(rest.array) \in Nat
    BY <1>12, LenProperties
  <2>2. Total(c) \in Nat
    <3>1. Len(c) \in 1 .. Len(c)
      BY <1>0
    <3>2. c[Len(c)].from \in Nat /\ c[Len(c)].size \in Nat
      BY <1>0, <3>1, PieceIs
    <3> QED BY <3>2 DEF Total
  <2> QED BY <1>12, <2>1, <2>2
<1>18. /\ r.array \in Seq(S) /\ Len(r.array) = Total(c) - b.from
       /\ \A y \in 1 .. Len(r.array) : r.array[y] = IF y <= b.size THEN es[y] ELSE rest.array[y - b.size]
  <2>1. es \in Seq(S) /\ rest.array \in Seq(S) /\ Len(es) = b.size /\ Len(rest.array) = Total(c) - e.from
    BY <1>11, <1>12
  <2>2. /\ es \o rest.array \in Seq(S)
        /\ Len(es \o rest.array) = Len(es) + Len(rest.array)
        /\ \A y \in 1 .. Len(es) + Len(rest.array) :
             (es \o rest.array)[y] = IF y <= Len(es) THEN es[y] ELSE rest.array[y - Len(es)]
    BY <2>1, ConcatProperties
  <2>3. b.size + (Total(c) - e.from) = Total(c) - b.from
    BY <1>2, <1>4, <1>17, SMTT(30)
  <2> QED BY <1>14, <2>1, <2>2, <2>3
<1>19. ASSUME NEW y \in 1 .. Len(r.array) PROVE InBlock(k, d, c, i, y, r.array[y])
  <2>1. y \in Nat /\ y >= 1
    BY <1>2, <1>17, <1>18
  <2>2. CASE y <= b.size
    <3>1. i \in i .. Len(c) /\ y \in 1 .. c[i].size /\ y = c[i].from - c[i].from + y
      BY <1>0, <1>2, <1>b, <2>1, <2>2
    <3>2. r.array[y] = <<NumberAt(d, c[i].at + 8 + Bytes(k, y - 1), Width(k))>>
      <4>1. r.array[y] = es[y]
        BY <1>18, <2>2
      <4>2. y \in 1 .. b.size
        BY <1>2, <2>1, <2>2
      <4> QED BY <1>b, <1>11, <4>1, <4>2
    <3> QED BY <3>1, <3>2 DEF InBlock
  <2>3. CASE ~ (y <= b.size)
    <3>1. y - b.size \in 1 .. Len(rest.array)
      <4>1. Len(rest.array) = Total(c) - e.from /\ Len(r.array) = Total(c) - b.from
        BY <1>12, <1>18
      <4>2. y <= Total(c) - b.from
        BY <1>2, <1>17, <4>1
      <4>3. \A a, f, z \in Nat : y > z /\ y <= a - f => y - z \in 1 .. a - (f + z)
        BY <2>1
      <4>4. y - b.size \in 1 .. Total(c) - (b.from + b.size)
        <5>1. y > b.size
          BY <1>2, <2>1, <2>3
        <5>2. b.from \in Nat /\ b.size \in Nat /\ Total(c) \in Nat
          BY <1>2, <1>17
        <5> QED BY <4>2, <4>3, <5>1, <5>2
      <4> QED BY <1>4, <4>1, <4>4
    <3>2. InBlock(k, d, c, i + 1, y - b.size, rest.array[y - b.size])
      BY <1>12, <3>1
    <3>x. PICK x \in i + 1 .. Len(c) : \E j \in 1 .. c[x].size :
            /\ y - b.size = c[x].from - c[i + 1].from + j
            /\ rest.array[y - b.size] = <<NumberAt(d, c[x].at + 8 + Bytes(k, j - 1), Width(k))>>
      BY <3>2 DEF InBlock
    <3>3. PICK j \in 1 .. c[x].size :
            /\ y - b.size = c[x].from - c[i + 1].from + j
            /\ rest.array[y - b.size] = <<NumberAt(d, c[x].at + 8 + Bytes(k, j - 1), Width(k))>>
      BY <3>x
    <3>4. x \in i .. Len(c) /\ x \in 1 .. Len(c)
      BY <1>0, <3>3
    <3>5. c[x].from \in Nat /\ c[x].size \in Nat
      BY <1>0, <3>4, PieceIs
    <3>6. y = c[x].from - c[i].from + j
      <4>1. j \in Nat
        BY <3>3, <3>5
      <4>2. y - b.size = c[x].from - e.from + j
        BY <1>e, <3>3
      <4>3. y = c[x].from - b.from + j
        <5>1. \A a, f, z \in Nat : y - z = a - (f + z) + j => y = a - f + j
          BY <2>1, <4>1
        <5>2. y - b.size = c[x].from - (b.from + b.size) + j
          BY <1>4, <4>2
        <5> QED BY <1>2, <3>5, <5>1, <5>2
      <4> QED BY <1>b, <4>3
    <3>7. r.array[y] = rest.array[y - b.size]
      BY <1>18, <2>3
    <3> QED BY <3>3, <3>4, <3>6, <3>7 DEF InBlock
  <2> QED BY <2>2, <2>3
<1> QED BY <1>m, <1>b, <1>15, <1>16, <1>18, <1>19 DEF IsRead, B, S

\* The blocks of a chain are read in turn, from any of them on.
LEMMA ChainIsRead ==
  ASSUME NEW k \in NumberKinds, NEW d \in Seq(Nat), NEW c, IsChain(k, d, c)
  PROVE  \A i \in 1 .. Len(c) : IsRead(k, d, c, i)
<1> DEFINE Bad == {x \in 0 .. Len(c) - 1 : ~ IsRead(k, d, c, Len(c) - x)}
<1>1. Len(c) \in Nat /\ Len(c) >= 1
  BY PieceIs DEF IsChain
<1>2. Bad = {}
  <2> SUFFICES ASSUME Bad # {} PROVE FALSE
    OBVIOUS
  <2>1. PICK x \in Bad : \A y \in Bad : x <= y
    <3>1. Bad \in SUBSET Nat
      OBVIOUS
    <3> HIDE DEF Bad
    <3> QED BY <3>1, Least
  <2>2. x \in 0 .. Len(c) - 1 /\ ~ IsRead(k, d, c, Len(c) - x)
    BY <2>1
  <2>3. CASE x = 0
    <3>1. Len(c) - 0 = Len(c)
      BY <1>1
    <3> QED BY <2>2, <2>3, <3>1, LastIsRead
  <2>4. CASE x > 0
    <3>1. PICK i \in Nat : i = Len(c) - x
      BY <1>1, <2>2
    <3>2. i >= 1 /\ i < Len(c) /\ Len(c) - (x - 1) = i + 1 /\ x - 1 \in 0 .. Len(c) - 1 /\ ~ (x <= x - 1)
      BY <1>1, <2>2, <2>4, <3>1
    <3>3. IsRead(k, d, c, i + 1)
      <4>1. x - 1 \notin Bad
        BY <2>1, <3>2
      <4> QED BY <3>2, <4>1
    <3>4. IsRead(k, d, c, i)
      BY <3>2, <3>3, EarlierIsRead
    <3> QED BY <2>2, <3>1, <3>4
  <2>5. x = 0 \/ x > 0
    BY <1>1, <2>2
  <2> QED BY <2>3, <2>4, <2>5
<1>3. ASSUME NEW i \in 1 .. Len(c) PROVE IsRead(k, d, c, i)
  <2>0. Len(c) - i \in Nat
    BY <1>1
  <2>m. PICK x \in Nat : x = Len(c) - i
    BY <2>0
  <2>1. Len(c) - x = i /\ x \in 0 .. Len(c) - 1
    BY <1>1, <2>m
  <2>2. x \notin Bad
    BY <1>2
  <2> QED BY <2>1, <2>2
<1> QED BY <1>3

\* What read_file gives of a record that is laid out.
LEMMA ReadRecordIs ==
  ASSUME NEW k \in NumberKinds, NEW d \in Seq(Nat), NEW c, IsChain(k, d, c)
  PROVE  /\ ReadRecord(k, d) = [array |-> ReadFrom(k, d)[ArrayAt].array, text |-> TextAt(d, EndOf(k, c[1]))]
         /\ DOMAIN ReadFrom(k, d)[ArrayAt].array = 1 .. Total(c)
         /\ Len(ReadFrom(k, d)[ArrayAt].array) = Total(c)
         /\ \A y \in 1 .. Total(c) : InBlock(k, d, c, 1, y, ReadFrom(k, d)[ArrayAt].array[y])
<1>1. c \in Seq(Piece) /\ Len(c) \in Nat /\ 1 \in 1 .. Len(c) /\ c[1].at = ArrayAt /\ c[1].from = 0
  BY PieceIs DEF IsChain
<1>2. IsRead(k, d, c, 1)
  BY <1>1, ChainIsRead
<1> DEFINE r == ReadFrom(k, d)[ArrayAt]
           S == {<<NumberAt(d, q, Width(k))>> : q \in Nat}
<1>3. /\ r.array \in Seq(S)
      /\ Len(r.array) = Total(c) - c[1].from
      /\ \A y \in 1 .. Len(r.array) : InBlock(k, d, c, 1, y, r.array[y])
      /\ \A j \in 1 .. Len(c) - 1 + 1 : r.blocks[j] = BlockAt(k, d, c[1 + j - 1].at)
  BY <1>1, <1>2 DEF IsRead
<1>4. ReadRecord(k, d) = [array |-> r.array, text |-> TextAt(d, r.blocks[1].link + 8)]
  BY DEF ReadRecord
<1> HIDE DEF r, S
<1>5. Total(c) - 0 = Total(c)
  <2>1. Len(c) \in 1 .. Len(c)
    BY <1>1
  <2>2. c[Len(c)].from \in Nat /\ c[Len(c)].size \in Nat
    BY <1>1, <2>1, PieceIs
  <2> QED BY <2>2 DEF Total
<1>6. r.blocks[1] = BlockAt(k, d, c[1].at)
  <2>1. 1 \in 1 .. Len(c) - 1 + 1 /\ 1 + 1 - 1 = 1
    BY <1>1
  <2> QED BY <1>3, <2>1
<1>7. r.blocks[1].link = LinkAt(k, c[1])
  <2>1. c[1] \in Piece
    BY <1>1, PieceIs
  <2>2. Bounded(k, c[1]) /\ InFile(k, d, c[1], NextAt(c, 1))
    BY <1>1 DEF IsChain
  <2> QED BY <1>6, <2>1, <2>2, BlockFields
<1>8. r.blocks[1].link + 8 = EndOf(k, c[1])
  BY <1>7 DEF EndOf
<1>9. DOMAIN r.array = 1 .. Len(r.array)
  BY <1>3, LenProperties
<1> QED BY <1>1, <1>3, <1>4, <1>5, <1>8, <1>9 DEF r

LEMMA OneNumber == ASSUME NEW e \in Element PROVE e = <<e[1]>>
<1>1. e \in Seq(Nat) /\ Len(e) = 1
  BY SeqOfFunction DEF Element
<1>2. <<e[1]>> \in Seq(Nat) /\ Len(<<e[1]>>) = 1 /\ <<e[1]>>[1] = e[1]
  <2>1. e[1] \in Nat
    BY DEF Element
  <2> QED BY <2>1
<1> QED BY <1>1, <1>2, SeqEqual

\* An element comes from a block; when the block holds an array it is the element of that array.
LEMMA ElementIs ==
  ASSUME NEW k \in NumberKinds, NEW d, NEW c, IsChain(k, d, c), NEW y, NEW element, InBlock(k, d, c, 1, y, element)
  PROVE  \E x \in 1 .. Len(c) :
           /\ y <= c[x].from + c[x].size
           /\ \A array \in Seq(Element) :
                Holds(k, d, c[x], array) /\ y \in 1 .. Len(array) => element = array[y]
<1>1. c \in Seq(Piece) /\ c[1].from = 0
  BY DEF IsChain
<1>x. PICK x \in 1 .. Len(c) : \E j \in 1 .. c[x].size :
        /\ y = c[x].from - c[1].from + j
        /\ element = <<NumberAt(d, c[x].at + 8 + Bytes(k, j - 1), Width(k))>>
  BY DEF InBlock
<1>2. PICK j \in 1 .. c[x].size :
        /\ y = c[x].from - c[1].from + j
        /\ element = <<NumberAt(d, c[x].at + 8 + Bytes(k, j - 1), Width(k))>>
  BY <1>x
<1>3. c[x].from \in Nat /\ c[x].size \in Nat
  BY <1>1, PieceIs
<1>4. y = c[x].from + j /\ y <= c[x].from + c[x].size
  BY <1>1, <1>2, <1>3
<1>5. ASSUME NEW array \in Seq(Element), Holds(k, d, c[x], array), y \in 1 .. Len(array)
      PROVE  element = array[y]
  <2>1. NumberAt(d, c[x].at + 8 + Bytes(k, j - 1), Width(k)) = array[c[x].from + j][1]
    BY <1>5 DEF Holds
  <2>2. array[y] \in Element
    BY <1>5, ElementOfSeq
  <2>3. element = <<array[y][1]>>
    BY <1>2, <1>4, <2>1
  <2> QED BY <2>2, <2>3, OneNumber
<1> QED BY <1>4, <1>5

\* A chain that holds an array is read as that array.
LEMMA ArrayIsRead ==
  ASSUME NEW k \in NumberKinds, NEW d \in Seq(Nat), NEW c, IsChain(k, d, c),
         NEW r, r \in [array : Seq(Element), text : Seq(Nat \ {0})], Total(c) = Len(r.array),
         Written(k, d, c, Len(c), r.array), TextAt(d, EndOf(k, c[1])) = r.text
  PROVE  ReadRecord(k, d) = r
<1> DEFINE a == ReadFrom(k, d)[ArrayAt].array
           b == r.array
<1>1. /\ ReadRecord(k, d) = [array |-> a, text |-> r.text]
      /\ DOMAIN a = 1 .. Total(c)
      /\ \A y \in 1 .. Total(c) : InBlock(k, d, c, 1, y, a[y])
      /\ Len(a) = Total(c)
  BY ReadRecordIs
<1>2. b \in Seq(Element) /\ DOMAIN b = 1 .. Total(c)
  BY LenProperties
<1>3. ASSUME NEW y \in 1 .. Total(c) PROVE a[y] = b[y]
  <2> HIDE DEF a, b
  <2>1. InBlock(k, d, c, 1, y, a[y])
    BY <1>1
  <2>2. PICK x \in 1 .. Len(c) : \A array \in Seq(Element) :
                Holds(k, d, c[x], array) /\ y \in 1 .. Len(array) => a[y] = array[y]
    BY <2>1, ElementIs
  <2>3. Holds(k, d, c[x], b)
    BY DEF Written, b
  <2> QED BY <1>2, <2>2, <2>3 DEF b
<1>4. a \in Seq({<<NumberAt(d, q, Width(k))>> : q \in Nat})
  <2>1. c[1].at = ArrayAt /\ 1 \in 1 .. Len(c)
    BY PieceIs DEF IsChain
  <2> QED BY <2>1, ChainIsRead DEF IsRead
<1> HIDE DEF a, b
<1>5. a = [y \in 1 .. Total(c) |-> a[y]] /\ b = [y \in 1 .. Total(c) |-> b[y]]
  BY <1>1, <1>2, <1>4, LenProperties
<1>6. a = b
  BY <1>3, <1>5
<1>7. r = [array |-> b, text |-> r.text]
  BY DEF b
<1> QED BY <1>1, <1>6, <1>7

-----------------------------------------------------------------------------
(* What a write leaves as it was.                                            *)

SameIn(d, e, lo, hi) == \A q \in Nat : lo <= q /\ q < hi => ByteAt(d, q) = ByteAt(e, q)

LEMMA SameOutside ==
  ASSUME NEW d, NEW e, NEW lo \in Nat, NEW hi \in Nat, SameBut(e, d, lo, hi),
         NEW lo2 \in Nat, NEW hi2 \in Nat, hi2 <= lo \/ hi <= lo2
  PROVE  SameIn(d, e, lo2, hi2)
BY DEF SameBut, SameIn

LEMMA SameInWithin ==
  ASSUME NEW d, NEW e, NEW lo \in Nat, NEW hi \in Nat, SameIn(d, e, lo, hi),
         NEW lo2 \in Nat, NEW hi2 \in Nat, lo <= lo2, hi2 <= hi
  PROVE  SameIn(d, e, lo2, hi2)
BY DEF SameIn

LEMMA NumberIn ==
  ASSUME NEW d, NEW e, NEW lo \in Nat, NEW hi \in Nat, SameIn(d, e, lo, hi),
         NEW p \in Nat, NEW m \in Widths, lo <= p, p + m <= hi
  PROVE  NumberAt(d, p, m) = NumberAt(e, p, m)
<1>1. m \in Nat
  BY DEF Widths
<1>2. \A q \in Nat : p <= q /\ q < p + m => ByteAt(d, q) = ByteAt(e, q)
  BY <1>1 DEF SameIn
<1> QED BY <1>2, SameNumber

\* A block whose bytes stay, stays.
LEMMA BlockKept ==
  ASSUME NEW k \in NumberKinds, NEW d, NEW e, NEW b \in Piece, SameIn(d, e, b.at, EndOf(k, b)),
         Len(d) \in Nat, Len(e) \in Nat, Len(d) <= Len(e)
  PROVE  /\ \A next : InFile(k, d, b, next) => InFile(k, e, b, next)
         /\ \A array : Holds(k, d, b, array) => Holds(k, e, b, array)
<1>1. b.at \in Nat /\ b.size \in Nat /\ b.pad \in Nat
  BY DEF Piece
<1>2. /\ LinkAt(k, b) \in Nat /\ EndOf(k, b) \in Nat
      /\ Bytes(k, b.size) \in Nat /\ Bytes(k, b.pad) \in Nat
      /\ LinkAt(k, b) = b.at + 8 + Bytes(k, b.size) + Bytes(k, b.pad)
      /\ EndOf(k, b) = LinkAt(k, b) + 8
  BY PieceEnds
<1>3. b.at + 4 \in Nat /\ b.at <= b.at + 4 /\ b.at + 4 + 4 <= EndOf(k, b)
      /\ b.at + 4 <= EndOf(k, b) /\ b.at <= LinkAt(k, b) /\ LinkAt(k, b) + 8 <= EndOf(k, b)
  <2>1. \A a, x, y, l, z \in Nat : l = a + 8 + x + y /\ z = l + 8 =>
          /\ a + 4 \in Nat /\ a <= a + 4 /\ a + 4 + 4 <= z /\ a + 4 <= z /\ a <= l /\ l + 8 <= z
    OBVIOUS
  <2> QED BY <1>1, <1>2, <2>1
<1>4. 4 \in Widths /\ 8 \in Widths /\ b.at <= b.at
  BY <1>1 DEF Widths
<1>5. /\ NumberAt(d, b.at, 4) = NumberAt(e, b.at, 4)
      /\ NumberAt(d, b.at + 4, 4) = NumberAt(e, b.at + 4, 4)
      /\ NumberAt(d, LinkAt(k, b), 8) = NumberAt(e, LinkAt(k, b), 8)
  <2>0. SameIn(d, e, b.at, EndOf(k, b))
    OBVIOUS
  <2>1. NumberAt(d, b.at, 4) = NumberAt(e, b.at, 4)
    BY <1>1, <1>2, <1>3, <1>4, <2>0, NumberIn
  <2>2. NumberAt(d, b.at + 4, 4) = NumberAt(e, b.at + 4, 4)
    BY <1>1, <1>2, <1>3, <1>4, <2>0, NumberIn
  <2>3. NumberAt(d, LinkAt(k, b), 8) = NumberAt(e, LinkAt(k, b), 8)
    BY <1>1, <1>2, <1>3, <1>4, <2>0, NumberIn
  <2> QED BY <2>1, <2>2, <2>3
<1>6. ASSUME NEW j \in 1 .. b.size
      PROVE  NumberAt(d, b.at + 8 + Bytes(k, j - 1), Width(k)) = NumberAt(e, b.at + 8 + Bytes(k, j - 1), Width(k))
  <2>1. PICK a \in Nat : a = j - 1 /\ a + 1 <= b.size
    BY <1>1
  <2>2. Bytes(k, a) \in Nat /\ Bytes(k, a + 1) = Bytes(k, a) + Width(k) /\ Bytes(k, a + 1) <= Bytes(k, b.size)
    <3>1. a + 1 \in Nat
      OBVIOUS
    <3> QED BY <1>1, <2>1, <3>1, BytesLaws
  <2>3. Width(k) \in Widths
    BY WidthIs
  <2>4. Width(k) \in Nat
    BY <2>3 DEF Widths
  <2>5. /\ b.at + 8 + Bytes(k, a) \in Nat /\ b.at <= b.at + 8 + Bytes(k, a)
        /\ b.at + 8 + Bytes(k, a) + Width(k) <= EndOf(k, b)
    <3>2. Bytes(k, a) + Width(k) <= Bytes(k, b.size)
      BY <2>2
    <3>3. PICK at \in Nat, x \in Nat, y \in Nat, l \in Nat, z \in Nat, u \in Nat, v \in Nat :
            /\ at = b.at /\ x = Bytes(k, b.size) /\ y = Bytes(k, b.pad) /\ l = LinkAt(k, b) /\ z = EndOf(k, b)
            /\ u = Bytes(k, a) /\ v = Width(k)
      BY <1>1, <1>2, <2>2, <2>4
    <3>4. l = at + 8 + x + y /\ z = l + 8 /\ u + v <= x
      BY <1>2, <3>2, <3>3
    <3>5. at + 8 + u \in Nat /\ at <= at + 8 + u /\ at + 8 + u + v <= z
      BY <3>4
    <3> QED BY <3>3, <3>5
  <2>6. NumberAt(d, b.at + 8 + Bytes(k, a), Width(k)) = NumberAt(e, b.at + 8 + Bytes(k, a), Width(k))
    BY <1>1, <1>2, <2>3, <2>5, NumberIn
  <2> QED BY <2>1, <2>6
<1>7. ASSUME NEW next, InFile(k, d, b, next) PROVE InFile(k, e, b, next)
  BY <1>2, <1>5, <1>7 DEF InFile
<1>8. ASSUME NEW array, Holds(k, d, b, array) PROVE Holds(k, e, b, array)
  BY <1>6, <1>8 DEF Holds
<1> QED BY <1>7, <1>8

LEMMA ChainKept ==
  ASSUME NEW k \in NumberKinds, NEW d, NEW e, NEW c, IsChain(k, d, c),
         \A i \in 1 .. Len(c) : SameIn(d, e, c[i].at, EndOf(k, c[i])),
         Len(d) \in Nat, Len(e) \in Nat, Len(d) <= Len(e)
  PROVE  /\ IsChain(k, e, c)
         /\ \A i \in 1 .. Len(c) : \A array : Holds(k, d, c[i], array) => Holds(k, e, c[i], array)
<1>1. \A i \in 1 .. Len(c) : c[i] \in Piece
  BY PieceIs DEF IsChain
<1>2. \A i \in 1 .. Len(c) : /\ \A next : InFile(k, d, c[i], next) => InFile(k, e, c[i], next)
                             /\ \A array : Holds(k, d, c[i], array) => Holds(k, e, c[i], array)
  BY <1>1, BlockKept
<1>3. \A i \in 1 .. Len(c) : InFile(k, e, c[i], NextAt(c, i))
  BY <1>2 DEF IsChain
<1> QED BY <1>2, <1>3 DEF IsChain

\* The bytes of a text: its place, and the buffer that replaces its own.
TextSame(d, e, place, t) ==
  /\ SameIn(d, e, place, place + 16 + t.own)
  /\ t.loc > 0 => SameIn(d, e, t.loc, t.loc + 8 + t.size)

BufferAt(place, t) == IF t.loc > 0 THEN t.loc ELSE place + 8
BufferSize(t) == IF t.loc > 0 THEN t.size ELSE t.own

LEMMA TextIs ==
  ASSUME NEW d \in Seq(Nat), NEW place \in Nat, NEW t, NEW end, IsText(d, place, t, end)
  PROVE  /\ t.loc \in Nat /\ t.own \in Nat /\ t.size \in Nat
         /\ BufferAt(place, t) \in Nat /\ BufferSize(t) \in Nat
         /\ NumberAt(d, place, 8) = t.loc
         /\ (IF NumberAt(d, place, 8) > 0 THEN NumberAt(d, place, 8) ELSE place + 8) = BufferAt(place, t)
         /\ NumberAt(d, BufferAt(place, t), 8) = BufferSize(t)
<1>1. t.loc \in Nat /\ t.own \in Nat /\ t.size \in Nat
  BY DEF IsText, TextPlace
<1>2. NumberAt(d, place, 8) = t.loc /\ NumberAt(d, place + 8, 8) = t.own
  BY DEF IsText
<1>3. CASE t.loc > 0
  <2>1. NumberAt(d, t.loc, 8) = t.size
    BY <1>3 DEF IsText
  <2> QED BY <1>1, <1>2, <1>3, <2>1 DEF BufferAt, BufferSize
<1>4. CASE ~ (t.loc > 0)
  <2>1. BufferAt(place, t) = place + 8 /\ BufferSize(t) = t.own
    BY <1>4 DEF BufferAt, BufferSize
  <2>2. place + 8 \in Nat
    OBVIOUS
  <2> QED BY <1>1, <1>2, <1>4, <2>1, <2>2
<1> QED BY <1>3, <1>4

\* A text of a buffer's size ends with its first zero.
TextLength(d, p, size) ==
  LET nul == {i \in 0 .. size - 1 : ByteAt(d, p + i) = 0}
  IN  IF nul = {} THEN size ELSE CHOOSE i \in nul : \A j \in nul : i <= j

\* The text is in its own buffer or in the one that replaces it, up to the first zero.
LEMMA TextAtBuffer ==
  ASSUME NEW d \in Seq(Nat), NEW place \in Nat, NEW t, NEW end, IsText(d, place, t, end)
  PROVE  TextAt(d, place) =
           [i \in 1 .. TextLength(d, BufferAt(place, t) + 8, BufferSize(t)) |-> ByteAt(d, BufferAt(place, t) + 8 + i - 1)]
<1>1. /\ t.loc \in Nat /\ t.own \in Nat /\ t.size \in Nat
      /\ BufferAt(place, t) \in Nat /\ BufferSize(t) \in Nat
      /\ NumberAt(d, place, 8) = t.loc
      /\ (IF NumberAt(d, place, 8) > 0 THEN NumberAt(d, place, 8) ELSE place + 8) = BufferAt(place, t)
      /\ NumberAt(d, BufferAt(place, t), 8) = BufferSize(t)
  BY TextIs
<1> DEFINE loc == NumberAt(d, place, 8)
           p == IF loc > 0 THEN loc ELSE place + 8
           size == NumberAt(d, p, 8)
<1>2. Huge \notin {loc, size}
  BY <1>1 DEF Huge
<1>3. p = BufferAt(place, t) /\ size = BufferSize(t)
  BY <1>1
<1>4. TextAt(d, place) = IF Huge \in {loc, size} THEN <<Huge>>
                         ELSE [i \in 1 .. TextLength(d, p + 8, size) |-> ByteAt(d, p + 8 + i - 1)]
  BY DEF TextAt, TextLength
<1> QED BY <1>2, <1>3, <1>4

\* A text whose bytes stay, stays.
LEMMA TextKept ==
  ASSUME NEW d \in Seq(Nat), NEW e \in Seq(Nat), NEW place \in Nat, NEW t, NEW end, IsText(d, place, t, end),
         TextSame(d, e, place, t), Len(d) <= Len(e)
  PROVE  IsText(e, place, t, end) /\ TextAt(e, place) = TextAt(d, place)
<1>0. Len(d) \in Nat /\ Len(e) \in Nat
  BY LenProperties
<1>1. /\ t.loc \in Nat /\ t.own \in Nat /\ t.size \in Nat
      /\ BufferAt(place, t) \in Nat /\ BufferSize(t) \in Nat
  BY TextIs
<1>2. NumberAt(d, place, 8) = NumberAt(e, place, 8) /\ NumberAt(d, place + 8, 8) = NumberAt(e, place + 8, 8)
  <2>1. SameIn(d, e, place, place + 16 + t.own) /\ place + 16 + t.own \in Nat /\ 8 \in Widths
    BY <1>1 DEF TextSame, Widths
  <2>2. /\ place <= place /\ place + 8 <= place + 16 + t.own
        /\ place + 8 \in Nat /\ place <= place + 8 /\ place + 8 + 8 <= place + 16 + t.own
    BY <1>1
  <2>3. NumberAt(d, place, 8) = NumberAt(e, place, 8)
    BY <2>1, <2>2, NumberIn
  <2>4. NumberAt(d, place + 8, 8) = NumberAt(e, place + 8, 8)
    BY <2>1, <2>2, NumberIn
  <2> QED BY <2>3, <2>4
<1>3. t.loc > 0 => NumberAt(d, t.loc, 8) = NumberAt(e, t.loc, 8)
  <2>1. t.loc > 0 => SameIn(d, e, t.loc, t.loc + 8 + t.size)
    BY DEF TextSame
  <2>2. t.loc + 8 + t.size \in Nat /\ 8 \in Widths /\ t.loc <= t.loc /\ t.loc + 8 <= t.loc + 8 + t.size
    BY <1>1, SMTT(30) DEF Widths
  <2> QED BY <1>1, <2>1, <2>2, NumberIn
<1>4. IsText(e, place, t, end)
  <2>1. end + 4 <= Len(d) => end + 4 <= Len(e)
    BY <1>0, <1>1 DEF IsText
  <2>2. t.loc + 8 + t.size <= Len(d) => t.loc + 8 + t.size <= Len(e)
    BY <1>0, <1>1
  <2> QED BY <1>2, <1>3, <2>1, <2>2 DEF IsText
<1> DEFINE p == BufferAt(place, t) + 8
           size == BufferSize(t)
<1>5. SameIn(d, e, p, p + size)
  <2>1. CASE t.loc > 0
    <3>1. SameIn(d, e, t.loc, t.loc + 8 + t.size) /\ p = t.loc + 8 /\ size = t.size
      BY <2>1 DEF TextSame, BufferAt, BufferSize
    <3>2. t.loc <= t.loc + 8 /\ t.loc + 8 + t.size <= t.loc + 8 + t.size /\ t.loc + 8 \in Nat /\ t.loc + 8 + t.size \in Nat
      <4>1. \A x, y \in Nat : x <= x + 8 /\ x + 8 + y <= x + 8 + y /\ x + 8 \in Nat /\ x + 8 + y \in Nat
        OBVIOUS
      <4> QED BY <1>1, <4>1
    <3> QED BY <1>1, <3>1, <3>2, SameInWithin
  <2>2. CASE ~ (t.loc > 0)
    <3>1. SameIn(d, e, place, place + 16 + t.own) /\ p = place + 8 + 8 /\ size = t.own
      <4>1. SameIn(d, e, place, place + 16 + t.own)
        BY DEF TextSame
      <4>2. BufferAt(place, t) = place + 8 /\ BufferSize(t) = t.own
        BY <2>2 DEF BufferAt, BufferSize
      <4> QED BY <4>1, <4>2
    <3>2. /\ place <= place + 8 + 8 /\ place + 8 + 8 + t.own <= place + 16 + t.own
          /\ place + 8 + 8 \in Nat /\ place + 8 + 8 + t.own \in Nat /\ place + 16 + t.own \in Nat
      BY <1>1
    <3> QED BY <3>1, <3>2, SameInWithin
  <2> QED BY <2>1, <2>2
<1>6. p \in Nat /\ size \in Nat
  BY <1>1
<1> HIDE DEF p, size
<1>7. \A i \in 0 .. size - 1 : ByteAt(d, p + i) = ByteAt(e, p + i)
  BY <1>5, <1>6 DEF SameIn
<1>8. TextLength(d, p, size) = TextLength(e, p, size)
  <2>1. {i \in 0 .. size - 1 : ByteAt(d, p + i) = 0} = {i \in 0 .. size - 1 : ByteAt(e, p + i) = 0}
    BY <1>7
  <2> DEFINE nul == {i \in 0 .. size - 1 : ByteAt(d, p + i) = 0}
             other == {i \in 0 .. size - 1 : ByteAt(e, p + i) = 0}
  <2>2. TextLength(d, p, size) = IF nul = {} THEN size ELSE CHOOSE i \in nul : \A j \in nul : i <= j
    BY DEF TextLength
  <2>3. TextLength(e, p, size) = IF other = {} THEN size ELSE CHOOSE i \in other : \A j \in other : i <= j
    BY DEF TextLength
  <2>4. nul = other
    BY <2>1
  <2> HIDE DEF nul, other
  <2> QED BY <2>2, <2>3, <2>4
<1>9. TextLength(d, p, size) \in 0 .. size
  <2> DEFINE nul == {i \in 0 .. size - 1 : ByteAt(d, p + i) = 0}
  <2>1. CASE nul = {}
    <3>1. TextLength(d, p, size) = size
      BY <2>1 DEF TextLength
    <3>2. size \in 0 .. size
      BY <1>6
    <3> QED BY <3>1, <3>2
  <2>2. CASE nul # {}
    <3>1. nul \in SUBSET Nat
      BY <1>6
    <3>2. \A i \in nul : i \in 0 .. size
      BY <1>6
    <3> HIDE DEF nul
    <3>3. \E i \in nul : \A j \in nul : i <= j
      BY <2>2, <3>1, Least
    <3>4. (CHOOSE i \in nul : \A j \in nul : i <= j) \in nul
      BY <3>3
    <3>5. TextLength(d, p, size) = CHOOSE i \in nul : \A j \in nul : i <= j
      BY <2>2 DEF TextLength, nul
    <3> QED BY <3>2, <3>4, <3>5
  <2> QED BY <2>1, <2>2
<1>10. \A i \in 1 .. TextLength(d, p, size) : ByteAt(d, p + i - 1) = ByteAt(e, p + i - 1)
  <2> SUFFICES ASSUME NEW i \in 1 .. TextLength(d, p, size) PROVE ByteAt(d, p + i - 1) = ByteAt(e, p + i - 1)
    OBVIOUS
  <2>1. i - 1 \in 0 .. size - 1 /\ p + (i - 1) = p + i - 1
    BY <1>6, <1>9
  <2> QED BY <1>7, <2>1
<1>11. TextAt(d, place) = [i \in 1 .. TextLength(d, p, size) |-> ByteAt(d, p + i - 1)]
  BY TextAtBuffer DEF p, size
<1>12. TextAt(e, place) = [i \in 1 .. TextLength(e, p, size) |-> ByteAt(e, p + i - 1)]
  BY <1>4, TextAtBuffer DEF p, size
<1> QED BY <1>4, <1>8, <1>10, <1>11, <1>12

LEMMA ChainFacts ==
  ASSUME NEW k \in NumberKinds, NEW d, NEW c, IsChain(k, d, c)
  PROVE  /\ c \in Seq(Piece) /\ Len(c) \in Nat /\ 1 \in 1 .. Len(c) /\ Len(c) \in 1 .. Len(c)
         /\ \A i \in 1 .. Len(c) : c[i] \in Piece
         /\ \A i \in 1 .. Len(c) : c[i].at \in Nat /\ c[i].size \in Nat /\ c[i].pad \in Nat /\ c[i].from \in Nat
         /\ \A i \in 1 .. Len(c) : LinkAt(k, c[i]) \in Nat /\ EndOf(k, c[i]) \in Nat
         /\ \A i \in 1 .. Len(c) : c[i].at + 16 <= EndOf(k, c[i]) /\ EndOf(k, c[i]) <= Len(d)
         /\ \A i \in 1 .. Len(c) : ArrayAt <= c[i].at
         /\ Total(c) \in Nat
         /\ \A i \in 1 .. Len(c) : c[i].from + c[i].size <= Total(c)
<1>1. c \in Seq(Piece) /\ Len(c) >= 1
  BY DEF IsChain
<1>2. Len(c) \in Nat /\ 1 \in 1 .. Len(c) /\ Len(c) \in 1 .. Len(c)
  BY <1>1, PieceIs
<1>3. /\ \A i \in 1 .. Len(c) : c[i] \in Piece
      /\ \A i \in 1 .. Len(c) : c[i].at \in Nat /\ c[i].size \in Nat /\ c[i].pad \in Nat /\ c[i].from \in Nat
  BY <1>1, PieceIs
<1>4. \A i \in 1 .. Len(c) : LinkAt(k, c[i]) \in Nat /\ EndOf(k, c[i]) \in Nat
  BY <1>3, PieceEnds
<1>5. ASSUME NEW i \in 1 .. Len(c) PROVE c[i].at + 16 <= EndOf(k, c[i]) /\ EndOf(k, c[i]) <= Len(d)
  <2>1. PICK a \in Nat, x \in Nat, y \in Nat, z \in Nat :
          /\ a = c[i].at /\ x = Bytes(k, c[i].size) /\ y = Bytes(k, c[i].pad) /\ z = EndOf(k, c[i])

    <3>1. c[i] \in Piece
      BY <1>3
    <3> QED BY <1>3, <3>1, PieceEnds
  <2>p. z = a + 8 + x + y + 8
    <3>1. c[i] \in Piece
      BY <1>3
    <3> QED BY <2>1, <3>1, PieceEnds
  <2>2. a + 16 <= z
    BY <2>p
  <2>3. EndOf(k, c[i]) <= Len(d)
    BY DEF IsChain, InFile
  <2> QED BY <2>1, <2>2, <2>3
<1>6. ASSUME NEW i \in 1 .. Len(c) PROVE ArrayAt <= c[i].at
  <2>1. c[1].at = ArrayAt
    BY DEF IsChain
  <2>2. CASE i = 1
    BY <2>1, <2>2 DEF ArrayAt
  <2>3. CASE i # 1
    <3>1. 1 < i
      BY <1>2, <2>3
    <3>2. EndOf(k, c[1]) <= c[i].at
      BY <1>2, <3>1 DEF IsChain
    <3>3. PICK x \in Nat, y \in Nat : x = EndOf(k, c[1]) /\ y = c[i].at
      BY <1>2, <1>3, <1>4
    <3>4. ArrayAt + 16 <= x /\ x <= y
      BY <1>2, <1>5, <2>1, <3>2, <3>3
    <3> QED BY <3>3, <3>4 DEF ArrayAt
  <2> QED BY <2>2, <2>3
<1>7. Total(c) \in Nat
  BY <1>2, <1>3 DEF Total
<1>8. ASSUME NEW i \in 1 .. Len(c) PROVE c[i].from + c[i].size <= Total(c)
  <2>1. CASE i = Len(c)
    BY <1>3, <2>1 DEF Total
  <2>2. CASE i # Len(c)
    <3>1. i < Len(c)
      BY <1>2, <2>2
    <3>2. c[i].from + c[i].size <= c[Len(c)].from
      BY <1>2, <3>1 DEF IsChain
    <3>3. PICK u \in Nat, v \in Nat, x \in Nat : u = c[i].from + c[i].size /\ v = c[Len(c)].from /\ x = c[Len(c)].size
      BY <1>2, <1>3, SMTT(30)
    <3>4. u <= v + x
      BY <3>2, <3>3
    <3> QED BY <3>3, <3>4 DEF Total
  <2> QED BY <2>1, <2>2
<1> QED BY <1>1, <1>2, <1>3, <1>4, <1>5, <1>6, <1>7, <1>8

LEMMA LayoutFacts ==
  ASSUME NEW k \in NumberKinds, NEW d, NEW c, NEW t, NEW end \in Nat, Layout(k, d, c, t, end)
  PROVE  /\ t.loc \in Nat /\ t.own \in Nat /\ t.size \in Nat /\ t \in TextPlace
         /\ end = EndOf(k, c[1]) + 24 + t.own /\ end + 4 <= Len(d)
         /\ t.loc > 0 => end + 4 <= t.loc /\ t.loc + 8 + t.size <= Len(d)
         /\ \A i \in 2 .. Len(c) : end + 4 <= c[i].at
         /\ \A i \in 2 .. Len(c) : t.loc > 0 => EndOf(k, c[i]) <= t.loc \/ t.loc + 8 + t.size <= c[i].at
<1>1. IsText(d, EndOf(k, c[1]), t, end)
  BY DEF Layout
<1>2. t \in TextPlace
  BY <1>1 DEF IsText
<1>3. /\ end = EndOf(k, c[1]) + 24 + t.own /\ end + 4 <= Len(d)
      /\ t.loc > 0 => end + 4 <= t.loc /\ t.loc + 8 + t.size <= Len(d)
  BY <1>1 DEF IsText
<1>4. \A i \in 2 .. Len(c) : Behind(k, c[i], t, end)
  BY DEF Layout
<1> QED BY <1>2, <1>3, <1>4 DEF TextPlace, Behind

\* With the bytes of the blocks, the text and the neighbour the layout stays.
LEMMA LayoutKept ==
  ASSUME NEW k \in NumberKinds, NEW d \in Seq(Nat), NEW e \in Seq(Nat), Len(d) <= Len(e),
         NEW c, NEW t, NEW end \in Nat, Layout(k, d, c, t, end),
         \A i \in 1 .. Len(c) : SameIn(d, e, c[i].at, EndOf(k, c[i])),
         TextSame(d, e, EndOf(k, c[1]), t), SameIn(d, e, end, end + 4)
  PROVE  /\ Layout(k, e, c, t, end)
         /\ \A i \in 1 .. Len(c) : \A array : Holds(k, d, c[i], array) => Holds(k, e, c[i], array)
         /\ TextAt(e, EndOf(k, c[1])) = TextAt(d, EndOf(k, c[1]))
<1>1. IsChain(k, d, c) /\ IsText(d, EndOf(k, c[1]), t, end) /\ NextTo(d, end)
  BY DEF Layout
<1>2. Len(d) \in Nat /\ Len(e) \in Nat
  BY LenProperties
<1>3. /\ IsChain(k, e, c)
      /\ \A i \in 1 .. Len(c) : \A array : Holds(k, d, c[i], array) => Holds(k, e, c[i], array)
  BY <1>1, <1>2, ChainKept
<1>4. IsText(e, EndOf(k, c[1]), t, end) /\ TextAt(e, EndOf(k, c[1])) = TextAt(d, EndOf(k, c[1]))
  <2>1. EndOf(k, c[1]) \in Nat
    BY <1>1, ChainFacts
  <2> QED BY <1>1, <2>1, TextKept
<1>5. NextTo(e, end)
  BY <1>1 DEF NextTo, SameIn
<1>6. \A i \in 2 .. Len(c) : Behind(k, c[i], t, end)
  BY DEF Layout
<1> QED BY <1>3, <1>4, <1>5, <1>6 DEF Layout

\* Bytes that belong to no block, text or neighbour.
Free(d, end, lo, hi) == hi <= ArrayAt \/ Len(d) <= lo \/ (end <= lo + 8 /\ hi <= end)

\* A write to the head of the record, to its last eight bytes or to the end of the file leaves
\* the blocks, the text and the neighbour.
LEMMA FreeBytes ==
  ASSUME NEW k \in NumberKinds, NEW d \in Seq(Nat), NEW e \in Seq(Nat), Len(d) <= Len(e),
         NEW c, NEW t, NEW end \in Nat, Layout(k, d, c, t, end),
         NEW lo \in Nat, NEW hi \in Nat, SameBut(e, d, lo, hi), Free(d, end, lo, hi)
  PROVE  /\ Layout(k, e, c, t, end)
         /\ \A i \in 1 .. Len(c) : \A array : Holds(k, d, c[i], array) => Holds(k, e, c[i], array)
         /\ TextAt(e, EndOf(k, c[1])) = TextAt(d, EndOf(k, c[1]))
<1> DEFINE place == EndOf(k, c[1])
<1>1. IsChain(k, d, c)
  BY DEF Layout
<1>2. /\ Len(c) \in Nat /\ 1 \in 1 .. Len(c)
      /\ \A i \in 1 .. Len(c) : c[i].at \in Nat /\ EndOf(k, c[i]) \in Nat
      /\ \A i \in 1 .. Len(c) : c[i].at + 16 <= EndOf(k, c[i]) /\ EndOf(k, c[i]) <= Len(d)
      /\ \A i \in 1 .. Len(c) : ArrayAt <= c[i].at
      /\ Len(d) \in Nat /\ place \in Nat
  BY <1>1, ChainFacts, LenProperties
<1>3. /\ t.loc \in Nat /\ t.own \in Nat /\ t.size \in Nat
      /\ end = place + 24 + t.own /\ end + 4 <= Len(d)
      /\ t.loc > 0 => end + 4 <= t.loc /\ t.loc + 8 + t.size <= Len(d)
      /\ \A i \in 2 .. Len(c) : end + 4 <= c[i].at
  BY LayoutFacts, SMTT(30)
<1>0. PICK own \in Nat : own = t.own
  BY <1>3
<1>g. PICK pl \in Nat : pl = place
  BY <1>2
<1>h. PICK a1 \in Nat : a1 = c[1].at
  BY <1>2
<1>i. end = pl + 24 + own /\ a1 + 16 <= pl /\ ArrayAt <= a1
  BY <1>0, <1>2, <1>3, <1>g, <1>h
<1>j. pl + 24 <= end /\ ArrayAt + 16 <= pl /\ ArrayAt + 4 <= end /\ ArrayAt <= end /\ ArrayAt <= pl /\ pl + 16 + own + 8 = end
  BY <1>i DEF ArrayAt
<1>p. place + 24 <= end /\ ArrayAt <= place
  BY <1>g, <1>j
<1>4. ASSUME NEW i \in 1 .. Len(c) PROVE SameIn(d, e, c[i].at, EndOf(k, c[i]))
  <2>1. PICK a \in Nat, z \in Nat : a = c[i].at /\ z = EndOf(k, c[i])
    BY <1>2
  <2>2. z <= Len(d) /\ ArrayAt <= a /\ (i # 1 => end + 4 <= a) /\ (i = 1 => z + 24 <= end)
    <3>1. i # 1 => i \in 2 .. Len(c)
      BY <1>2
    <3>2. i = 1 => z = place
      BY <2>1
    <3>3. place + 24 <= end
      BY <1>p
    <3> QED BY <1>2, <1>3, <2>1, <3>1, <3>2, <3>3
  <2>3. z <= lo \/ hi <= a
    <3>1. CASE hi <= ArrayAt
      BY <2>2, <3>1 DEF ArrayAt
    <3>2. CASE Len(d) <= lo
      BY <1>2, <2>2, <3>2
    <3>3. CASE end <= lo + 8 /\ hi <= end
      BY <2>2, <3>3
    <3> QED BY <3>1, <3>2, <3>3 DEF Free
  <2> QED BY <2>1, <2>3, SameOutside
<1>5. SameIn(d, e, place, place + 16 + t.own)
  <2>0. PICK z \in Nat : z = pl + 16 + own
    OBVIOUS
  <2>1. z = place + 16 + t.own
    BY <1>0, <1>g, <2>0
  <2>2. z + 8 = end /\ z <= Len(d) /\ ArrayAt <= place
    <3>1. z + 8 = end
      BY <1>j, <2>0
    <3>2. PICK len \in Nat : len = Len(d)
      BY <1>2
    <3>3. end + 4 <= len
      BY <1>3, <3>2
    <3>4. z <= len
      BY <3>1, <3>3
    <3> QED BY <1>p, <3>1, <3>2, <3>4
  <2>3. z <= lo \/ hi <= place
    <3>1. CASE hi <= ArrayAt
      BY <1>2, <2>2, <3>1 DEF ArrayAt
    <3>2. CASE Len(d) <= lo
      BY <1>2, <2>2, <3>2
    <3>3. CASE end <= lo + 8 /\ hi <= end
      BY <1>2, <2>2, <3>3
    <3> QED BY <3>1, <3>2, <3>3 DEF Free
  <2> QED BY <1>2, <2>1, <2>3, SameOutside
<1>6. ASSUME t.loc > 0 PROVE SameIn(d, e, t.loc, t.loc + 8 + t.size)
  <2>1. PICK y \in Nat, z \in Nat : y = t.loc /\ z = t.loc + 8 + t.size
    <3>1. t.loc \in Nat /\ t.size \in Nat
      BY <1>3
    <3>2. t.loc + 8 + t.size \in Nat
      BY <3>1
    <3> QED BY <3>1, <3>2
  <2>2. z <= Len(d) /\ end + 4 <= y
    BY <1>3, <1>6, <2>1
  <2>3. z <= lo \/ hi <= y
    <3>1. CASE hi <= ArrayAt
      <4>1. ArrayAt + 4 <= end
        BY <1>j
      <4> QED BY <2>2, <3>1, <4>1 DEF ArrayAt
    <3>2. CASE Len(d) <= lo
      BY <1>2, <2>2, <3>2
    <3>3. CASE end <= lo + 8 /\ hi <= end
      BY <2>2, <3>3
    <3> QED BY <3>1, <3>2, <3>3 DEF Free
  <2> QED BY <2>1, <2>3, SameOutside
<1>7. SameIn(d, e, end, end + 4)
  <2>1. end + 4 <= lo \/ hi <= end
    <3>1. CASE hi <= ArrayAt
      <4>1. ArrayAt <= end
        BY <1>j
      <4> QED BY <3>1, <4>1 DEF ArrayAt
    <3>2. CASE Len(d) <= lo
      BY <1>2, <1>3, <3>2
    <3>3. CASE end <= lo + 8 /\ hi <= end
      BY <3>3
    <3> QED BY <3>1, <3>2, <3>3 DEF Free
  <2>2. end + 4 \in Nat
    OBVIOUS
  <2> QED BY <2>1, <2>2, SameOutside
<1>8. TextSame(d, e, place, t)
  BY <1>5, <1>6 DEF TextSame
<1> HIDE DEF place
<1>9. TextSame(d, e, EndOf(k, c[1]), t)
  BY <1>8 DEF place
<1> QED BY <1>4, <1>7, <1>9, LayoutKept, ZenonT(60)

-----------------------------------------------------------------------------
(* A block that is written again.                                            *)

LEMMA SeekIs ==
  ASSUME NEW s \in Stream0, NEW p \in Nat
  PROVE  /\ Seek(s, p) \in Stream0 /\ Seek(s, p).fp = p /\ Seek(s, p).d = s.d /\ Seek(s, p).ok = s.ok
         /\ Seek(s, p).grown = s.grown /\ Seek(s, p).eof = s.eof /\ Seek(s, p).back = s.back
BY DEF Seek, Stream0

\* The size and the padding of a block are written.
LEMMA HeaderIs ==
  ASSUME NEW s \in Stream0, NEW p \in Nat, NEW size \in Nat, NEW pad \in Nat,
         NEW u, u = PutNumber(PutNumber(Seek(s, p), size, 4), pad, 4)
  PROVE  /\ u \in Stream0 /\ u.fp = p + 8 /\ u.ok = s.ok
         /\ Len(u.d) = IF p + 8 > Len(s.d) THEN p + 8 ELSE Len(s.d)
         /\ NumberAt(u.d, p, 4) = size /\ NumberAt(u.d, p + 4, 4) = pad
         /\ SameBut(u.d, s.d, p, p + 8)
<1>w. 4 \in Widths
  BY DEF Widths
<1>1. PICK x \in Stream0 : x = Seek(s, p) /\ x.fp = p /\ x.d = s.d /\ x.ok = s.ok
  BY SeekIs
<1>2. PICK y \in Stream0 : /\ y = PutNumber(x, size, 4) /\ y.fp = p + 4 /\ y.ok = s.ok
                           /\ Len(y.d) = IF p + 4 > Len(s.d) THEN p + 4 ELSE Len(s.d)
                           /\ NumberAt(y.d, p, 4) = size
                           /\ SameBut(y.d, s.d, p, p + 4)
  <2>1. /\ PutNumber(x, size, 4) \in Stream0
        /\ PutNumber(x, size, 4).fp = x.fp + 4 /\ PutNumber(x, size, 4).ok = x.ok
        /\ Len(PutNumber(x, size, 4).d) = IF x.fp + 4 > Len(x.d) THEN x.fp + 4 ELSE Len(x.d)
        /\ NumberAt(PutNumber(x, size, 4).d, x.fp, 4) = size
        /\ SameBut(PutNumber(x, size, 4).d, x.d, x.fp, x.fp + 4)
    BY <1>w, PutNumberIs
  <2>2. x.fp = p /\ x.d = s.d /\ x.ok = s.ok
    BY <1>1
  <2> QED BY <2>1, <2>2
<1>3. u = PutNumber(y, pad, 4)
  BY <1>1, <1>2
<1>4. /\ u \in Stream0 /\ u.fp = p + 4 + 4 /\ u.ok = s.ok
      /\ Len(u.d) = IF p + 4 + 4 > Len(y.d) THEN p + 4 + 4 ELSE Len(y.d)
      /\ NumberAt(u.d, p + 4, 4) = pad
      /\ SameBut(u.d, y.d, p + 4, p + 4 + 4)
  <2>1. /\ PutNumber(y, pad, 4) \in Stream0
        /\ PutNumber(y, pad, 4).fp = y.fp + 4 /\ PutNumber(y, pad, 4).ok = y.ok
        /\ Len(PutNumber(y, pad, 4).d) = IF y.fp + 4 > Len(y.d) THEN y.fp + 4 ELSE Len(y.d)
        /\ NumberAt(PutNumber(y, pad, 4).d, y.fp, 4) = pad
        /\ SameBut(PutNumber(y, pad, 4).d, y.d, y.fp, y.fp + 4)
    BY <1>w, PutNumberIs
  <2>2. y.fp = p + 4 /\ y.ok = s.ok
    BY <1>2
  <2> QED BY <1>3, <2>1, <2>2
<1>5. p + 4 + 4 = p + 8 /\ p + 4 \in Nat /\ p + 8 \in Nat
  OBVIOUS
<1>6. NumberAt(u.d, p, 4) = size
  <2>1. p + 4 <= p + 4
    OBVIOUS
  <2>2. NumberAt(u.d, p, 4) = NumberAt(y.d, p, 4)
    BY <1>4, <1>5, <1>w, <2>1, NumberOutside
  <2> QED BY <1>2, <2>2
<1>7. SameBut(u.d, s.d, p, p + 8)
  <2>1. SameBut(y.d, s.d, p, p + 8) /\ SameBut(u.d, y.d, p, p + 8)
    <3>1. p <= p /\ p + 4 <= p + 8 /\ p <= p + 4 /\ p + 4 + 4 <= p + 8
      OBVIOUS
    <3>2. SameBut(y.d, s.d, p, p + 8)
      BY <1>2, <1>5, <3>1, SameButWider
    <3>3. SameBut(u.d, y.d, p, p + 8)
      BY <1>4, <1>5, <3>1, SameButWider
    <3> QED BY <3>2, <3>3
  <2> QED BY <1>5, <2>1, SameButAgain
<1>8. Len(u.d) = IF p + 8 > Len(s.d) THEN p + 8 ELSE Len(s.d)
  <2>1. Len(s.d) \in Nat /\ Len(y.d) \in Nat /\ Len(u.d) \in Nat
    BY <1>4, LenProperties DEF Stream0
  <2> QED BY <1>2, <1>4, <2>1
<1> QED BY <1>4, <1>5, <1>6, <1>7, <1>8

\* A part of an array.
LEMMA PartIs ==
  ASSUME NEW array \in Seq(Element), NEW a \in Nat, NEW m \in Nat, a + m <= Len(array)
  PROVE  /\ SubSeq(array, a + 1, a + m) \in Seq(Element) /\ Len(SubSeq(array, a + 1, a + m)) = m
         /\ \A j \in 1 .. m : SubSeq(array, a + 1, a + m)[j] = array[a + j]
<1>1. Len(array) \in Nat
  BY LenProperties
<1>2. \A i \in a + 1 .. a + m : array[i] \in Element
  <2>1. \A i \in a + 1 .. a + m : i \in 1 .. Len(array)
    BY <1>1
  <2> QED BY <2>1, ElementOfSeq
<1> DEFINE r == SubSeq(array, a + 1, a + m)
<1>3. /\ r \in Seq(Element)
      /\ Len(r) = IF a + 1 <= a + m THEN a + m - (a + 1) + 1 ELSE 0
      /\ \A i \in 1 .. a + m - (a + 1) + 1 : r[i] = array[a + 1 + i - 1]
  <2>1. a + 1 \in Int /\ a + m \in Int
    OBVIOUS
  <2> QED BY <1>2, <2>1, SubSeqProperties
<1> HIDE DEF r
<1>4. a + m - (a + 1) + 1 = m /\ (~ (a + 1 <= a + m) => m = 0) /\ \A i \in 1 .. m : a + 1 + i - 1 = a + i
  OBVIOUS
<1>5. Len(r) = m
  BY <1>3, <1>4
<1>6. \A j \in 1 .. m : r[j] = array[a + j]
  BY <1>3, <1>4
<1> QED BY <1>3, <1>5, <1>6 DEF r

\* The file u in which the block b has been written over what was there in d: its numbers
\* and its elements are in their place, its link is as it was.
Rewritten(k, d, u, b, array) ==
  /\ u \in Stream0 /\ Len(u.d) = Len(d)
  /\ SameBut(u.d, d, b.at, LinkAt(k, b))
  /\ InFile(k, u.d, b, NumberAt(d, LinkAt(k, b), 8))
  /\ Holds(k, u.d, b, array)

\* A block is written in the place of another: header and elements.
LEMMA RewriteIs ==
  ASSUME NEW k \in NumberKinds, NEW d \in Seq(Nat), NEW b \in Piece, EndOf(k, b) <= Len(d),
         NEW s \in Stream0, s.fp = b.at + 8, Len(s.d) = Len(d), SameBut(s.d, d, b.at, b.at + 8),
         NumberAt(s.d, b.at, 4) = b.size, NumberAt(s.d, b.at + 4, 4) = b.pad,
         NEW es \in Seq(Element), Len(es) = b.size,
         NEW array, \A j \in 1 .. b.size : es[j] = array[b.from + j]
  PROVE  /\ Rewritten(k, d, NewElements(k, s, es), b, array)
         /\ NewElements(k, s, es).fp = b.at + 8 + Bytes(k, b.size)
         /\ NewElements(k, s, es).ok = s.ok
<1>0. b.at \in Nat /\ b.size \in Nat /\ b.pad \in Nat /\ Len(d) \in Nat
  BY LenProperties DEF Piece
<1>1. PICK u \in Stream0 :
        /\ u = NewElements(k, s, es)
        /\ u.fp = s.fp + Bytes(k, Len(es)) /\ u.ok = s.ok
        /\ Len(u.d) = IF u.fp > Len(s.d) THEN u.fp ELSE Len(s.d)
        /\ \A j \in 1 .. Len(es) : NumberAt(u.d, s.fp + Bytes(k, j - 1), Width(k)) = es[j][1]
        /\ SameBut(u.d, s.d, s.fp, u.fp)
  BY NewElementsAre
<1>2. PICK at \in Nat, x \in Nat, y \in Nat, l \in Nat, z \in Nat :
        /\ at = b.at /\ x = Bytes(k, b.size) /\ y = Bytes(k, b.pad) /\ l = LinkAt(k, b) /\ z = EndOf(k, b)

  BY <1>0, PieceEnds
<1>p. l = at + 8 + x + y /\ z = l + 8
  BY <1>2, PieceEnds
<1>len. PICK len \in Nat : len = Len(d)
  BY <1>0
<1>3. u.fp = at + 8 + x
  BY <1>1, <1>2
<1>4. Len(u.d) = Len(d)
  <2>1. at + 8 + x <= z
    BY <1>p
  <2>2. z <= len
    BY <1>2, <1>len
  <2>3. ~ (at + 8 + x > len)
    BY <2>1, <2>2
  <2> QED BY <1>1, <1>3, <1>len, <2>3
<1>5. SameBut(u.d, d, at, at + 8 + x)
  <2>1. at + 8 \in Nat /\ at + 8 + x \in Nat /\ at <= at /\ at + 8 <= at + 8 + x /\ at <= at + 8 /\ at + 8 + x <= at + 8 + x
    OBVIOUS
  <2>2. SameBut(s.d, d, at, at + 8 + x)
    <3>1. SameBut(s.d, d, at, at + 8)
      BY <1>2
    <3> QED BY <2>1, <3>1, SameButWider
  <2>3. SameBut(u.d, s.d, at, at + 8 + x)
    <3>1. SameBut(u.d, s.d, at + 8, at + 8 + x)
      BY <1>1, <1>2, <1>3
    <3> QED BY <2>1, <3>1, SameButWider
  <2> QED BY <2>1, <2>2, <2>3, SameButAgain
<1>6. SameBut(u.d, d, at, l)
  <2>1. at <= at /\ at + 8 + x <= l /\ at + 8 + x \in Nat
    BY <1>p
  <2> QED BY <1>5, <2>1, SameButWider
<1>7. NumberAt(u.d, at, 4) = b.size /\ NumberAt(u.d, at + 4, 4) = b.pad
  <2>0. SameBut(u.d, s.d, at + 8, at + 8 + x) /\ at + 8 \in Nat /\ at + 8 + x \in Nat /\ 4 \in Widths
    <3>1. SameBut(u.d, s.d, at + 8, at + 8 + x)
      BY <1>1, <1>2, <1>3
    <3>2. at + 8 \in Nat /\ at + 8 + x \in Nat
      OBVIOUS
    <3> QED BY <3>1, <3>2 DEF Widths
  <2>1. at + 4 <= at + 8 /\ at + 4 \in Nat /\ at + 4 + 4 <= at + 8
    OBVIOUS
  <2>2. NumberAt(u.d, at, 4) = NumberAt(s.d, at, 4)
    BY <2>0, <2>1, NumberOutside
  <2>3. NumberAt(u.d, at + 4, 4) = NumberAt(s.d, at + 4, 4)
    BY <2>0, <2>1, NumberOutside
  <2> QED BY <1>2, <2>2, <2>3
<1>8. NumberAt(u.d, l, 8) = NumberAt(d, l, 8)
  <2>1. 8 \in Widths /\ l >= l
    BY DEF Widths
  <2> QED BY <1>6, <2>1, NumberOutside
<1>9. InFile(k, u.d, b, NumberAt(d, LinkAt(k, b), 8))
  BY <1>2, <1>4, <1>7, <1>8 DEF InFile
<1>10. Holds(k, u.d, b, array)
  BY <1>1, <1>2 DEF Holds
<1>11. Rewritten(k, d, u, b, array)
  BY <1>2, <1>4, <1>6, <1>9, <1>10 DEF Rewritten
<1> QED BY <1>1, <1>2, <1>3, <1>11

\* The array ends with the block: zero is written after its elements, over the link or, when that is zero,
\* in front of it.
LEMMA EndIs ==
  ASSUME NEW k \in NumberKinds, NEW d \in Seq(Nat), NEW b \in Piece, NEW u, NEW array, Rewritten(k, d, u, b, array),
         NEW x \in Stream0, x.d = u.d,
         \/ x.fp = LinkAt(k, b)
         \/ /\ b.at + 8 + Bytes(k, b.size) <= x.fp /\ x.fp <= LinkAt(k, b)
            /\ NumberAt(d, LinkAt(k, b), 8) = 0
  PROVE  /\ PutNumber(x, 0, 8) \in Stream0 /\ Len(PutNumber(x, 0, 8).d) = Len(d)
         /\ PutNumber(x, 0, 8).ok = x.ok /\ PutNumber(x, 0, 8).fp = x.fp + 8
         /\ SameBut(PutNumber(x, 0, 8).d, d, b.at, EndOf(k, b))
         /\ InFile(k, PutNumber(x, 0, 8).d, b, 0)
         /\ Holds(k, PutNumber(x, 0, 8).d, b, array)
<1>0. b.at \in Nat /\ b.size \in Nat /\ b.pad \in Nat /\ Len(d) \in Nat /\ x.fp \in Nat /\ x.d \in Seq(Nat)
  BY LenProperties DEF Piece, Stream0
<1>w. 8 \in Widths /\ 4 \in Widths
  BY DEF Widths
<1>1. PICK v \in Stream0 :
        /\ v = PutNumber(x, 0, 8) /\ v.fp = x.fp + 8 /\ v.ok = x.ok
        /\ Len(v.d) = IF x.fp + 8 > Len(x.d) THEN x.fp + 8 ELSE Len(x.d)
        /\ NumberAt(v.d, x.fp, 8) = 0
        /\ SameBut(v.d, x.d, x.fp, x.fp + 8)
  BY <1>w, PutNumberIs
<1>2. PICK at \in Nat, y \in Nat, z \in Nat, l \in Nat, e \in Nat, p \in Nat :
        /\ at = b.at /\ y = Bytes(k, b.size) /\ z = Bytes(k, b.pad) /\ l = LinkAt(k, b) /\ e = EndOf(k, b)
        /\ p = x.fp
  BY <1>0, PieceEnds
<1>p. l = at + 8 + y + z /\ e = l + 8
  BY <1>2, PieceEnds
<1>len. PICK len \in Nat : len = Len(d)
  BY <1>0
<1>3. at + 8 + y <= p /\ p <= l
  <2>1. CASE x.fp = LinkAt(k, b)
    <3>1. p = l
      BY <1>2, <2>1
    <3> QED BY <1>p, <3>1
  <2>2. CASE x.fp # LinkAt(k, b)
    BY <1>2, <2>2
  <2> QED BY <2>1, <2>2
<1>4. /\ Len(x.d) = Len(d) /\ SameBut(x.d, d, at, l) /\ e <= Len(d)
      /\ NumberAt(x.d, at, 4) = b.size /\ NumberAt(x.d, at + 4, 4) = b.pad
      /\ NumberAt(x.d, l, 8) = NumberAt(d, l, 8)
  BY <1>2 DEF Rewritten, InFile
<1>5. Len(v.d) = Len(d)
  <2>1. e <= len
    BY <1>4, <1>len
  <2>2. ~ (p + 8 > len)
    BY <1>3, <1>p, <2>1
  <2> QED BY <1>1, <1>2, <1>4, <1>len, <2>2
<1>6. SameBut(v.d, x.d, p, p + 8) /\ p + 8 \in Nat
  <2>1. SameBut(v.d, x.d, p, p + 8)
    BY <1>1, <1>2
  <2>2. p + 8 \in Nat
    OBVIOUS
  <2> QED BY <2>1, <2>2
<1>7. SameBut(v.d, d, at, e)
  <2>1. at <= p /\ p + 8 <= e /\ at <= at /\ l <= e
    BY <1>3, <1>p
  <2>2. SameBut(v.d, x.d, at, e)
    BY <1>6, <2>1, SameButWider
  <2>3. SameBut(x.d, d, at, e)
    BY <1>4, <2>1, SameButWider
  <2> QED BY <2>2, <2>3, SameButAgain
<1>8. NumberAt(v.d, at, 4) = b.size /\ NumberAt(v.d, at + 4, 4) = b.pad
  <2>1. at + 4 <= p /\ at + 4 \in Nat /\ at + 4 + 4 <= p
    BY <1>3
  <2>2. NumberAt(v.d, at, 4) = NumberAt(x.d, at, 4)
    BY <1>6, <1>w, <2>1, NumberOutside
  <2>3. NumberAt(v.d, at + 4, 4) = NumberAt(x.d, at + 4, 4)
    BY <1>6, <1>w, <2>1, NumberOutside
  <2> QED BY <1>4, <2>2, <2>3
<1>9. NumberAt(v.d, l, 8) = 0
  <2>1. CASE p = l
    BY <1>1, <1>2, <2>1
  <2>2. CASE p # l
    <3>1. NumberAt(x.d, l, 8) = 0
      BY <1>2, <1>4, <2>2
    <3>2. v.d \in Seq(Nat)
      BY DEF Stream0
    <3>3. ASSUME NEW q \in Nat, l <= q, q < l + 8 PROVE ByteAt(v.d, q) = 0
      <4>1. CASE q < p + 8
        <5>1. p <= q
          BY <1>3, <3>3
        <5>2. \A o \in Nat : p <= o /\ o < p + 8 => ByteAt(v.d, o) = 0
          <6>1. NumberAt(v.d, p, 8) = 0
            BY <1>1, <1>2
          <6> QED BY <3>2, <6>1, ZeroBytes
        <5> QED BY <4>1, <5>1, <5>2
      <4>2. CASE q >= p + 8
        <5>1. ByteAt(v.d, q) = ByteAt(x.d, q)
          BY <1>6, <4>2 DEF SameBut
        <5>2. ByteAt(x.d, q) = 0
          BY <1>0, <3>1, <3>3, ZeroBytes
        <5> QED BY <5>1, <5>2
      <4> QED BY <4>1, <4>2
    <3> QED BY <3>2, <3>3, ZeroBytes
  <2> QED BY <2>1, <2>2
<1>10. InFile(k, v.d, b, 0)
  BY <1>2, <1>4, <1>5, <1>8, <1>9 DEF InFile
<1>11. Holds(k, v.d, b, array)
  <2> SUFFICES ASSUME NEW j \in 1 .. b.size
               PROVE  NumberAt(v.d, b.at + 8 + Bytes(k, j - 1), Width(k)) = array[b.from + j][1]
    BY DEF Holds
  <2>1. PICK a \in Nat : a = j - 1 /\ a + 1 <= b.size
    BY <1>0
  <2>0. Bytes(k, a) \in Nat /\ Bytes(k, a + 1) = Bytes(k, a) + Width(k) /\ Bytes(k, a + 1) <= Bytes(k, b.size)
    <3>1. a + 1 \in Nat
      OBVIOUS
    <3> QED BY <1>0, <2>1, <3>1, BytesLaws
  <2>2. PICK f \in Nat, g \in Nat : f = Bytes(k, a) /\ g = Width(k)
    <3>1. Width(k) \in Nat
      BY WidthIs DEF Widths
    <3> QED BY <2>0, <3>1
  <2>p. f + g <= y
    BY <1>2, <2>0, <2>2
  <2>3. at + 8 + f \in Nat /\ at + 8 + f + g <= p
    BY <1>3, <2>p
  <2>4. NumberAt(v.d, at + 8 + f, g) = NumberAt(x.d, at + 8 + f, g)
    BY <1>6, <2>2, <2>3, WidthIs, NumberOutside
  <2>5. NumberAt(x.d, b.at + 8 + Bytes(k, j - 1), Width(k)) = array[b.from + j][1]
    BY DEF Rewritten, Holds
  <2> QED BY <1>2, <2>1, <2>2, <2>4, <2>5
<1> QED BY <1>1, <1>2, <1>5, <1>7, <1>10, <1>11

\* What lies outside the block i when only that is written.
LEMMA OthersKept ==
  ASSUME NEW k \in NumberKinds, NEW d \in Seq(Nat), NEW e,
         NEW c, NEW t, NEW end \in Nat, Layout(k, d, c, t, end),
         NEW i \in 1 .. Len(c), SameBut(e, d, c[i].at, EndOf(k, c[i]))
  PROVE  /\ \A j \in 1 .. Len(c) : j # i => SameIn(d, e, c[j].at, EndOf(k, c[j]))
         /\ TextSame(d, e, EndOf(k, c[1]), t)
         /\ SameIn(d, e, end, end + 4)
<1>1. IsChain(k, d, c)
  BY DEF Layout
<1>2. /\ Len(c) \in Nat /\ 1 \in 1 .. Len(c)
      /\ \A j \in 1 .. Len(c) : c[j].at \in Nat /\ EndOf(k, c[j]) \in Nat
  BY <1>1, ChainFacts
<1>3. PICK lo \in Nat, hi \in Nat, place \in Nat : lo = c[i].at /\ hi = EndOf(k, c[i]) /\ place = EndOf(k, c[1])
  BY <1>2
<1>4. SameBut(e, d, lo, hi)
  BY <1>3
<1>5. /\ t.loc \in Nat /\ t.own \in Nat /\ t.size \in Nat
      /\ end = place + 24 + t.own
      /\ t.loc > 0 => end + 4 <= t.loc
      /\ i # 1 => end + 4 <= lo
      /\ i # 1 /\ t.loc > 0 => hi <= t.loc \/ t.loc + 8 + t.size <= lo
      /\ i = 1 => hi = place
  <2>1. i # 1 => i \in 2 .. Len(c)
    BY <1>2
  <2> QED BY <1>3, <2>1, LayoutFacts
<1>6. ASSUME NEW j \in 1 .. Len(c), j # i PROVE SameIn(d, e, c[j].at, EndOf(k, c[j]))
  <2>1. PICK a \in Nat, z \in Nat : a = c[j].at /\ z = EndOf(k, c[j])
    BY <1>2
  <2>2. j < i \/ i < j
    BY <1>2, <1>6
  <2>3. z <= lo \/ hi <= a
    <3>1. j < i => EndOf(k, c[j]) <= c[i].at
      BY <1>1 DEF IsChain
    <3>2. i < j => EndOf(k, c[i]) <= c[j].at
      BY <1>1 DEF IsChain
    <3> QED BY <1>3, <2>1, <2>2, <3>1, <3>2
  <2> QED BY <1>4, <2>1, <2>3, SameOutside
<1>7. SameIn(d, e, place, place + 16 + t.own)
  <2>1. hi <= place \/ place + 16 + t.own <= lo
    BY <1>5, SMTT(30)
  <2>2. place + 16 + t.own \in Nat
    BY <1>5, SMTT(30)
  <2> QED BY <1>4, <2>1, <2>2, SameOutside
<1>8. ASSUME t.loc > 0 PROVE SameIn(d, e, t.loc, t.loc + 8 + t.size)
  <2>1. hi <= t.loc \/ t.loc + 8 + t.size <= lo
    BY <1>5, <1>8, SMTT(30)
  <2>2. t.loc + 8 + t.size \in Nat
    BY <1>5, SMTT(30)
  <2> QED BY <1>4, <1>5, <2>1, <2>2, SameOutside
<1>9. SameIn(d, e, end, end + 4)
  <2>1. hi <= end \/ end + 4 <= lo
    BY <1>5
  <2>2. end + 4 \in Nat
    OBVIOUS
  <2> QED BY <1>4, <2>1, <2>2, SameOutside
<1>10. TextSame(d, e, EndOf(k, c[1]), t)
  BY <1>3, <1>7, <1>8 DEF TextSame
<1> QED BY <1>6, <1>9, <1>10

\* The chain after block i has been written as b: it goes to block m, the last one or i itself,
\* and the places of later blocks in the array come down by what b is smaller.
Later(c, i, b, j) ==
  [at |-> c[j].at, size |-> c[j].size, pad |-> c[j].pad, from |-> c[j].from - (c[i].size - b.size)]

Replaced(c, i, b, m) ==
  [j \in 1 .. m |-> IF j < i THEN c[j] ELSE IF j = i THEN b ELSE Later(c, i, b, j)]

\* A chain with another block in the place i; the later ones move in the array.
LEMMA ReplacedIs ==
  ASSUME NEW k \in NumberKinds, NEW d, NEW c, IsChain(k, d, c), NEW i \in 1 .. Len(c),
         NEW b \in Piece, b.size <= c[i].size, NEW m \in Nat, i <= m, m <= Len(c)
  PROVE  /\ Replaced(c, i, b, m) \in Seq(Piece) /\ Len(Replaced(c, i, b, m)) = m
         /\ \A j \in 1 .. m : j < i => Replaced(c, i, b, m)[j] = c[j]
         /\ Replaced(c, i, b, m)[i] = b
         /\ \A j \in 1 .. m : i < j => Replaced(c, i, b, m)[j] = Later(c, i, b, j)
         /\ \A j \in 1 .. m : i < j => Later(c, i, b, j) \in Piece
         /\ \A j \in 1 .. m : i < j => EndOf(k, Later(c, i, b, j)) = EndOf(k, c[j])
         /\ \A j \in 1 .. m : i < j => LinkAt(k, Later(c, i, b, j)) = LinkAt(k, c[j])
<1>1. /\ Len(c) \in Nat
      /\ \A j \in 1 .. Len(c) : c[j] \in Piece
      /\ \A j \in 1 .. Len(c) : c[j].at \in Nat /\ c[j].size \in Nat /\ c[j].pad \in Nat /\ c[j].from \in Nat
  BY ChainFacts
<1>2. b.size \in Nat
  BY DEF Piece
<1>3. ASSUME NEW j \in 1 .. m, i < j PROVE Later(c, i, b, j) \in Piece
  <2>1. j \in 1 .. Len(c)
    BY <1>1
  <2>2. c[i].from + c[i].size <= c[j].from
    BY <1>3, <2>1 DEF IsChain
  <2>3. PICK x \in Nat, y \in Nat, u \in Nat, v \in Nat : x = c[i].from /\ y = c[i].size /\ u = c[j].from /\ v = b.size
    BY <1>1, <1>2, <2>1
  <2>p. x + y <= u /\ v <= y
    BY <2>2, <2>3
  <2>4. u - (y - v) \in Nat
    BY <2>p
  <2> QED BY <1>1, <2>1, <2>3, <2>4 DEF Later, Piece
<1>4. \A j \in 1 .. m : EndOf(k, Later(c, i, b, j)) = EndOf(k, c[j]) /\ LinkAt(k, Later(c, i, b, j)) = LinkAt(k, c[j])
  BY DEF Later, EndOf, LinkAt
<1>5. ASSUME NEW j \in 1 .. m PROVE (IF j < i THEN c[j] ELSE IF j = i THEN b ELSE Later(c, i, b, j)) \in Piece
  <2>1. CASE j < i
    <3>1. j \in 1 .. Len(c)
      BY <1>1
    <3> QED BY <1>1, <2>1, <3>1
  <2>2. CASE j = i
    BY <2>2
  <2>3. CASE i < j
    BY <1>3, <2>3
  <2> QED BY <2>1, <2>2, <2>3
<1> DEFINE r == Replaced(c, i, b, m)
<1>6. r \in [1 .. m -> Piece]
  BY <1>5 DEF Replaced
<1>7. r \in Seq(Piece) /\ Len(r) = m
  <2> HIDE DEF r
  <2> QED BY <1>6, SeqOfFunction
<1>8. \A j \in 1 .. m : r[j] = IF j < i THEN c[j] ELSE IF j = i THEN b ELSE Later(c, i, b, j)
  BY DEF Replaced
<1> HIDE DEF r
<1>9. r[i] = b
  BY <1>8
<1>10. \A j \in 1 .. m : i < j => r[j] = Later(c, i, b, j)
  BY <1>8
<1>11. \A j \in 1 .. m : j < i => r[j] = c[j]
  BY <1>8
<1> QED BY <1>3, <1>4, <1>7, <1>9, <1>10, <1>11 DEF r

\* It is a chain when the block keeps its place and the bytes up to its link.
LEMMA ChainReplaced ==
  ASSUME NEW k \in NumberKinds, NEW d \in Seq(Nat), NEW e \in Seq(Nat), Len(d) = Len(e),
         NEW c, IsChain(k, d, c), NEW i \in 1 .. Len(c),
         \A j \in 1 .. Len(c) : j # i => SameIn(d, e, c[j].at, EndOf(k, c[j])),
         NEW b \in Piece, b.at = c[i].at, b.from = c[i].from, b.size <= c[i].size, Bounded(k, b),
         EndOf(k, b) <= EndOf(k, c[i]), i = 1 => b.size >= 1,
         NEW m \in Nat, i <= m, m <= Len(c), InFile(k, e, b, IF i < m THEN c[i + 1].at ELSE 0),
         m < Len(c) => m = i
  PROVE  /\ IsChain(k, e, Replaced(c, i, b, m))
         /\ \A j \in 1 .. m : \A array : j < i /\ Holds(k, d, c[j], array) => Holds(k, e, Replaced(c, i, b, m)[j], array)
         /\ Total(Replaced(c, i, b, m)) = (IF m = i THEN b.from + b.size ELSE Total(c) - (c[i].size - b.size))
<1> DEFINE r == Replaced(c, i, b, m)
<1>1. /\ c \in Seq(Piece) /\ Len(c) \in Nat
      /\ \A j \in 1 .. Len(c) : c[j] \in Piece
      /\ \A j \in 1 .. Len(c) : c[j].at \in Nat /\ c[j].size \in Nat /\ c[j].pad \in Nat /\ c[j].from \in Nat
      /\ \A j \in 1 .. Len(c) : LinkAt(k, c[j]) \in Nat /\ EndOf(k, c[j]) \in Nat
  BY ChainFacts
<1>2. b.at \in Nat /\ b.size \in Nat /\ b.pad \in Nat /\ b.from \in Nat /\ EndOf(k, b) \in Nat
  BY PieceEnds DEF Piece
<1>3. /\ r \in Seq(Piece) /\ Len(r) = m
      /\ \A j \in 1 .. m : j < i => r[j] = c[j]
      /\ r[i] = b
      /\ \A j \in 1 .. m : i < j => r[j] = Later(c, i, b, j)
      /\ \A j \in 1 .. m : i < j => Later(c, i, b, j) \in Piece
      /\ \A j \in 1 .. m : i < j => EndOf(k, Later(c, i, b, j)) = EndOf(k, c[j])
      /\ \A j \in 1 .. m : i < j => LinkAt(k, Later(c, i, b, j)) = LinkAt(k, c[j])
  BY ReplacedIs, SMTT(30)
<1> HIDE DEF r
<1>o. PICK o \in Nat, s \in Nat : o = c[i].size /\ s = b.size
  BY <1>1, <1>2
<1>s. s <= o
  BY <1>o
<1>d. PICK drop \in Nat : o = s + drop
  <2>1. o - s \in Nat /\ o = s + (o - s)
    BY <1>s
  <2> QED BY <2>1
<1>4. drop = c[i].size - b.size
  <2>1. drop = o - s
    BY <1>d
  <2> QED BY <1>o, <2>1
<1>len. PICK len \in Nat : len = Len(c)
  BY <1>1
<1>5. \A j \in 1 .. m : j \in 1 .. Len(c)
  <2>1. m <= len
    BY <1>len
  <2>2. \A j \in 1 .. m : j \in 1 .. len
    BY <2>1
  <2> QED BY <1>len, <2>2
<1>i. i \in Nat /\ i >= 1
  BY <1>1
<1>6. ASSUME NEW j \in 1 .. m
      PROVE  /\ r[j].at = c[j].at /\ EndOf(k, r[j]) <= EndOf(k, c[j])
             /\ r[j].from = IF i < j THEN c[j].from - drop ELSE c[j].from
             /\ r[j].size = IF j = i THEN b.size ELSE c[j].size
  <2>1. CASE j < i
    <3>1. r[j] = c[j]
      BY <1>3, <2>1
    <3>2. ~ (i < j) /\ j # i
      BY <1>i, <2>1
    <3>3. EndOf(k, c[j]) \in Nat
      BY <1>1, <1>5
    <3>4. EndOf(k, c[j]) <= EndOf(k, c[j])
      BY <3>3
    <3> QED BY <3>1, <3>2, <3>4
  <2>2. CASE j = i
    <3>1. ~ (i < j)
      BY <1>i, <2>2
    <3> QED BY <1>3, <2>2, <3>1
  <2>3. CASE i < j
    <3>1. r[j] = Later(c, i, b, j)
      BY <1>3, <2>3
    <3>2. r[j].at = c[j].at /\ r[j].size = c[j].size /\ r[j].from = c[j].from - (c[i].size - b.size)
      BY <3>1 DEF Later
    <3>3. EndOf(k, r[j]) = EndOf(k, c[j])
      BY <1>3, <2>3, <3>1
    <3>4. EndOf(k, c[j]) \in Nat
      BY <1>1, <1>5
    <3>5. EndOf(k, c[j]) <= EndOf(k, c[j])
      BY <3>4
    <3>6. j # i
      BY <1>i, <2>3
    <3> QED BY <1>4, <2>3, <3>2, <3>3, <3>5, <3>6
  <2> QED BY <2>1, <2>2, <2>3
<1>7. ASSUME NEW j \in 1 .. m PROVE Bounded(k, r[j]) /\ InFile(k, e, r[j], NextAt(r, j))
  <2>0. Bounded(k, c[j]) /\ InFile(k, d, c[j], NextAt(c, j)) /\ c[j] \in Piece
    BY <1>1, <1>5 DEF IsChain
  <2>1. CASE j = i
    <3>1. NextAt(r, i) = IF i < m THEN c[i + 1].at ELSE 0
      <4>1. i < m => i + 1 \in 1 .. m
        BY <1>1
      <4>2. i < m => r[i + 1].at = c[i + 1].at
        BY <1>6, <4>1
      <4> QED BY <1>3, <4>2 DEF NextAt
    <3> QED BY <1>3, <2>1, <3>1
  <2>2. CASE j # i
    <3>1. NextAt(r, j) = NextAt(c, j)
      <4>1. CASE j < i
        <5>1. j < m /\ j < Len(c) /\ j + 1 \in 1 .. m
          <6>1. i <= m /\ m <= len
            BY <1>len
          <6>2. j < m /\ j < len /\ j + 1 \in 1 .. m
            BY <1>i, <4>1, <6>1
          <6> QED BY <1>len, <6>2
        <5> QED BY <1>3, <1>6, <5>1 DEF NextAt
      <4>2. CASE i < j
        <5>1. m = Len(c)
          BY <1>1, <4>2
        <5>2. j < m => j + 1 \in 1 .. m
          BY <1>1
        <5> QED BY <1>3, <1>6, <5>1, <5>2 DEF NextAt
      <4> QED BY <1>1, <2>2, <4>1, <4>2
    <3>2. SameIn(d, e, c[j].at, EndOf(k, c[j]))
      BY <1>5, <2>2
    <3>3. InFile(k, e, c[j], NextAt(c, j))
      <4>1. Len(d) \in Nat /\ Len(e) \in Nat /\ Len(d) <= Len(e)
        BY LenProperties
      <4> QED BY <2>0, <3>2, <4>1, BlockKept
    <3>4. CASE j < i
      BY <1>3, <2>0, <3>1, <3>3, <3>4
    <3>5. CASE i < j
      <4>1. r[j] = Later(c, i, b, j) /\ EndOf(k, r[j]) = EndOf(k, c[j]) /\ LinkAt(k, r[j]) = LinkAt(k, c[j])
        BY <1>3, <3>5
      <4>2. r[j].at = c[j].at /\ r[j].size = c[j].size /\ r[j].pad = c[j].pad
        BY <4>1 DEF Later
      <4> QED BY <2>0, <3>1, <3>3, <4>1, <4>2 DEF Bounded, InFile
    <3> QED BY <1>1, <2>2, <3>4, <3>5
  <2> QED BY <2>1, <2>2
<1>8. ASSUME NEW x \in 1 .. m, NEW y \in 1 .. m, x < y
      PROVE  EndOf(k, r[x]) <= r[y].at /\ r[x].from + r[x].size <= r[y].from
  <2>1. EndOf(k, c[x]) <= c[y].at /\ c[x].from + c[x].size <= c[y].from
    BY <1>5, <1>8 DEF IsChain
  <2>2. r[x] \in Piece
    BY <1>3, PieceIs
  <2>3. EndOf(k, r[x]) \in Nat /\ EndOf(k, c[x]) \in Nat /\ c[y].at \in Nat
    BY <1>1, <1>5, <2>2, PieceEnds
  <2>4. EndOf(k, r[x]) <= r[y].at
    <3>1. PICK ex \in Nat, fx \in Nat, ay \in Nat : ex = EndOf(k, r[x]) /\ fx = EndOf(k, c[x]) /\ ay = c[y].at
      BY <2>3
    <3>2. ex <= fx /\ fx <= ay
      BY <1>6, <2>1, <3>1
    <3>3. ex <= ay
      BY <3>2
    <3> QED BY <1>6, <3>1, <3>3
  <2>5. PICK f \in Nat, g \in Nat, h \in Nat : f = c[x].from /\ g = c[x].size /\ h = c[y].from
    BY <1>1, <1>5
  <2>6. f + g <= h
    BY <2>1, <2>5
  <2>x. /\ r[x].from = (IF i < x THEN f - drop ELSE f)
        /\ r[x].size = (IF x = i THEN s ELSE g)
        /\ r[y].from = (IF i < y THEN h - drop ELSE h)
    BY <1>6, <1>o, <2>5
  <2>7. r[x].from + r[x].size <= r[y].from
    <3>1. CASE x < i /\ ~ (i < y)
      <4>1. ~ (i < x) /\ x # i
        BY <1>i, <3>1
      <4>2. r[x].from = f /\ r[x].size = g /\ r[y].from = h
        BY <2>x, <3>1, <4>1
      <4> QED BY <2>6, <4>2
    <3>2. CASE x < i /\ i < y
      <4>1. c[x].from + c[x].size <= c[i].from /\ c[i].from + c[i].size <= c[y].from
        BY <1>5, <3>2 DEF IsChain
      <4>2. PICK v \in Nat : v = c[i].from
        BY <1>1
      <4>3. f + g <= v /\ v + o <= h
        BY <1>o, <2>5, <4>1, <4>2
      <4>4. f + g <= h - drop
        BY <1>d, <4>3
      <4>5. ~ (i < x) /\ x # i
        BY <1>i, <3>2
      <4>6. r[x].from = f /\ r[x].size = g /\ r[y].from = h - drop
        BY <2>x, <3>2, <4>5
      <4> QED BY <4>4, <4>6
    <3>3. CASE x = i
      <4>1. g = o
        BY <1>o, <2>5, <3>3
      <4>2. f + s <= h - drop
        BY <1>d, <2>6, <4>1
      <4>4. ~ (i < x) /\ i < y
        BY <1>8, <1>i, <3>3
      <4>3. r[x].from = f /\ r[x].size = s /\ r[y].from = h - drop
        BY <2>x, <3>3, <4>4
      <4> QED BY <4>2, <4>3
    <3>4. CASE i < x
      <4>3. x # i /\ i < y
        BY <1>8, <1>i, <3>4
      <4>1. r[x].from = f - drop /\ r[x].size = g /\ r[y].from = h - drop
        BY <2>x, <3>4, <4>3
      <4>2. (f - drop) + g <= h - drop
        BY <2>6
      <4> QED BY <4>1, <4>2
    <3>5. x < i \/ x = i \/ i < x
      BY <1>i
    <3> QED BY <3>1, <3>2, <3>3, <3>4, <3>5
  <2> QED BY <2>4, <2>7
<1>9. ASSUME NEW x \in 1 .. Len(r) - 1 PROVE r[x + 1].from = r[x].from + r[x].size
  <2>0. x \in 1 .. m /\ x + 1 \in 1 .. m /\ x \in 1 .. Len(c) - 1
    <3>1. x \in 1 .. m - 1 /\ m <= len
      BY <1>3, <1>len
    <3>2. x \in 1 .. m /\ x + 1 \in 1 .. m /\ x \in 1 .. len - 1
      BY <3>1
    <3> QED BY <1>len, <3>2
  <2>1. c[x + 1].from = c[x].from + c[x].size
    BY <2>0 DEF IsChain
  <2>2. PICK f \in Nat, g \in Nat, h \in Nat : f = c[x].from /\ g = c[x].size /\ h = c[x + 1].from
    BY <1>1, <1>5, <2>0
  <2>3. h = f + g
    BY <2>1, <2>2
  <2>x. /\ r[x].from = (IF i < x THEN f - drop ELSE f)
        /\ r[x].size = (IF x = i THEN s ELSE g)
        /\ r[x + 1].from = (IF i < x + 1 THEN h - drop ELSE h)
    BY <1>6, <1>o, <2>0, <2>2
  <2>4. CASE x < i
    <3>1. ~ (i < x + 1) /\ ~ (i < x) /\ x # i
      BY <1>i, <2>4
    <3>2. r[x].from = f /\ r[x].size = g /\ r[x + 1].from = h
      BY <2>x, <3>1
    <3> QED BY <2>3, <3>2
  <2>5. CASE x = i
    <3>0. g = o
      BY <1>o, <2>2, <2>5
    <3>1. i < x + 1 /\ ~ (i < x)
      BY <1>i, <2>5
    <3>2. r[x].from = f /\ r[x].size = s /\ r[x + 1].from = h - drop
      BY <2>x, <2>5, <3>1
    <3>3. h - drop = f + s
      BY <1>d, <2>3, <3>0, SMTT(30)
    <3> QED BY <3>2, <3>3
  <2>6. CASE i < x
    <3>1. i < x + 1 /\ x # i
      BY <1>i, <2>6
    <3>2. r[x].from = f - drop /\ r[x].size = g /\ r[x + 1].from = h - drop
      BY <2>x, <2>6, <3>1
    <3>3. h - drop = (f - drop) + g
      BY <2>3
    <3> QED BY <3>2, <3>3
  <2>7. x < i \/ x = i \/ i < x
    BY <1>i
  <2> QED BY <2>4, <2>5, <2>6, <2>7
<1>10. r[1].at = ArrayAt /\ r[1].from = 0 /\ r[1].size >= 1
  <2>1. 1 \in 1 .. m /\ ~ (i < 1)
    BY <1>1
  <2>2. c[1].at = ArrayAt /\ c[1].from = 0 /\ c[1].size >= 1
    BY DEF IsChain
  <2> QED BY <1>6, <2>1, <2>2
<1>11. IsChain(k, e, r)
  <2>1. Len(r) >= 1
    BY <1>1, <1>3
  <2> QED BY <1>3, <1>7, <1>8, <1>9, <1>10, <2>1 DEF IsChain
<1>12. ASSUME NEW j \in 1 .. m, NEW array, j < i, Holds(k, d, c[j], array) PROVE Holds(k, e, r[j], array)
  <2>1. c[j] \in Piece /\ SameIn(d, e, c[j].at, EndOf(k, c[j])) /\ r[j] = c[j]
    <3>1. c[j] \in Piece
      BY <1>1, <1>5
    <3>2. j # i
      BY <1>i, <1>12
    <3>3. SameIn(d, e, c[j].at, EndOf(k, c[j]))
      BY <1>5, <3>2
    <3> QED BY <1>3, <1>12, <3>1, <3>3
  <2>2. Len(d) \in Nat /\ Len(e) \in Nat /\ Len(d) <= Len(e)
    BY LenProperties
  <2> QED BY <1>12, <2>1, <2>2, BlockKept
<1>13. Total(r) = (IF m = i THEN b.from + b.size ELSE Total(c) - (c[i].size - b.size))
  <2>1. m \in 1 .. m /\ Total(r) = r[m].from + r[m].size
    BY <1>1, <1>3 DEF Total
  <2>2. CASE m = i
    BY <1>3, <2>1, <2>2
  <2>3. CASE m # i
    <3>1. m = Len(c) /\ i < m
      BY <1>1, <2>3
    <3>2. PICK f \in Nat, g \in Nat : f = c[m].from /\ g = c[m].size
      BY <1>1, <1>5, <2>1
    <3>3. r[m].from = f - drop /\ r[m].size = g /\ Total(c) = f + g
      BY <1>6, <2>1, <2>3, <3>1, <3>2 DEF Total
    <3> QED BY <1>4, <2>1, <2>3, <3>3
  <2> QED BY <2>2, <2>3
<1> QED BY <1>11, <1>12, <1>13 DEF r

\* In the place of block i: no larger, and the first one ends where it ended.
Shorter(k, c, i, b) ==
  /\ b \in Piece /\ b.at = c[i].at /\ b.from = c[i].from /\ b.size <= c[i].size /\ Bounded(k, b)
  /\ EndOf(k, b) <= EndOf(k, c[i])
  /\ i = 1 => b.size >= 1 /\ EndOf(k, b) = EndOf(k, c[1])

\* The new block leads to the next one, or nowhere: then the chain ends with it.
Leads(k, e, c, i, b, m) ==
  /\ m \in Nat /\ i <= m /\ m <= Len(c) /\ (m < Len(c) => m = i)
  /\ InFile(k, e, b, IF i < m THEN c[i + 1].at ELSE 0)

IsReplaced(k, d, e, c, i, b, m, t, end, r) ==
  /\ Layout(k, e, r, t, end)
  /\ EndOf(k, r[1]) = EndOf(k, c[1])
  /\ TextAt(e, EndOf(k, c[1])) = TextAt(d, EndOf(k, c[1]))
  /\ \A j \in 1 .. m : \A array : j < i /\ Holds(k, d, c[j], array) => Holds(k, e, r[j], array)
  /\ Total(r) = (IF m = i THEN b.from + b.size ELSE Total(c) - (c[i].size - b.size))

\* It is a layout, and the other blocks hold what they held.
LEMMA LayoutReplaced ==
  ASSUME NEW k \in NumberKinds, NEW d \in Seq(Nat), NEW e \in Seq(Nat), Len(d) = Len(e),
         NEW c, NEW t, NEW end \in Nat, Layout(k, d, c, t, end),
         NEW i \in 1 .. Len(c), SameBut(e, d, c[i].at, EndOf(k, c[i])),
         NEW b, Shorter(k, c, i, b), NEW m, Leads(k, e, c, i, b, m)
  PROVE  IsReplaced(k, d, e, c, i, b, m, t, end, Replaced(c, i, b, m))
<1> DEFINE r == Replaced(c, i, b, m)
           place == EndOf(k, c[1])
<1>0. /\ b \in Piece /\ b.at = c[i].at /\ b.from = c[i].from /\ b.size <= c[i].size /\ Bounded(k, b)
      /\ EndOf(k, b) <= EndOf(k, c[i]) /\ (i = 1 => b.size >= 1 /\ EndOf(k, b) = EndOf(k, c[1]))
      /\ m \in Nat /\ i <= m /\ m <= Len(c) /\ (m < Len(c) => m = i)
      /\ InFile(k, e, b, IF i < m THEN c[i + 1].at ELSE 0)
  BY DEF Shorter, Leads
<1> USE <1>0
<1>1. IsChain(k, d, c) /\ IsText(d, place, t, end) /\ NextTo(d, end) /\ \A j \in 2 .. Len(c) : Behind(k, c[j], t, end)
  BY DEF Layout
<1>2. /\ Len(c) \in Nat /\ place \in Nat
      /\ \A j \in 1 .. Len(c) : c[j] \in Piece
      /\ \A j \in 1 .. Len(c) : c[j].at \in Nat /\ EndOf(k, c[j]) \in Nat
  BY <1>1, ChainFacts
<1>3. /\ \A j \in 1 .. Len(c) : j # i => SameIn(d, e, c[j].at, EndOf(k, c[j]))
      /\ TextSame(d, e, place, t)
      /\ SameIn(d, e, end, end + 4)
  BY OthersKept
<1>4. /\ IsChain(k, e, r)
      /\ \A j \in 1 .. m : \A array : j < i /\ Holds(k, d, c[j], array) => Holds(k, e, r[j], array)
      /\ Total(r) = (IF m = i THEN b.from + b.size ELSE Total(c) - (c[i].size - b.size))
  <2>1. IsChain(k, d, c)
    BY <1>1
  <2>2. \A j \in 1 .. Len(c) : j # i => SameIn(d, e, c[j].at, EndOf(k, c[j]))
    BY <1>3
  <2>3. i = 1 => b.size >= 1
    OBVIOUS
  <2> DEFINE q == Replaced(c, i, b, m)
  <2>4. IsChain(k, e, q)
    BY <2>1, <2>2, <2>3, ChainReplaced
  <2>5. \A j \in 1 .. m : \A array : j < i /\ Holds(k, d, c[j], array) => Holds(k, e, q[j], array)
    BY <2>1, <2>2, <2>3, ChainReplaced
  <2>6. Total(q) = (IF m = i THEN b.from + b.size ELSE Total(c) - (c[i].size - b.size))
    BY <2>1, <2>2, <2>3, ChainReplaced, SMTT(30)
  <2> QED BY <2>4, <2>5, <2>6
<1>5. /\ Len(r) = m
      /\ \A j \in 1 .. m : j < i => r[j] = c[j]
      /\ r[i] = b
      /\ \A j \in 1 .. m : i < j => r[j] = Later(c, i, b, j)
      /\ \A j \in 1 .. m : i < j => EndOf(k, Later(c, i, b, j)) = EndOf(k, c[j])
  BY <1>1, ReplacedIs
<1> HIDE DEF r
<1>6. ASSUME NEW j \in 1 .. m
      PROVE  j \in 1 .. Len(c) /\ r[j].at = c[j].at /\ EndOf(k, r[j]) \in Nat /\ EndOf(k, r[j]) <= EndOf(k, c[j])
  <2>0. j \in 1 .. Len(c)
    BY <1>2
  <2>1. CASE j < i
    BY <1>2, <1>5, <2>0, <2>1
  <2>2. CASE j = i
    BY <1>2, <1>5, <2>0, <2>2, PieceEnds
  <2>3. CASE i < j
    <3>1. r[j] = Later(c, i, b, j) /\ EndOf(k, r[j]) = EndOf(k, c[j])
      BY <1>5, <2>3
    <3> QED BY <1>2, <2>0, <3>1 DEF Later
  <2> QED BY <2>0, <2>1, <2>2, <2>3
<1>7. EndOf(k, r[1]) = place
  <2>1. CASE i = 1
    BY <1>5, <2>1
  <2>2. CASE i # 1
    <3>1. 1 \in 1 .. m /\ 1 < i
      BY <1>2, <2>2
    <3> QED BY <1>5, <3>1
  <2> QED BY <2>1, <2>2
<1>8. IsText(e, place, t, end) /\ TextAt(e, place) = TextAt(d, place)
  <2>1. Len(d) <= Len(e)
    BY LenProperties
  <2> QED BY <1>1, <1>2, <1>3, <2>1, TextKept
<1>9. NextTo(e, end)
  <2>1. NextTo(d, end) /\ SameIn(d, e, end, end + 4)
    BY <1>1, <1>3
  <2> QED BY <2>1 DEF NextTo, SameIn
<1>10. ASSUME NEW j \in 2 .. Len(r) PROVE Behind(k, r[j], t, end)
  <2>1. j \in 1 .. m /\ j \in 2 .. Len(c)
    BY <1>2, <1>5
  <2>2. Behind(k, c[j], t, end)
    BY <1>1, <2>1
  <2>3. PICK x \in Nat, y \in Nat, o \in Nat : x = EndOf(k, r[j]) /\ y = EndOf(k, c[j]) /\ o = t.loc /\ x <= y
    <3>1. t.loc \in Nat
      BY LayoutFacts
    <3> QED BY <1>2, <1>6, <2>1, <3>1
  <2>4. y <= o => x <= o
    BY <2>3
  <2> QED BY <1>6, <2>1, <2>2, <2>3, <2>4 DEF Behind
<1>11. Layout(k, e, r, t, end)
  BY <1>4, <1>7, <1>8, <1>9, <1>10 DEF Layout
<1> HIDE DEF place
<1> QED BY <1>4, <1>7, <1>8, <1>11 DEF IsReplaced, r, place

LEMMA ReplacedSame ==
  ASSUME NEW k \in NumberKinds, NEW d, NEW c, IsChain(k, d, c), NEW i \in 1 .. Len(c)
  PROVE  Replaced(c, i, c[i], Len(c)) = c
<1>1. /\ c \in Seq(Piece) /\ Len(c) \in Nat
      /\ \A j \in 1 .. Len(c) : c[j] \in Piece
      /\ \A j \in 1 .. Len(c) : c[j].at \in Nat /\ c[j].size \in Nat /\ c[j].pad \in Nat /\ c[j].from \in Nat
  BY ChainFacts
<1> DEFINE r == Replaced(c, i, c[i], Len(c))
<1>2. c[i] \in Piece /\ c[i].size <= c[i].size /\ i <= Len(c) /\ Len(c) <= Len(c)
  BY <1>1
<1>3. /\ r \in Seq(Piece) /\ Len(r) = Len(c)
      /\ \A j \in 1 .. Len(c) : j < i => r[j] = c[j]
      /\ r[i] = c[i]
      /\ \A j \in 1 .. Len(c) : i < j => r[j] = Later(c, i, c[i], j)
  BY <1>1, <1>2, ReplacedIs, SMTT(30)
<1> HIDE DEF r
<1>4. ASSUME NEW j \in 1 .. Len(c), i < j PROVE Later(c, i, c[i], j) = c[j]
  <2>1. c[j].from - (c[i].size - c[i].size) = c[j].from
    BY <1>1
  <2>2. c[j] = [at |-> c[j].at, size |-> c[j].size, pad |-> c[j].pad, from |-> c[j].from]
    <3>1. c[j] \in Piece
      BY <1>1
    <3> QED BY <3>1 DEF Piece
  <2> QED BY <2>1, <2>2 DEF Later
<1>5. \A j \in 1 .. Len(c) : r[j] = c[j]
  <2> TAKE j \in 1 .. Len(c)
  <2>1. j < i \/ j = i \/ i < j
    BY <1>1
  <2> QED BY <1>3, <1>4, <2>1
<1>6. r = c
  BY <1>1, <1>3, <1>5, SeqEqual
<1> QED BY <1>6 DEF r

-----------------------------------------------------------------------------
(* A block and a text at the end of the file.                                *)

\* A number is added to the end of the file.
LEMMA PutAtEnd ==
  ASSUME NEW s \in Stream0, s.fp = Len(s.d), NEW v \in Nat, NEW m \in Widths
  PROVE  /\ PutNumber(s, v, m) \in Stream0 /\ PutNumber(s, v, m).ok = s.ok
         /\ PutNumber(s, v, m).fp = s.fp + m /\ Len(PutNumber(s, v, m).d) = s.fp + m
         /\ NumberAt(PutNumber(s, v, m).d, s.fp, m) = v
         /\ SameBut(PutNumber(s, v, m).d, s.d, s.fp, s.fp + m)
<1>1. Len(s.d) \in Nat /\ m \in Nat /\ m > 0
  BY LenProperties DEF Stream0, Widths
<1>2. s.fp + m > Len(s.d)
  BY <1>1
<1>3. Len(PutNumber(s, v, m).d) = IF s.fp + m > Len(s.d) THEN s.fp + m ELSE Len(s.d)
  BY PutNumberIs
<1> QED BY <1>2, <1>3, PutNumberIs

\* A new block at the end of the file holds the elements it is given.
LEMMA NewBlockIs ==
  ASSUME NEW k \in NumberKinds, NEW s \in Stream0, s.fp = Len(s.d),
         NEW b \in Piece, b.at = Len(s.d), b.pad = 0,
         NEW es \in Seq(Element), Len(es) = b.size,
         NEW array, \A j \in 1 .. b.size : es[j] = array[b.from + j]
  PROVE  /\ NewBlock(k, s, es) \in Stream0 /\ NewBlock(k, s, es).ok = s.ok
         /\ NewBlock(k, s, es).fp = EndOf(k, b) /\ Len(NewBlock(k, s, es).d) = EndOf(k, b)
         /\ SameBut(NewBlock(k, s, es).d, s.d, Len(s.d), EndOf(k, b))
         /\ InFile(k, NewBlock(k, s, es).d, b, 0)
         /\ Holds(k, NewBlock(k, s, es).d, b, array)
<1>0. b.at \in Nat /\ b.size \in Nat
  BY DEF Piece
<1>w. 4 \in Widths /\ 8 \in Widths
  BY DEF Widths
<1>a. PICK at \in Nat, y \in Nat, l \in Nat, z \in Nat :
        /\ at = b.at /\ y = Bytes(k, b.size) /\ l = LinkAt(k, b) /\ z = EndOf(k, b)

  BY <1>0, PieceEnds
<1>p. l = at + 8 + y /\ z = l + 8
  <2>1. Bytes(k, b.pad) = 0
    BY BytesLaws
  <2>2. LinkAt(k, b) = b.at + 8 + Bytes(k, b.size) + 0 /\ EndOf(k, b) = LinkAt(k, b) + 8
    BY <2>1, PieceEnds
  <2>3. l = at + 8 + y + 0 /\ z = l + 8
    BY <1>a, <2>2
  <2> QED BY <2>3
<1>1. PICK u \in Stream0 : /\ u = PutNumber(s, b.size, 4) /\ u.ok = s.ok /\ u.fp = at + 4 /\ Len(u.d) = at + 4
                           /\ NumberAt(u.d, at, 4) = b.size /\ SameBut(u.d, s.d, at, at + 4)
  <2>1. s.fp = at
    BY <1>a
  <2>2. /\ PutNumber(s, b.size, 4) \in Stream0 /\ PutNumber(s, b.size, 4).ok = s.ok
        /\ PutNumber(s, b.size, 4).fp = s.fp + 4 /\ Len(PutNumber(s, b.size, 4).d) = s.fp + 4
        /\ NumberAt(PutNumber(s, b.size, 4).d, s.fp, 4) = b.size
        /\ SameBut(PutNumber(s, b.size, 4).d, s.d, s.fp, s.fp + 4)
    BY <1>0, <1>w, PutAtEnd
  <2> QED BY <2>1, <2>2
<1>2. PICK v \in Stream0 : /\ v = PutNumber(u, 0, 4) /\ v.ok = s.ok /\ v.fp = at + 8 /\ Len(v.d) = at + 8
                           /\ NumberAt(v.d, at + 4, 4) = 0 /\ SameBut(v.d, u.d, at + 4, at + 8)
  <2>1. u.fp = Len(u.d)
    BY <1>1
  <2>2. at + 4 + 4 = at + 8
    OBVIOUS
  <2>3. 0 \in Nat
    OBVIOUS
  <2>4. /\ PutNumber(u, 0, 4) \in Stream0 /\ PutNumber(u, 0, 4).ok = u.ok
        /\ PutNumber(u, 0, 4).fp = u.fp + 4 /\ Len(PutNumber(u, 0, 4).d) = u.fp + 4
        /\ NumberAt(PutNumber(u, 0, 4).d, u.fp, 4) = 0
        /\ SameBut(PutNumber(u, 0, 4).d, u.d, u.fp, u.fp + 4)
    BY <1>w, <2>1, <2>3, PutAtEnd, ZenonT(60)
  <2> QED BY <1>1, <2>2, <2>4
<1>3. PICK x \in Stream0 : /\ x = NewElements(k, v, es) /\ x.ok = s.ok /\ x.fp = l /\ Len(x.d) = l
                           /\ \A j \in 1 .. Len(es) : NumberAt(x.d, at + 8 + Bytes(k, j - 1), Width(k)) = es[j][1]
                           /\ SameBut(x.d, v.d, at + 8, l)
  <2>1. PICK x \in Stream0 :
        /\ x = NewElements(k, v, es)
        /\ x.fp = v.fp + Bytes(k, Len(es)) /\ x.ok = v.ok
        /\ Len(x.d) = IF x.fp > Len(v.d) THEN x.fp ELSE Len(v.d)
        /\ \A j \in 1 .. Len(es) : NumberAt(x.d, v.fp + Bytes(k, j - 1), Width(k)) = es[j][1]
        /\ SameBut(x.d, v.d, v.fp, x.fp)
    BY NewElementsAre
  <2>2. x.fp = l
    <3>1. x.fp = at + 8 + y
      BY <1>2, <1>a, <2>1
    <3> QED BY <1>p, <3>1
  <2>3. l > at + 8 => Len(x.d) = l
    BY <1>2, <2>1, <2>2
  <2>4. ~ (l > at + 8) => l = at + 8
    BY <1>p
  <2>5. Len(x.d) = l
    BY <1>2, <2>1, <2>2, <2>3, <2>4
  <2> QED BY <1>2, <2>1, <2>2, <2>5
<1>4. PICK g \in Stream0 : /\ g = PutNumber(x, 0, 8) /\ g.ok = s.ok /\ g.fp = z /\ Len(g.d) = z
                           /\ NumberAt(g.d, l, 8) = 0 /\ SameBut(g.d, x.d, l, z)
  <2>1. x.fp = Len(x.d)
    BY <1>3
  <2>2. l + 8 = z
    BY <1>p
  <2>3. 0 \in Nat
    OBVIOUS
  <2>4. /\ PutNumber(x, 0, 8) \in Stream0 /\ PutNumber(x, 0, 8).ok = x.ok
        /\ PutNumber(x, 0, 8).fp = x.fp + 8 /\ Len(PutNumber(x, 0, 8).d) = x.fp + 8
        /\ NumberAt(PutNumber(x, 0, 8).d, x.fp, 8) = 0
        /\ SameBut(PutNumber(x, 0, 8).d, x.d, x.fp, x.fp + 8)
    BY <1>w, <2>1, <2>3, PutAtEnd, ZenonT(60)
  <2> QED BY <1>3, <2>2, <2>4
<1>5. g = NewBlock(k, s, es)
  BY <1>1, <1>2, <1>3, <1>4 DEF NewBlock
<1>6. at <= l /\ at + 4 \in Nat /\ at + 8 \in Nat /\ at + 8 <= l /\ at <= at /\ at + 4 <= z /\ at <= at + 4 /\ at + 8 <= z
      /\ at <= at + 8 /\ l <= z /\ z <= z /\ at + 4 <= at + 4 /\ at + 4 <= at + 8 /\ at + 4 + 4 <= at + 8 /\ at + 4 + 4 <= l /\ at + 4 <= l
  BY <1>p
<1>7. SameBut(g.d, s.d, at, z)
  <2>1. SameBut(u.d, s.d, at, z)
    BY <1>1, <1>6, SameButWider
  <2>2. SameBut(v.d, u.d, at, z)
    BY <1>2, <1>6, SameButWider
  <2>3. SameBut(x.d, v.d, at, z)
    BY <1>3, <1>6, SameButWider
  <2>4. SameBut(g.d, x.d, at, z)
    BY <1>4, <1>6, SameButWider
  <2>5. SameBut(v.d, s.d, at, z)
    BY <2>1, <2>2, SameButAgain
  <2>6. SameBut(x.d, s.d, at, z)
    BY <2>3, <2>5, SameButAgain
  <2> QED BY <2>4, <2>6, SameButAgain
<1>8. NumberAt(g.d, at, 4) = b.size
  <2>1. NumberAt(v.d, at, 4) = NumberAt(u.d, at, 4)
    BY <1>2, <1>6, <1>w, NumberOutside
  <2>2. NumberAt(x.d, at, 4) = NumberAt(v.d, at, 4)
    BY <1>3, <1>6, <1>w, NumberOutside
  <2>3. NumberAt(g.d, at, 4) = NumberAt(x.d, at, 4)
    BY <1>4, <1>6, <1>w, NumberOutside
  <2> QED BY <1>1, <2>1, <2>2, <2>3
<1>9. NumberAt(g.d, at + 4, 4) = 0
  <2>2. NumberAt(x.d, at + 4, 4) = NumberAt(v.d, at + 4, 4)
    BY <1>3, <1>6, <1>w, NumberOutside
  <2>3. NumberAt(g.d, at + 4, 4) = NumberAt(x.d, at + 4, 4)
    BY <1>4, <1>6, <1>w, NumberOutside
  <2> QED BY <1>2, <2>2, <2>3
<1>10. InFile(k, g.d, b, 0)
  <2>1. EndOf(k, b) <= Len(g.d)
    BY <1>4, <1>a
  <2> QED BY <1>4, <1>8, <1>9, <1>a, <2>1 DEF InFile
<1>11. Holds(k, g.d, b, array)
  <2> SUFFICES ASSUME NEW j \in 1 .. b.size
               PROVE  NumberAt(g.d, b.at + 8 + Bytes(k, j - 1), Width(k)) = array[b.from + j][1]
    BY DEF Holds
  <2>1. PICK a \in Nat : a = j - 1 /\ a + 1 <= b.size
    BY <1>0
  <2>0. Bytes(k, a) \in Nat /\ Bytes(k, a + 1) = Bytes(k, a) + Width(k) /\ Bytes(k, a + 1) <= Bytes(k, b.size)
    <3>1. a + 1 \in Nat
      OBVIOUS
    <3> QED BY <1>0, <2>1, <3>1, BytesLaws
  <2>2. PICK f \in Nat, h \in Nat : f = Bytes(k, a) /\ h = Width(k)
    <3>1. Width(k) \in Nat
      BY WidthIs DEF Widths
    <3> QED BY <2>0, <3>1
  <2>p. f + h <= y
    BY <1>a, <2>0, <2>2
  <2>3. at + 8 + f \in Nat /\ at + 8 + f + h <= l
    BY <1>p, <2>p
  <2>4. NumberAt(g.d, at + 8 + f, h) = NumberAt(x.d, at + 8 + f, h)
    BY <1>4, <2>2, <2>3, WidthIs, NumberOutside
  <2>5. NumberAt(x.d, at + 8 + Bytes(k, j - 1), Width(k)) = es[j][1]
    BY <1>3
  <2>6. es[j] = array[b.from + j]
    OBVIOUS
  <2> QED BY <1>a, <2>1, <2>2, <2>4, <2>5, <2>6
<1>12. SameBut(g.d, s.d, Len(s.d), EndOf(k, b))
  BY <1>7, <1>a
<1> QED BY <1>4, <1>5, <1>10, <1>11, <1>12, <1>a

-----------------------------------------------------------------------------
(* The text after the array is written again.                                *)

\* A buffer is the text and zeros after it.
LEMMA BufferIs ==
  ASSUME NEW text \in Seq(Nat), NEW m \in Nat, Len(text) <= m
  PROVE  /\ Buffer(text, m) \in Seq(Nat) /\ Len(Buffer(text, m)) = m
         /\ \A i \in 1 .. m : Buffer(text, m)[i] = IF i <= Len(text) THEN text[i] ELSE 0
<1> DEFINE z == Zeros(m - Len(text))
           x == text \o z
<1>1. Len(text) \in Nat /\ m - Len(text) \in Nat
  BY LenProperties
<1>2. z \in Seq(Nat) /\ Len(z) = m - Len(text)
  <2>1. PICK g \in Nat : g = m - Len(text)
    BY <1>1
  <2>2. Zeros(g) \in Seq(Nat) /\ Len(Zeros(g)) = IF g > 0 THEN g ELSE 0
    BY ZerosAreBytes
  <2>3. (IF g > 0 THEN g ELSE 0) = g
    OBVIOUS
  <2> QED BY <2>1, <2>2, <2>3
<1>3. \A i \in 1 .. Len(z) : z[i] = 0
  BY <1>2 DEF Zeros
<1> HIDE DEF z
<1>4. /\ x \in Seq(Nat) /\ Len(x) = Len(text) + Len(z)
      /\ \A i \in 1 .. Len(text) + Len(z) : x[i] = IF i <= Len(text) THEN text[i] ELSE z[i - Len(text)]
  BY <1>2, ConcatProperties
<1> HIDE DEF x
<1>5. Len(x) = m
  BY <1>1, <1>2, <1>4
<1>6. \A i \in 1 .. m : x[i] = IF i <= Len(text) THEN text[i] ELSE 0
  <2> SUFFICES ASSUME NEW i \in 1 .. m PROVE x[i] = IF i <= Len(text) THEN text[i] ELSE 0
    OBVIOUS
  <2>1. x[i] = IF i <= Len(text) THEN text[i] ELSE z[i - Len(text)]
    BY <1>1, <1>2, <1>4
  <2>2. ~ (i <= Len(text)) => i - Len(text) \in 1 .. Len(z)
    BY <1>1, <1>2
  <2> QED BY <1>3, <2>1, <2>2
<1>7. SubSeq(x, 1, m) = x
  BY <1>4, <1>5
<1>8. Buffer(text, m) = SubSeq(x, 1, m)
  BY DEF Buffer, x, z
<1> QED BY <1>4, <1>5, <1>6, <1>7, <1>8

\* The text in a buffer is read up to its end.
LEMMA TextRead ==
  ASSUME NEW d \in Seq(Nat), NEW p \in Nat, NEW size \in Nat, NEW text \in Seq(Nat \ {0}), Len(text) < size,
         \A i \in 1 .. size : ByteAt(d, p + i - 1) = Buffer(text, size)[i]
  PROVE  [i \in 1 .. TextLength(d, p, size) |-> ByteAt(d, p + i - 1)] = text
<1>1. PICK len \in Nat : len = Len(text)
  BY LenProperties
<1>2. text \in Seq(Nat)
  BY ElementOfSeq, SeqOfFunction, LenProperties
<1>3. \A i \in 1 .. size : ByteAt(d, p + i - 1) = IF i <= len THEN text[i] ELSE 0
  <2>1. Len(text) <= size
    BY <1>1
  <2>2. \A i \in 1 .. size : Buffer(text, size)[i] = IF i <= Len(text) THEN text[i] ELSE 0
    BY <1>2, <2>1, BufferIs
  <2> QED BY <1>1, <2>2
<1>4. \A i \in 1 .. len : text[i] \in Nat /\ text[i] # 0
  BY <1>1, ElementOfSeq
<1>5. len < size
  BY <1>1
<1> DEFINE nul == {i \in 0 .. size - 1 : ByteAt(d, p + i) = 0}
<1>6. ASSUME NEW i \in 0 .. size - 1 PROVE ByteAt(d, p + i) = 0 <=> len <= i
  <2>1. i + 1 \in 1 .. size /\ p + (i + 1) - 1 = p + i
    OBVIOUS
  <2>2. ByteAt(d, p + i) = IF i + 1 <= len THEN text[i + 1] ELSE 0
    BY <1>3, <2>1
  <2>3. i + 1 <= len => i + 1 \in 1 .. len
    OBVIOUS
  <2>4. i + 1 <= len => text[i + 1] # 0
    BY <1>4, <2>3
  <2>5. i + 1 <= len <=> ~ (len <= i)
    OBVIOUS
  <2> QED BY <2>2, <2>4, <2>5
<1>7. len \in nul /\ \A j \in nul : len <= j
  <2>1. len \in 0 .. size - 1 /\ len <= len
    BY <1>5
  <2> QED BY <1>6, <2>1
<1>8. \A i \in nul : (\A j \in nul : i <= j) => i = len
  BY <1>7
<1>9. TextLength(d, p, size) = len
  <2>1. TextLength(d, p, size) = IF nul = {} THEN size ELSE CHOOSE i \in nul : \A j \in nul : i <= j
    BY DEF TextLength
  <2> HIDE DEF nul
  <2>2. nul # {}
    BY <1>7
  <2>3. (CHOOSE i \in nul : \A j \in nul : i <= j) = len
    BY <1>7, <1>8
  <2> QED BY <2>1, <2>2, <2>3
<1>10. \A i \in 1 .. len : ByteAt(d, p + i - 1) = text[i]
  BY <1>3, <1>5
<1>11. text = [i \in 1 .. len |-> text[i]]
  BY <1>1, <1>2, LenProperties
<1> QED BY <1>9, <1>10, <1>11

\* A buffer at the file pointer: its size and the text.
LEMMA PutTextIs ==
  ASSUME NEW s \in Stream0, NEW size \in Nat, NEW text \in Seq(Nat \ {0}), Len(text) < size,
         NEW u, u = Put(PutNumber(s, size, 8), Buffer(text, size))
  PROVE  /\ u \in Stream0 /\ u.fp = s.fp + 8 + size /\ u.ok = s.ok
         /\ Len(u.d) = IF s.fp + 8 + size > Len(s.d) THEN s.fp + 8 + size ELSE Len(s.d)
         /\ NumberAt(u.d, s.fp, 8) = size
         /\ \A i \in 1 .. size : ByteAt(u.d, s.fp + 8 + i - 1) = Buffer(text, size)[i]
         /\ SameBut(u.d, s.d, s.fp, s.fp + 8 + size)
<1>w. 8 \in Widths
  BY DEF Widths
<1>1. PICK p \in Nat : p = s.fp
  BY DEF Stream0
<1>2. PICK x \in Stream0 : /\ x = PutNumber(s, size, 8) /\ x.fp = p + 8 /\ x.ok = s.ok
                           /\ Len(x.d) = IF p + 8 > Len(s.d) THEN p + 8 ELSE Len(s.d)
                           /\ NumberAt(x.d, p, 8) = size /\ SameBut(x.d, s.d, p, p + 8)
  BY <1>1, <1>w, PutNumberIs
<1>3. /\ text \in Seq(Nat) /\ Len(text) \in Nat /\ Len(text) <= size
  BY ElementOfSeq, SeqOfFunction, LenProperties
<1>4. Buffer(text, size) \in Seq(Nat) /\ Len(Buffer(text, size)) = size
  BY <1>3, BufferIs
<1>5. PICK y \in Stream0 : /\ y = Put(x, Buffer(text, size)) /\ y.fp = p + 8 + size /\ y.ok = s.ok
                           /\ Len(y.d) = IF p + 8 + size > Len(x.d) THEN p + 8 + size ELSE Len(x.d)
                           /\ \A i \in 1 .. size : ByteAt(y.d, p + 8 + i - 1) = Buffer(text, size)[i]
                           /\ SameBut(y.d, x.d, p + 8, p + 8 + size)
  <2> DEFINE b == Buffer(text, size)
  <2>1. b \in Seq(Nat) /\ Len(b) = size
    BY <1>4
  <2> HIDE DEF b
  <2>2. /\ Put(x, b) \in Stream0 /\ Put(x, b).fp = x.fp + Len(b) /\ Put(x, b).ok = x.ok
        /\ Len(Put(x, b).d) = IF x.fp + Len(b) > Len(x.d) THEN x.fp + Len(b) ELSE Len(x.d)
        /\ \A i \in 1 .. Len(b) : ByteAt(Put(x, b).d, x.fp + i - 1) = b[i]
        /\ SameBut(Put(x, b).d, x.d, x.fp, x.fp + Len(b))
    BY <2>1, PutIs
  <2> QED BY <1>2, <2>1, <2>2 DEF b
<1>6. y = u
  BY <1>2, <1>5
<1>7. NumberAt(y.d, p, 8) = size
  <2>1. p + 8 \in Nat /\ p + 8 + size \in Nat /\ p + 8 <= p + 8
    OBVIOUS
  <2>2. NumberAt(y.d, p, 8) = NumberAt(x.d, p, 8)
    BY <1>5, <1>w, <2>1, NumberOutside
  <2> QED BY <1>2, <2>2
<1>9. SameBut(y.d, s.d, p, p + 8 + size)
  <2>1. /\ p + 8 \in Nat /\ p + 8 + size \in Nat /\ p <= p /\ p + 8 <= p + 8 + size /\ p <= p + 8
        /\ p + 8 + size <= p + 8 + size
    OBVIOUS
  <2>2. SameBut(x.d, s.d, p, p + 8 + size)
    BY <1>2, <2>1, SameButWider
  <2>3. SameBut(y.d, x.d, p, p + 8 + size)
    BY <1>5, <2>1, SameButWider
  <2> QED BY <2>1, <2>2, <2>3, SameButAgain
<1>10. Len(y.d) = IF p + 8 + size > Len(s.d) THEN p + 8 + size ELSE Len(s.d)
  <2>1. PICK a \in Nat, b \in Nat : a = Len(s.d) /\ b = Len(x.d)
    BY LenProperties DEF Stream0
  <2>2. b = IF p + 8 > a THEN p + 8 ELSE a
    BY <1>2, <2>1
  <2>3. (IF p + 8 + size > b THEN p + 8 + size ELSE b) = (IF p + 8 + size > a THEN p + 8 + size ELSE a)
    BY <2>2
  <2> QED BY <1>5, <2>1, <2>3
<1> QED BY <1>1, <1>5, <1>6, <1>7, <1>9, <1>10

\* Bytes that belong to no block and not to the neighbour: those of the text, and a new end.
ForText(d, place, t, end, lo, hi) ==
  \/ Len(d) <= lo
  \/ place <= lo /\ hi <= end
  \/ t.loc > 0 /\ t.loc <= lo /\ hi <= t.loc + 8 + t.size

\* The text and its buffers are apart from the blocks and the neighbour.
LEMMA TextIsApart ==
  ASSUME NEW k \in NumberKinds, NEW d \in Seq(Nat), NEW c, NEW t, NEW end \in Nat, Layout(k, d, c, t, end),
         NEW lo \in Nat, NEW hi \in Nat, ForText(d, EndOf(k, c[1]), t, end, lo, hi)
  PROVE  /\ \A i \in 1 .. Len(c) : EndOf(k, c[i]) <= lo \/ hi <= c[i].at
         /\ end + 4 <= lo \/ hi <= end
<1>1. IsChain(k, d, c)
  BY DEF Layout
<1>2. /\ Len(c) \in Nat /\ 1 \in 1 .. Len(c)
      /\ \A i \in 1 .. Len(c) : c[i].at \in Nat /\ EndOf(k, c[i]) \in Nat
      /\ \A i \in 1 .. Len(c) : c[i].at + 16 <= EndOf(k, c[i]) /\ EndOf(k, c[i]) <= Len(d)
  BY <1>1, ChainFacts
<1>3. PICK len \in Nat, place \in Nat : len = Len(d) /\ place = EndOf(k, c[1])
  BY <1>2, LenProperties
<1>4. /\ t.loc \in Nat /\ t.own \in Nat /\ t.size \in Nat
      /\ end = place + 24 + t.own /\ end + 4 <= len
      /\ t.loc > 0 => end + 4 <= t.loc /\ t.loc + 8 + t.size <= len
  BY <1>3, LayoutFacts
<1>5. PICK own \in Nat, loc \in Nat, stop \in Nat : own = t.own /\ loc = t.loc /\ stop = t.loc + 8 + t.size
  <2>1. t.loc + 8 + t.size \in Nat
    BY <1>4, SMTT(30)
  <2> QED BY <1>4, <2>1
<1>6. end = place + 24 + own /\ end + 4 <= len /\ (loc > 0 => end + 4 <= loc /\ stop <= len)
  BY <1>4, <1>5
<1>7. len <= lo \/ (place <= lo /\ hi <= end) \/ (loc > 0 /\ loc <= lo /\ hi <= stop)
  BY <1>3, <1>5 DEF ForText
<1>8. end + 4 <= lo \/ hi <= end
  BY <1>6, <1>7
<1>9. ASSUME NEW i \in 1 .. Len(c) PROVE EndOf(k, c[i]) <= lo \/ hi <= c[i].at
  <2>1. PICK a \in Nat, z \in Nat : a = c[i].at /\ z = EndOf(k, c[i])
    BY <1>2
  <2>2. a + 16 <= z /\ z <= len
    BY <1>2, <1>3, <2>1
  <2>3. i = 1 => z = place
    BY <1>3, <2>1
  <2>4. i # 1 => end + 4 <= a /\ (loc > 0 => z <= loc \/ stop <= a)
    <3>1. i # 1 => i \in 2 .. Len(c)
      BY <1>2
    <3>2. i # 1 => end + 4 <= c[i].at
      BY <3>1, LayoutFacts
    <3>3. i # 1 => (t.loc > 0 => EndOf(k, c[i]) <= t.loc \/ t.loc + 8 + t.size <= c[i].at)
      BY <3>1, LayoutFacts
    <3> QED BY <1>5, <2>1, <3>2, <3>3
  <2>5. z <= lo \/ hi <= a
    <3>1. CASE i = 1
      BY <1>6, <1>7, <2>2, <2>3, <3>1
    <3>2. CASE i # 1
      BY <1>6, <1>7, <2>2, <2>4, <3>2
    <3> QED BY <3>1, <3>2
  <2> QED BY <2>1, <2>5
<1> QED BY <1>8, <1>9

BlocksSame(k, d, e, c, end) ==
  /\ \A i \in 1 .. Len(c) : SameIn(d, e, c[i].at, EndOf(k, c[i]))
  /\ SameIn(d, e, end, end + 4)

\* A write for the text leaves the blocks and the neighbour.
LEMMA BlocksKept ==
  ASSUME NEW k \in NumberKinds, NEW d \in Seq(Nat), NEW x \in Seq(Nat), NEW e \in Seq(Nat),
         NEW c, NEW t, NEW end \in Nat, Layout(k, d, c, t, end),
         NEW lo \in Nat, NEW hi \in Nat, ForText(d, EndOf(k, c[1]), t, end, lo, hi), SameBut(e, x, lo, hi)
  PROVE  BlocksSame(k, x, e, c, end)
<1>1. IsChain(k, d, c)
  BY DEF Layout
<1>2. /\ \A i \in 1 .. Len(c) : c[i].at \in Nat /\ EndOf(k, c[i]) \in Nat
  BY <1>1, ChainFacts
<1>3. /\ \A i \in 1 .. Len(c) : EndOf(k, c[i]) <= lo \/ hi <= c[i].at
      /\ end + 4 <= lo \/ hi <= end
  BY TextIsApart
<1>4. end + 4 \in Nat
  OBVIOUS
<1>5. SameIn(x, e, end, end + 4)
  BY <1>3, <1>4, SameOutside
<1>6. \A i \in 1 .. Len(c) : SameIn(x, e, c[i].at, EndOf(k, c[i]))
  BY <1>2, <1>3, SameOutside
<1> QED BY <1>5, <1>6 DEF BlocksSame

\* The text is in its buffer, or goes to the end of the file.
Moves(d, t, t2) == (t2.loc = t.loc /\ t2.size = t.size) \/ t2.loc = Len(d)

\* With the blocks and the neighbour kept, the layout is that of the text.
LEMMA LayoutOfText ==
  ASSUME NEW k \in NumberKinds, NEW d \in Seq(Nat), NEW e \in Seq(Nat), Len(d) <= Len(e),
         NEW c, NEW t, NEW end \in Nat, Layout(k, d, c, t, end),
         BlocksSame(k, d, e, c, end), NEW t2, IsText(e, EndOf(k, c[1]), t2, end), Moves(d, t, t2)
  PROVE  /\ Layout(k, e, c, t2, end)
         /\ \A i \in 1 .. Len(c) : \A array : Holds(k, d, c[i], array) => Holds(k, e, c[i], array)
<1>1. IsChain(k, d, c) /\ NextTo(d, end) /\ \A i \in 2 .. Len(c) : Behind(k, c[i], t, end)
  BY DEF Layout
<1>2. Len(d) \in Nat /\ Len(e) \in Nat
  BY LenProperties
<1>s. /\ \A i \in 1 .. Len(c) : SameIn(d, e, c[i].at, EndOf(k, c[i]))
      /\ SameIn(d, e, end, end + 4)
  BY DEF BlocksSame
<1>3. /\ IsChain(k, e, c)
      /\ \A i \in 1 .. Len(c) : \A array : Holds(k, d, c[i], array) => Holds(k, e, c[i], array)
  BY <1>1, <1>2, <1>s, ChainKept
<1>4. NextTo(e, end)
  <2>1. SameIn(d, e, end, end + 4) /\ NextTo(d, end)
    BY <1>1, <1>s
  <2> QED BY <2>1 DEF NextTo, SameIn
<1>5. ASSUME NEW i \in 2 .. Len(c) PROVE Behind(k, c[i], t2, end)
  <2>1. Behind(k, c[i], t, end)
    BY <1>1
  <2>2. CASE t2.loc = t.loc /\ t2.size = t.size
    BY <2>1, <2>2 DEF Behind
  <2>3. CASE t2.loc = Len(d)
    <3>1. i \in 1 .. Len(c)
      BY <1>1, ChainFacts
    <3>2. EndOf(k, c[i]) <= Len(d)
      BY <1>1, <3>1, ChainFacts
    <3> QED BY <2>1, <2>3, <3>2 DEF Behind
  <2> QED BY <2>2, <2>3 DEF Moves
<1> QED BY <1>3, <1>4, <1>5 DEF Layout

\* The two parts of UpdateString: a buffer is written, and the variables are set.
TextPut(s, at, size, text) == Put(PutNumber(Seek(s, at), size, 8), Buffer(text, size))
AfterText(x, a, b, f) == [x EXCEPT !.grown = a, !.eof = b, !.back = f]

LEMMA AfterTextIs ==
  ASSUME NEW x \in Stream0, NEW a \in Nat, NEW b \in Nat, NEW f \in Nat
  PROVE  /\ AfterText(x, a, b, f) \in Stream0 /\ AfterText(x, a, b, f).d = x.d
         /\ AfterText(x, a, b, f).fp = x.fp /\ AfterText(x, a, b, f).ok = x.ok
BY DEF AfterText, Stream0

IsTextPut(u, s, at, size, text) ==
  /\ u \in Stream0 /\ u.fp = at + 8 + size /\ u.ok = s.ok
  /\ Len(u.d) = IF at + 8 + size > Len(s.d) THEN at + 8 + size ELSE Len(s.d)
  /\ NumberAt(u.d, at, 8) = size
  /\ \A i \in 1 .. size : ByteAt(u.d, at + 8 + i - 1) = Buffer(text, size)[i]
  /\ SameBut(u.d, s.d, at, at + 8 + size)

LEMMA TextPutIs ==
  ASSUME NEW s \in Stream0, NEW at \in Nat, NEW size \in Nat, NEW text \in Seq(Nat \ {0}), Len(text) < size
  PROVE  IsTextPut(TextPut(s, at, size, text), s, at, size, text)
<1>1. PICK x \in Stream0 : x = Seek(s, at) /\ x.fp = at /\ x.d = s.d /\ x.ok = s.ok
  BY SeekIs
<1> DEFINE u == Put(PutNumber(x, size, 8), Buffer(text, size))
<1>2. /\ u \in Stream0 /\ u.fp = x.fp + 8 + size /\ u.ok = x.ok
      /\ Len(u.d) = IF x.fp + 8 + size > Len(x.d) THEN x.fp + 8 + size ELSE Len(x.d)
      /\ NumberAt(u.d, x.fp, 8) = size
      /\ \A i \in 1 .. size : ByteAt(u.d, x.fp + 8 + i - 1) = Buffer(text, size)[i]
      /\ SameBut(u.d, x.d, x.fp, x.fp + 8 + size)
  BY PutTextIs
<1>3. u = TextPut(s, at, size, text)
  BY <1>1 DEF TextPut
<1> HIDE DEF u
<1> QED BY <1>1, <1>2, <1>3 DEF IsTextPut

\* What the code does with a text, in terms of where the text and its buffer are.
LEMMA UpdateStringIs ==
  ASSUME NEW s \in Stream0, s.ok, s.grown = 0, s.eof = 0, NEW text \in Seq(Nat \ {0}),
         NEW t, NEW end, IsText(s.d, s.fp, t, end), NEW back \in Nat, back = s.fp + 16 + t.own
  PROVE  /\ UpdateString(s, text) \in Stream0 /\ UpdateString(s, text).ok /\ UpdateString(s, text).fp = back
         /\ ~ (Len(text) + 1 > BufferSize(t)) =>
              UpdateString(s, text).d = TextPut(s, BufferAt(s.fp, t), BufferSize(t), text).d
         /\ Len(text) + 1 > BufferSize(t) =>
              UpdateString(s, text).d =
                PutNumber(Seek(TextPut(s, Len(s.d), Len(text) + 1, text), s.fp), Len(s.d), 8).d
<1>0. s.d \in Seq(Nat) /\ s.fp \in Nat /\ Len(s.d) \in Nat /\ Len(text) \in Nat
  BY LenProperties DEF Stream0
<1>1. /\ t.loc \in Nat /\ t.own \in Nat /\ BufferSize(t) \in Nat
      /\ NumberAt(s.d, s.fp, 8) = t.loc
      /\ (IF NumberAt(s.d, s.fp, 8) > 0 THEN NumberAt(s.d, s.fp, 8) ELSE s.fp + 8) = BufferAt(s.fp, t)
      /\ NumberAt(s.d, BufferAt(s.fp, t), 8) = BufferSize(t)
  BY <1>0, TextIs
<1>2. NumberAt(s.d, s.fp + 8, 8) = t.own
  BY DEF IsText
<1> DEFINE loc   == NumberAt(s.d, s.fp, 8)
           own   == s.fp + 8
           place == IF loc > 0 THEN loc ELSE own
           buf   == NumberAt(s.d, place, 8)
           grows == Len(text) + 1 > buf
           grown == IF grows THEN Len(text) + 1 ELSE s.grown
           eof   == IF grows THEN Len(s.d) ELSE s.eof
           at    == IF grows THEN Len(s.d) ELSE IF grown = 0 THEN place ELSE place + 8
           size  == IF grown > 0 THEN grown ELSE buf
           put   == TextPut(s, at, size, text)
           after == own + 8 + NumberAt(s.d, own, 8)
           res   == AfterText(BackToField(put, s.fp, loc, eof, after), grown, eof, after)
<1>3. UpdateString(s, text) = IF Huge \in {loc, buf} \/ ~s.ok THEN [s EXCEPT !.ok = FALSE] ELSE res
  BY DEF UpdateString, TextPut, AfterText
<1>4. loc = t.loc /\ place = BufferAt(s.fp, t) /\ buf = BufferSize(t)
  BY <1>1
<1>5. after = back
  <2>1. after = s.fp + 8 + 8 + t.own
    BY <1>2
  <2>2. PICK p \in Nat, o \in Nat : p = s.fp /\ o = t.own
    BY <1>0, <1>1
  <2>3. p + 8 + 8 + o = p + 16 + o
    OBVIOUS
  <2> QED BY <2>1, <2>2, <2>3
<1> HIDE DEF loc, place, buf, after
<1>6. UpdateString(s, text) = res
  <2>1. Huge \notin {loc, buf}
    BY <1>1, <1>4 DEF Huge
  <2> HIDE DEF res
  <2> QED BY <1>3, <2>1
<1>7. Len(s.d) > 0 /\ BufferAt(s.fp, t) \in Nat
  <2>1. end + 4 <= Len(s.d) /\ end = s.fp + 24 + t.own
    BY DEF IsText
  <2>2. PICK p \in Nat, o \in Nat, l \in Nat : p = s.fp /\ o = t.own /\ l = Len(s.d)
    BY <1>0, <1>1
  <2>3. p + 24 + o + 4 <= l
    BY <2>1, <2>2
  <2>4. l > 0
    BY <2>3
  <2> QED BY <1>0, <2>2, <2>4, TextIs
<1>8. ASSUME ~ (Len(text) + 1 > BufferSize(t))
      PROVE  /\ res \in Stream0 /\ res.ok /\ res.fp = back
             /\ res.d = TextPut(s, BufferAt(s.fp, t), BufferSize(t), text).d
  <2>1. grown = 0 /\ eof = 0 /\ at = place /\ size = buf
    BY <1>4, <1>8
  <2> HIDE DEF grown, eof, at, size
  <2>2. put = TextPut(s, BufferAt(s.fp, t), BufferSize(t), text)
    BY <1>4, <2>1
  <2> HIDE DEF put
  <2>3. put \in Stream0 /\ put.ok /\ put.fp = BufferAt(s.fp, t) + 8 + BufferSize(t)
    <3>1. Len(text) < BufferSize(t)
      BY <1>0, <1>1, <1>8
    <3>2. IsTextPut(TextPut(s, BufferAt(s.fp, t), BufferSize(t), text), s, BufferAt(s.fp, t), BufferSize(t), text)
      BY <1>1, <1>7, <3>1, TextPutIs
    <3> QED BY <2>2, <3>2 DEF IsTextPut
  <2> DEFINE x == BackToField(put, s.fp, loc, eof, after)
  <2>4. x = IF t.loc > 0 THEN Seek(put, back) ELSE put
    BY <1>4, <1>5, <2>1 DEF BackToField
  <2> HIDE DEF x
  <2>5. x \in Stream0 /\ x.d = put.d /\ x.ok /\ x.fp = back
    <3>1. CASE t.loc > 0
      BY <2>3, <2>4, <3>1, SeekIs, ZenonT(60)
    <3>2. CASE ~ (t.loc > 0)
      <4>1. BufferAt(s.fp, t) = s.fp + 8 /\ BufferSize(t) = t.own
        BY <3>2 DEF BufferAt, BufferSize
      <4>2. PICK p \in Nat, o \in Nat : p = s.fp /\ o = t.own
        BY <1>0, <1>1
      <4>3. p + 8 + 8 + o = p + 16 + o
        OBVIOUS
      <4>4. put.fp = back
        BY <2>3, <4>1, <4>2, <4>3
      <4> QED BY <2>3, <2>4, <3>2, <4>4
    <3> QED BY <3>1, <3>2
  <2>6. res = AfterText(x, 0, 0, back)
    BY <1>5, <2>1 DEF x
  <2> HIDE DEF res
  <2>7. /\ AfterText(x, 0, 0, back) \in Stream0 /\ AfterText(x, 0, 0, back).d = x.d
        /\ AfterText(x, 0, 0, back).fp = x.fp /\ AfterText(x, 0, 0, back).ok = x.ok
    <3>1. x \in Stream0 /\ 0 \in Nat
      BY <2>5
    <3> QED BY <3>1, AfterTextIs
  <2> QED BY <2>2, <2>5, <2>6, <2>7
<1>9. ASSUME Len(text) + 1 > BufferSize(t)
      PROVE  /\ res \in Stream0 /\ res.ok /\ res.fp = back
             /\ res.d = PutNumber(Seek(TextPut(s, Len(s.d), Len(text) + 1, text), s.fp), Len(s.d), 8).d
  <2>1. grown = Len(text) + 1 /\ eof = Len(s.d) /\ at = Len(s.d)
    BY <1>4, <1>9
  <2>2. size = Len(text) + 1
    <3>1. Len(text) + 1 > 0
      BY <1>0
    <3> HIDE DEF grown
    <3> QED BY <2>1, <3>1
  <2> HIDE DEF grown, eof, at, size
  <2>3. put = TextPut(s, Len(s.d), Len(text) + 1, text)
    BY <2>1, <2>2
  <2> HIDE DEF put
  <2>4. put \in Stream0 /\ put.ok
    <3>1. PICK z \in Nat : z = Len(text) + 1 /\ Len(text) < z
      BY <1>0
    <3>2. IsTextPut(TextPut(s, Len(s.d), z, text), s, Len(s.d), z, text)
      BY <1>0, <3>1, TextPutIs
    <3> QED BY <2>3, <3>1, <3>2 DEF IsTextPut
  <2>5. BackToField(put, s.fp, loc, eof, after) = Seek(PutNumber(Seek(put, s.fp), Len(s.d), 8), back)
    BY <1>5, <1>7, <2>1 DEF BackToField
  <2>6. Seek(put, s.fp) \in Stream0 /\ Seek(put, s.fp).ok
    BY <1>0, <2>4, SeekIs
  <2> DEFINE y == PutNumber(Seek(put, s.fp), Len(s.d), 8)
             x == Seek(y, back)
  <2>7. y \in Stream0 /\ y.ok
    <3>1. 8 \in Widths
      BY DEF Widths
    <3> QED BY <1>0, <2>6, <3>1, PutNumberIs
  <2> HIDE DEF y
  <2>8. x \in Stream0 /\ x.d = y.d /\ x.ok /\ x.fp = back
    BY <2>7, SeekIs, ZenonT(60)
  <2>9. res = AfterText(x, Len(text) + 1, Len(s.d), back)
    BY <1>5, <2>1, <2>5 DEF y
  <2> HIDE DEF x, res
  <2>10. PICK z \in Nat, l \in Nat : z = Len(text) + 1 /\ l = Len(s.d)
    BY <1>0
  <2>11. res = AfterText(x, z, l, back)
    BY <2>9, <2>10
  <2>12. res \in Stream0 /\ res.d = x.d /\ res.fp = x.fp /\ res.ok = x.ok
    BY <2>8, <2>11, AfterTextIs, ZenonT(60)
  <2> QED BY <2>3, <2>8, <2>12 DEF y
<1> HIDE DEF res
<1>10. Len(text) + 1 > BufferSize(t) \/ ~ (Len(text) + 1 > BufferSize(t))
  OBVIOUS
<1> QED BY <1>6, <1>8, <1>9, <1>10

\* The text after the array is written, and the blocks are as they were.
TextDone(k, d, u, c, t, end, text) ==
  /\ u \in Stream0 /\ u.ok /\ u.fp + 8 = end
  /\ t \in TextPlace /\ Layout(k, u.d, c, t, end) /\ TextAt(u.d, EndOf(k, c[1])) = text
  /\ \A i \in 1 .. Len(c) : \A array : Holds(k, d, c[i], array) => Holds(k, u.d, c[i], array)

\* A text that fits into its buffer.
LEMMA TextInPlace ==
  ASSUME NEW k \in NumberKinds, NEW s \in Stream0, s.ok, s.grown = 0, s.eof = 0,
         NEW c, NEW t, NEW end \in Nat, Layout(k, s.d, c, t, end), s.fp = EndOf(k, c[1]),
         NEW text \in Seq(Nat \ {0}), Len(text) + 1 <= BufferSize(t),
         NEW u, u = UpdateString(s, text)
  PROVE  TextDone(k, s.d, u, c, t, end, text)
<1>1. PICK d \in Seq(Nat), place \in Nat : d = s.d /\ place = s.fp
  BY DEF Stream0
<1>2. IsText(d, place, t, end)
  BY <1>1 DEF Layout
<1>3. /\ t.loc \in Nat /\ t.own \in Nat /\ t.size \in Nat
      /\ BufferAt(place, t) \in Nat /\ BufferSize(t) \in Nat
  BY <1>2, TextIs
<1>4. PICK at \in Nat, size \in Nat, own \in Nat, loc \in Nat, len \in Nat :
        /\ at = BufferAt(place, t) /\ size = BufferSize(t) /\ own = t.own /\ loc = t.loc /\ len = Len(d)
  BY <1>3, LenProperties
<1>5. /\ end = place + 24 + own /\ end + 4 <= len
      /\ loc > 0 => end + 4 <= loc /\ at = loc /\ size = t.size /\ at + 8 + size <= len
      /\ ~ (loc > 0) => at = place + 8 /\ size = own
  BY <1>2, <1>4 DEF IsText, BufferAt, BufferSize
<1>6. PICK back \in Nat : back = place + 16 + own
  OBVIOUS
<1>7. at + 8 + size <= len /\ place + 8 <= at /\ (~ (loc > 0) => at + 8 + size = back) /\ back + 8 = end
  BY <1>5, <1>6
<1>8. Len(text) \in Nat /\ Len(text) < size
  <2>1. PICK l \in Nat : l = Len(text)
    BY LenProperties
  <2>2. l + 1 <= size
    BY <1>4, <2>1
  <2>3. l < size
    BY <2>2
  <2> QED BY <2>1, <2>3
<1> DEFINE put == TextPut(s, at, size, text)
<1>10. /\ put \in Stream0
       /\ Len(put.d) = IF at + 8 + size > len THEN at + 8 + size ELSE len
       /\ NumberAt(put.d, at, 8) = size
       /\ \A i \in 1 .. size : ByteAt(put.d, at + 8 + i - 1) = Buffer(text, size)[i]
       /\ SameBut(put.d, d, at, at + 8 + size)
  <2>1. IsTextPut(put, s, at, size, text)
    BY <1>8, TextPutIs
  <2> HIDE DEF put
  <2> QED BY <1>1, <1>4, <2>1 DEF IsTextPut
<1>13. u \in Stream0 /\ u.d = put.d /\ u.fp = back /\ u.ok
  <2>1. IsText(s.d, s.fp, t, end) /\ back = s.fp + 16 + t.own
    BY <1>1, <1>2, <1>4, <1>6
  <2>2. ~ (Len(text) + 1 > BufferSize(t))
    BY <1>4, <1>8
  <2>3. /\ UpdateString(s, text) \in Stream0 /\ UpdateString(s, text).ok /\ UpdateString(s, text).fp = back
        /\ UpdateString(s, text).d = TextPut(s, BufferAt(s.fp, t), BufferSize(t), text).d
    BY <2>1, <2>2, UpdateStringIs, ZenonT(60)
  <2> QED BY <1>1, <1>4, <2>3
<1> HIDE DEF put
<1>e. PICK e \in Seq(Nat) : e = put.d
  BY <1>10 DEF Stream0
<1>14. Len(e) = len /\ SameBut(e, d, at, at + 8 + size) /\ NumberAt(e, at, 8) = size /\ at + 8 + size \in Nat
  <2>1. ~ (at + 8 + size > len)
    BY <1>7
  <2> QED BY <1>10, <1>e, <2>1
<1>15. IsText(e, place, t, end)
  <2>w. 8 \in Widths
    BY DEF Widths
  <2>1. place + 8 \in Nat /\ place + 8 + 8 \in Nat
    OBVIOUS
  <2>2. NumberAt(e, place, 8) = NumberAt(d, place, 8)
    BY <1>7, <1>14, <2>w, NumberOutside
  <2>3. NumberAt(e, place + 8, 8) = t.own
    <3>1. CASE loc > 0
      <4>1. place + 8 + 8 <= at
        BY <1>5, <3>1
      <4>2. NumberAt(e, place + 8, 8) = NumberAt(d, place + 8, 8)
        BY <1>14, <2>w, <2>1, <4>1, NumberOutside
      <4> QED BY <1>2, <4>2 DEF IsText
    <3>2. CASE ~ (loc > 0)
      BY <1>4, <1>5, <1>14, <3>2
    <3> QED BY <3>1, <3>2
  <2>4. t.loc > 0 => NumberAt(e, t.loc, 8) = t.size
    BY <1>4, <1>5, <1>14
  <2> QED BY <1>2, <1>4, <1>14, <2>2, <2>3, <2>4 DEF IsText
<1>16. TextAt(e, place) = text
  <2>1. TextAt(e, place) = [i \in 1 .. TextLength(e, at + 8, size) |-> ByteAt(e, at + 8 + i - 1)]
    BY <1>4, <1>15, TextAtBuffer
  <2>2. \A i \in 1 .. size : ByteAt(e, at + 8 + i - 1) = Buffer(text, size)[i]
    BY <1>10, <1>e
  <2>3. at + 8 \in Nat
    OBVIOUS
  <2>4. [i \in 1 .. TextLength(e, at + 8, size) |-> ByteAt(e, at + 8 + i - 1)] = text
    BY <1>8, <2>2, <2>3, TextRead
  <2> QED BY <2>1, <2>4
<1>17. BlocksSame(k, d, e, c, end)
  <2>1. ForText(d, EndOf(k, c[1]), t, end, at, at + 8 + size)
    <3>1. CASE loc > 0
      <4>1. at = loc /\ size = t.size /\ at <= at /\ at + 8 + size <= at + 8 + size
        BY <1>5, <3>1
      <4> QED BY <1>4, <3>1, <4>1 DEF ForText
    <3>2. CASE ~ (loc > 0)
      <4>1. place <= at /\ at + 8 + size <= end
        BY <1>7, <3>2
      <4> QED BY <1>1, <4>1 DEF ForText
    <3> QED BY <3>1, <3>2
  <2>2. Layout(k, d, c, t, end)
    BY <1>1
  <2> QED BY <1>14, <2>1, <2>2, BlocksKept
<1>18. /\ Layout(k, e, c, t, end)
       /\ \A i \in 1 .. Len(c) : \A array : Holds(k, d, c[i], array) => Holds(k, e, c[i], array)
  <2>1. Layout(k, d, c, t, end) /\ IsText(e, EndOf(k, c[1]), t, end) /\ Len(d) <= Len(e)
    BY <1>1, <1>4, <1>14, <1>15
  <2>2. Moves(d, t, t)
    BY DEF Moves
  <2> QED BY <1>17, <2>1, <2>2, LayoutOfText
<1>19. t \in TextPlace
  BY <1>2 DEF IsText
<1> QED BY <1>1, <1>7, <1>13, <1>16, <1>18, <1>19, <1>e DEF TextDone

\* A number that is put somewhere.
IsNumberPut(u, s, at, v, m) ==
  /\ u \in Stream0 /\ u.fp = at + m /\ u.ok = s.ok
  /\ Len(u.d) = IF at + m > Len(s.d) THEN at + m ELSE Len(s.d)
  /\ NumberAt(u.d, at, m) = v
  /\ SameBut(u.d, s.d, at, at + m)

LEMMA NumberPutIs ==
  ASSUME NEW s \in Stream0, NEW at \in Nat, NEW v \in Nat, NEW m \in Widths
  PROVE  IsNumberPut(PutNumber(Seek(s, at), v, m), s, at, v, m)
<1>1. PICK x \in Stream0 : x = Seek(s, at) /\ x.fp = at /\ x.d = s.d /\ x.ok = s.ok
  BY SeekIs
<1>2. /\ PutNumber(x, v, m) \in Stream0 /\ PutNumber(x, v, m).fp = x.fp + m /\ PutNumber(x, v, m).ok = x.ok
      /\ Len(PutNumber(x, v, m).d) = IF x.fp + m > Len(x.d) THEN x.fp + m ELSE Len(x.d)
      /\ NumberAt(PutNumber(x, v, m).d, x.fp, m) = v
      /\ SameBut(PutNumber(x, v, m).d, x.d, x.fp, x.fp + m)
  BY PutNumberIs
<1> QED BY <1>1, <1>2 DEF IsNumberPut

\* A text that outgrows its buffer goes to the end of the file.
IsMoved(t2, d, t, text) == t2 \in TextPlace /\ t2.loc = Len(d) /\ t2.own = t.own /\ t2.size = Len(text) + 1

\* A text that outgrows its buffer goes to the end of the file, and its place into the record.
LEMMA TextMoved ==
  ASSUME NEW k \in NumberKinds, NEW s \in Stream0, s.ok, s.grown = 0, s.eof = 0,
         NEW c, NEW t, NEW end \in Nat, Layout(k, s.d, c, t, end), s.fp = EndOf(k, c[1]),
         NEW text \in Seq(Nat \ {0}), Len(text) + 1 > BufferSize(t),
         NEW u, u = UpdateString(s, text),
         NEW t2, IsMoved(t2, s.d, t, text)
  PROVE  TextDone(k, s.d, u, c, t2, end, text)
<1>1. PICK d \in Seq(Nat), place \in Nat : d = s.d /\ place = s.fp
  BY DEF Stream0
<1>2. IsText(d, place, t, end)
  BY <1>1 DEF Layout
<1>3. t.loc \in Nat /\ t.own \in Nat /\ t.size \in Nat
  BY <1>2, TextIs
<1>4. PICK size \in Nat, own \in Nat, len \in Nat : size = Len(text) + 1 /\ own = t.own /\ len = Len(d) /\ Len(text) < size
  BY <1>3, LenProperties
<1>5. end = place + 24 + own /\ end + 4 <= len
  BY <1>2, <1>4 DEF IsText
<1>6. PICK back \in Nat : back = place + 16 + own
  OBVIOUS
<1>7. place + 16 <= len /\ back + 8 = end /\ place + 8 <= end /\ len > 0 /\ size > 0
  <2>1. size > 0
    BY <1>4, LenProperties
  <2> QED BY <1>5, <1>6, <2>1
<1>8. t2.loc = len /\ t2.own = own /\ t2.size = size /\ t2 \in TextPlace
  BY <1>1, <1>4 DEF IsMoved
<1> DEFINE x == TextPut(s, len, size, text)
           y == PutNumber(Seek(x, place), len, 8)
<1>9. /\ x \in Stream0 /\ x.ok
      /\ Len(x.d) = len + 8 + size
      /\ NumberAt(x.d, len, 8) = size
      /\ \A i \in 1 .. size : ByteAt(x.d, len + 8 + i - 1) = Buffer(text, size)[i]
      /\ SameBut(x.d, d, len, len + 8 + size)
  <2>1. IsTextPut(x, s, len, size, text)
    BY <1>4, TextPutIs
  <2>2. len + 8 + size > len
    OBVIOUS
  <2> HIDE DEF x
  <2> QED BY <1>1, <1>4, <2>1, <2>2 DEF IsTextPut
<1> HIDE DEF x
<1>w. 8 \in Widths
  BY DEF Widths
<1>10. /\ y \in Stream0 /\ Len(y.d) = len + 8 + size
       /\ NumberAt(y.d, place, 8) = len /\ SameBut(y.d, x.d, place, place + 8)
  <2>1. IsNumberPut(y, x, place, len, 8)
    BY <1>9, <1>w, NumberPutIs
  <2>2. ~ (place + 8 > len + 8 + size)
    BY <1>7
  <2> HIDE DEF y
  <2> QED BY <1>9, <2>1, <2>2 DEF IsNumberPut
<1>11. u \in Stream0 /\ u.d = y.d /\ u.fp = back /\ u.ok
  <2>1. IsText(s.d, s.fp, t, end) /\ back = s.fp + 16 + t.own
    BY <1>1, <1>2, <1>4, <1>6
  <2>2. /\ UpdateString(s, text) \in Stream0 /\ UpdateString(s, text).ok /\ UpdateString(s, text).fp = back
        /\ UpdateString(s, text).d = PutNumber(Seek(TextPut(s, Len(s.d), Len(text) + 1, text), s.fp), Len(s.d), 8).d
    BY <2>1, UpdateStringIs, ZenonT(40)
  <2> QED BY <1>1, <1>4, <2>2 DEF x
<1> HIDE DEF y
<1>e. PICK e \in Seq(Nat), g \in Seq(Nat) : e = y.d /\ g = x.d
  BY <1>9, <1>10 DEF Stream0
<1>12. len + 8 + size \in Nat /\ place + 8 \in Nat /\ len + 8 \in Nat /\ len <= len + 8 + size /\ place <= place
  OBVIOUS
<1>13. /\ Len(e) = len + 8 + size /\ Len(g) = len + 8 + size
       /\ SameBut(g, d, len, len + 8 + size) /\ SameBut(e, g, place, place + 8)
  BY <1>9, <1>10, <1>e
<1>14. IsText(e, place, t2, end)
  <2>1. NumberAt(e, place, 8) = len
    BY <1>10, <1>e
  <2>2. NumberAt(e, place + 8, 8) = own
    <3>1. place + 8 + 8 <= len /\ place + 8 >= place + 8
      BY <1>7
    <3>2. NumberAt(g, place + 8, 8) = NumberAt(d, place + 8, 8)
      BY <1>12, <1>13, <1>w, <3>1, NumberOutside
    <3>3. NumberAt(e, place + 8, 8) = NumberAt(g, place + 8, 8)
      BY <1>12, <1>13, <1>w, <3>1, NumberOutside
    <3> QED BY <1>2, <1>4, <3>2, <3>3 DEF IsText
  <2>3. NumberAt(e, len, 8) = size
    <3>1. len >= place + 8
      BY <1>7
    <3>2. NumberAt(e, len, 8) = NumberAt(g, len, 8)
      BY <1>12, <1>13, <1>w, <3>1, NumberOutside
    <3> QED BY <1>9, <1>e, <3>2
  <2>4. end + 4 <= Len(e) /\ len + 8 + size <= Len(e)
    BY <1>5, <1>13
  <2> QED BY <1>5, <1>8, <2>1, <2>2, <2>3, <2>4 DEF IsText
<1>15. TextAt(e, place) = text
  <2>1. BufferAt(place, t2) = len /\ BufferSize(t2) = size
    BY <1>7, <1>8 DEF BufferAt, BufferSize
  <2>2. TextAt(e, place) = [i \in 1 .. TextLength(e, len + 8, size) |-> ByteAt(e, len + 8 + i - 1)]
    <3>1. TextAt(e, place) =
            [i \in 1 .. TextLength(e, BufferAt(place, t2) + 8, BufferSize(t2)) |-> ByteAt(e, BufferAt(place, t2) + 8 + i - 1)]
      BY <1>14, TextAtBuffer
    <3> QED BY <2>1, <3>1
  <2>3. ASSUME NEW i \in 1 .. size PROVE ByteAt(e, len + 8 + i - 1) = Buffer(text, size)[i]
    <3>1. len + 8 + i - 1 \in Nat /\ len + 8 + i - 1 >= place + 8
      BY <1>7
    <3>2. ByteAt(e, len + 8 + i - 1) = ByteAt(g, len + 8 + i - 1)
      BY <1>13, <3>1 DEF SameBut
    <3> QED BY <1>9, <1>e, <3>2
  <2>4. [i \in 1 .. TextLength(e, len + 8, size) |-> ByteAt(e, len + 8 + i - 1)] = text
    <3>1. PICK p \in Nat : p = len + 8
      BY <1>12
    <3>2. \A i \in 1 .. size : ByteAt(e, p + i - 1) = Buffer(text, size)[i]
      BY <2>3, <3>1
    <3>3. Len(text) < size
      BY <1>4
    <3>4. [i \in 1 .. TextLength(e, p, size) |-> ByteAt(e, p + i - 1)] = text
      BY <3>2, <3>3, TextRead, ZenonT(40)
    <3> QED BY <3>1, <3>4
  <2> QED BY <2>2, <2>4
<1>16. BlocksSame(k, d, e, c, end)
  <2>0. Layout(k, d, c, t, end)
    BY <1>1
  <2>1. ForText(d, EndOf(k, c[1]), t, end, len, len + 8 + size)
    <3>1. len <= len
      OBVIOUS
    <3> QED BY <1>4, <3>1 DEF ForText
  <2>2. ForText(d, EndOf(k, c[1]), t, end, place, place + 8)
    BY <1>1, <1>7, <1>12 DEF ForText
  <2>3. BlocksSame(k, d, g, c, end)
    BY <1>12, <1>13, <2>0, <2>1, BlocksKept
  <2>4. BlocksSame(k, g, e, c, end)
    BY <1>12, <1>13, <2>0, <2>2, BlocksKept
  <2> QED BY <2>3, <2>4 DEF BlocksSame, SameIn
<1>17. /\ Layout(k, e, c, t2, end)
       /\ \A i \in 1 .. Len(c) : \A array : Holds(k, d, c[i], array) => Holds(k, e, c[i], array)
  <2>1. Layout(k, d, c, t, end) /\ IsText(e, EndOf(k, c[1]), t2, end) /\ Len(d) <= Len(e)
    <3>1. len <= len + 8 + size
      OBVIOUS
    <3> QED BY <1>1, <1>4, <1>8, <1>13, <1>14, <3>1
  <2>2. Moves(d, t, t2)
    BY <1>4, <1>8 DEF Moves
  <2> QED BY <1>16, <2>1, <2>2, LayoutOfText
<1> QED BY <1>1, <1>7, <1>8, <1>11, <1>15, <1>17, <1>e DEF TextDone

\* write_file of the text after the array.
LEMMA TextWritten ==
  ASSUME NEW k \in NumberKinds, NEW s \in Stream0, s.ok, s.grown = 0, s.eof = 0,
         NEW c, NEW t, NEW end \in Nat, Layout(k, s.d, c, t, end), s.fp = EndOf(k, c[1]),
         NEW text \in Seq(Nat \ {0}),
         NEW u, u = UpdateString(s, text)
  PROVE  \E t2 : TextDone(k, s.d, u, c, t2, end, text)
<1>1. Len(text) \in Nat /\ BufferSize(t) \in Nat
  <2>1. t.own \in Nat /\ t.size \in Nat
    BY LayoutFacts
  <2> QED BY <2>1, LenProperties DEF BufferSize
<1>2. ASSUME Len(text) + 1 <= BufferSize(t) PROVE TextDone(k, s.d, u, c, t, end, text)
  BY <1>2, TextInPlace
<1>3. ASSUME Len(text) + 1 > BufferSize(t) PROVE \E t2 : TextDone(k, s.d, u, c, t2, end, text)
  <2>1. Len(s.d) \in Nat /\ t.own \in Nat /\ Len(text) + 1 \in Nat
    BY <1>1, LayoutFacts, LenProperties DEF Stream0
  <2>2. PICK t2 : IsMoved(t2, s.d, t, text)
    <3>1. [loc |-> Len(s.d), own |-> t.own, size |-> Len(text) + 1] \in TextPlace
      BY <2>1 DEF TextPlace
    <3> QED BY <3>1 DEF IsMoved
  <2>3. TextDone(k, s.d, u, c, t2, end, text)
    BY <1>3, <2>2, TextMoved
  <2> QED BY <2>3
<1>4. Len(text) + 1 <= BufferSize(t) \/ Len(text) + 1 > BufferSize(t)
  BY <1>1
<1> QED BY <1>2, <1>3, <1>4

-----------------------------------------------------------------------------
(* A block that is added to the chain.                                       *)

\* The record is in the file e as it was in d.
SameRecord(k, d, e, c, t, end) ==
  /\ Layout(k, e, c, t, end)
  /\ \A i \in 1 .. Len(c) : \A array : Holds(k, d, c[i], array) => Holds(k, e, c[i], array)
  /\ TextAt(e, EndOf(k, c[1])) = TextAt(d, EndOf(k, c[1]))

\* Such a write keeps the record as it is.
LEMMA FreeWrite ==
  ASSUME NEW k \in NumberKinds, NEW d \in Seq(Nat), NEW e \in Seq(Nat), Len(d) <= Len(e),
         NEW c, NEW t, NEW end \in Nat, Layout(k, d, c, t, end),
         NEW lo \in Nat, NEW hi \in Nat, SameBut(e, d, lo, hi), Free(d, end, lo, hi)
  PROVE  SameRecord(k, d, e, c, t, end)
<1>1. Layout(k, e, c, t, end)
  BY FreeBytes
<1>2. \A i \in 1 .. Len(c) : \A array : Holds(k, d, c[i], array) => Holds(k, e, c[i], array)
  BY FreeBytes
<1>3. TextAt(e, EndOf(k, c[1])) = TextAt(d, EndOf(k, c[1]))
  BY FreeBytes
<1> QED BY <1>1, <1>2, <1>3 DEF SameRecord

\* A new block is added to the end of the file; the record does not have it yet.
LEMMA BlockAppended ==
  ASSUME NEW k \in NumberKinds, NEW s \in Stream0, s.fp = Len(s.d),
         NEW c, NEW t, NEW end \in Nat, Layout(k, s.d, c, t, end),
         NEW array \in Seq(Element), Len(array) <= MaxElements, Total(c) <= Len(array),
         NEW u, u = NewBlock(k, s, SubSeq(array, Total(c) + 1, Len(array)))
  PROVE  /\ u \in Stream0 /\ u.ok = s.ok
         /\ SameRecord(k, s.d, u.d, c, t, end)
         /\ \E b \in Piece : b.at = Len(s.d) /\ Pending(k, u.d, c, t, end, b, array)
<1>1. PICK d \in Seq(Nat) : d = s.d
  BY DEF Stream0
<1>2. IsChain(k, d, c)
  BY <1>1 DEF Layout
<1>3. Total(c) \in Nat
  BY <1>2, ChainFacts
<1>4. PICK a \in Nat, m \in Nat, len \in Nat, sz \in Nat :
        a = Total(c) /\ m = Len(array) /\ len = Len(d) /\ m = a + sz /\ sz <= m
  <2>1. PICK a \in Nat, m \in Nat, len \in Nat : a = Total(c) /\ m = Len(array) /\ len = Len(d) /\ a <= m
    BY <1>3, LenProperties
  <2>2. m - a \in Nat /\ m = a + (m - a) /\ m - a <= m
    BY <2>1
  <2> QED BY <2>1, <2>2
<1>5. PICK b \in Piece : b.at = len /\ b.size = sz /\ b.pad = 0 /\ b.from = a
  <2>1. [at |-> len, size |-> sz, pad |-> 0, from |-> a] \in Piece
    BY DEF Piece
  <2> QED BY <2>1
<1> DEFINE es == SubSeq(array, a + 1, a + sz)
<1>6. es \in Seq(Element) /\ Len(es) = b.size /\ \A j \in 1 .. b.size : es[j] = array[b.from + j]
  <2>1. a + sz <= Len(array)
    BY <1>4
  <2> QED BY <1>5, <2>1, PartIs
<1>7. u = NewBlock(k, s, es)
  BY <1>4
<1> HIDE DEF es
<1>8. /\ u \in Stream0 /\ u.ok = s.ok
      /\ u.fp = EndOf(k, b) /\ Len(u.d) = EndOf(k, b)
      /\ SameBut(u.d, d, Len(d), EndOf(k, b))
      /\ InFile(k, u.d, b, 0) /\ Holds(k, u.d, b, array)
  <2>1. b.at = Len(s.d) /\ b.pad = 0 /\ s.fp = Len(s.d)
    BY <1>1, <1>4, <1>5
  <2>2. /\ NewBlock(k, s, es) \in Stream0 /\ NewBlock(k, s, es).ok = s.ok
        /\ NewBlock(k, s, es).fp = EndOf(k, b) /\ Len(NewBlock(k, s, es).d) = EndOf(k, b)
        /\ SameBut(NewBlock(k, s, es).d, s.d, Len(s.d), EndOf(k, b))
        /\ InFile(k, NewBlock(k, s, es).d, b, 0)
        /\ Holds(k, NewBlock(k, s, es).d, b, array)
    BY <1>6, <2>1, NewBlockIs
  <2> QED BY <1>1, <1>7, <2>2
<1>9. PICK z \in Nat, e \in Seq(Nat) : z = EndOf(k, b) /\ e = u.d /\ len <= z
  <2>1. PICK z \in Nat, y \in Nat, x \in Nat, l \in Nat :
          z = EndOf(k, b) /\ y = Bytes(k, b.size) /\ x = Bytes(k, b.pad) /\ l = LinkAt(k, b)
    BY PieceEnds
  <2>2. l = len + 8 + y + x /\ z = l + 8
    BY <1>5, <2>1, PieceEnds
  <2>3. len <= z
    BY <2>2
  <2> QED BY <1>8, <2>1, <2>3 DEF Stream0
<1>10. SameRecord(k, d, e, c, t, end)
  <2>1. Layout(k, d, c, t, end) /\ Len(d) <= Len(e) /\ SameBut(e, d, len, z)
    BY <1>1, <1>4, <1>8, <1>9
  <2>2. Free(d, end, len, z)
    BY <1>4 DEF Free
  <2> QED BY <2>1, <2>2, FreeWrite
<1>11. Pending(k, e, c, t, end, b, array)
  <2>1. \A i \in 1 .. Len(c) : EndOf(k, c[i]) <= b.at
    BY <1>2, <1>4, <1>5, ChainFacts
  <2>2. end + 4 <= b.at /\ (t.loc > 0 => t.loc + 8 + t.size <= b.at)
    <3>1. Layout(k, d, c, t, end)
      BY <1>1
    <3> QED BY <1>4, <1>5, <3>1, LayoutFacts, ZenonT(60)
  <2>3. b.from = Total(c) /\ b.from + b.size = Len(array) /\ b.size <= MaxElements
    <3>1. sz <= MaxElements
      <4>1. m <= MaxElements
        BY <1>4
      <4> QED BY <1>4, <4>1 DEF MaxElements
    <3> QED BY <1>4, <1>5, <3>1
  <2> QED BY <1>5, <1>8, <1>9, <2>1, <2>2, <2>3 DEF Pending
<1> QED BY <1>1, <1>4, <1>5, <1>8, <1>9, <1>10, <1>11

\* What read_file makes of the chain is what the conditions on an update speak of.
LEMMA BlocksAre ==
  ASSUME NEW k \in NumberKinds, NEW d \in Seq(Nat), NEW c, IsChain(k, d, c),
         NEW from, from = ReadFrom(k, d)
  PROVE  /\ Len(Blocks(from)) = Len(c)
         /\ \A i \in 1 .. Len(c) : /\ Blocks(from)[i].size = c[i].size /\ Blocks(from)[i].pad = c[i].pad
                                   /\ Before(from, i) = c[i].from
<1>1. /\ Len(c) \in Nat /\ 1 \in 1 .. Len(c) /\ Total(c) \in Nat
      /\ \A i \in 1 .. Len(c) : c[i] \in Piece
      /\ \A i \in 1 .. Len(c) : c[i].from \in Nat
  BY ChainFacts
<1>2. c[1].at = ArrayAt /\ c[1].from = 0
  BY DEF IsChain
<1>3. \A i \in 1 .. Len(c) : IsRead(k, d, c, i)
  BY ChainIsRead
<1>4. /\ Len(from[ArrayAt].blocks) = Len(c)
      /\ \A j \in 1 .. Len(c) : from[ArrayAt].blocks[j] = BlockAt(k, d, c[j].at)
      /\ Len(from[ArrayAt].array) = Total(c)
  <2>1. IsRead(k, d, c, 1)
    BY <1>1, <1>3
  <2>2. /\ Len(from[ArrayAt].blocks) = Len(c) - 1 + 1
        /\ \A j \in 1 .. Len(c) - 1 + 1 : from[ArrayAt].blocks[j] = BlockAt(k, d, c[1 + j - 1].at)
        /\ Len(from[ArrayAt].array) = Total(c) - c[1].from
    BY <1>2, <2>1 DEF IsRead
  <2>3. Len(c) - 1 + 1 = Len(c) /\ Total(c) - c[1].from = Total(c) /\ \A j \in 1 .. Len(c) : 1 + j - 1 = j
    BY <1>1, <1>2
  <2> QED BY <2>2, <2>3
<1>5. ASSUME NEW i \in 1 .. Len(c)
      PROVE  /\ Blocks(from)[i].size = c[i].size /\ Blocks(from)[i].pad = c[i].pad
             /\ Before(from, i) = c[i].from
  <2>1. Bounded(k, c[i]) /\ InFile(k, d, c[i], NextAt(c, i)) /\ c[i] \in Piece
    BY <1>1 DEF IsChain
  <2>2. /\ BlockAt(k, d, c[i].at).size = c[i].size
        /\ BlockAt(k, d, c[i].at).pad = c[i].pad
    BY <2>1, BlockFields
  <2>3. BlockAt(k, d, c[i].at).at = c[i].at
    <3> DEFINE es == [j \in 1 .. c[i].size |-> <<NumberAt(d, c[i].at + 8 + Bytes(k, j - 1), Width(k))>>]
    <3>1. BlockAt(k, d, c[i].at) = [at |-> c[i].at, size |-> c[i].size, pad |-> c[i].pad, link |-> LinkAt(k, c[i]),
                                    next |-> NextAt(c, i), elements |-> es]
      BY <2>1, BlockAtIs
    <3> HIDE DEF es
    <3> QED BY <3>1
  <2>4. Blocks(from)[i] = BlockAt(k, d, c[i].at)
    BY <1>4 DEF Blocks
  <2>5. Len(from[c[i].at].array) = Total(c) - c[i].from
    BY <1>3 DEF IsRead
  <2>6. Before(from, i) = Len(from[ArrayAt].array) - Len(from[c[i].at].array)
    BY <2>3, <2>4 DEF Before
  <2>7. Before(from, i) = Total(c) - (Total(c) - c[i].from)
    BY <1>4, <2>5, <2>6
  <2>8. PICK x \in Nat, y \in Nat : x = Total(c) /\ y = c[i].from
    BY <1>1
  <2>9. x - (x - y) = y
    OBVIOUS
  <2> QED BY <2>2, <2>4, <2>7, <2>8, <2>9
<1> QED BY <1>4, <1>5 DEF Blocks

\* An update that the code handles when it starts finds blocks that it can fill.
LEMMA HandledFits ==
  ASSUME kind \in NumberKinds, NEW d \in Seq(Nat), NEW c, IsChain(kind, d, c),
         NEW rec, Handled(rec, ReadFrom(kind, d)), Len(rec.array) \in Nat
  PROVE  /\ FutureFits(kind, c, 0, Len(rec.array))
         /\ kind = "byte" => Len(rec.array) >= Len(stored.array)
<1> DEFINE from == ReadFrom(kind, d)
           len == Len(rec.array)
<1>1. /\ Len(Blocks(from)) = Len(c)
      /\ \A i \in 1 .. Len(c) : /\ Blocks(from)[i].size = c[i].size /\ Blocks(from)[i].pad = c[i].pad
                                /\ Before(from, i) = c[i].from
  BY BlocksAre
<1>2. Len(c) \in Nat /\ 1 \in 1 .. Len(c) /\ \A i \in 1 .. Len(c) : c[i].size \in Nat /\ c[i].from \in Nat
  BY ChainFacts
<1>h. Handled(rec, from)
  OBVIOUS
<1> HIDE DEF from
<1>3. \A i \in 2 .. Len(c) :
        (\A j \in 1 .. i - 1 : GoesOn(Blocks(from)[j], Before(from, j), len)) =>
          /\ len >= Blocks(from)[i].size
          /\ len > Blocks(from)[i].size /\ Before(from, i) >= Blocks(from)[i].size =>
               \/ len > Before(from, i) + Blocks(from)[i].size
               \/ /\ Blocks(from)[i].pad = 0
                  /\ len = Before(from, i) + Blocks(from)[i].size \/ i = Len(c)
  BY <1>1, <1>h DEF Handled
<1>4. kind = "byte" => len >= Len(stored.array)
  BY <1>h DEF Handled
<1>5. kind = "double" /\ Len(c) > 1 => len <= Blocks(from)[1].size
  BY <1>1, <1>h DEF Handled
<1>6. \A j \in 1 .. Len(c) : Goes(kind, c[j], len) => GoesOn(Blocks(from)[j], Before(from, j), len)
  BY <1>1 DEF Goes, GoesOn
<1>7. ASSUME NEW i \in 2 .. Len(c), \A j \in 0 + 1 .. i - 1 : Goes(kind, c[j], len) PROVE Fits(kind, c, i, len)
  <2>1. i \in 1 .. Len(c) /\ \A j \in 1 .. i - 1 : j \in 1 .. Len(c) /\ j \in 0 + 1 .. i - 1
    BY <1>2
  <2>2. \A j \in 1 .. i - 1 : GoesOn(Blocks(from)[j], Before(from, j), len)
    BY <1>6, <1>7, <2>1
  <2>3. kind # "double"
    <3>1. SUFFICES ASSUME kind = "double" PROVE FALSE
      OBVIOUS
    <3>2. Len(c) > 1 /\ 1 \in 0 + 1 .. i - 1
      BY <1>2
    <3>3. len <= c[1].size
      BY <1>1, <1>2, <1>5, <3>1, <3>2
    <3>4. c[1].size < len
      BY <1>7, <3>2 DEF Goes
    <3>5. PICK x \in Nat, y \in Nat : x = c[1].size /\ y = len
      BY <1>2
    <3> QED BY <3>3, <3>4, <3>5
  <2>4. /\ len >= c[i].size
        /\ len > c[i].size /\ c[i].from >= c[i].size =>
             \/ len > c[i].from + c[i].size
             \/ /\ c[i].pad = 0
                /\ len = c[i].from + c[i].size \/ i = Len(c)
    BY <1>1, <1>3, <2>1, <2>2
  <2>5. PICK x \in Nat, y \in Nat, z \in Nat : x = c[i].size /\ y = c[i].from /\ z = len
    BY <1>2, <2>1
  <2>6. /\ z >= x
        /\ z > x /\ y >= x => z > y + x \/ (c[i].pad = 0 /\ (z = y + x \/ i = Len(c)))
    BY <2>4, <2>5
  <2>7. /\ x <= z
        /\ x < z /\ y >= x => y + x < z \/ (c[i].pad = 0 /\ (y + x = z \/ i = Len(c)))
    BY <2>6
  <2> QED BY <2>3, <2>5, <2>7 DEF Fits
<1>8. FutureFits(kind, c, 0, len)
  BY <1>7 DEF FutureFits
<1> QED BY <1>4, <1>8

\* Without its link a block is its numbers and its elements.
LEMMA ElementsKept ==
  ASSUME NEW k \in NumberKinds, NEW d, NEW e, NEW b \in Piece, SameIn(d, e, b.at, LinkAt(k, b))
  PROVE  /\ NumberAt(d, b.at, 4) = NumberAt(e, b.at, 4) /\ NumberAt(d, b.at + 4, 4) = NumberAt(e, b.at + 4, 4)
         /\ \A array : Holds(k, d, b, array) => Holds(k, e, b, array)
<1>1. b.at \in Nat /\ b.size \in Nat /\ b.pad \in Nat
  BY DEF Piece
<1>2. PICK at \in Nat, x \in Nat, y \in Nat, l \in Nat :
        at = b.at /\ x = Bytes(k, b.size) /\ y = Bytes(k, b.pad) /\ l = LinkAt(k, b)
  BY <1>1, PieceEnds
<1>3. l = at + 8 + x + y
  BY <1>2, PieceEnds
<1>4. SameIn(d, e, at, l) /\ 4 \in Widths
  BY <1>2 DEF Widths
<1>5. NumberAt(d, at, 4) = NumberAt(e, at, 4)
  <2>1. at <= at /\ at + 4 <= l
    BY <1>3
  <2> QED BY <1>4, <2>1, NumberIn
<1>6. NumberAt(d, at + 4, 4) = NumberAt(e, at + 4, 4)
  <2>1. at + 4 \in Nat /\ at <= at + 4 /\ at + 4 + 4 <= l
    BY <1>3
  <2> QED BY <1>4, <2>1, NumberIn
<1>7. ASSUME NEW j \in 1 .. b.size
      PROVE  NumberAt(d, b.at + 8 + Bytes(k, j - 1), Width(k)) = NumberAt(e, b.at + 8 + Bytes(k, j - 1), Width(k))
  <2>1. PICK a \in Nat : a = j - 1 /\ a + 1 <= b.size
    BY <1>1
  <2>2. Bytes(k, a) \in Nat /\ Bytes(k, a + 1) = Bytes(k, a) + Width(k) /\ Bytes(k, a + 1) <= Bytes(k, b.size)
    <3>1. a + 1 \in Nat
      OBVIOUS
    <3> QED BY <1>1, <2>1, <3>1, BytesLaws
  <2>3. PICK f \in Nat, g \in Widths : f = Bytes(k, a) /\ g = Width(k)
    BY <2>2, WidthIs
  <2>4. g \in Nat
    BY DEF Widths
  <2>5. f + g <= x
    BY <1>2, <2>2, <2>3
  <2>6. PICK p \in Nat : p = at + 8 + f
    OBVIOUS
  <2>7. at <= p /\ p + g <= l
    BY <1>3, <2>4, <2>5, <2>6
  <2>8. NumberAt(d, p, g) = NumberAt(e, p, g)
    BY <1>4, <2>7, NumberIn
  <2> QED BY <1>2, <2>1, <2>3, <2>6, <2>8
<1>8. ASSUME NEW array, Holds(k, d, b, array) PROVE Holds(k, e, b, array)
  BY <1>7, <1>8 DEF Holds
<1> QED BY <1>2, <1>5, <1>6, <1>8

\* The record with a chain of blocks in which the array is written.
IsLinked(k, d, u, c, r, b, t, end, array) ==
  /\ r \in Seq(Piece) /\ Len(r) = Len(c) + 1 /\ r[1] = c[1]
  /\ Layout(k, u.d, r, t, end) /\ Written(k, u.d, r, Len(r), array)
  /\ TextAt(u.d, EndOf(k, c[1])) = TextAt(d, EndOf(k, c[1]))
  /\ Total(r) = Len(array)

\* The link of the last block is set: the record has the new one.
LEMMA BlockLinked ==
  ASSUME NEW k \in NumberKinds, NEW s \in Stream0,
         NEW c, NEW t, NEW end \in Nat, Layout(k, s.d, c, t, end),
         NEW array, NEW b \in Piece, Pending(k, s.d, c, t, end, b, array), Written(k, s.d, c, Len(c), array),
         NEW u, u = PutNumber(Seek(s, LinkAt(k, c[Len(c)])), b.at, 8)
  PROVE  u \in Stream0 /\ u.ok = s.ok /\ IsLinked(k, s.d, u, c, Append(c, b), b, t, end, array)
<1> DEFINE m == Len(c)
           last == c[m]
           r == Append(c, b)
<1>1. PICK d \in Seq(Nat) : d = s.d
  BY DEF Stream0
<1>l. Layout(k, d, c, t, end)
  BY <1>1
<1>2. IsChain(k, d, c) /\ IsText(d, EndOf(k, c[1]), t, end) /\ NextTo(d, end) /\ \A i \in 2 .. Len(c) : Behind(k, c[i], t, end)
  BY <1>l DEF Layout
<1>3. /\ c \in Seq(Piece) /\ m \in Nat /\ 1 \in 1 .. m /\ m \in 1 .. m /\ Total(c) \in Nat
      /\ \A i \in 1 .. m : c[i] \in Piece
      /\ \A i \in 1 .. m : c[i].at \in Nat /\ c[i].size \in Nat /\ c[i].pad \in Nat /\ c[i].from \in Nat
      /\ \A i \in 1 .. m : LinkAt(k, c[i]) \in Nat /\ EndOf(k, c[i]) \in Nat
      /\ \A i \in 1 .. m : EndOf(k, c[i]) <= Len(d)
      /\ \A i \in 1 .. m : c[i].from + c[i].size <= Total(c)
  BY <1>2, ChainFacts
<1>4. r \in Seq(Piece) /\ Len(r) = m + 1 /\ r[m + 1] = b /\ \A i \in 1 .. m : r[i] = c[i]
  <2>1. Append(c, b) \in Seq(Piece)
    BY <1>3, AppendProperties
  <2>2. Len(Append(c, b)) = Len(c) + 1
    BY <1>3, AppendProperties
  <2>3. \A i \in 1 .. Len(c) : Append(c, b)[i] = c[i]
    BY <1>3, AppendProperties
  <2>4. Append(c, b)[Len(c) + 1] = b
    BY <1>3, AppendProperties
  <2> QED BY <2>1, <2>2, <2>3, <2>4
<1> HIDE DEF r
<1>5. /\ b.from = Total(c) /\ b.from + b.size = Len(array) /\ b.pad = 0 /\ b.size <= MaxElements
      /\ InFile(k, d, b, 0) /\ Holds(k, d, b, array)
      /\ \A i \in 1 .. m : EndOf(k, c[i]) <= b.at
      /\ end + 4 <= b.at
      /\ t.loc > 0 => t.loc + 8 + t.size <= b.at
  BY <1>1 DEF Pending
<1>6. PICK lk \in Nat, z \in Nat, la \in Nat, ba \in Nat, len \in Nat :
        lk = LinkAt(k, last) /\ z = EndOf(k, last) /\ la = last.at /\ ba = b.at /\ len = Len(d) /\ la <= lk
  <2>1. last \in Piece
    BY <1>3
  <2>2. PICK x \in Nat, y \in Nat, f \in Nat, g \in Nat :
          x = last.at /\ y = Bytes(k, last.size) /\ f = Bytes(k, last.pad) /\ g = LinkAt(k, last)
    BY <1>3, <2>1, PieceEnds
  <2>3. g = x + 8 + y + f
    BY <2>1, <2>2, PieceEnds
  <2>4. x <= g
    BY <2>3
  <2>5. b.at \in Nat /\ Len(d) \in Nat
    BY LenProperties DEF Piece
  <2> QED BY <1>3, <2>2, <2>4, <2>5
<1>7. z = lk + 8 /\ z <= len /\ z <= ba
  BY <1>3, <1>5, <1>6 DEF EndOf
<1>8. /\ u \in Stream0 /\ u.ok = s.ok /\ Len(u.d) = len
      /\ NumberAt(u.d, lk, 8) = ba /\ SameBut(u.d, d, lk, z)
  <2>1. 8 \in Widths
    BY DEF Widths
  <2>2. IsNumberPut(PutNumber(Seek(s, lk), ba, 8), s, lk, ba, 8)
    BY <2>1, NumberPutIs
  <2>3. u = PutNumber(Seek(s, lk), ba, 8)
    BY <1>6
  <2>4. ~ (lk + 8 > len)
    BY <1>7
  <2> QED BY <1>1, <1>6, <1>7, <2>2, <2>3, <2>4 DEF IsNumberPut
<1>9. PICK e \in Seq(Nat) : e = u.d
  BY <1>8 DEF Stream0
<1>10. Len(e) = len /\ NumberAt(e, lk, 8) = ba /\ SameBut(e, d, lk, z) /\ Len(d) = len
  BY <1>6, <1>8, <1>9
<1>11. /\ \A j \in 1 .. m : j # m => SameIn(d, e, c[j].at, EndOf(k, c[j]))
       /\ TextSame(d, e, EndOf(k, c[1]), t)
       /\ SameIn(d, e, end, end + 4)
  <2>1. z <= z
    OBVIOUS
  <2>2. SameBut(e, d, la, z)
    BY <1>6, <1>10, <2>1, SameButWider
  <2>3. SameBut(e, d, c[m].at, EndOf(k, c[m])) /\ m \in 1 .. Len(c)
    BY <1>3, <1>6, <2>2
  <2> QED BY <1>l, <2>3, OthersKept
<1>12. InFile(k, e, last, ba) /\ \A any : Holds(k, d, last, any) => Holds(k, e, last, any)
  <2>0. last \in Piece
    BY <1>3
  <2>1. SameIn(d, e, la, lk)
    <3>1. lk <= lk
      OBVIOUS
    <3> QED BY <1>10, <3>1, SameOutside
  <2>2. /\ NumberAt(d, last.at, 4) = NumberAt(e, last.at, 4) /\ NumberAt(d, last.at + 4, 4) = NumberAt(e, last.at + 4, 4)
        /\ \A any : Holds(k, d, last, any) => Holds(k, e, last, any)
    <3>1. SameIn(d, e, last.at, LinkAt(k, last))
      BY <1>6, <2>1
    <3> HIDE DEF last
    <3> QED BY <2>0, <3>1, ElementsKept
  <2>3. InFile(k, d, last, NextAt(c, m))
    BY <1>2, <1>3 DEF IsChain
  <2> HIDE DEF last
  <2> QED BY <1>6, <1>10, <2>2, <2>3 DEF InFile
<1>13. \A i \in 1 .. m : i # m => /\ InFile(k, e, c[i], NextAt(c, i))
                                  /\ \A any : Holds(k, d, c[i], any) => Holds(k, e, c[i], any)
  <2> SUFFICES ASSUME NEW i \in 1 .. m, i # m
               PROVE  /\ InFile(k, e, c[i], NextAt(c, i))
                      /\ \A any : Holds(k, d, c[i], any) => Holds(k, e, c[i], any)
    OBVIOUS
  <2>1. c[i] \in Piece /\ SameIn(d, e, c[i].at, EndOf(k, c[i])) /\ InFile(k, d, c[i], NextAt(c, i))
    BY <1>2, <1>3, <1>11 DEF IsChain
  <2>2. Len(d) \in Nat /\ Len(e) \in Nat /\ Len(d) <= Len(e)
    BY <1>10
  <2> QED BY <2>1, <2>2, BlockKept
<1>14. InFile(k, e, b, 0) /\ Holds(k, e, b, array)
  <2>1. Len(d) \in Nat /\ Len(e) \in Nat /\ Len(d) <= Len(e)
    BY <1>10
  <2>2. EndOf(k, b) \in Nat
    BY PieceEnds
  <2>3. SameIn(d, e, ba, EndOf(k, b))
    BY <1>7, <1>10, <2>2, SameOutside
  <2>4. SameIn(d, e, b.at, EndOf(k, b))
    BY <1>6, <2>3
  <2> QED BY <1>5, <2>1, <2>4, BlockKept
<1>15. IsChain(k, e, r)
  <2>1. \A i \in 1 .. m + 1 : Bounded(k, r[i]) /\ InFile(k, e, r[i], NextAt(r, i))
    <3> SUFFICES ASSUME NEW i \in 1 .. m + 1 PROVE Bounded(k, r[i]) /\ InFile(k, e, r[i], NextAt(r, i))
      OBVIOUS
    <3>1. CASE i = m + 1
      <4>1. r[i] = b /\ NextAt(r, i) = 0
        BY <1>3, <1>4, <3>1 DEF NextAt
      <4>2. Bounded(k, b)
        <5>1. b.size + b.pad = b.size
          BY <1>5 DEF Piece
        <5> QED BY <1>5, <5>1 DEF Bounded
      <4> QED BY <1>14, <4>1, <4>2
    <3>2. CASE i = m
      <4>1. r[i] = last /\ NextAt(r, i) = ba
        BY <1>3, <1>4, <1>6, <3>2 DEF NextAt
      <4>2. Bounded(k, last)
        BY <1>2, <1>3 DEF IsChain
      <4> HIDE DEF last
      <4> QED BY <1>12, <4>1, <4>2
    <3>3. CASE i < m
      <4>0. PICK mm \in Nat : mm = m
        BY <1>3
      <4>a. i \in 1 .. mm + 1 /\ i < mm
        BY <3>3, <4>0
      <4>b. i \in 1 .. mm /\ i # mm /\ i + 1 \in 1 .. mm /\ i < mm + 1
        BY <4>0, <4>a
      <4>1. i \in 1 .. m /\ i # m /\ i + 1 \in 1 .. m /\ i < m + 1
        BY <4>0, <4>b
      <4>2. r[i] = c[i] /\ NextAt(r, i) = NextAt(c, i)
        BY <1>4, <3>3, <4>1 DEF NextAt
      <4>3. Bounded(k, c[i])
        BY <1>2, <4>1 DEF IsChain
      <4> QED BY <1>13, <4>1, <4>2, <4>3
    <3> QED BY <1>3, <3>1, <3>2, <3>3
  <2>2. \A i \in 1 .. m : r[i + 1].from = r[i].from + r[i].size
    <3> SUFFICES ASSUME NEW i \in 1 .. m PROVE r[i + 1].from = r[i].from + r[i].size
      OBVIOUS
    <3>1. CASE i = m
      <4>1. r[i + 1] = b /\ r[i] = c[m]
        BY <1>4, <3>1
      <4> QED BY <1>5, <4>1 DEF Total
    <3>2. CASE i # m
      <4>1. i \in 1 .. m - 1 /\ i + 1 \in 1 .. m
        BY <1>3, <3>2
      <4>2. r[i + 1] = c[i + 1] /\ r[i] = c[i]
        BY <1>4, <4>1
      <4>3. c[i + 1].from = c[i].from + c[i].size
        BY <1>2, <4>1 DEF IsChain
      <4> QED BY <4>2, <4>3
    <3> QED BY <3>1, <3>2
  <2>3. \A i, j \in 1 .. m + 1 : i < j => EndOf(k, r[i]) <= r[j].at /\ r[i].from + r[i].size <= r[j].from
    <3> SUFFICES ASSUME NEW i \in 1 .. m + 1, NEW j \in 1 .. m + 1, i < j
                 PROVE  EndOf(k, r[i]) <= r[j].at /\ r[i].from + r[i].size <= r[j].from
      OBVIOUS
    <3>1. i \in 1 .. m /\ r[i] = c[i]
      <4>1. i \in 1 .. m
        BY <1>3
      <4> QED BY <1>4, <4>1
    <3>2. CASE j = m + 1
      <4>1. r[j] = b
        BY <1>4, <3>2
      <4> QED BY <1>3, <1>5, <3>1, <4>1
    <3>3. CASE j # m + 1
      <4>0. PICK mm \in Nat : mm = m
        BY <1>3
      <4>a. j \in 1 .. mm + 1 /\ j # mm + 1
        BY <3>3, <4>0
      <4>b. j \in 1 .. mm
        BY <4>0, <4>a, SMTT(30)
      <4>1. j \in 1 .. m
        BY <4>0, <4>b
      <4>2. r[j] = c[j]
        BY <1>4, <4>1
      <4>3. EndOf(k, c[i]) <= c[j].at /\ c[i].from + c[i].size <= c[j].from
        BY <1>2, <3>1, <4>1 DEF IsChain
      <4> QED BY <3>1, <4>2, <4>3
    <3> QED BY <3>2, <3>3
  <2>4. r[1].at = ArrayAt /\ r[1].from = 0 /\ r[1].size >= 1
    <3>1. r[1] = c[1]
      BY <1>3, <1>4
    <3> QED BY <1>2, <3>1 DEF IsChain
  <2>5. Len(r) = m + 1 /\ Len(r) >= 1 /\ Len(r) - 1 = m
    BY <1>3, <1>4
  <2> HIDE DEF m, last
  <2> QED BY <1>4, <2>1, <2>2, <2>3, <2>4, <2>5 DEF IsChain
<1>16. r[1] = c[1]
  BY <1>3, <1>4
<1>17. IsText(e, EndOf(k, c[1]), t, end) /\ TextAt(e, EndOf(k, c[1])) = TextAt(d, EndOf(k, c[1]))
  <2>1. Len(d) <= Len(e) /\ EndOf(k, c[1]) \in Nat
    BY <1>3, <1>10
  <2> QED BY <1>2, <1>11, <2>1, TextKept
<1>18. NextTo(e, end)
  <2>1. SameIn(d, e, end, end + 4) /\ NextTo(d, end)
    BY <1>2, <1>11
  <2> QED BY <2>1 DEF NextTo, SameIn
<1>19. ASSUME NEW i \in 2 .. Len(r) PROVE Behind(k, r[i], t, end)
  <2>1. CASE i = m + 1
    <3>1. r[i] = b
      BY <1>4, <2>1
    <3> QED BY <1>5, <3>1 DEF Behind
  <2>2. CASE i # m + 1
    <3>1. i \in 1 .. m /\ i \in 2 .. Len(c)
      BY <1>3, <1>4, <2>2
    <3> QED BY <1>2, <1>4, <3>1
  <2> QED BY <2>1, <2>2
<1>20. Layout(k, e, r, t, end)
  BY <1>15, <1>16, <1>17, <1>18, <1>19 DEF Layout
<1>21. Written(k, e, r, Len(r), array)
  <2> SUFFICES ASSUME NEW i \in 1 .. m + 1 PROVE Holds(k, e, r[i], array)
    BY <1>4 DEF Written
  <2>1. CASE i = m + 1
    BY <1>4, <1>14, <2>1
  <2>2. CASE i # m + 1
    <3>1. i \in 1 .. m
      BY <1>3, <2>2
    <3>2. Holds(k, d, c[i], array)
      BY <1>1, <3>1 DEF Written
    <3>3. CASE i = m
      BY <1>4, <1>12, <3>1, <3>2, <3>3
    <3>4. CASE i # m
      BY <1>4, <1>13, <3>1, <3>2, <3>4
    <3> QED BY <3>3, <3>4
  <2> QED BY <2>1, <2>2
<1>22. Total(r) = Len(array)
  BY <1>4, <1>5 DEF Total
<1> QED BY <1>1, <1>4, <1>8, <1>9, <1>16, <1>17, <1>20, <1>21, <1>22 DEF IsLinked, r, m

-----------------------------------------------------------------------------
(* A block that has been written.                                            *)

\* The record with the chain r in the file e, written up to block i, that was c in d.
IsWritten(k, d, e, c, r, i, t, end, array) ==
  /\ r \in Seq(Piece)
  /\ Layout(k, e, r, t, end)
  /\ EndOf(k, r[1]) = EndOf(k, c[1])
  /\ TextAt(e, EndOf(k, r[1])) = TextAt(d, EndOf(k, c[1]))
  /\ Written(k, e, r, i, array)

\* The new block, and where it leads: to the next one, or nowhere.
IsPut(k, e, c, i, b, m, array) ==
  /\ m = i \/ m = Len(c)
  /\ InFile(k, e, b, IF i < m THEN c[i + 1].at ELSE 0)
  /\ Holds(k, e, b, array)

\* A block is written with a part of the array and another size or padding.
LEMMA WrittenReplaced ==
  ASSUME NEW k \in NumberKinds, NEW d \in Seq(Nat), NEW e \in Seq(Nat), Len(d) = Len(e),
         NEW c, NEW t, NEW end \in Nat, Layout(k, d, c, t, end),
         NEW i \in 1 .. Len(c), SameBut(e, d, c[i].at, EndOf(k, c[i])),
         NEW b, Shorter(k, c, i, b), NEW m, NEW array, IsPut(k, e, c, i, b, m, array), Written(k, d, c, i - 1, array)
  PROVE  /\ IsWritten(k, d, e, c, Replaced(c, i, b, m), i, t, end, array)
         /\ Total(Replaced(c, i, b, m)) = (IF m = i THEN b.from + b.size ELSE Total(c) - (c[i].size - b.size))
<1> DEFINE r == Replaced(c, i, b, m)
<1>1. IsChain(k, d, c) /\ Len(c) \in Nat
  <2>1. IsChain(k, d, c)
    BY DEF Layout
  <2> QED BY <2>1, ChainFacts
<1>2. m \in Nat /\ i <= m /\ m <= Len(c) /\ (m < Len(c) => m = i)
  BY <1>1 DEF IsPut
<1>3. b \in Piece /\ b.size <= c[i].size /\ Holds(k, e, b, array)
  BY DEF Shorter, IsPut
<1>4. Leads(k, e, c, i, b, m)
  BY <1>2 DEF Leads, IsPut
<1>5. IsReplaced(k, d, e, c, i, b, m, t, end, r)
  BY <1>4, LayoutReplaced
<1>6. /\ Layout(k, e, r, t, end)
      /\ EndOf(k, r[1]) = EndOf(k, c[1])
      /\ TextAt(e, EndOf(k, c[1])) = TextAt(d, EndOf(k, c[1]))
      /\ \A j \in 1 .. m : \A any : j < i /\ Holds(k, d, c[j], any) => Holds(k, e, r[j], any)
      /\ Total(r) = (IF m = i THEN b.from + b.size ELSE Total(c) - (c[i].size - b.size))
  BY <1>5 DEF IsReplaced
<1>7. r \in Seq(Piece) /\ Len(r) = m /\ r[i] = b
  BY <1>1, <1>2, <1>3, ReplacedIs
<1> HIDE DEF r
<1>8. ASSUME NEW j \in 1 .. i PROVE Holds(k, e, r[j], array)
  <2>1. CASE j = i
    BY <1>3, <1>7, <2>1
  <2>2. CASE j # i
    <3>1. j \in 1 .. m /\ j < i /\ j \in 1 .. i - 1
      BY <1>1, <1>2, <2>2
    <3>2. Holds(k, d, c[j], array)
      BY <3>1 DEF Written
    <3> QED BY <1>6, <3>1, <3>2
  <2> QED BY <2>1, <2>2
<1>9. Written(k, e, r, i, array)
  BY <1>8 DEF Written
<1>10. IsWritten(k, d, e, c, r, i, t, end, array)
  BY <1>6, <1>7, <1>9 DEF IsWritten
<1> QED BY <1>6, <1>10 DEF r

\* Block i is written in its place, and the others are as before.
IsPlain(k, d, e, c, i, t, end, array) ==
  /\ IsWritten(k, d, e, c, c, i, t, end, array)
  /\ \A j \in 1 .. Len(c) : \A any : j # i /\ Holds(k, d, c[j], any) => Holds(k, e, c[j], any)

\* A block is written with a part of the array as it is.
LEMMA WrittenInPlace ==
  ASSUME NEW k \in NumberKinds, NEW d \in Seq(Nat), NEW e \in Seq(Nat), Len(d) = Len(e),
         NEW c, NEW t, NEW end \in Nat, Layout(k, d, c, t, end),
         NEW i \in 1 .. Len(c), SameBut(e, d, c[i].at, EndOf(k, c[i])),
         NEW array, InFile(k, e, c[i], NextAt(c, i)), Holds(k, e, c[i], array), Written(k, d, c, i - 1, array)
  PROVE  IsPlain(k, d, e, c, i, t, end, array)
<1>1. IsChain(k, d, c)
  BY DEF Layout
<1>2. /\ Len(c) \in Nat /\ c[i] \in Piece /\ EndOf(k, c[i]) \in Nat /\ c[i].size \in Nat
      /\ Bounded(k, c[i]) /\ c[1].size >= 1
  <2>1. Bounded(k, c[i]) /\ c[1].size >= 1
    BY <1>1 DEF IsChain
  <2> QED BY <1>1, <2>1, ChainFacts
<1>3. Shorter(k, c, i, c[i])
  BY <1>2 DEF Shorter
<1>4. IsPut(k, e, c, i, c[i], Len(c), array)
  BY DEF IsPut, NextAt
<1>5. IsWritten(k, d, e, c, Replaced(c, i, c[i], Len(c)), i, t, end, array)
  BY <1>3, <1>4, WrittenReplaced
<1>6. Replaced(c, i, c[i], Len(c)) = c
  BY <1>1, ReplacedSame
<1>7. \A j \in 1 .. Len(c) : j # i => SameIn(d, e, c[j].at, EndOf(k, c[j]))
  BY OthersKept
<1>8. ASSUME NEW j \in 1 .. Len(c), NEW any, j # i, Holds(k, d, c[j], any) PROVE Holds(k, e, c[j], any)
  <2>1. c[j] \in Piece /\ SameIn(d, e, c[j].at, EndOf(k, c[j])) /\ Len(d) \in Nat /\ Len(e) \in Nat /\ Len(d) <= Len(e)
    BY <1>1, <1>7, <1>8, ChainFacts, LenProperties
  <2> QED BY <1>8, <2>1, BlockKept
<1> QED BY <1>5, <1>6, <1>8 DEF IsPlain

\* The header of the block b is in the file, and its elements come next.
Headed(k, d, s, b) ==
  /\ s \in Stream0 /\ s.fp = b.at + 8 /\ Len(s.d) = Len(d) /\ SameBut(s.d, d, b.at, b.at + 8)
  /\ NumberAt(s.d, b.at, 4) = b.size /\ NumberAt(s.d, b.at + 4, 4) = b.pad

PartOf(b, es, array) ==
  es \in Seq(Element) /\ Len(es) = b.size /\ \A j \in 1 .. b.size : es[j] = array[b.from + j]

\* After its header the elements of a block are written.
LEMMA ElementsPut ==
  ASSUME NEW k \in NumberKinds, NEW d \in Seq(Nat), NEW b \in Piece, EndOf(k, b) <= Len(d),
         NEW s, Headed(k, d, s, b), NEW es, NEW array, PartOf(b, es, array)
  PROVE  /\ Rewritten(k, d, NewElements(k, s, es), b, array)
         /\ NewElements(k, s, es).fp = b.at + 8 + Bytes(k, b.size)
         /\ NewElements(k, s, es).ok = s.ok
<1>1. /\ s \in Stream0 /\ s.fp = b.at + 8 /\ Len(s.d) = Len(d) /\ SameBut(s.d, d, b.at, b.at + 8)
      /\ NumberAt(s.d, b.at, 4) = b.size /\ NumberAt(s.d, b.at + 4, 4) = b.pad
  BY DEF Headed
<1>2. es \in Seq(Element) /\ Len(es) = b.size /\ \A j \in 1 .. b.size : es[j] = array[b.from + j]
  BY DEF PartOf
<1> QED BY <1>1, <1>2, RewriteIs

\* Where the zero that ends the array is put: on the link, or in the padding before one that
\* is zero already.
EndsAt(k, d, b, p) ==
  \/ p = LinkAt(k, b)
  \/ b.at + 8 + Bytes(k, b.size) <= p /\ p <= LinkAt(k, b) /\ NumberAt(d, LinkAt(k, b), 8) = 0

IsEnded(k, d, u, x, c, i, b, t, end, array) ==
  /\ u \in Stream0 /\ u.ok = x.ok /\ u.fp = x.fp + 8
  /\ IsWritten(k, d, u.d, c, Replaced(c, i, b, i), i, t, end, array)
  /\ Total(Replaced(c, i, b, i)) = b.from + b.size

\* With the link set to none the array ends in this block.
LEMMA ArrayEnds ==
  ASSUME NEW k \in NumberKinds, NEW d \in Seq(Nat), NEW c, NEW t, NEW end \in Nat, Layout(k, d, c, t, end),
         NEW i \in 1 .. Len(c), NEW b, Shorter(k, c, i, b), NEW s, Headed(k, d, s, b),
         NEW es, NEW array, PartOf(b, es, array), Written(k, d, c, i - 1, array),
         NEW x \in Stream0, x.d = NewElements(k, s, es).d, EndsAt(k, d, b, x.fp)
  PROVE  IsEnded(k, d, PutNumber(x, 0, 8), x, c, i, b, t, end, array)
<1> DEFINE u == PutNumber(x, 0, 8)
<1>1. /\ Len(c) \in Nat /\ c[i].at \in Nat /\ EndOf(k, c[i]) \in Nat /\ EndOf(k, c[i]) <= Len(d)
  <2>1. IsChain(k, d, c)
    BY DEF Layout
  <2> QED BY <2>1, ChainFacts
<1>2. b \in Piece /\ b.at = c[i].at /\ EndOf(k, b) <= EndOf(k, c[i]) /\ EndOf(k, b) \in Nat
  BY PieceEnds DEF Shorter
<1>3. EndOf(k, b) <= Len(d)
  BY <1>1, <1>2, LenProperties
<1>4. Rewritten(k, d, NewElements(k, s, es), b, array)
  BY <1>2, <1>3, ElementsPut
<1>5. /\ u \in Stream0 /\ Len(u.d) = Len(d) /\ u.ok = x.ok /\ u.fp = x.fp + 8
      /\ SameBut(u.d, d, b.at, EndOf(k, b))
      /\ InFile(k, u.d, b, 0)
      /\ Holds(k, u.d, b, array)
  BY <1>2, <1>4, EndIs DEF EndsAt
<1> HIDE DEF u
<1>6. PICK e \in Seq(Nat) : e = u.d
  BY <1>5 DEF Stream0
<1>7. SameBut(e, d, c[i].at, EndOf(k, c[i]))
  <2>1. c[i].at <= b.at /\ b.at \in Nat
    BY <1>1, <1>2
  <2> QED BY <1>1, <1>2, <1>5, <1>6, <2>1, SameButWider
<1>8. IsPut(k, e, c, i, b, i, array)
  BY <1>5, <1>6 DEF IsPut
<1>9. /\ IsWritten(k, d, e, c, Replaced(c, i, b, i), i, t, end, array)
      /\ Total(Replaced(c, i, b, i)) = b.from + b.size
  <2>1. Len(d) = Len(e)
    BY <1>5, <1>6
  <2>2. IsWritten(k, d, e, c, Replaced(c, i, b, i), i, t, end, array)
    BY <1>7, <1>8, <2>1, WrittenReplaced
  <2>3. Total(Replaced(c, i, b, i)) = (IF i = i THEN b.from + b.size ELSE Total(c) - (c[i].size - b.size))
    BY <1>7, <1>8, <2>1, WrittenReplaced
  <2> QED BY <2>2, <2>3
<1>10. IsEnded(k, d, u, x, c, i, b, t, end, array)
  BY <1>5, <1>6, <1>9 DEF IsEnded
<1> QED BY <1>10 DEF u

\* A block from which the update goes on.
IsOnward(k, d, u, s, c, i, b, t, end, array) ==
  /\ u \in Stream0 /\ u.ok = s.ok /\ u.fp = b.at + 8 + Bytes(k, b.size)
  /\ IsWritten(k, d, u.d, c, Replaced(c, i, b, Len(c)), i, t, end, array)
  /\ b = c[i] => IsPlain(k, d, u.d, c, i, t, end, array)

\* With the link as it was the array goes on after this block.
LEMMA ArrayGoesOn ==
  ASSUME NEW k \in NumberKinds, NEW d \in Seq(Nat), NEW c, NEW t, NEW end \in Nat, Layout(k, d, c, t, end),
         NEW i \in 1 .. Len(c), NEW b, Shorter(k, c, i, b), NEW s, Headed(k, d, s, b),
         NEW es, NEW array, PartOf(b, es, array), Written(k, d, c, i - 1, array),
         NumberAt(d, LinkAt(k, b), 8) = NextAt(c, i)
  PROVE  IsOnward(k, d, NewElements(k, s, es), s, c, i, b, t, end, array)
<1> DEFINE u == NewElements(k, s, es)
<1>1. /\ Len(c) \in Nat /\ c[i].at \in Nat /\ EndOf(k, c[i]) \in Nat /\ EndOf(k, c[i]) <= Len(d)
  <2>1. IsChain(k, d, c)
    BY DEF Layout
  <2> QED BY <2>1, ChainFacts
<1>2. b \in Piece /\ b.at = c[i].at /\ EndOf(k, b) <= EndOf(k, c[i])
  BY DEF Shorter
<1>3. EndOf(k, b) \in Nat /\ LinkAt(k, b) \in Nat /\ EndOf(k, b) = LinkAt(k, b) + 8
  BY <1>2, PieceEnds
<1>4. EndOf(k, b) <= Len(d)
  BY <1>1, <1>2, <1>3, LenProperties
<1>5. Rewritten(k, d, u, b, array) /\ u.fp = b.at + 8 + Bytes(k, b.size) /\ u.ok = s.ok
  BY <1>2, <1>4, ElementsPut
<1> HIDE DEF u
<1>6. PICK e \in Seq(Nat) : e = u.d
  BY <1>5 DEF Rewritten, Stream0
<1>7. /\ u \in Stream0 /\ Len(d) = Len(e) /\ SameBut(e, d, b.at, LinkAt(k, b))
      /\ InFile(k, e, b, NextAt(c, i)) /\ Holds(k, e, b, array)
  BY <1>5, <1>6 DEF Rewritten
<1>8. SameBut(e, d, c[i].at, EndOf(k, c[i]))
  <2>1. PICK a \in Nat, l \in Nat, f \in Nat, g \in Nat :
          a = b.at /\ l = LinkAt(k, b) /\ f = EndOf(k, b) /\ g = EndOf(k, c[i])
    BY <1>1, <1>2, <1>3
  <2>2. f = l + 8 /\ f <= g
    BY <1>2, <1>3, <2>1
  <2>3. a <= a /\ l <= g
    BY <2>2
  <2>4. SameBut(e, d, a, l)
    BY <1>7, <2>1
  <2>5. SameBut(e, d, a, g)
    BY <2>3, <2>4, SameButWider
  <2> QED BY <1>2, <2>1, <2>5
<1>9. IsPut(k, e, c, i, b, Len(c), array)
  BY <1>7 DEF IsPut, NextAt
<1>10. IsWritten(k, d, e, c, Replaced(c, i, b, Len(c)), i, t, end, array)
  BY <1>7, <1>8, <1>9, WrittenReplaced
<1>11. ASSUME b = c[i] PROVE IsPlain(k, d, e, c, i, t, end, array)
  <2>1. InFile(k, e, c[i], NextAt(c, i)) /\ Holds(k, e, c[i], array) /\ Len(d) = Len(e)
    BY <1>7, <1>11
  <2> QED BY <1>8, <2>1, WrittenInPlace
<1>12. IsOnward(k, d, u, s, c, i, b, t, end, array)
  BY <1>5, <1>6, <1>7, <1>10, <1>11 DEF IsOnward
<1> QED BY <1>12 DEF u

-----------------------------------------------------------------------------
(* The steps of an update.                                                   *)

LEMMA NIs == ASSUME Types PROVE n \in Nat /\ n \in 1 .. MaxElements /\ n = Len(want.array) /\ want.array \in Seq(Element)
<1>1. want.array \in Seq(Element) /\ Len(want.array) \in 1 .. MaxElements
  BY DEF Types, GoodRecord
<1>2. Len(want.array) \in Nat
  BY <1>1, LenProperties
<1> QED BY <1>1, <1>2 DEF n

\* The block that an update has come to.
LEMMA BlockHere ==
  ASSUME Types, NEW c, NEW t, NEW done \in Nat, State(c, t, done), pc \in Reading
  PROVE  /\ IsChain(kind, io.d, c) /\ done + 1 \in 1 .. Len(c)
         /\ c[done + 1] \in Piece /\ Bounded(kind, c[done + 1])
         /\ InFile(kind, io.d, c[done + 1], NextAt(c, done + 1))
         /\ AtBlock(c, done)
<1>1. IsChain(kind, io.d, c) /\ AtBlock(c, done) /\ done < Len(c)
  BY DEF State, Layout, AtBlock
<1>2. Len(c) \in Nat /\ \A i \in 1 .. Len(c) : c[i] \in Piece
  BY <1>1, ChainFacts DEF Types
<1>3. done + 1 \in 1 .. Len(c)
  BY <1>1, <1>2
<1>4. Bounded(kind, c[done + 1]) /\ InFile(kind, io.d, c[done + 1], NextAt(c, done + 1))
  BY <1>1, <1>3 DEF IsChain
<1> QED BY <1>1, <1>2, <1>3, <1>4

\* What the size of a block says: the array goes on after it or ends in it.
LEMMA ReadSizeKeeps ==
  ASSUME Types, NEW c, NEW t, NEW done \in Nat, State(c, t, done), ReadSize
  PROVE  Types' /\ State(c, t, done)'
<1>1. pc = "size" /\ pc \in Reading
  BY DEF ReadSize, Reading
<1>2. /\ c[done + 1] \in Piece /\ InFile(kind, io.d, c[done + 1], NextAt(c, done + 1)) /\ AtBlock(c, done)
  BY <1>1, BlockHere
<1>3. PICK at \in Nat, size \in Nat, pad \in Nat, from \in Nat :
        at = c[done + 1].at /\ size = c[done + 1].size /\ pad = c[done + 1].pad /\ from = c[done + 1].from
  BY <1>2 DEF Piece
<1>4. io.fp = at /\ NumberAt(io.d, io.fp, 4) = size /\ NumberAt(io.d, io.fp + 4, 4) = pad /\ size # Huge
  <2>1. io.fp = at
    BY <1>1, <1>2, <1>3 DEF AtBlock
  <2>2. size # Huge
    BY DEF Huge
  <2> QED BY <1>2, <1>3, <2>1, <2>2 DEF InFile
<1>5. io \in Stream0 /\ io.ok /\ w \in [step : Nat, sz : Nat, pad : Nat, first : Nat, link : Nat, update : Nat]
  BY DEF Types
<1>6. n \in Nat
  BY NIs
<1>7. /\ kind' = kind /\ stored' = stored /\ want' = want /\ gen' = gen /\ home' = home /\ n' = n
  BY DEF ReadSize, Unchanged, n
<1>8. /\ io' \in Stream0 /\ io'.ok /\ io'.d = io.d
      /\ io'.fp = IF n <= size THEN at + 4 ELSE at + 8
      /\ w' \in [step : Nat, sz : Nat, pad : Nat, first : Nat, link : Nat, update : Nat]
      /\ w'.step = w.step /\ w'.first = w.first /\ w'.sz = size
      /\ ~ (n <= size) => w'.pad = pad
      /\ pc' = IF n <= size THEN IF n < size THEN "shrink" ELSE "same" ELSE IF w.step >= size THEN "over" ELSE "fill"
  <2>1. CASE n <= size
    <3>1. io' = [Seek(io, at + 4) EXCEPT !.ok = TRUE] /\ w' = [w EXCEPT !.sz = size] /\ Goto(IF n < size THEN "shrink" ELSE "same")
      BY <1>4, <2>1 DEF ReadSize
    <3>2. Seek(io, at + 4) \in Stream0 /\ Seek(io, at + 4).fp = at + 4 /\ Seek(io, at + 4).d = io.d
      <4>1. at + 4 \in Nat
        OBVIOUS
      <4> QED BY <1>5, <4>1, SeekIs
    <3>3. io' \in Stream0 /\ io'.ok /\ io'.d = io.d /\ io'.fp = at + 4
      BY <3>1, <3>2 DEF Stream0
    <3> QED BY <1>5, <2>1, <3>1, <3>3 DEF Goto
  <2>2. CASE ~ (n <= size)
    <3>1. io' = Seek(io, at + 8) /\ w' = [w EXCEPT !.sz = size, !.pad = pad] /\ Goto(IF w.step >= size THEN "over" ELSE "fill")
      BY <1>4, <2>2 DEF ReadSize
    <3>2. io' \in Stream0 /\ io'.ok /\ io'.d = io.d /\ io'.fp = at + 8
      <4>1. at + 8 \in Nat
        OBVIOUS
      <4> QED BY <1>5, <3>1, <4>1, SeekIs
    <3> QED BY <1>5, <2>2, <3>1, <3>2 DEF Goto
  <2> QED BY <2>1, <2>2
<1>9. pc' \in Reading /\ pc' # "size" /\ pc' # "idle" /\ pc' # "end"
  BY <1>8 DEF Reading
<1>10. Types'
  BY <1>7, <1>8, <1>9 DEF Types, Places, GoodRecord
<1>11. AtBlock(c, done)'
  <2>1. /\ done < Len(c) /\ w.step = from /\ from <= n
        /\ w.first = IF done = 0 THEN 0 ELSE EndOf(kind, c[1])
    BY <1>2, <1>3 DEF AtBlock
  <2>2. pc' \in {"over", "fill"} => ~ (n <= size) /\ (pc' = "over" <=> w.step >= size)
    BY <1>8
  <2>3. pc' \in {"shrink", "same"} => n <= size /\ (pc' = "shrink" <=> n < size)
    BY <1>8
  <2>4. ~ (n <= size) => size < n
    BY <1>6
  <2>5. n <= size /\ ~ (n < size) => n = size
    BY <1>6
  <2> QED BY <1>3, <1>7, <1>8, <1>9, <2>1, <2>2, <2>3, <2>4, <2>5 DEF AtBlock
<1>12. /\ Layout(kind', io'.d, c, t, home') /\ Written(kind', io'.d, c, done, want'.array)
       /\ TextAt(io'.d, EndOf(kind', c[1])) = stored'.text
       /\ kind' = "byte" => n' >= Len(stored'.array)
       /\ Kept(kind', io'.d, c, done, stored'.array, n')
       /\ FutureFits(kind', c, done, n')
  BY <1>1, <1>7, <1>8 DEF State, Reading
<1>13. pc' \notin {"link", "append", "linked", "return", "text", "end", "idle"}
  BY <1>8
<1> QED BY <1>9, <1>10, <1>11, <1>12, <1>13 DEF State

\* The link leads to the next block, or there is none and a new one is due.
LEMMA FollowLinkKeeps ==
  ASSUME Types, NEW c, NEW t, NEW done \in Nat, State(c, t, done), FollowLink
  PROVE  Types' /\ State(c, t, done)'
<1>1. pc = "link" /\ kind \in NumberKinds /\ io \in Stream0 /\ io.ok /\ Len(io.d) \in Nat
      /\ w \in [step : Nat, sz : Nat, pad : Nat, first : Nat, link : Nat, update : Nat]
  BY LenProperties DEF FollowLink, Types, Stream0
<1>2. IsChain(kind, io.d, c) /\ AfterBlock(c, done)
  BY <1>1 DEF State, Layout
<1>3. PICK len \in Nat : len = Len(c)
  BY <1>1, <1>2, ChainFacts
<1>4. done \in 1 .. len /\ done \in 1 .. Len(c) /\ 1 \in 1 .. Len(c)
  BY <1>1, <1>2, <1>3, ChainFacts DEF AfterBlock
<1>5. PICK b \in Piece : b = c[done]
  BY <1>1, <1>2, <1>4, ChainFacts
<1>6. Bounded(kind, b) /\ InFile(kind, io.d, b, NextAt(c, done))
  BY <1>2, <1>4, <1>5 DEF IsChain
<1>7. PICK at \in Nat, size \in Nat, pad \in Nat, from \in Nat, link \in Nat, first \in Nat :
        /\ at = b.at /\ size = b.size /\ pad = b.pad /\ from = b.from
        /\ link = LinkAt(kind, b) /\ first = EndOf(kind, c[1])
  <2>1. LinkAt(kind, b) \in Nat
    BY <1>1, PieceEnds
  <2>2. EndOf(kind, c[1]) \in Nat
    BY <1>1, <1>2, <1>4, ChainFacts
  <2> QED BY <2>1, <2>2 DEF Piece
<1>8. /\ w.step = from + size /\ w.step <= n
      /\ io.fp = at + 8 + Bytes(kind, size) /\ w.pad = pad
      /\ w.first = IF done = 1 THEN 0 ELSE first
  BY <1>1, <1>2, <1>5, <1>7 DEF AfterBlock
<1>9. OverPadding(kind, io, w.pad).fp = link
  <2>1. PICK p \in Nat : p = at + 8 + Bytes(kind, size)
    <3>1. Bytes(kind, size) \in Nat
      BY <1>1, BytesLaws
    <3> QED BY <3>1
  <2>2. kind = "byte" => pad = 0
    BY <1>6, <1>7 DEF Bounded
  <2>3. OverPadding(kind, io, pad) = [io EXCEPT !.fp = p + Bytes(kind, pad)]
    BY <1>1, <1>8, <2>1, <2>2, OverPaddingIs, SMTT(30)
  <2>4. OverPadding(kind, io, pad).fp = p + Bytes(kind, pad)
    BY <1>1, <2>3 DEF Stream0
  <2>5. LinkAt(kind, b) = b.at + 8 + Bytes(kind, b.size) + Bytes(kind, b.pad)
    BY <1>1, PieceEnds
  <2> QED BY <1>7, <1>8, <2>1, <2>4, <2>5
<1>10. PICK next \in Nat : next = NextAt(c, done) /\ NumberAt(io.d, link, 8) = next
  <2>1. NumberAt(io.d, link, 8) = NextAt(c, done)
    BY <1>6, <1>7 DEF InFile
  <2>2. NextAt(c, done) \in Nat
    <3>1. CASE done < Len(c)
      <4>1. done + 1 \in 1 .. Len(c)
        BY <1>3, <1>4, <3>1
      <4>2. c[done + 1].at \in Nat
        BY <1>1, <1>2, <4>1, ChainFacts
      <4> QED BY <3>1, <4>2 DEF NextAt
    <3>2. CASE ~ (done < Len(c))
      <4>1. 0 \in Nat
        OBVIOUS
      <4> QED BY <3>2, <4>1 DEF NextAt
    <3> QED BY <3>1, <3>2
  <2> QED BY <2>1, <2>2
<1>11. PICK goal \in Nat : goal = IF next > 0 THEN next ELSE Len(io.d)
  BY <1>1
<1>12. next # Huge /\ kind # "string"
  BY <1>1 DEF Huge, NumberKinds
<1>13. /\ io' = [Seek(io, goal) EXCEPT !.ok = next # Huge]
       /\ w' = [w EXCEPT !.link = link, !.update = io'.fp, !.first = IF @ = 0 THEN link + 8 ELSE @]
       /\ Goto(IF next > 0 THEN "size" ELSE "append")
  BY <1>9, <1>10, <1>11, <1>12 DEF FollowLink
<1>14. io' \in Stream0 /\ io'.ok /\ io'.d = io.d /\ io'.fp = goal
  <2>1. Seek(io, goal) \in Stream0 /\ Seek(io, goal).fp = goal /\ Seek(io, goal).d = io.d
    BY <1>1, SeekIs
  <2> QED BY <1>12, <1>13, <2>1 DEF Stream0
<1>15. /\ w' \in [step : Nat, sz : Nat, pad : Nat, first : Nat, link : Nat, update : Nat]
       /\ w'.step = w.step /\ w'.link = link /\ w'.update = goal
       /\ w'.first = IF w.first = 0 THEN link + 8 ELSE w.first
  <2>1. PICK f \in Nat : f = IF w.first = 0 THEN link + 8 ELSE w.first
    BY <1>1
  <2>2. w' = [w EXCEPT !.link = link, !.update = goal, !.first = f]
    BY <1>13, <1>14, <2>1
  <2> QED BY <1>1, <2>1, <2>2
<1>16. w'.first = first
  <2>1. EndOf(kind, b) = link + 8
    BY <1>7 DEF EndOf
  <2>2. done = 1 => first = link + 8
    BY <1>5, <1>7, <2>1
  <2>3. first # 0
    <3>1. c[1].at + 16 <= EndOf(kind, c[1]) /\ c[1].at \in Nat
      BY <1>1, <1>2, <1>4, ChainFacts
    <3> QED BY <1>7, <3>1
  <2> QED BY <1>8, <1>15, <2>2, <2>3
<1>17. /\ kind' = kind /\ stored' = stored /\ want' = want /\ gen' = gen /\ home' = home /\ n' = n
  BY DEF FollowLink, Unchanged, n
<1>18. pc' = IF next > 0 THEN "size" ELSE "append"
  BY <1>13, <1>14 DEF Goto
<1>19. Types'
  BY <1>14, <1>15, <1>17, <1>18 DEF Types, Places, Reading, GoodRecord
<1>20. /\ Layout(kind', io'.d, c, t, home') /\ Written(kind', io'.d, c, done, want'.array)
       /\ TextAt(io'.d, EndOf(kind', c[1])) = stored'.text
       /\ kind' = "byte" => n' >= Len(stored'.array)
       /\ Kept(kind', io'.d, c, done, stored'.array, n')
       /\ FutureFits(kind', c, done, n')
  BY <1>1, <1>14, <1>17 DEF State
<1>21. CASE next > 0
  <2>1. done < Len(c) /\ next = c[done + 1].at
    BY <1>10, <1>21 DEF NextAt
  <2>2. c[done + 1].from = from + size
    <3>1. done \in 1 .. Len(c) - 1
      BY <1>3, <1>4, <2>1
    <3> QED BY <1>2, <1>5, <1>7, <3>1 DEF IsChain
  <2>3. pc' = "size" /\ done # 0 /\ io'.fp = c[done + 1].at
    BY <1>4, <1>11, <1>14, <1>18, <1>21, <2>1
  <2>4. AtBlock(c, done)'
    BY <1>7, <1>8, <1>15, <1>16, <1>17, <2>1, <2>2, <2>3 DEF AtBlock
  <2> QED BY <1>19, <1>20, <2>3, <2>4 DEF State, Reading
<1>22. CASE ~ (next > 0)
  <2>1. done = Len(c)
    <3>1. CASE done < Len(c)
      <4>1. done + 1 \in 1 .. Len(c)
        BY <1>3, <1>4, <3>1
      <4>2. ArrayAt <= c[done + 1].at /\ next = c[done + 1].at
        BY <1>1, <1>2, <1>10, <3>1, <4>1, ChainFacts DEF NextAt
      <4> QED BY <1>22, <4>2 DEF ArrayAt
    <3>2. CASE ~ (done < Len(c))
      BY <1>3, <1>4, <3>2
    <3> QED BY <3>1, <3>2
  <2>2. pc' = "append" /\ io'.fp = Len(io'.d) /\ w'.update = Len(io'.d)
    BY <1>11, <1>14, <1>15, <1>18, <1>22
  <2>3. Total(c) = from + size
    BY <1>5, <1>7, <2>1 DEF Total
  <2>4. AtNewBlock(c, done)'
    BY <1>5, <1>7, <1>8, <1>15, <1>16, <1>17, <2>1, <2>2, <2>3 DEF AtNewBlock
  <2> QED BY <1>19, <1>20, <2>2, <2>4 DEF State, Reading
<1> QED BY <1>21, <1>22

\* A block behind everything takes the rest of the array.
LEMMA AppendBlockKeeps ==
  ASSUME Types, NEW c, NEW t, NEW done \in Nat, State(c, t, done), AppendBlock
  PROVE  Types' /\ State(c, t, done)'
<1>1. pc = "append" /\ kind \in NumberKinds /\ io \in Stream0 /\ io.ok /\ home \in Nat
      /\ w \in [step : Nat, sz : Nat, pad : Nat, first : Nat, link : Nat, update : Nat]
  BY DEF AppendBlock, Types
<1>2. Layout(kind, io.d, c, t, home) /\ AtNewBlock(c, done)
  BY <1>1 DEF State
<1>3. /\ done = Len(c) /\ w.link = LinkAt(kind, c[done]) /\ w.first = EndOf(kind, c[1])
      /\ w.step = Total(c) /\ w.step <= n /\ io.fp = Len(io.d) /\ w.update = Len(io.d)
  BY <1>1, <1>2 DEF AtNewBlock
<1>4. want.array \in Seq(Element) /\ Len(want.array) <= MaxElements /\ n = Len(want.array) /\ n \in Nat
  BY NIs, SMTT(30) DEF MaxElements
<1>5. io' = NewBlock(kind, io, SubSeq(want.array, Total(c) + 1, Len(want.array)))
  BY <1>3, <1>4 DEF AppendBlock
<1>6. Total(c) <= Len(want.array)
  BY <1>3, <1>4
<1>7. /\ io' \in Stream0 /\ io'.ok = io.ok
      /\ SameRecord(kind, io.d, io'.d, c, t, home)
      /\ \E b \in Piece : b.at = Len(io.d) /\ Pending(kind, io'.d, c, t, home, b, want.array)
  <2>1. io.fp = Len(io.d)
    BY <1>3
  <2>2. io' \in Stream0 /\ io'.ok = io.ok
    BY <1>1, <1>2, <1>4, <1>5, <1>6, <2>1, BlockAppended, ZenonT(60)
  <2>3. SameRecord(kind, io.d, io'.d, c, t, home)
    BY <1>1, <1>2, <1>4, <1>5, <1>6, <2>1, BlockAppended, ZenonT(60)
  <2>4. \E b \in Piece : b.at = Len(io.d) /\ Pending(kind, io'.d, c, t, home, b, want.array)
    BY <1>1, <1>2, <1>4, <1>5, <1>6, <2>1, BlockAppended, ZenonT(60)
  <2> QED BY <2>2, <2>3, <2>4
<1>8. /\ kind' = kind /\ stored' = stored /\ want' = want /\ gen' = gen /\ home' = home /\ n' = n
  BY DEF AppendBlock, Unchanged, n
<1>9. pc' = "linked"
  BY <1>1, <1>7 DEF AppendBlock, Goto
<1>10. /\ w' \in [step : Nat, sz : Nat, pad : Nat, first : Nat, link : Nat, update : Nat]
       /\ w'.link = w.link /\ w'.first = w.first /\ w'.update = w.update
  BY <1>1, <1>4 DEF AppendBlock
<1>11. Types'
  BY <1>1, <1>7, <1>8, <1>9, <1>10 DEF Types, Places, Reading, GoodRecord
<1>12. /\ Layout(kind, io'.d, c, t, home)
       /\ \A i \in 1 .. Len(c) : \A array : Holds(kind, io.d, c[i], array) => Holds(kind, io'.d, c[i], array)
       /\ TextAt(io'.d, EndOf(kind, c[1])) = TextAt(io.d, EndOf(kind, c[1]))
  BY <1>7 DEF SameRecord
<1>13. Written(kind, io'.d, c, done, want.array)
  BY <1>1, <1>3, <1>12 DEF State, Written
<1>14. Kept(kind, io'.d, c, done, stored.array, n)
  <2>1. Kept(kind, io.d, c, done, stored.array, n)
    BY <1>1 DEF State
  <2>2. \A i \in done + 1 .. Len(c) : i \in 1 .. Len(c)
    <3>1. Len(c) \in Nat /\ done \in Nat
      BY <1>3
    <3> QED BY <3>1
  <2> QED BY <1>12, <2>1, <2>2 DEF Kept
<1>15. TextAt(io'.d, EndOf(kind, c[1])) = stored.text /\ (kind = "byte" => n >= Len(stored.array))
  BY <1>1, <1>12 DEF State
<1>16. AtNewBlock(c, done)'
  BY <1>3, <1>8, <1>9, <1>10 DEF AtNewBlock
<1>17. \E b \in Piece : b.at = w'.update /\ Pending(kind, io'.d, c, t, home, b, want.array)
  BY <1>3, <1>7, <1>10
<1> QED BY <1>8, <1>9, <1>11, <1>12, <1>13, <1>14, <1>15, <1>16, <1>17 DEF State, Reading

\* With the link the new block is the last one and the array is written.
LEMMA LinkBlockKeeps ==
  ASSUME Types, NEW c, NEW t, NEW done \in Nat, State(c, t, done), LinkBlock
  PROVE  Types' /\ \E c2 \in Seq(Piece), done2 \in Nat : State(c2, t, done2)'
<1>1. pc = "linked" /\ kind \in NumberKinds /\ io \in Stream0 /\ io.ok /\ home \in Nat
  BY DEF LinkBlock, Types
<1>2. /\ Layout(kind, io.d, c, t, home) /\ AtNewBlock(c, done) /\ Written(kind, io.d, c, done, want.array)
      /\ TextAt(io.d, EndOf(kind, c[1])) = stored.text
      /\ kind = "byte" => n >= Len(stored.array)
  BY <1>1 DEF State
<1>3. PICK b \in Piece : b.at = w.update /\ Pending(kind, io.d, c, t, home, b, want.array)
  BY <1>1 DEF State
<1>4. done = Len(c) /\ w.link = LinkAt(kind, c[Len(c)]) /\ w.first = EndOf(kind, c[1])
  BY <1>2 DEF AtNewBlock
<1>5. io' = PutNumber(Seek(io, LinkAt(kind, c[Len(c)])), b.at, 8)
  BY <1>3, <1>4 DEF LinkBlock
<1>6. io' \in Stream0 /\ io'.ok = io.ok /\ IsLinked(kind, io.d, io', c, Append(c, b), b, t, home, want.array)
  <2>1. Pending(kind, io.d, c, t, home, b, want.array) /\ Written(kind, io.d, c, Len(c), want.array)
    BY <1>2, <1>3, <1>4
  <2>2. io' \in Stream0 /\ io'.ok = io.ok
    BY <1>1, <1>2, <1>5, <2>1, BlockLinked, ZenonT(60)
  <2>3. IsLinked(kind, io.d, io', c, Append(c, b), b, t, home, want.array)
    BY <1>1, <1>2, <1>5, <2>1, BlockLinked, ZenonT(60)
  <2> QED BY <2>2, <2>3
<1>7. PICK r \in Seq(Piece) :
        /\ Len(r) = Len(c) + 1 /\ r[1] = c[1]
        /\ Layout(kind, io'.d, r, t, home) /\ Written(kind, io'.d, r, Len(r), want.array)
        /\ TextAt(io'.d, EndOf(kind, c[1])) = TextAt(io.d, EndOf(kind, c[1]))
        /\ Total(r) = Len(want.array)
  BY <1>6 DEF IsLinked
<1>8. /\ kind' = kind /\ stored' = stored /\ want' = want /\ gen' = gen /\ home' = home /\ n' = n /\ w' = w
  BY DEF LinkBlock, Unchanged, n
<1>9. pc' = "return"
  BY <1>1, <1>6 DEF LinkBlock, Goto
<1>10. Types'
  BY <1>1, <1>6, <1>8, <1>9 DEF Types, Places, Reading, GoodRecord
<1>11. Done(r, Len(r))'
  <2>1. EndOf(kind, c[1]) > 0
    <3>1. IsChain(kind, io.d, c)
      BY <1>2 DEF Layout
    <3>2. c[1].at \in Nat /\ EndOf(kind, c[1]) \in Nat /\ c[1].at + 16 <= EndOf(kind, c[1])
      BY <1>1, <3>1, ChainFacts
    <3> QED BY <3>2
  <2>2. n = Len(want.array)
    BY DEF n
  <2> QED BY <1>4, <1>7, <1>8, <1>9, <2>1, <2>2 DEF Done
<1>12. State(r, t, Len(r))'
  BY <1>2, <1>7, <1>8, <1>9, <1>11 DEF State, Reading
<1>13. Len(r) \in Nat
  BY LenProperties
<1> QED BY <1>10, <1>12, <1>13

\* Whatever blocks have been written, the file pointer comes back to the text.
LEMMA ReturnKeeps ==
  ASSUME Types, NEW c, NEW t, NEW done \in Nat, State(c, t, done), Return
  PROVE  Types' /\ State(c, t, done)'
<1>1. pc = "return" /\ kind \in NumberKinds /\ io \in Stream0 /\ io.ok /\ w.first \in Nat
  BY DEF Return, Types
<1>2. /\ Layout(kind, io.d, c, t, home) /\ Done(c, done) /\ Written(kind, io.d, c, done, want.array)
      /\ TextAt(io.d, EndOf(kind, c[1])) = stored.text
      /\ kind = "byte" => n >= Len(stored.array)
  BY <1>1 DEF State
<1>3. done = Len(c) /\ Total(c) = n /\ IF w.first = 0 THEN io.fp = EndOf(kind, c[1]) ELSE w.first = EndOf(kind, c[1])
  BY <1>1, <1>2 DEF Done
<1>4. io' \in Stream0 /\ io'.ok /\ io'.d = io.d /\ io'.fp = EndOf(kind, c[1])
  <2>1. CASE w.first > 0
    <3>1. io' = Seek(io, w.first)
      BY <2>1 DEF Return
    <3>2. w.first = EndOf(kind, c[1])
      BY <1>3, <2>1
    <3> QED BY <1>1, <3>1, <3>2, SeekIs
  <2>2. CASE ~ (w.first > 0)
    BY <1>1, <1>3, <2>2 DEF Return
  <2> QED BY <2>1, <2>2
<1>5. /\ kind' = kind /\ stored' = stored /\ want' = want /\ gen' = gen /\ home' = home /\ n' = n /\ w' = w
  BY DEF Return, Unchanged, n
<1>6. pc' = "text"
  BY <1>4 DEF Return, Goto
<1>7. Types'
  BY <1>1, <1>4, <1>5, <1>6 DEF Types, Places, Reading, GoodRecord
<1>8. Done(c, done)'
  BY <1>3, <1>4, <1>5, <1>6 DEF Done
<1> QED BY <1>2, <1>4, <1>5, <1>6, <1>7, <1>8 DEF State, Reading

\* The new text is in its place, with the array as it was.
LEMMA WriteTextKeeps ==
  ASSUME Types, NEW c, NEW t, NEW done \in Nat, State(c, t, done), WriteText
  PROVE  Types' /\ \E t2 \in TextPlace : State(c, t2, done)'
<1>1. pc = "text" /\ kind \in NumberKinds /\ io \in Stream0 /\ io.ok /\ home \in Nat
      /\ want.text \in Seq(Nat \ {0})
  BY DEF WriteText, Types, GoodRecord
<1>2. /\ Layout(kind, io.d, c, t, home) /\ Done(c, done) /\ Written(kind, io.d, c, done, want.array)
      /\ kind = "byte" => n >= Len(stored.array)
  BY <1>1 DEF State
<1>3. done = Len(c) /\ Total(c) = n /\ io.fp = EndOf(kind, c[1])
  BY <1>1, <1>2 DEF Done
<1>4. PICK s \in Stream0 : s = Reset(io) /\ s.ok /\ s.grown = 0 /\ s.eof = 0 /\ s.d = io.d /\ s.fp = io.fp
  <2>1. 0 \in Nat
    OBVIOUS
  <2>2. Reset(io) = [io EXCEPT !.grown = 0, !.eof = 0]
    BY DEF Reset
  <2>3. Reset(io) = [d |-> io.d, fp |-> io.fp, grown |-> 0, eof |-> 0, back |-> io.back, ok |-> io.ok]
    BY <1>1, <2>2 DEF Stream0
  <2>4. Reset(io) \in Stream0
    BY <1>1, <2>1, <2>3 DEF Stream0
  <2> QED BY <1>1, <2>3, <2>4
<1>5. io' = UpdateString(s, want.text)
  BY <1>4 DEF WriteText
<1>6. PICK t2 : TextDone(kind, io.d, io', c, t2, home, want.text)
  <2>1. Layout(kind, s.d, c, t, home) /\ s.fp = EndOf(kind, c[1])
    BY <1>2, <1>3, <1>4
  <2>2. \E t2 : TextDone(kind, s.d, io', c, t2, home, want.text)
    BY <1>1, <1>4, <1>5, <2>1, TextWritten, ZenonT(60)
  <2> QED BY <1>4, <2>2
<1>7. /\ io' \in Stream0 /\ io'.ok /\ io'.fp + 8 = home
      /\ t2 \in TextPlace /\ Layout(kind, io'.d, c, t2, home) /\ TextAt(io'.d, EndOf(kind, c[1])) = want.text
      /\ \A i \in 1 .. Len(c) : \A array : Holds(kind, io.d, c[i], array) => Holds(kind, io'.d, c[i], array)
  BY <1>6 DEF TextDone
<1>8. /\ kind' = kind /\ stored' = stored /\ want' = want /\ gen' = gen /\ home' = home /\ n' = n /\ w' = w
  BY DEF WriteText, Unchanged, n
<1>9. pc' = "end"
  BY <1>7 DEF WriteText, Goto
<1>10. Types'
  BY <1>1, <1>7, <1>8, <1>9 DEF Types, Places, Reading, GoodRecord
<1>11. Written(kind, io'.d, c, done, want.array)
  BY <1>2, <1>3, <1>7 DEF Written
<1>12. Done(c, done)'
  BY <1>3, <1>7, <1>8, <1>9 DEF Done
<1>13. State(c, t2, done)'
  BY <1>2, <1>7, <1>8, <1>9, <1>11, <1>12 DEF State, Reading
<1> QED BY <1>7, <1>10, <1>13

\* The record ends where it ended before.
LEMMA WriteEndKeeps ==
  ASSUME Types, NEW c, NEW t, NEW done \in Nat, State(c, t, done), WriteEnd
  PROVE  Types' /\ State(c, t, done)'
<1>1. pc = "end" /\ kind \in NumberKinds /\ io \in Stream0 /\ io.ok /\ home \in Nat
  BY DEF WriteEnd, Types
<1>2. /\ Layout(kind, io.d, c, t, home) /\ Done(c, done) /\ Written(kind, io.d, c, done, want.array)
      /\ TextAt(io.d, EndOf(kind, c[1])) = want.text
      /\ kind = "byte" => n >= Len(stored.array)
  BY <1>1 DEF State
<1>3. done = Len(c) /\ Total(c) = n /\ io.fp + 8 = home
  BY <1>1, <1>2 DEF Done
<1>4. 8 \in Widths /\ 0 \in Nat
  BY DEF Widths
<1>5. io' = PutNumber(io, 0, 8)
  BY DEF WriteEnd
<1>6. PICK d \in Seq(Nat), lo \in Nat, len \in Nat : d = io.d /\ lo = io.fp /\ len = Len(d)
  BY <1>1, LenProperties DEF Stream0
<1>7. home + 4 <= len
  BY <1>1, <1>2, <1>6, LayoutFacts
<1>8. /\ io' \in Stream0 /\ io'.ok
      /\ Len(io'.d) = IF lo + 8 > len THEN lo + 8 ELSE len
      /\ SameBut(io'.d, d, lo, lo + 8)
  <2>1. /\ PutNumber(io, 0, 8) \in Stream0 /\ PutNumber(io, 0, 8).ok = io.ok
        /\ Len(PutNumber(io, 0, 8).d) = IF io.fp + 8 > Len(io.d) THEN io.fp + 8 ELSE Len(io.d)
        /\ SameBut(PutNumber(io, 0, 8).d, io.d, io.fp, io.fp + 8)
    BY <1>1, <1>4, PutNumberIs
  <2> QED BY <1>1, <1>5, <1>6, <2>1
<1>9. PICK e \in Seq(Nat) : e = io'.d /\ Len(d) <= Len(e)
  <2>1. lo + 8 <= len
    BY <1>3, <1>6, <1>7
  <2>2. Len(io'.d) = len
    BY <1>8, <2>1
  <2> QED BY <1>6, <1>8, <2>2 DEF Stream0
<1>10. SameRecord(kind, d, e, c, t, home)
  <2>1. PICK hi \in Nat : hi = lo + 8
    OBVIOUS
  <2>2. home <= lo + 8 /\ hi <= home
    BY <1>3, <1>6, <2>1
  <2>3. Free(d, home, lo, hi)
    BY <2>2 DEF Free
  <2>4. Layout(kind, d, c, t, home) /\ SameBut(e, d, lo, hi)
    BY <1>2, <1>6, <1>8, <1>9, <2>1
  <2> QED BY <1>1, <1>9, <2>3, <2>4, FreeWrite
<1>11. /\ Layout(kind, e, c, t, home)
       /\ \A i \in 1 .. Len(c) : \A array : Holds(kind, d, c[i], array) => Holds(kind, e, c[i], array)
       /\ TextAt(e, EndOf(kind, c[1])) = want.text
  BY <1>2, <1>6, <1>10 DEF SameRecord
<1>12. /\ kind' = kind /\ stored' = want /\ want' = want /\ gen' = gen /\ home' = home /\ n' = n /\ w' = w /\ pc' = "idle"
  BY DEF WriteEnd, n
<1>13. Types'
  BY <1>8, <1>12 DEF Types, Places, Reading, GoodRecord
<1>14. Written(kind, e, c, done, want.array)
  BY <1>2, <1>3, <1>6, <1>11 DEF Written
<1>15. Kept(kind, e, c, done, want.array, n)
  <2>1. \A i \in done + 1 .. Len(c) : FALSE
    <3>1. Len(c) \in Nat
      BY <1>3
    <3> QED BY <1>3, <3>1
  <2>2. Total(c) = Len(want.array)
    BY <1>3 DEF n
  <2> QED BY <2>1, <2>2 DEF Kept
<1>16. Done(c, done)'
  BY <1>3, <1>12 DEF Done
<1> QED BY <1>9, <1>11, <1>12, <1>13, <1>14, <1>15, <1>16 DEF State, Reading

\* What is tried: updates the code handles, of arrays that have an element and are
\* no longer than what is followed.
Followed ==
  /\ ~ AnyHistory
  /\ Shapes \subseteq {s \in Seq(Nat) : Len(s) \in 1 .. MaxElements}

\* Every record that is tried is one.
LEMMA RecordIs ==
  ASSUME Followed, NEW k \in NumberKinds, NEW g \in Nat \ {0}, NEW shape \in ShapesOf(k), NEW len \in {1, 5}
  PROVE  GoodRecord(Record(g, shape, len))
<1>1. shape \in Seq(Nat) /\ Len(shape) \in 1 .. MaxElements /\ \A i \in DOMAIN shape : shape[i] = 1
  BY DEF ShapesOf, Followed, NumberKinds
<1>2. Len(shape) \in Nat /\ DOMAIN shape = 1 .. Len(shape)
  BY <1>1, LenProperties
<1>3. PICK m \in Nat : m = Len(shape)
  BY <1>2
<1>4. ASSUME NEW i \in 1 .. m PROVE Text(g, i, shape[i]) \in Element
  <2>1. shape[i] = 1
    BY <1>1, <1>2, <1>3
  <2>2. 10 * g + i \in Nat
    BY <1>3
  <2> QED BY <2>1, <2>2 DEF Text, Element
<1> DEFINE a == [i \in 1 .. m |-> Text(g, i, shape[i])]
<1>5. a \in Seq(Element) /\ Len(a) = m
  BY <1>4, SeqOfFunction
<1>6. Text(g, 9, len) \in Seq(Nat \ {0})
  <2>1. 10 * g + 9 \in Nat \ {0} /\ len \in Nat
    OBVIOUS
  <2>2. [j \in 1 .. len |-> 10 * g + 9] \in Seq(Nat \ {0})
    BY <2>1, SeqOfFunction
  <2> QED BY <2>2 DEF Text
<1>7. Record(g, shape, len) = [array |-> a, text |-> Text(g, 9, len)]
  BY <1>2, <1>3 DEF Record
<1> HIDE DEF a
<1> QED BY <1>1, <1>3, <1>5, <1>6, <1>7 DEF GoodRecord

\* An update begins with no block written and all of them old.
LEMMA StartUpdateKeeps ==
  ASSUME Followed, Types, NEW c, NEW t, NEW done \in Nat, State(c, t, done), StartUpdate
  PROVE  Types' /\ State(c, t, 0)'
<1>1. pc = "idle" /\ kind \in NumberKinds /\ io \in Stream0 /\ io.ok /\ home \in Nat /\ gen \in Nat \ {0}
      /\ GoodRecord(stored)
  BY DEF StartUpdate, Types
<1>2. /\ Layout(kind, io.d, c, t, home) /\ Done(c, done) /\ Written(kind, io.d, c, done, want.array)
      /\ TextAt(io.d, EndOf(kind, c[1])) = stored.text /\ want = stored
  BY <1>1 DEF State
<1>3. done = Len(c) /\ Total(c) = Len(stored.array)
  BY <1>2 DEF Done, n
<1>4. PICK shape \in ShapesOf(kind), len \in {1, 5} :
        /\ Handled(Record(gen + 1, shape, len), ReadFrom(kind, io.d))
        /\ want' = Record(gen + 1, shape, len)
  BY DEF StartUpdate, Followed
<1>5. GoodRecord(want')
  <2>1. gen + 1 \in Nat \ {0}
    BY <1>1
  <2> QED BY <1>1, <1>4, <2>1, RecordIs
<1>6. n' \in Nat /\ n' = Len(want'.array)
  <2>1. want'.array \in Seq(Element)
    BY <1>5 DEF GoodRecord
  <2> QED BY <2>1, LenProperties DEF n
<1>7. IsChain(kind, io.d, c) /\ c[1].at = ArrayAt /\ c[1].from = 0 /\ Len(c) >= 1
  BY <1>2 DEF Layout, IsChain
<1>8. FutureFits(kind, c, 0, n') /\ (kind = "byte" => n' >= Len(stored.array))
  <2>1. io.d \in Seq(Nat) /\ Len(Record(gen + 1, shape, len).array) \in Nat
    BY <1>1, <1>4, <1>6 DEF Stream0
  <2>2. /\ FutureFits(kind, c, 0, Len(Record(gen + 1, shape, len).array))
        /\ kind = "byte" => Len(Record(gen + 1, shape, len).array) >= Len(stored.array)
    BY <1>1, <1>4, <1>7, <2>1, HandledFits
  <2> QED BY <1>4, <1>6, <2>2
<1>9. PICK d \in Seq(Nat), l \in Nat : d = io.d /\ l = Len(d)
  BY <1>1, LenProperties DEF Stream0
<1>10. /\ io' \in Stream0 /\ io'.ok /\ io'.fp = 3 /\ Len(io'.d) = l
       /\ SameBut(io'.d, d, 0, 3)
  <2>1. io' = Put(Stream(d), <<2, 0, 1>>)
    BY <1>9 DEF StartUpdate
  <2>2. Stream(d) \in Stream0 /\ Stream(d).ok /\ Stream(d).d = d /\ Stream(d).fp = 0
    <3>1. 0 \in Nat
      OBVIOUS
    <3> QED BY <3>1 DEF Stream, Stream0
  <2>3. <<2, 0, 1>> \in Seq(Nat) /\ Len(<<2, 0, 1>>) = 3
    OBVIOUS
  <2>4. l >= 3
    <3>1. home + 4 <= Len(d)
      BY <1>1, <1>2, <1>9, LayoutFacts
    <3> QED BY <1>1, <1>9, <3>1
  <2> HIDE DEF Stream
  <2>5. /\ io' \in Stream0 /\ io'.ok = Stream(d).ok /\ io'.fp = Stream(d).fp + 3
        /\ Len(io'.d) = IF Stream(d).fp + 3 > Len(Stream(d).d) THEN Stream(d).fp + 3 ELSE Len(Stream(d).d)
        /\ SameBut(io'.d, Stream(d).d, Stream(d).fp, Stream(d).fp + 3)
    <3>1. PICK s \in Stream0, b \in Seq(Nat) : s = Stream(d) /\ b = <<2, 0, 1>> /\ Len(b) = 3
      BY <2>2, <2>3
    <3>2. /\ Put(s, b) \in Stream0 /\ Put(s, b).ok = s.ok
          /\ Put(s, b).fp = s.fp + Len(b)
          /\ Len(Put(s, b).d) = IF s.fp + Len(b) > Len(s.d) THEN s.fp + Len(b) ELSE Len(s.d)
          /\ SameBut(Put(s, b).d, s.d, s.fp, s.fp + Len(b))
      BY PutIs
    <3> QED BY <2>1, <3>1, <3>2
  <2> QED BY <1>9, <2>2, <2>4, <2>5
<1>11. PICK e \in Seq(Nat) : e = io'.d /\ Len(d) <= Len(e)
  BY <1>9, <1>10 DEF Stream0
<1>12. SameRecord(kind, d, e, c, t, home)
  <2>1. Free(d, home, 0, 3) /\ 0 \in Nat /\ 3 \in Nat
    BY DEF Free, ArrayAt
  <2>2. Layout(kind, d, c, t, home) /\ SameBut(e, d, 0, 3)
    BY <1>2, <1>9, <1>10, <1>11
  <2> QED BY <1>1, <1>11, <2>1, <2>2, FreeWrite
<1>13. /\ Layout(kind, e, c, t, home)
       /\ \A i \in 1 .. Len(c) : \A array : Holds(kind, d, c[i], array) => Holds(kind, e, c[i], array)
       /\ TextAt(e, EndOf(kind, c[1])) = stored.text
  BY <1>2, <1>9, <1>12 DEF SameRecord
<1>14. /\ kind' = kind /\ stored' = stored /\ home' = home /\ pc' = "size"
       /\ w' = [step |-> 0, sz |-> 0, pad |-> 0, first |-> 0, link |-> 0, update |-> 0]
       /\ gen' \in Nat \ {0}
  <2>1. gen' = gen + 1
    BY DEF StartUpdate
  <2>2. gen + 1 \in Nat \ {0}
    BY <1>1
  <2> QED BY <2>1, <2>2 DEF StartUpdate, Idle
<1>15. Types'
  <2>1. 0 \in Nat
    OBVIOUS
  <2>2. w' \in [step : Nat, sz : Nat, pad : Nat, first : Nat, link : Nat, update : Nat]
    BY <1>14, <2>1
  <2> QED BY <1>1, <1>5, <1>10, <1>14, <2>2 DEF Types, Places, Reading, GoodRecord
<1>16. Written(kind, e, c, 0, want'.array)
  BY DEF Written
<1>17. Kept(kind, e, c, 0, stored.array, n')
  <2>1. ASSUME NEW i \in 1 .. Len(c) PROVE Holds(kind, e, c[i], stored.array)
    BY <1>2, <1>3, <1>9, <1>13, <2>1 DEF Written
  <2>2. \A i \in 0 + 1 .. Len(c) : Holds(kind, e, c[i], stored.array)
    BY <2>1
  <2> QED BY <1>3, <2>2 DEF Kept
<1>18. AtBlock(c, 0)'
  <2>1. 0 < Len(c) /\ c[0 + 1] = c[1]
    BY <1>3, <1>7
  <2>2. w'.step = 0 /\ w'.first = 0 /\ io'.fp = ArrayAt
    BY <1>10, <1>14 DEF ArrayAt
  <2>3. 0 <= n'
    BY <1>6
  <2> QED BY <1>7, <1>14, <2>1, <2>2, <2>3 DEF AtBlock
<1> QED BY <1>8, <1>11, <1>13, <1>14, <1>15, <1>16, <1>17, <1>18 DEF State, Reading

WriteVars == [step : Nat, sz : Nat, pad : Nat, first : Nat, link : Nat, update : Nat]

\* A step that writes the last elements of the array.
LEMMA EndedKeeps ==
  ASSUME Types, NEW c, NEW t, NEW done \in Nat, State(c, t, done), pc \in Reading,
         NEW b, Shorter(kind, c, done + 1, b), b.from + b.size = n,
         NEW x, x.ok, IsEnded(kind, io.d, io', x, c, done + 1, b, t, home, want.array),
         done = 0 => x.fp = LinkAt(kind, b),
         Unchanged, pc' = "return", w' \in WriteVars, w'.first = w.first
  PROVE  Types' /\ \E c2 \in Seq(Piece), done2 \in Nat : State(c2, t, done2)'
<1> DEFINE r == Replaced(c, done + 1, b, done + 1)
<1>1. kind \in NumberKinds
  BY DEF Types
<1>2. /\ IsChain(kind, io.d, c) /\ done + 1 \in 1 .. Len(c)
      /\ w.first = IF done = 0 THEN 0 ELSE EndOf(kind, c[1])
  BY BlockHere DEF AtBlock
<1>3. b \in Piece /\ b.size <= c[done + 1].size /\ (done = 0 => EndOf(kind, b) = EndOf(kind, c[1]))
  BY DEF Shorter
<1>4. /\ io' \in Stream0 /\ io'.ok /\ io'.fp = x.fp + 8
      /\ IsWritten(kind, io.d, io'.d, c, r, done + 1, t, home, want.array)
      /\ Total(r) = n
  BY DEF IsEnded
<1>5. r \in Seq(Piece) /\ Len(r) = done + 1
  <2>1. done + 1 \in Nat /\ done + 1 <= done + 1 /\ done + 1 <= Len(c)
    BY <1>2
  <2> QED BY <1>1, <1>2, <1>3, <2>1, ReplacedIs
<1> HIDE DEF r
<1>6. /\ Layout(kind, io'.d, r, t, home)
      /\ EndOf(kind, r[1]) = EndOf(kind, c[1])
      /\ TextAt(io'.d, EndOf(kind, r[1])) = TextAt(io.d, EndOf(kind, c[1]))
      /\ Written(kind, io'.d, r, done + 1, want.array)
  BY <1>4 DEF IsWritten
<1>7. /\ kind' = kind /\ stored' = stored /\ want' = want /\ gen' = gen /\ home' = home /\ n' = n
  BY DEF Unchanged, n
<1>8. /\ TextAt(io.d, EndOf(kind, c[1])) = stored.text
      /\ kind = "byte" => n >= Len(stored.array)
  BY DEF State, Reading
<1>9. Types'
  BY <1>4, <1>7 DEF Types, Places, Reading, GoodRecord, WriteVars
<1>10. Done(r, done + 1)'
  <2>1. w'.first = 0 => io'.fp = EndOf(kind, r[1])
    <3>1. EndOf(kind, c[1]) \in Nat /\ c[1].at \in Nat /\ c[1].at + 16 <= EndOf(kind, c[1]) /\ Len(c) \in Nat
      BY <1>1, <1>2, ChainFacts
    <3>2. w'.first = 0 => done = 0
      BY <1>2, <3>1
    <3>3. done = 0 => io'.fp = EndOf(kind, b)
      BY <1>4 DEF EndOf
    <3> QED BY <1>3, <1>6, <3>2, <3>3
  <2>2. w'.first # 0 => w'.first = EndOf(kind, r[1])
    BY <1>2, <1>6
  <2> QED BY <1>4, <1>5, <1>7, <2>1, <2>2 DEF Done
<1>11. State(r, t, done + 1)'
  BY <1>6, <1>7, <1>8, <1>10 DEF State, Reading
<1> QED BY <1>5, <1>9, <1>11

\* A step that writes a block in its place and goes on after it.
LEMMA PlainKeeps ==
  ASSUME Types, NEW c, NEW t, NEW done \in Nat, State(c, t, done), pc \in Reading,
         io' \in Stream0, io'.ok, IsPlain(kind, io.d, io'.d, c, done + 1, t, home, want.array),
         Goes(kind, c[done + 1], n), c[done + 1].from + c[done + 1].size <= n,
         Unchanged, pc' = "link", w' \in WriteVars, w'.first = w.first,
         w'.step = c[done + 1].from + c[done + 1].size, w'.pad = c[done + 1].pad,
         io'.fp = c[done + 1].at + 8 + Bytes(kind, c[done + 1].size)
  PROVE  Types' /\ State(c, t, done + 1)'
<1>1. kind \in NumberKinds
  BY DEF Types
<1>2. /\ IsChain(kind, io.d, c) /\ done + 1 \in 1 .. Len(c)
      /\ w.first = IF done = 0 THEN 0 ELSE EndOf(kind, c[1])
  BY BlockHere DEF AtBlock
<1>3. PICK len \in Nat : len = Len(c)
  BY <1>1, <1>2, ChainFacts
<1>4. /\ Layout(kind, io'.d, c, t, home)
      /\ TextAt(io'.d, EndOf(kind, c[1])) = TextAt(io.d, EndOf(kind, c[1]))
      /\ Written(kind, io'.d, c, done + 1, want.array)
      /\ \A j \in 1 .. Len(c) : \A any : j # done + 1 /\ Holds(kind, io.d, c[j], any) => Holds(kind, io'.d, c[j], any)
  BY DEF IsPlain, IsWritten
<1>5. /\ kind' = kind /\ stored' = stored /\ want' = want /\ gen' = gen /\ home' = home /\ n' = n
  BY DEF Unchanged, n
<1>6. /\ TextAt(io.d, EndOf(kind, c[1])) = stored.text
      /\ kind = "byte" => n >= Len(stored.array)
      /\ Kept(kind, io.d, c, done, stored.array, n)
      /\ FutureFits(kind, c, done, n)
  BY DEF State, Reading
<1>7. Types'
  BY <1>5 DEF Types, Places, Reading, GoodRecord, WriteVars
<1>8. Kept(kind, io'.d, c, done + 1, stored.array, n)
  <2>1. ASSUME n >= Len(stored.array), NEW i \in done + 1 + 1 .. Len(c) PROVE Holds(kind, io'.d, c[i], stored.array)
    <3>1. i \in done + 1 + 1 .. len
      BY <1>3
    <3>2. i \in done + 1 .. len /\ i \in 1 .. len /\ i # done + 1
      BY <3>1
    <3>3. Holds(kind, io.d, c[i], stored.array)
      BY <1>3, <1>6, <2>1, <3>2 DEF Kept
    <3> QED BY <1>3, <1>4, <3>2, <3>3
  <2> QED BY <1>6, <2>1 DEF Kept
<1>9. FutureFits(kind, c, done + 1, n)
  <2> SUFFICES ASSUME NEW i \in 2 .. Len(c), i > done + 1, \A j \in done + 1 + 1 .. i - 1 : Goes(kind, c[j], n)
               PROVE  Fits(kind, c, i, n)
    BY DEF FutureFits
  <2>1. i \in 2 .. len /\ i > done
    BY <1>3
  <2>2. ASSUME NEW j \in done + 1 .. i - 1 PROVE Goes(kind, c[j], n)
    <3>1. CASE j = done + 1
      BY <3>1
    <3>2. CASE j # done + 1
      <4>1. j \in done + 1 + 1 .. i - 1
        BY <2>1, <3>2
      <4> QED BY <4>1
    <3> QED BY <3>1, <3>2
  <2>3. \A j \in done + 1 .. i - 1 : Goes(kind, c[j], n)
    BY <2>2
  <2> QED BY <1>6, <2>1, <2>3 DEF FutureFits
<1>10. AfterBlock(c, done + 1)'
  <2>1. done + 1 = 1 <=> done = 0
    OBVIOUS
  <2> QED BY <1>2, <1>5, <2>1 DEF AfterBlock
<1>11. State(c, t, done + 1)'
  BY <1>4, <1>5, <1>6, <1>8, <1>9, <1>10 DEF State, Reading
<1> QED BY <1>7, <1>11

\* The header of a block is written, or it is there already.
LEMMA HeaderPut ==
  ASSUME NEW k \in NumberKinds, NEW s \in Stream0, NEW b \in Piece, b.at + 8 <= Len(s.d),
         NEW u, u = PutNumber(PutNumber(Seek(s, b.at), b.size, 4), b.pad, 4)
  PROVE  Headed(k, s.d, u, b) /\ u.ok = s.ok
<1>1. b.at \in Nat /\ b.size \in Nat /\ b.pad \in Nat /\ Len(s.d) \in Nat
  BY LenProperties DEF Piece, Stream0
<1>2. /\ u \in Stream0 /\ u.fp = b.at + 8 /\ u.ok = s.ok
      /\ Len(u.d) = IF b.at + 8 > Len(s.d) THEN b.at + 8 ELSE Len(s.d)
      /\ NumberAt(u.d, b.at, 4) = b.size /\ NumberAt(u.d, b.at + 4, 4) = b.pad
      /\ SameBut(u.d, s.d, b.at, b.at + 8)
  <2>1. PICK p \in Nat, size \in Nat, pad \in Nat : p = b.at /\ size = b.size /\ pad = b.pad
    BY <1>1
  <2>2. u = PutNumber(PutNumber(Seek(s, p), size, 4), pad, 4)
    BY <2>1
  <2>3. /\ u \in Stream0 /\ u.fp = p + 8 /\ u.ok = s.ok
        /\ Len(u.d) = IF p + 8 > Len(s.d) THEN p + 8 ELSE Len(s.d)
        /\ NumberAt(u.d, p, 4) = size /\ NumberAt(u.d, p + 4, 4) = pad
        /\ SameBut(u.d, s.d, p, p + 8)
    BY <2>2, HeaderIs
  <2> QED BY <2>1, <2>3
<1>3. Len(u.d) = Len(s.d)
  BY <1>1, <1>2
<1> QED BY <1>2, <1>3 DEF Headed

\* The header is there already.
LEMMA HeaderThere ==
  ASSUME NEW k \in NumberKinds, NEW d, NEW b \in Piece, NEW next, InFile(k, d, b, next),
         NEW s \in Stream0, s.d = d, s.fp = b.at + 8
  PROVE  Headed(k, d, s, b)
<1>1. SameBut(d, d, b.at, b.at + 8)
  BY DEF SameBut
<1> QED BY <1>1 DEF Headed, InFile

\* After the elements the padding is skipped up to the link.
LEMMA PaddingIsSkipped ==
  ASSUME NEW k \in NumberKinds, NEW s \in Stream0, NEW b \in Piece, Bounded(k, b),
         s.fp = b.at + 8 + Bytes(k, b.size), NEW x, x = OverPadding(k, s, b.pad)
  PROVE  x \in Stream0 /\ x.d = s.d /\ x.ok = s.ok /\ x.fp = LinkAt(k, b)
<1>1. PICK at \in Nat, pad \in Nat, f \in Nat, g \in Nat, l \in Nat :
        /\ at = b.at /\ pad = b.pad /\ f = Bytes(k, b.size) /\ g = Bytes(k, b.pad) /\ l = LinkAt(k, b)
  BY PieceEnds DEF Piece
<1>2. LinkAt(k, b) = b.at + 8 + Bytes(k, b.size) + Bytes(k, b.pad)
  BY PieceEnds
<1>3. PICK p \in Nat : p = at + 8 + f
  OBVIOUS
<1>4. s.fp = p /\ (k = "byte" => pad = 0) /\ l = p + g
  BY <1>1, <1>2, <1>3 DEF Bounded
<1>5. OverPadding(k, s, pad) = [s EXCEPT !.fp = p + Bytes(k, pad)]
  BY <1>4, OverPaddingIs
<1>6. x = [s EXCEPT !.fp = l]
  BY <1>1, <1>4, <1>5
<1> QED BY <1>1, <1>6 DEF Stream0

\* The elements of an array of bytes that are there are all written again.
LEMMA NoFewerBytes ==
  ASSUME Types, NEW c, NEW t, NEW done \in Nat, State(c, t, done), pc \in Reading, kind = "byte"
  PROVE  c[done + 1].from + c[done + 1].size <= n
<1>1. IsChain(kind, io.d, c) /\ done + 1 \in 1 .. Len(c)
  BY BlockHere
<1>2. kind = "byte" => n >= Len(stored.array)
  BY DEF State, Reading
<1>3. Kept(kind, io.d, c, done, stored.array, n)
  BY DEF State, Reading
<1>4. Total(c) = Len(stored.array)
  BY <1>2, <1>3 DEF Kept
<1>5. PICK x \in Nat, a \in Nat, b \in Nat, m \in Nat : x = Total(c) /\ a = c[done + 1].from /\ b = c[done + 1].size /\ m = n
  BY <1>1, ChainFacts, NIs DEF Types
<1>6. x <= m
  BY <1>2, <1>4, <1>5
<1>7. a + b <= x
  BY <1>1, <1>5, ChainFacts DEF Types
<1>8. a + b <= m
  BY <1>6, <1>7
<1> QED BY <1>5, <1>8

\* A later block fits.
LEMMA FitsHere ==
  ASSUME Types, NEW c, NEW t, NEW done \in Nat, State(c, t, done), pc \in Reading, done # 0
  PROVE  Fits(kind, c, done + 1, n)
<1>1. IsChain(kind, io.d, c) /\ done + 1 \in 1 .. Len(c)
  BY BlockHere
<1>2. PICK len \in Nat : len = Len(c)
  BY <1>1, ChainFacts DEF Types
<1>3. done + 1 \in 2 .. len
  <2>1. done + 1 \in 1 .. len
    BY <1>1, <1>2
  <2> QED BY <2>1
<1>4. FutureFits(kind, c, done, n)
  BY DEF State, Reading
<1>5. done + 1 > done /\ \A j \in done + 1 .. (done + 1) - 1 : Goes(kind, c[j], n)
  OBVIOUS
<1> QED BY <1>2, <1>3, <1>4, <1>5 DEF FutureFits

\* The part of the array that goes into a block.
LEMMA PartTaken ==
  ASSUME NEW array \in Seq(Element), NEW b \in Piece, b.from + b.size <= Len(array),
         NEW lo, NEW hi, lo = b.from + 1, hi = b.from + b.size
  PROVE  PartOf(b, SubSeq(array, lo, hi), array)
<1>1. PICK a \in Nat, m \in Nat : a = b.from /\ m = b.size
  BY DEF Piece
<1>2. a + m <= Len(array) /\ lo = a + 1 /\ hi = a + m
  BY <1>1
<1>3. /\ SubSeq(array, a + 1, a + m) \in Seq(Element) /\ Len(SubSeq(array, a + 1, a + m)) = m
      /\ \A j \in 1 .. m : SubSeq(array, a + 1, a + m)[j] = array[a + j]
  BY <1>2, PartIs
<1> QED BY <1>1, <1>2, <1>3 DEF PartOf

\* The array ends in a block with more elements; it can only be the first.
LEMMA ShrinkBlockKeeps ==
  ASSUME Types, NEW c, NEW t, NEW done \in Nat, State(c, t, done), ShrinkBlock
  PROVE  Types' /\ \E c2 \in Seq(Piece), done2 \in Nat : State(c2, t, done2)'
<1>1. pc = "shrink" /\ pc \in Reading /\ kind \in NumberKinds /\ kind # "string" /\ io \in Stream0 /\ io.ok
      /\ home \in Nat /\ w \in WriteVars
  BY DEF ShrinkBlock, Types, Reading, NumberKinds, WriteVars
<1>2. /\ Layout(kind, io.d, c, t, home) /\ Written(kind, io.d, c, done, want.array)
  BY DEF State
<1>3. /\ IsChain(kind, io.d, c) /\ done + 1 \in 1 .. Len(c)
      /\ c[done + 1] \in Piece /\ Bounded(kind, c[done + 1])
      /\ InFile(kind, io.d, c[done + 1], NextAt(c, done + 1))
      /\ AtBlock(c, done)
  BY <1>1, BlockHere
<1>4. n \in Nat /\ n \in 1 .. MaxElements /\ want.array \in Seq(Element) /\ n = Len(want.array)
  BY NIs
<1>5. PICK at \in Nat, size \in Nat, pad \in Nat, from \in Nat, m \in Nat :
        /\ at = c[done + 1].at /\ size = c[done + 1].size /\ pad = c[done + 1].pad /\ from = c[done + 1].from /\ m = n
  BY <1>3, <1>4 DEF Piece
<1>6. io.fp = at + 4 /\ m < size /\ w.sz = size /\ w.step = from /\ NumberAt(io.d, io.fp, 4) = pad
  BY <1>1, <1>3, <1>5 DEF AtBlock, InFile
<1>7. done = 0
  <2>1. CASE done # 0
    <3>1. size <= m
      BY <1>1, <1>5, <2>1, FitsHere DEF Fits
    <3> QED BY <1>6, <3>1
  <2> QED BY <2>1
<1>8. kind # "byte"
  <2>1. CASE kind = "byte"
    <3>1. from + size <= m
      BY <1>1, <1>5, <2>1, NoFewerBytes
    <3> QED BY <1>6, <3>1
  <2> QED BY <2>1
<1>9. from = 0 /\ c[done + 1] = c[1] /\ 1 <= m /\ m <= MaxElements
  BY <1>3, <1>4, <1>5, <1>7 DEF IsChain
<1>10. PICK rest \in Nat : rest = pad + size - m /\ m + rest = size + pad
  <2>1. pad + size - m \in Nat /\ m + (pad + size - m) = size + pad
    BY <1>6
  <2> QED BY <2>1
<1>11. PICK b \in Piece : b.at = at /\ b.size = m /\ b.pad = rest /\ b.from = 0
  <2>1. [at |-> at, size |-> m, pad |-> rest, from |-> 0] \in Piece
    BY DEF Piece
  <2> QED BY <2>1
<1>12. LinkAt(kind, b) = LinkAt(kind, c[1]) /\ EndOf(kind, b) = EndOf(kind, c[1])
  <2>1. LinkAt(kind, b) = LinkAt(kind, c[1])
    BY <1>5, <1>9, <1>10, <1>11 DEF LinkAt
  <2> QED BY <2>1 DEF EndOf
<1>13. Shorter(kind, c, done + 1, b)
  <2>1. EndOf(kind, c[1]) \in Nat /\ EndOf(kind, b) <= EndOf(kind, c[done + 1])
    <3>1. EndOf(kind, c[1]) \in Nat
      BY <1>1, <1>3, ChainFacts
    <3> QED BY <1>9, <1>12, <3>1
  <2>2. Bounded(kind, b)
    <3>1. b.size + b.pad = c[1].size + c[1].pad
      BY <1>5, <1>9, <1>10, <1>11
    <3> QED BY <1>3, <1>8, <1>9, <3>1 DEF Bounded
  <2>3. b.size <= c[done + 1].size /\ b.size >= 1
    BY <1>5, <1>6, <1>9, <1>11
  <2> QED BY <1>5, <1>9, <1>11, <1>12, <2>1, <2>2, <2>3 DEF Shorter
<1> DEFINE put == PutNumber(PutNumber(Seek(io, at), m, 4), rest, 4)
           es == SubSeq(want.array, from + 1, m)
           all == NewElements(kind, put, es)
           x == OverPadding(kind, all, rest)
<1>14. io' = PutNumber(x, 0, 8)
  <2>1. io.fp - 4 = at
    BY <1>6
  <2>2. pad + size - m = rest
    BY <1>10
  <2> QED BY <1>1, <1>5, <1>6, <2>1, <2>2 DEF ShrinkBlock, Overwrite
<1>15. Headed(kind, io.d, put, b) /\ put.ok
  <2>1. b.at + 8 <= Len(io.d)
    <3>1. PICK l \in Nat : l = EndOf(kind, c[1]) /\ at + 16 <= l /\ l <= Len(io.d)
      BY <1>1, <1>3, <1>5, <1>9, ChainFacts
    <3>2. Len(io.d) \in Nat
      BY <1>1, LenProperties DEF Stream0
    <3>3. at + 8 <= Len(io.d)
      BY <3>1, <3>2
    <3> QED BY <1>11, <3>3
  <2>2. put = PutNumber(PutNumber(Seek(io, b.at), b.size, 4), b.pad, 4)
    BY <1>11
  <2> HIDE DEF put
  <2> QED BY <1>1, <2>1, <2>2, HeaderPut
<1>16. PartOf(b, es, want.array)
  <2>1. b.from + b.size <= Len(want.array) /\ from + 1 = b.from + 1 /\ m = b.from + b.size
    BY <1>4, <1>5, <1>9, <1>11
  <2> QED BY <1>4, <2>1, PartTaken
<1> HIDE DEF put, es
<1>17. all \in Stream0 /\ all.ok /\ all.fp = b.at + 8 + Bytes(kind, b.size)
  <2>1. EndOf(kind, b) <= Len(io.d) /\ io.d \in Seq(Nat)
    BY <1>1, <1>3, <1>12, ChainFacts DEF Stream0
  <2> QED BY <1>1, <1>15, <1>16, <2>1, ElementsPut DEF Rewritten
<1> HIDE DEF all
<1>18. x \in Stream0 /\ x.d = all.d /\ x.ok /\ x.fp = LinkAt(kind, b)
  <2>1. x = OverPadding(kind, all, b.pad) /\ Bounded(kind, b)
    BY <1>11, <1>13 DEF Shorter
  <2> HIDE DEF x
  <2> QED BY <1>1, <1>17, <2>1, PaddingIsSkipped
<1> HIDE DEF x
<1>19. IsEnded(kind, io.d, io', x, c, done + 1, b, t, home, want.array)
  <2>1. EndsAt(kind, io.d, b, x.fp)
    BY <1>18 DEF EndsAt
  <2>2. Written(kind, io.d, c, (done + 1) - 1, want.array)
    <3>1. (done + 1) - 1 = done
      OBVIOUS
    <3> QED BY <1>2, <3>1
  <2>3. io.d \in Seq(Nat) /\ x.d = NewElements(kind, put, es).d
    BY <1>1, <1>18 DEF Stream0, all
  <2>4. IsEnded(kind, io.d, PutNumber(x, 0, 8), x, c, done + 1, b, t, home, want.array)
    BY <1>1, <1>2, <1>3, <1>13, <1>15, <1>16, <1>18, <2>1, <2>2, <2>3, ArrayEnds
  <2> QED BY <1>14, <2>4
<1>20. b.from + b.size = n /\ Unchanged /\ pc' = "return" /\ w' \in WriteVars /\ w'.first = w.first
  <2>1. io'.ok
    BY <1>18, <1>19 DEF IsEnded
  <2> QED BY <1>1, <1>5, <1>11, <2>1 DEF ShrinkBlock, Goto
<1> QED BY <1>1, <1>13, <1>18, <1>19, <1>20, EndedKeeps

\* A block with less padding or fewer elements ends earlier.
LEMMA LessIsShorter ==
  ASSUME NEW k \in NumberKinds, NEW x \in Piece, NEW b \in Piece, b.at = x.at, b.size + b.pad <= x.size + x.pad
  PROVE  LinkAt(k, b) <= LinkAt(k, x) /\ EndOf(k, b) <= EndOf(k, x)
<1>1. PICK at \in Nat, y \in Nat, z \in Nat : at = b.at /\ y = b.size + b.pad /\ z = x.size + x.pad
  BY DEF Piece
<1>2. Bytes(k, y) \in Nat /\ Bytes(k, z) \in Nat /\ Bytes(k, y) <= Bytes(k, z)
  BY <1>1, BytesLaws
<1>3. PICK f \in Nat, g \in Nat : f = Bytes(k, y) /\ g = Bytes(k, z)
  BY <1>2
<1>4. LinkAt(k, b) = at + 8 + f /\ LinkAt(k, x) = at + 8 + g
  BY <1>1, <1>3 DEF LinkAt
<1>5. EndOf(k, b) = at + 8 + f + 8 /\ EndOf(k, x) = at + 8 + g + 8
  BY <1>4 DEF EndOf
<1>6. at + 8 + f <= at + 8 + g /\ at + 8 + f + 8 <= at + 8 + g + 8
  BY <1>2, <1>3
<1> QED BY <1>4, <1>5, <1>6

\* The array ends in a block of its own size, or in what is left of it.
LEMMA SameSizeKeeps ==
  ASSUME Types, NEW c, NEW t, NEW done \in Nat, State(c, t, done), SameSize
  PROVE  Types' /\ \E c2 \in Seq(Piece), done2 \in Nat : State(c2, t, done2)'
<1>1. pc = "same" /\ pc \in Reading /\ kind \in NumberKinds /\ kind # "string" /\ io \in Stream0 /\ io.ok
      /\ home \in Nat /\ w \in WriteVars
  BY DEF SameSize, Types, Reading, NumberKinds, WriteVars
<1>2. /\ Layout(kind, io.d, c, t, home) /\ Written(kind, io.d, c, done, want.array)
  BY DEF State
<1>3. /\ IsChain(kind, io.d, c) /\ done + 1 \in 1 .. Len(c)
      /\ c[done + 1] \in Piece /\ Bounded(kind, c[done + 1])
      /\ InFile(kind, io.d, c[done + 1], NextAt(c, done + 1))
      /\ AtBlock(c, done)
  BY <1>1, BlockHere
<1>4. n \in Nat /\ n \in 1 .. MaxElements /\ want.array \in Seq(Element) /\ n = Len(want.array)
  BY NIs
<1>5. PICK at \in Nat, size \in Nat, pad \in Nat, from \in Nat :
        /\ at = c[done + 1].at /\ size = c[done + 1].size /\ pad = c[done + 1].pad /\ from = c[done + 1].from
  BY <1>3 DEF Piece
<1>6. io.fp = at + 4 /\ n = size /\ w.sz = size /\ w.step = from /\ from <= size /\ NumberAt(io.d, io.fp, 4) = pad
  BY <1>1, <1>3, <1>5 DEF AtBlock, InFile
<1>7. PICK m \in Nat : m = left /\ m = size - from /\ from + m = size /\ m <= size
  <2>1. size - from \in Nat /\ from + (size - from) = size /\ size - from <= size
    BY <1>6
  <2> QED BY <1>6, <2>1 DEF left
<1>8. done = 0 => from = 0 /\ c[done + 1] = c[1] /\ size >= 1
  BY <1>3, <1>5 DEF IsChain
<1>9. IF Copy(kind).again THEN from = 0 ELSE TRUE
  <2>1. CASE done = 0
    BY <1>8, <2>1
  <2>2. CASE done # 0
    <3>1. kind # "double"
      BY <1>1, <2>2, FitsHere DEF Fits
    <3>2. Copy(kind).again = FALSE
      BY <1>1, <3>1 DEF NumberKinds, Copy, IntCopy, LongCopy, FloatCopy, ByteCopy
    <3> QED BY <3>2
  <2> QED BY <2>1, <2>2
<1>10. PICK b \in Piece : b.at = at /\ b.size = m /\ b.pad = pad /\ b.from = from
  <2>1. [at |-> at, size |-> m, pad |-> pad, from |-> from] \in Piece
    BY DEF Piece
  <2> QED BY <2>1
<1>11. b.size + b.pad <= c[done + 1].size + c[done + 1].pad
  <2>1. m + pad <= size + pad
    BY <1>7
  <2> QED BY <1>5, <1>10, <2>1
<1>12. Shorter(kind, c, done + 1, b)
  <2>1. EndOf(kind, b) <= EndOf(kind, c[done + 1])
    BY <1>1, <1>3, <1>5, <1>10, <1>11, LessIsShorter
  <2>2. Bounded(kind, b)
    <3>1. PICK y \in Nat, z \in Nat : y = b.size + b.pad /\ z = c[done + 1].size + c[done + 1].pad
      BY <1>5, <1>10
    <3>2. y <= z /\ (z <= MaxElements => y <= MaxElements)
      BY <1>11, <3>1 DEF MaxElements
    <3> QED BY <1>3, <1>5, <1>10, <3>1, <3>2 DEF Bounded
  <2>3. b.size <= c[done + 1].size
    BY <1>5, <1>7, <1>10
  <2>4. ASSUME done + 1 = 1 PROVE b.size >= 1 /\ EndOf(kind, b) = EndOf(kind, c[1])
    <3>1. done = 0
      BY <2>4
    <3>2. m = size /\ size >= 1
      BY <1>7, <1>8, <3>1
    <3>3. EndOf(kind, b) = EndOf(kind, c[1])
      BY <1>5, <1>8, <1>10, <3>1, <3>2 DEF EndOf, LinkAt
    <3> QED BY <1>10, <3>2, <3>3
  <2> QED BY <1>5, <1>10, <2>1, <2>2, <2>3, <2>4 DEF Shorter
<1> DEFINE put == IF w.step > 0 THEN Seek(PutNumber(Seek(io, at), m, 4), at + 8) ELSE Seek(io, at + 8)
           es == SubSeq(want.array, from + 1, from + m)
           all == NewElements(kind, put, es)
           x == OverPadding(kind, all, pad)
<1>13. io' = PutNumber(x, 0, 8)
  <2>1. io.fp - 4 = at /\ io.fp + 4 = at + 8
    BY <1>6
  <2>2. (IF Copy(kind).again THEN 0 ELSE w.step) = from
    BY <1>6, <1>9
  <2> QED BY <1>1, <1>6, <1>7, <2>1, <2>2 DEF SameSize, Overwrite
<1>14. PICK len \in Nat, l \in Nat : len = Len(io.d) /\ l = EndOf(kind, c[done + 1]) /\ at + 16 <= l /\ l <= len
  <2>1. Len(io.d) \in Nat
    BY <1>1, LenProperties DEF Stream0
  <2> QED BY <1>1, <1>3, <1>5, <2>1, ChainFacts
<1>15. Headed(kind, io.d, put, b) /\ put.ok
  <2>1. CASE w.step > 0
    <3>1. PICK s \in Stream0 : s = PutNumber(Seek(io, at), m, 4) /\ s.ok
            /\ Len(s.d) = len /\ NumberAt(s.d, at, 4) = m /\ SameBut(s.d, io.d, at, at + 4)
      <4>1. PICK z \in Stream0 : z = Seek(io, at) /\ z.fp = at /\ z.d = io.d /\ z.ok
        BY <1>1, SeekIs
      <4>2. 4 \in Widths
        BY DEF Widths
      <4>3. /\ PutNumber(z, m, 4) \in Stream0
            /\ PutNumber(z, m, 4).ok = z.ok
            /\ Len(PutNumber(z, m, 4).d) = IF z.fp + 4 > Len(z.d) THEN z.fp + 4 ELSE Len(z.d)
            /\ NumberAt(PutNumber(z, m, 4).d, z.fp, 4) = m
            /\ SameBut(PutNumber(z, m, 4).d, z.d, z.fp, z.fp + 4)
        BY <4>2, PutNumberIs
      <4>4. ~ (at + 4 > len)
        BY <1>14
      <4> QED BY <1>14, <4>1, <4>3, <4>4
    <3>2. put = Seek(s, at + 8)
      BY <2>1, <3>1
    <3>3. put \in Stream0 /\ put.fp = at + 8 /\ put.d = s.d /\ put.ok
      <4>1. at + 8 \in Nat
        OBVIOUS
      <4> HIDE DEF put
      <4>2. PICK p \in Nat : p = at + 8
        BY <4>1
      <4>3. Seek(s, p) \in Stream0 /\ Seek(s, p).fp = p /\ Seek(s, p).d = s.d /\ Seek(s, p).ok = s.ok
        BY SeekIs
      <4> QED BY <3>1, <3>2, <4>2, <4>3
    <3> HIDE DEF put
    <3>4. SameBut(s.d, io.d, at, at + 8)
      <4>1. at + 4 \in Nat /\ at + 8 \in Nat /\ at <= at /\ at + 4 <= at + 8
        OBVIOUS
      <4> QED BY <3>1, <4>1, SameButWider
    <3>5. NumberAt(s.d, at + 4, 4) = pad
      <4>1. at + 4 \in Nat /\ 4 \in Widths /\ at + 4 >= at + 4
        BY DEF Widths
      <4>2. NumberAt(s.d, at + 4, 4) = NumberAt(io.d, at + 4, 4)
        BY <3>1, <4>1, NumberOutside
      <4> QED BY <1>6, <4>2
    <3> QED BY <1>10, <1>14, <3>1, <3>3, <3>4, <3>5 DEF Headed
  <2>2. CASE ~ (w.step > 0)
    <3>1. m = size
      BY <1>6, <1>7, <2>2
    <3>2. put = Seek(io, at + 8) /\ at + 8 \in Nat
      BY <2>2
    <3> HIDE DEF put
    <3>3. put \in Stream0 /\ put.fp = b.at + 8 /\ put.d = io.d /\ put.ok
      BY <1>1, <1>10, <3>2, SeekIs
    <3>4. InFile(kind, io.d, b, NextAt(c, done + 1))
      <4>1. LinkAt(kind, b) = LinkAt(kind, c[done + 1])
        BY <1>5, <1>10, <3>1 DEF LinkAt
      <4> QED BY <1>3, <1>5, <1>10, <3>1, <4>1 DEF InFile, EndOf
    <3> QED BY <1>1, <3>3, <3>4, HeaderThere
  <2> QED BY <2>1, <2>2
<1>16. PartOf(b, es, want.array)
  <2>1. b.from + b.size <= Len(want.array) /\ from + 1 = b.from + 1 /\ from + m = b.from + b.size
    BY <1>4, <1>6, <1>7, <1>10
  <2> QED BY <1>4, <2>1, PartTaken
<1> HIDE DEF put, es
<1>17. all \in Stream0 /\ all.ok /\ all.fp = b.at + 8 + Bytes(kind, b.size)
  <2>1. EndOf(kind, b) <= len /\ io.d \in Seq(Nat)
    <3>1. EndOf(kind, b) <= l /\ EndOf(kind, b) \in Nat
      BY <1>1, <1>12, <1>14, PieceEnds DEF Shorter
    <3> QED BY <1>1, <1>14, <3>1 DEF Stream0
  <2> QED BY <1>1, <1>14, <1>15, <1>16, <2>1, ElementsPut DEF Rewritten
<1> HIDE DEF all
<1>18. x \in Stream0 /\ x.d = all.d /\ x.ok /\ x.fp = LinkAt(kind, b)
  <2>1. x = OverPadding(kind, all, b.pad) /\ Bounded(kind, b)
    BY <1>10, <1>12 DEF Shorter
  <2> HIDE DEF x
  <2> QED BY <1>1, <1>17, <2>1, PaddingIsSkipped
<1> HIDE DEF x
<1>19. IsEnded(kind, io.d, io', x, c, done + 1, b, t, home, want.array)
  <2>1. EndsAt(kind, io.d, b, x.fp)
    BY <1>18 DEF EndsAt
  <2>2. Written(kind, io.d, c, (done + 1) - 1, want.array)
    <3>1. (done + 1) - 1 = done
      OBVIOUS
    <3> QED BY <1>2, <3>1
  <2>3. io.d \in Seq(Nat) /\ x.d = NewElements(kind, put, es).d
    BY <1>1, <1>18 DEF Stream0, all
  <2>4. IsEnded(kind, io.d, PutNumber(x, 0, 8), x, c, done + 1, b, t, home, want.array)
    BY <1>1, <1>2, <1>3, <1>12, <1>15, <1>16, <1>18, <2>1, <2>2, <2>3, ArrayEnds
  <2> QED BY <1>13, <2>4
<1>20. b.from + b.size = n /\ Unchanged /\ pc' = "return" /\ w' \in WriteVars /\ w'.first = w.first
  <2>1. io'.ok
    BY <1>18, <1>19 DEF IsEnded
  <2> QED BY <1>1, <1>6, <1>7, <1>10, <2>1 DEF SameSize, Goto
<1> QED BY <1>1, <1>12, <1>18, <1>19, <1>20, EndedKeeps

\* Where a block is to be overwritten.
LEMMA BlockToWrite ==
  ASSUME Types, NEW c, NEW t, NEW done \in Nat, State(c, t, done), pc \in {"over", "fill"}
  PROVE  /\ pc \in Reading /\ IsChain(kind, io.d, c) /\ done + 1 \in 1 .. Len(c)
         /\ c[done + 1] \in Piece /\ Bounded(kind, c[done + 1])
         /\ InFile(kind, io.d, c[done + 1], NextAt(c, done + 1))
         /\ io.fp = c[done + 1].at + 8 /\ w.pad = c[done + 1].pad /\ w.sz = c[done + 1].size
         /\ w.step = c[done + 1].from /\ c[done + 1].from <= n /\ c[done + 1].size < n
         /\ done = 0 => w.step = 0 /\ w.sz >= 1
         /\ Written(kind, io.d, c, (done + 1) - 1, want.array)
<1>1. pc \in Reading /\ pc # "size"
  BY DEF Reading
<1>2. /\ IsChain(kind, io.d, c) /\ done + 1 \in 1 .. Len(c)
      /\ c[done + 1] \in Piece /\ Bounded(kind, c[done + 1])
      /\ InFile(kind, io.d, c[done + 1], NextAt(c, done + 1))
      /\ AtBlock(c, done)
  BY <1>1, BlockHere
<1>3. /\ io.fp = c[done + 1].at + 8 /\ w.pad = c[done + 1].pad /\ w.sz = c[done + 1].size
      /\ w.step = c[done + 1].from /\ c[done + 1].from <= n /\ c[done + 1].size < n
  BY <1>1, <1>2 DEF AtBlock
<1>4. done = 0 => w.step = 0 /\ w.sz >= 1
  BY <1>2, <1>3 DEF IsChain
<1>5. Written(kind, io.d, c, (done + 1) - 1, want.array)
  <2>1. (done + 1) - 1 = done
    OBVIOUS
  <2> QED BY <2>1 DEF State
<1> QED BY <1>1, <1>2, <1>3, <1>4, <1>5

\* The block with the elements that are left, the others as padding.
IsTrimmed(c, done, b) ==
  /\ b.at = c[done + 1].at /\ b.from = c[done + 1].from
  /\ b.size = left /\ b.pad = w.pad + w.sz - left /\ b.from + b.size = n
  /\ Shorter(kind, c, done + 1, b)
  /\ LinkAt(kind, b) = LinkAt(kind, c[done + 1])
  /\ Headed(kind, io.d, Trimmed(io), b) /\ Trimmed(io).ok

\* A later block that takes fewer elements than it has turns the others into padding.
LEMMA BlockTrimmed ==
  ASSUME Types, NEW c, NEW t, NEW done \in Nat, State(c, t, done), pc \in {"over", "fill"},
         kind # "byte", w.step + w.sz > n, done # 0
  PROVE  \E b \in Piece : IsTrimmed(c, done, b)
<1>1. kind \in NumberKinds /\ io \in Stream0 /\ io.ok /\ n \in Nat
  BY NIs DEF Types
<1>2. /\ IsChain(kind, io.d, c) /\ done + 1 \in 1 .. Len(c)
      /\ c[done + 1] \in Piece /\ Bounded(kind, c[done + 1])
      /\ io.fp = c[done + 1].at + 8 /\ w.pad = c[done + 1].pad /\ w.sz = c[done + 1].size
      /\ w.step = c[done + 1].from /\ c[done + 1].from <= n
  BY BlockToWrite
<1>3. PICK at \in Nat, size \in Nat, pad \in Nat, from \in Nat, len \in Nat :
        /\ at = c[done + 1].at /\ size = c[done + 1].size /\ pad = c[done + 1].pad /\ from = c[done + 1].from /\ len = n
  BY <1>1, <1>2 DEF Piece
<1>4. from <= len /\ from + size > len
  BY <1>2, <1>3
<1>5. PICK m \in Nat : m = len - from /\ from + m = len /\ m <= size
  <2>1. len - from \in Nat /\ from + (len - from) = len /\ len - from <= size
    BY <1>4
  <2> QED BY <2>1
<1>6. PICK rest \in Nat : rest = pad + size - m /\ m + rest = size + pad
  <2>1. pad + size - m \in Nat /\ m + (pad + size - m) = size + pad
    BY <1>5
  <2> QED BY <2>1
<1>7. left = m /\ w.pad + w.sz - left = rest
  BY <1>2, <1>3, <1>5, <1>6 DEF left
<1>8. PICK b \in Piece : b.at = at /\ b.size = m /\ b.pad = rest /\ b.from = from
  <2>1. [at |-> at, size |-> m, pad |-> rest, from |-> from] \in Piece
    BY DEF Piece
  <2> QED BY <2>1
<1>9. LinkAt(kind, b) = LinkAt(kind, c[done + 1]) /\ EndOf(kind, b) = EndOf(kind, c[done + 1])
  <2>1. LinkAt(kind, b) = LinkAt(kind, c[done + 1])
    BY <1>3, <1>6, <1>8 DEF LinkAt
  <2> QED BY <2>1 DEF EndOf
<1>10. PICK l \in Nat : l = EndOf(kind, c[done + 1]) /\ at + 16 <= l /\ l <= Len(io.d)
  BY <1>1, <1>2, <1>3, ChainFacts
<1>11. Shorter(kind, c, done + 1, b)
  <2>1. Bounded(kind, b)
    <3>1. b.size + b.pad = c[done + 1].size + c[done + 1].pad
      BY <1>3, <1>6, <1>8
    <3> QED BY <1>2, <3>1 DEF Bounded
  <2>2. b.size <= c[done + 1].size
    BY <1>3, <1>5, <1>8
  <2>3. EndOf(kind, b) <= EndOf(kind, c[done + 1])
    BY <1>9, <1>10
  <2>4. done + 1 # 1
    OBVIOUS
  <2> QED BY <1>3, <1>8, <2>1, <2>2, <2>3, <2>4 DEF Shorter
<1>12. Headed(kind, io.d, Trimmed(io), b) /\ Trimmed(io).ok
  <2>1. b.at + 8 <= Len(io.d)
    <3>1. Len(io.d) \in Nat
      BY <1>1, LenProperties DEF Stream0
    <3>2. at + 8 <= Len(io.d)
      BY <1>10, <3>1
    <3> QED BY <1>8, <3>2
  <2>2. Trimmed(io) = PutNumber(PutNumber(Seek(io, b.at), b.size, 4), b.pad, 4)
    <3>1. io.fp - 8 = at
      BY <1>2, <1>3
    <3> QED BY <1>7, <1>8, <3>1 DEF Trimmed
  <2> QED BY <1>1, <2>1, <2>2, HeaderPut
<1>13. b.from + b.size = n
  BY <1>3, <1>5, <1>8
<1> QED BY <1>3, <1>7, <1>8, <1>9, <1>11, <1>12, <1>13 DEF IsTrimmed

\* The elements that are left.
LEMMA LastElements ==
  ASSUME Types, NEW c, NEW t, NEW done \in Nat, State(c, t, done), pc \in {"over", "fill"}, done # 0,
         NEW b, Shorter(kind, c, done + 1, b), b.from + b.size = n,
         NEW s, Headed(kind, io.d, s, b), NEW es, PartOf(b, es, want.array),
         NEW x \in Stream0, x.ok, x.d = NewElements(kind, s, es).d, EndsAt(kind, io.d, b, x.fp),
         io' = PutNumber(x, 0, 8), Unchanged, Goto("return"), w' \in WriteVars, w'.first = w.first
  PROVE  Types' /\ \E c2 \in Seq(Piece), done2 \in Nat : State(c2, t, done2)'
<1>1. kind \in NumberKinds /\ io.d \in Seq(Nat) /\ home \in Nat
  BY DEF Types, Stream0
<1>2. pc \in Reading /\ done + 1 \in 1 .. Len(c) /\ Written(kind, io.d, c, (done + 1) - 1, want.array)
  BY BlockToWrite
<1>3. Layout(kind, io.d, c, t, home)
  BY DEF State
<1>4. IsEnded(kind, io.d, io', x, c, done + 1, b, t, home, want.array)
  <2>1. IsEnded(kind, io.d, PutNumber(x, 0, 8), x, c, done + 1, b, t, home, want.array)
    BY <1>1, <1>2, <1>3, ArrayEnds
  <2> QED BY <2>1
<1>5. pc' = "return"
  <2>1. io'.ok
    BY <1>4 DEF IsEnded
  <2> QED BY <2>1 DEF Goto
<1> QED BY <1>2, <1>4, <1>5, EndedKeeps

\* The elements that a block takes when some are left after it.
LEMMA SomeElements ==
  ASSUME Types, NEW c, NEW t, NEW done \in Nat, State(c, t, done), pc \in {"over", "fill"},
         NEW es, PartOf(c[done + 1], es, want.array), io' = NewElements(kind, io, es),
         Goes(kind, c[done + 1], n), c[done + 1].from + c[done + 1].size <= n,
         Unchanged, Goto("link"), w' \in WriteVars, w'.first = w.first,
         w'.step = c[done + 1].from + c[done + 1].size, w'.pad = c[done + 1].pad
  PROVE  Types' /\ State(c, t, done + 1)'
<1>1. kind \in NumberKinds /\ io \in Stream0 /\ io.ok /\ io.d \in Seq(Nat) /\ home \in Nat
  BY DEF Types, Stream0
<1>2. /\ pc \in Reading /\ IsChain(kind, io.d, c) /\ done + 1 \in 1 .. Len(c) /\ Written(kind, io.d, c, (done + 1) - 1, want.array)
      /\ InFile(kind, io.d, c[done + 1], NextAt(c, done + 1)) /\ io.fp = c[done + 1].at + 8
      /\ c[done + 1] \in Piece /\ Bounded(kind, c[done + 1])
  BY BlockToWrite
<1>3. Layout(kind, io.d, c, t, home)
  BY DEF State
<1>4. Shorter(kind, c, done + 1, c[done + 1])
  <2>1. c[done + 1].size \in Nat /\ EndOf(kind, c[done + 1]) \in Nat /\ c[1].size >= 1
    BY <1>1, <1>2, ChainFacts DEF IsChain
  <2> QED BY <1>2, <2>1 DEF Shorter
<1>5. Headed(kind, io.d, io, c[done + 1])
  BY <1>1, <1>2, HeaderThere
<1>6. NumberAt(io.d, LinkAt(kind, c[done + 1]), 8) = NextAt(c, done + 1)
  BY <1>2 DEF InFile
<1>7. IsOnward(kind, io.d, NewElements(kind, io, es), io, c, done + 1, c[done + 1], t, home, want.array)
  BY <1>1, <1>2, <1>3, <1>4, <1>5, <1>6, ArrayGoesOn
<1>8. /\ io' \in Stream0 /\ io'.ok /\ io'.fp = c[done + 1].at + 8 + Bytes(kind, c[done + 1].size)
      /\ IsPlain(kind, io.d, io'.d, c, done + 1, t, home, want.array)
  BY <1>1, <1>7 DEF IsOnward
<1>9. pc' = "link"
  BY <1>8 DEF Goto
<1> QED BY <1>2, <1>8, <1>9, PlainKeeps

\* A block no larger than what is written already takes its part.
LEMMA OverwriteBlockKeeps ==
  ASSUME Types, NEW c, NEW t, NEW done \in Nat, State(c, t, done), OverwriteBlock
  PROVE  Types' /\ \E c2 \in Seq(Piece), done2 \in Nat : State(c2, t, done2)'
<1>1. pc = "over" /\ pc \in {"over", "fill"} /\ kind \in NumberKinds /\ kind # "string" /\ io \in Stream0 /\ io.ok
      /\ io.d \in Seq(Nat) /\ w \in WriteVars
  BY DEF OverwriteBlock, Types, NumberKinds, WriteVars, Stream0
<1>2. /\ pc \in Reading /\ IsChain(kind, io.d, c) /\ done + 1 \in 1 .. Len(c)
      /\ c[done + 1] \in Piece /\ Bounded(kind, c[done + 1])
      /\ InFile(kind, io.d, c[done + 1], NextAt(c, done + 1))
      /\ io.fp = c[done + 1].at + 8 /\ w.pad = c[done + 1].pad /\ w.sz = c[done + 1].size
      /\ w.step = c[done + 1].from /\ c[done + 1].from <= n /\ c[done + 1].size < n
      /\ done = 0 => w.step = 0 /\ w.sz >= 1
  BY <1>1, BlockToWrite
<1>3. n \in Nat /\ want.array \in Seq(Element) /\ n = Len(want.array)
  BY NIs
<1>4. PICK at \in Nat, size \in Nat, pad \in Nat, from \in Nat, len \in Nat :
        /\ at = c[done + 1].at /\ size = c[done + 1].size /\ pad = c[done + 1].pad /\ from = c[done + 1].from /\ len = n
  BY <1>2, <1>3 DEF Piece
<1>5. io.fp = at + 8 /\ w.pad = pad /\ w.sz = size /\ w.step = from /\ from <= len /\ size < len
  BY <1>2, <1>4
<1>6. from >= size
  <2>1. AtBlock(c, done)
    BY <1>2, BlockHere
  <2> QED BY <1>1, <1>4, <2>1 DEF AtBlock
<1>7. done # 0
  BY <1>2, <1>4, <1>5, <1>6
<1>8. from + size < len \/ (pad = 0 /\ (from + size = len \/ done + 1 = Len(c)))
  <2>1. Fits(kind, c, done + 1, n)
    BY <1>2, <1>7, FitsHere
  <2> QED BY <1>4, <1>5, <1>6, <2>1 DEF Fits
<1>9. PICK m \in Nat : m = left /\ m = len - from /\ from + m = len
  <2>1. len - from \in Nat /\ from + (len - from) = len
    BY <1>5
  <2> QED BY <1>4, <1>5, <2>1 DEF left
<1> DEFINE last == IsLastBlock(io, size)
           trim == m < size /\ last
           ends == m <= size /\ last
           count == IF m < size THEN m ELSE size
           put == NewElements(kind, IF trim THEN Trimmed(io) ELSE io, SubSeq(want.array, from + 1, from + count))
<1>10. /\ io' = IF ends THEN PutNumber(put, 0, 8) ELSE put
       /\ w' = [w EXCEPT !.step = from + count, !.sz = 0, !.pad = IF trim THEN pad + size - m ELSE pad]
       /\ Goto(IF ends THEN "return" ELSE "link")
       /\ Unchanged
  BY <1>1, <1>5, <1>9 DEF OverwriteBlock, Overwrite
<1>11. last \in BOOLEAN
  BY DEF IsLastBlock
<1> HIDE DEF last
\* All of the block's elements are written.
<1>12. CASE from + size <= len
  <2>1. ~ (m < size) /\ ~ trim /\ count = size /\ (m <= size => m = size /\ from + size = len)
    BY <1>9, <1>12
  <2> DEFINE es == SubSeq(want.array, from + 1, from + size)
  <2>2. put = NewElements(kind, io, es)
    BY <2>1
  <2>3. PartOf(c[done + 1], es, want.array)
    <3>1. c[done + 1].from + c[done + 1].size <= Len(want.array) /\ from + 1 = c[done + 1].from + 1
          /\ from + size = c[done + 1].from + c[done + 1].size
      BY <1>3, <1>4, <1>12
    <3> QED BY <1>2, <1>3, <3>1, PartTaken
  <2>4. /\ w' \in WriteVars /\ w'.first = w.first /\ w'.step = from + size /\ w'.pad = pad
    <3>1. w' = [w EXCEPT !.step = from + size, !.sz = 0, !.pad = pad]
      BY <1>10, <2>1
    <3>2. from + size \in Nat /\ 0 \in Nat
      OBVIOUS
    <3> QED BY <1>1, <3>1, <3>2 DEF WriteVars
  <2> HIDE DEF es, put, trim, count
  <2>5. CASE ends
    <3>1. pad = 0 /\ from + size = len
      BY <1>8, <2>1, <2>5
    <3>2. io' = PutNumber(put, 0, 8) /\ Goto("return") /\ Unchanged
      BY <1>10, <2>5
    <3>3. Headed(kind, io.d, io, c[done + 1])
      BY <1>1, <1>2, HeaderThere
    <3>4. put \in Stream0 /\ put.ok /\ put.fp = LinkAt(kind, c[done + 1])
      <4>1. EndOf(kind, c[done + 1]) <= Len(io.d)
        BY <1>1, <1>2, ChainFacts
      <4>2. /\ put \in Stream0 /\ put.ok
            /\ put.fp = c[done + 1].at + 8 + Bytes(kind, c[done + 1].size)
        BY <1>1, <1>2, <2>2, <2>3, <3>3, <4>1, ElementsPut DEF Rewritten
      <4>3. c[done + 1].size + c[done + 1].pad = c[done + 1].size
        BY <1>4, <3>1
      <4> QED BY <4>2, <4>3 DEF LinkAt
    <3>5. Shorter(kind, c, done + 1, c[done + 1])
      <4>1. EndOf(kind, c[done + 1]) \in Nat /\ c[1].size >= 1
        BY <1>1, <1>2, ChainFacts DEF IsChain
      <4> QED BY <1>2, <1>4, <4>1 DEF Shorter
    <3>6. c[done + 1].from + c[done + 1].size = n
      BY <1>4, <3>1
    <3>7. EndsAt(kind, io.d, c[done + 1], put.fp)
      BY <3>4 DEF EndsAt
    <3>8. put.d = NewElements(kind, io, es).d
      BY <2>2
    <3> QED BY <1>1, <1>7, <2>3, <2>4, <3>2, <3>3, <3>4, <3>5, <3>6, <3>7, <3>8, LastElements
  <2>6. CASE ~ ends
    <3>1. io' = NewElements(kind, io, es) /\ Goto("link") /\ Unchanged
      BY <1>10, <2>2, <2>6
    <3>2. Goes(kind, c[done + 1], n) /\ c[done + 1].from + c[done + 1].size <= n
      <4>1. ~ (from < size)
        BY <1>6
      <4> QED BY <1>4, <1>5, <1>12, <4>1 DEF Goes
    <3>3. Types' /\ State(c, t, done + 1)'
      BY <1>1, <1>4, <2>3, <2>4, <3>1, <3>2, SomeElements
    <3>4. c \in Seq(Piece) /\ done + 1 \in Nat
      BY <1>2 DEF IsChain
    <3> QED BY <3>3, <3>4
  <2> QED BY <2>5, <2>6
\* The last block takes what is left.
<1>13. CASE ~ (from + size <= len)
  <2>1. m < size /\ m <= size /\ pad = 0 /\ done + 1 = Len(c) /\ count = m
    BY <1>8, <1>9, <1>13
  <2>2. kind # "byte"
    <3>1. CASE kind = "byte"
      BY <1>2, <1>4, <1>13, <3>1, NoFewerBytes
    <3> QED BY <3>1
  <2>3. PICK l \in Nat : l = LinkAt(kind, c[done + 1]) /\ l = at + 8 + Bytes(kind, size)
    <3>1. c[done + 1].size + c[done + 1].pad = c[done + 1].size
      BY <1>4, <2>1
    <3> QED BY <1>1, <1>2, <1>4, <3>1, PieceEnds DEF LinkAt
  <2>4. NumberAt(io.d, l, 8) = 0
    BY <1>2, <2>1, <2>3 DEF InFile, NextAt
  <2>5. last
    <3>1. PICK p \in Nat : p = at + 8
      OBVIOUS
    <3>2. OverPadding(kind, io, size) = [io EXCEPT !.fp = p + Bytes(kind, size)]
      BY <1>1, <1>5, <2>2, <3>1, OverPaddingIs
    <3>3. OverPadding(kind, io, size).fp = l
      BY <1>1, <2>3, <3>1, <3>2 DEF Stream0
    <3> QED BY <2>4, <3>3 DEF last, IsLastBlock
  <2>6. PICK b \in Piece : IsTrimmed(c, done, b)
    <3>1. w.step + w.sz > n
      BY <1>4, <1>5, <1>13
    <3> QED BY <1>1, <1>7, <2>2, <3>1, BlockTrimmed
  <2> DEFINE es == SubSeq(want.array, from + 1, from + m)
  <2>7. put = NewElements(kind, Trimmed(io), es) /\ io' = PutNumber(put, 0, 8) /\ Goto("return") /\ Unchanged
    BY <1>10, <2>1, <2>5
  <2>8. /\ b.at = at /\ b.from = from /\ b.size = m /\ b.from + b.size = n
        /\ Shorter(kind, c, done + 1, b) /\ LinkAt(kind, b) = l
        /\ Headed(kind, io.d, Trimmed(io), b) /\ Trimmed(io).ok
    BY <1>4, <1>9, <2>3, <2>6 DEF IsTrimmed
  <2>9. PartOf(b, es, want.array)
    <3>1. b.from + b.size <= Len(want.array) /\ from + 1 = b.from + 1 /\ from + m = b.from + b.size
      BY <1>3, <2>8
    <3> QED BY <1>3, <3>1, PartTaken
  <2>10. w' \in WriteVars /\ w'.first = w.first
    <3>1. PICK rest \in Nat : rest = pad + size - m
      <4>1. pad + size - m \in Nat
        BY <2>1
      <4> QED BY <4>1
    <3>2. w' = [w EXCEPT !.step = from + m, !.sz = 0, !.pad = rest]
      BY <1>10, <2>1, <2>5, <3>1
    <3>3. from + m \in Nat /\ 0 \in Nat
      OBVIOUS
    <3> QED BY <1>1, <3>2, <3>3 DEF WriteVars
  <2> HIDE DEF es, put
  <2>11. put \in Stream0 /\ put.ok /\ put.fp = at + 8 + Bytes(kind, m)
    <3>1. EndOf(kind, b) <= Len(io.d)
      <4>1. EndOf(kind, b) = EndOf(kind, c[done + 1])
        BY <2>3, <2>8 DEF EndOf
      <4> QED BY <1>1, <1>2, <4>1, ChainFacts
    <3>2. /\ put \in Stream0 /\ put.ok /\ put.fp = b.at + 8 + Bytes(kind, b.size)
      BY <1>1, <2>7, <2>8, <2>9, <3>1, ElementsPut DEF Rewritten
    <3> QED BY <2>8, <3>2
  <2>12. EndsAt(kind, io.d, b, put.fp)
    <3>1. Bytes(kind, m) \in Nat /\ Bytes(kind, size) \in Nat /\ Bytes(kind, m) <= Bytes(kind, size)
      BY <1>1, <2>1, BytesLaws
    <3>2. PICK f \in Nat, g \in Nat : f = Bytes(kind, m) /\ g = Bytes(kind, size) /\ f <= g
      BY <3>1
    <3>3. at + 8 + f <= at + 8 + f /\ at + 8 + f <= at + 8 + g
      BY <3>2
    <3> QED BY <2>3, <2>4, <2>8, <2>11, <3>2, <3>3 DEF EndsAt
  <2>13. put.d = NewElements(kind, Trimmed(io), es).d
    BY <2>7
  <2> QED BY <1>1, <1>7, <2>7, <2>8, <2>9, <2>10, <2>11, <2>12, <2>13, LastElements
<1> QED BY <1>12, <1>13

\* The copy for integers goes on after a block that took the last elements.
LEMMA TrimmedGoesOn ==
  ASSUME Types, NEW c, NEW t, NEW done \in Nat, State(c, t, done), pc \in {"over", "fill"}, kind = "int", done # 0,
         NEW b \in Piece, IsTrimmed(c, done, b), b.size < c[done + 1].size,
         NEW es, PartOf(b, es, want.array), io' = NewElements(kind, Trimmed(io), es),
         Unchanged, Goto("link"), w' \in WriteVars, w'.first = w.first,
         w'.step = n, w'.pad = b.pad
  PROVE  Types' /\ \E c2 \in Seq(Piece), done2 \in Nat : State(c2, t, done2)'
<1> DEFINE i == done + 1
           r == Replaced(c, i, b, Len(c))
<1>1. kind \in NumberKinds /\ io.d \in Seq(Nat) /\ home \in Nat /\ i # 1 /\ i \in Nat
  BY DEF Types, Stream0
<1>2. /\ pc \in Reading /\ IsChain(kind, io.d, c) /\ i \in 1 .. Len(c) /\ Written(kind, io.d, c, i - 1, want.array)
      /\ InFile(kind, io.d, c[i], NextAt(c, i)) /\ c[i].size < n
  BY BlockToWrite
<1>3. Layout(kind, io.d, c, t, home)
  BY DEF State
<1>4. /\ b.from = c[i].from /\ b.from + b.size = n /\ Shorter(kind, c, i, b)
      /\ LinkAt(kind, b) = LinkAt(kind, c[i]) /\ Headed(kind, io.d, Trimmed(io), b) /\ Trimmed(io).ok
  BY DEF IsTrimmed
<1>5. NumberAt(io.d, LinkAt(kind, b), 8) = NextAt(c, i)
  BY <1>2, <1>4 DEF InFile
<1>6. IsOnward(kind, io.d, NewElements(kind, Trimmed(io), es), Trimmed(io), c, i, b, t, home, want.array)
  BY <1>1, <1>2, <1>3, <1>4, <1>5, ArrayGoesOn
<1>7. /\ io' \in Stream0 /\ io'.ok /\ io'.fp = b.at + 8 + Bytes(kind, b.size)
      /\ IsWritten(kind, io.d, io'.d, c, r, i, t, home, want.array)
  BY <1>4, <1>6 DEF IsOnward
<1>8. PICK len \in Nat, m \in Nat, size \in Nat, from \in Nat, a \in Nat :
        len = Len(c) /\ m = n /\ size = c[i].size /\ from = c[i].from /\ a = b.size
  <2>1. n \in Nat
    BY NIs
  <2>2. Len(c) \in Nat /\ c[i].size \in Nat /\ c[i].from \in Nat
    BY <1>1, <1>2, ChainFacts
  <2> QED BY <2>1, <2>2 DEF Piece
<1>9. from + a = m /\ a < size /\ size < m /\ i \in 1 .. len /\ m < from + size
  <2>1. from + a = m /\ a < size /\ size < m /\ i \in 1 .. len
    BY <1>2, <1>4, <1>8
  <2> QED BY <2>1
<1>10. /\ r \in Seq(Piece) /\ Len(r) = len
       /\ r[i] = b
       /\ \A j \in 1 .. len : i < j => r[j] = Later(c, i, b, j)
  <2>1. b.size <= c[i].size /\ i <= Len(c) /\ Len(c) \in Nat /\ Len(c) <= Len(c)
    BY <1>8, <1>9
  <2> DEFINE q == Replaced(c, i, b, Len(c))
  <2>2. /\ q \in Seq(Piece) /\ Len(q) = Len(c)
        /\ q[i] = b
        /\ \A j \in 1 .. Len(c) : i < j => q[j] = Later(c, i, b, j)
    BY <1>1, <1>2, <2>1, ReplacedIs
  <2> QED BY <1>8, <2>2
<1> HIDE DEF r
<1>11. /\ Layout(kind, io'.d, r, t, home)
       /\ EndOf(kind, r[1]) = EndOf(kind, c[1])
       /\ TextAt(io'.d, EndOf(kind, r[1])) = TextAt(io.d, EndOf(kind, c[1]))
       /\ Written(kind, io'.d, r, i, want.array)
  BY <1>7 DEF IsWritten
<1>12. /\ kind' = kind /\ stored' = stored /\ want' = want /\ gen' = gen /\ home' = home /\ n' = n /\ pc' = "link"
  BY <1>7 DEF Unchanged, n, Goto
<1>13. /\ TextAt(io.d, EndOf(kind, c[1])) = stored.text
       /\ kind = "byte" => n >= Len(stored.array)
       /\ Kept(kind, io.d, c, done, stored.array, n)
       /\ FutureFits(kind, c, done, n)
  BY <1>2 DEF State, Reading
<1>14. Types'
  BY <1>7, <1>12 DEF Types, Places, Reading, GoodRecord, WriteVars
\* The array becomes shorter.
<1>15. Kept(kind, io'.d, r, i, stored.array, n)
  <2>1. ~ (n >= Len(stored.array))
    <3>1. ASSUME n >= Len(stored.array) PROVE FALSE
      <4>1. Total(c) = Len(stored.array)
        BY <1>13, <3>1 DEF Kept
      <4>2. PICK x \in Nat : x = Total(c)
        BY <1>1, <1>2, ChainFacts
      <4>3. x <= m
        BY <1>8, <3>1, <4>1, <4>2
      <4>4. from + size <= x
        BY <1>1, <1>2, <1>8, <4>2, ChainFacts
      <4> QED BY <1>9, <4>3, <4>4
    <3> QED BY <3>1
  <2> QED BY <2>1 DEF Kept
<1>16. FutureFits(kind, r, i, n)
  <2> SUFFICES ASSUME NEW y \in 2 .. Len(r), y > i, \A j \in i + 1 .. y - 1 : Goes(kind, r[j], n)
               PROVE  Fits(kind, r, y, n)
    BY DEF FutureFits
  <2>1. y \in 2 .. len /\ y \in 1 .. len /\ i < y /\ y > done
    BY <1>9, <1>10
  <2>2. Copy(kind).stops = FALSE
    BY DEF Copy, IntCopy
  <2>3. ASSUME NEW j \in done + 1 .. y - 1 PROVE Goes(kind, c[j], n)
    <3>1. CASE j = i
      BY <1>2, <2>2, <3>1 DEF Goes
    <3>2. CASE j # i
      <4>1. j \in i + 1 .. y - 1 /\ j \in 1 .. len /\ i < j
        BY <1>1, <2>1, <3>2
      <4>2. r[j].size = c[j].size
        BY <1>10, <4>1 DEF Later
      <4>3. r[j].size < n
        BY <4>1 DEF Goes
      <4> QED BY <2>2, <4>2, <4>3 DEF Goes
    <3> QED BY <3>1, <3>2
  <2>4. Fits(kind, c, y, n)
    <3>1. \A j \in done + 1 .. y - 1 : Goes(kind, c[j], n)
      BY <2>3
    <3> QED BY <1>8, <1>13, <2>1, <3>1 DEF FutureFits
  <2>5. PICK ys \in Nat, yf \in Nat : ys = c[y].size /\ yf = c[y].from
    BY <1>1, <1>2, <1>8, <2>1, ChainFacts
  <2>6. from + size <= yf
    BY <1>2, <1>8, <2>1, <2>5 DEF IsChain
  <2>7. ~ (yf + ys < m) /\ yf + ys # m
    BY <1>9, <2>6
  <2>8. r[y].size = ys /\ r[y].pad = c[y].pad /\ r[y].from = yf - (size - a)
    <3>1. r[y] = Later(c, i, b, y)
      BY <1>10, <2>1
    <3> QED BY <1>8, <2>5, <3>1 DEF Later
  <2>9. yf - (size - a) >= ys => yf >= ys
    BY <1>9
  <2>10. ys <= m /\ (ys < m /\ yf >= ys => c[y].pad = 0 /\ y = len)
    BY <1>8, <2>4, <2>5, <2>7 DEF Fits
  <2>11. kind # "double"
    OBVIOUS
  <2> QED BY <1>8, <1>10, <2>8, <2>9, <2>10, <2>11 DEF Fits
<1>17. AfterBlock(r, i)'
  <2>1. w.first = EndOf(kind, c[1])
    <3>1. AtBlock(c, done)
      BY <1>2, BlockHere
    <3> QED BY <3>1 DEF AtBlock
  <2> QED BY <1>1, <1>4, <1>7, <1>8, <1>9, <1>10, <1>11, <1>12, <2>1 DEF AfterBlock
<1>18. State(r, t, i)'
  BY <1>11, <1>12, <1>13, <1>15, <1>16, <1>17 DEF State, Reading
<1> QED BY <1>1, <1>10, <1>14, <1>18

\* A block larger than what is written already takes its part.
LEMMA FillBlockKeeps ==
  ASSUME Types, NEW c, NEW t, NEW done \in Nat, State(c, t, done), FillBlock
  PROVE  Types' /\ \E c2 \in Seq(Piece), done2 \in Nat : State(c2, t, done2)'
<1>1. pc = "fill" /\ pc \in {"over", "fill"} /\ kind \in NumberKinds /\ kind # "string" /\ io \in Stream0 /\ io.ok
      /\ io.d \in Seq(Nat) /\ w \in WriteVars
  BY DEF FillBlock, Types, NumberKinds, WriteVars, Stream0
<1>2. /\ pc \in Reading /\ IsChain(kind, io.d, c) /\ done + 1 \in 1 .. Len(c)
      /\ c[done + 1] \in Piece /\ Bounded(kind, c[done + 1])
      /\ InFile(kind, io.d, c[done + 1], NextAt(c, done + 1))
      /\ io.fp = c[done + 1].at + 8 /\ w.pad = c[done + 1].pad /\ w.sz = c[done + 1].size
      /\ w.step = c[done + 1].from /\ c[done + 1].from <= n /\ c[done + 1].size < n
      /\ done = 0 => w.step = 0 /\ w.sz >= 1
  BY <1>1, BlockToWrite
<1>3. n \in Nat /\ want.array \in Seq(Element) /\ n = Len(want.array)
  BY NIs
<1>4. PICK at \in Nat, size \in Nat, pad \in Nat, from \in Nat, len \in Nat :
        /\ at = c[done + 1].at /\ size = c[done + 1].size /\ pad = c[done + 1].pad /\ from = c[done + 1].from /\ len = n
  BY <1>2, <1>3 DEF Piece
<1>5. io.fp = at + 8 /\ w.pad = pad /\ w.sz = size /\ w.step = from /\ from <= len /\ size < len /\ (done = 0 => from = 0)
  BY <1>2, <1>4
<1>6. IF Copy(kind).again THEN from = 0 ELSE TRUE
  <2>1. CASE done = 0
    BY <1>5, <2>1
  <2>2. CASE done # 0
    <3>1. kind # "double"
      BY <1>2, <2>2, FitsHere DEF Fits
    <3>2. Copy(kind).again = FALSE
      BY <1>1, <3>1 DEF NumberKinds, Copy, IntCopy, LongCopy, FloatCopy, ByteCopy
    <3> QED BY <3>2
  <2> QED BY <2>1, <2>2
<1>7. PICK m \in Nat : m = left /\ m = len - from /\ from + m = len
  <2>1. len - from \in Nat /\ from + (len - from) = len
    BY <1>5
  <2> QED BY <1>4, <1>5, <2>1 DEF left
<1>8. Copy(kind).stops \in BOOLEAN /\ (~ Copy(kind).stops => kind = "int")
  BY <1>1 DEF NumberKinds, Copy, IntCopy, LongCopy, FloatCopy, ByteCopy, DoubleCopy
<1> DEFINE trim == from > 0 /\ from + size > len
           count == IF trim THEN m ELSE size
           rest == IF trim THEN pad + size - m ELSE pad
           ends == from + count = len /\ Copy(kind).stops
           put == NewElements(kind, IF trim THEN Trimmed(io) ELSE io, SubSeq(want.array, from + 1, from + count))
<1>9. /\ io' = IF ends THEN PutNumber(OverPadding(kind, put, rest), 0, 8) ELSE put
      /\ w' = [w EXCEPT !.step = from + count, !.sz = count, !.pad = rest]
      /\ Goto(IF ends THEN "return" ELSE "link")
      /\ Unchanged
  <2>1. (IF Copy(kind).again THEN 0 ELSE from) = from
    BY <1>6
  <2> QED BY <1>1, <1>4, <1>5, <1>7, <2>1 DEF FillBlock, Overwrite
\* All of the block's elements are written.
<1>10. CASE ~ trim
  <2>1. count = size /\ rest = pad /\ from + size <= len /\ (from + size = len => done # 0)
    <3>1. from + size <= len
      BY <1>5, <1>10
    <3>2. from + size = len => from # 0
      BY <1>5
    <3> QED BY <1>5, <1>10, <3>1, <3>2
  <2> DEFINE es == SubSeq(want.array, from + 1, from + size)
  <2>2. put = NewElements(kind, io, es)
    BY <1>10, <2>1
  <2>3. PartOf(c[done + 1], es, want.array)
    <3>1. c[done + 1].from + c[done + 1].size <= Len(want.array) /\ from + 1 = c[done + 1].from + 1
          /\ from + size = c[done + 1].from + c[done + 1].size
      BY <1>3, <1>4, <2>1
    <3> QED BY <1>2, <1>3, <3>1, PartTaken
  <2>4. /\ w' \in WriteVars /\ w'.first = w.first /\ w'.step = from + size /\ w'.pad = pad
    <3>1. w' = [w EXCEPT !.step = from + size, !.sz = size, !.pad = pad]
      BY <1>9, <2>1
    <3>2. from + size \in Nat
      OBVIOUS
    <3> QED BY <1>1, <3>1, <3>2 DEF WriteVars
  <2>5. (ends <=> from + size = len /\ Copy(kind).stops)
    BY <2>1
  <2>6. /\ ends => io' = PutNumber(OverPadding(kind, put, pad), 0, 8) /\ Goto("return")
        /\ ~ ends => io' = put /\ Goto("link")
        /\ Unchanged
    BY <1>9, <2>1
  <2> HIDE DEF es, put, trim, count, rest, ends
  <2>7. CASE ends
    <3>1. from + size = len /\ done # 0
      BY <2>1, <2>5, <2>7
    <3> DEFINE x == OverPadding(kind, put, pad)
    <3>2. io' = PutNumber(x, 0, 8) /\ Goto("return") /\ Unchanged
      BY <2>6, <2>7
    <3>3. Headed(kind, io.d, io, c[done + 1])
      BY <1>1, <1>2, HeaderThere
    <3>4. put \in Stream0 /\ put.ok /\ put.fp = c[done + 1].at + 8 + Bytes(kind, c[done + 1].size)
      <4>1. EndOf(kind, c[done + 1]) <= Len(io.d)
        BY <1>1, <1>2, ChainFacts
      <4> QED BY <1>1, <1>2, <2>2, <2>3, <3>3, <4>1, ElementsPut DEF Rewritten
    <3>5. x \in Stream0 /\ x.d = put.d /\ x.ok /\ x.fp = LinkAt(kind, c[done + 1])
      <4>1. x = OverPadding(kind, put, c[done + 1].pad)
        BY <1>4
      <4> HIDE DEF x
      <4> QED BY <1>1, <1>2, <3>4, <4>1, PaddingIsSkipped
    <3> HIDE DEF x
    <3>6. Shorter(kind, c, done + 1, c[done + 1])
      <4>1. EndOf(kind, c[done + 1]) \in Nat /\ c[1].size >= 1
        BY <1>1, <1>2, ChainFacts DEF IsChain
      <4> QED BY <1>2, <1>4, <4>1 DEF Shorter
    <3>7. c[done + 1].from + c[done + 1].size = n
      BY <1>4, <3>1
    <3>8. EndsAt(kind, io.d, c[done + 1], x.fp)
      BY <3>5 DEF EndsAt
    <3>9. x.d = NewElements(kind, io, es).d
      BY <2>2, <3>5
    <3> QED BY <1>1, <2>3, <2>4, <3>1, <3>2, <3>3, <3>5, <3>6, <3>7, <3>8, <3>9, LastElements
  <2>8. CASE ~ ends
    <3>1. io' = NewElements(kind, io, es) /\ Goto("link") /\ Unchanged
      BY <2>2, <2>6, <2>8
    <3>2. Goes(kind, c[done + 1], n) /\ c[done + 1].from + c[done + 1].size <= n
      <4>1. Copy(kind).stops => from + size < len
        <5>1. from + size # len => from + size < len
          BY <2>1
        <5> QED BY <2>5, <2>8, <5>1
      <4> QED BY <1>4, <1>5, <2>1, <4>1 DEF Goes
    <3>3. Types' /\ State(c, t, done + 1)'
      BY <1>1, <1>4, <2>3, <2>4, <3>1, <3>2, SomeElements
    <3>4. c \in Seq(Piece) /\ done + 1 \in Nat
      BY <1>2 DEF IsChain
    <3> QED BY <3>3, <3>4
  <2> QED BY <2>7, <2>8
\* The array ends in the block, and the block takes what is left.
<1>11. CASE trim
  <2>1. from + size > len /\ done # 0 /\ m < size /\ count = m /\ rest = pad + size - m
    BY <1>5, <1>7, <1>11
  <2>2. kind # "byte"
    <3>1. CASE kind = "byte"
      <4>1. from + size <= len
        BY <1>2, <1>4, <3>1, NoFewerBytes
      <4> QED BY <2>1, <4>1
    <3> QED BY <3>1
  <2>3. PICK b \in Piece : IsTrimmed(c, done, b)
    <3>1. w.step + w.sz > n
      BY <1>4, <1>5, <2>1
    <3> QED BY <1>1, <2>1, <2>2, <3>1, BlockTrimmed
  <2> DEFINE es == SubSeq(want.array, from + 1, from + m)
  <2>4. put = NewElements(kind, Trimmed(io), es)
    BY <1>11, <2>1
  <2>5. /\ b.at = at /\ b.from = from /\ b.size = m /\ b.pad = rest /\ b.from + b.size = n
        /\ Shorter(kind, c, done + 1, b) /\ LinkAt(kind, b) = LinkAt(kind, c[done + 1])
        /\ Headed(kind, io.d, Trimmed(io), b) /\ Trimmed(io).ok
    BY <1>4, <1>5, <1>7, <2>1, <2>3 DEF IsTrimmed
  <2>6. PartOf(b, es, want.array)
    <3>1. b.from + b.size <= Len(want.array) /\ from + 1 = b.from + 1 /\ from + m = b.from + b.size
      BY <1>3, <2>5
    <3> QED BY <1>3, <3>1, PartTaken
  <2>7. w' \in WriteVars /\ w'.first = w.first /\ w'.step = n /\ w'.pad = b.pad
    <3>1. PICK p \in Nat : p = rest /\ p = b.pad
      BY <2>5 DEF Piece
    <3>2. w' = [w EXCEPT !.step = len, !.sz = m, !.pad = p]
      BY <1>7, <1>9, <2>1, <3>1
    <3> QED BY <1>1, <1>4, <3>1, <3>2 DEF WriteVars
  <2>8. ends <=> Copy(kind).stops
    BY <1>7, <2>1
  <2>9. /\ ends => io' = PutNumber(OverPadding(kind, put, b.pad), 0, 8) /\ Goto("return")
        /\ ~ ends => io' = put /\ Goto("link")
        /\ Unchanged
    BY <1>9, <2>5
  <2> HIDE DEF es, put, trim, count, rest, ends
  <2>10. CASE ends
    <3> DEFINE x == OverPadding(kind, put, b.pad)
    <3>1. io' = PutNumber(x, 0, 8) /\ Goto("return") /\ Unchanged
      BY <2>9, <2>10
    <3>2. put \in Stream0 /\ put.ok /\ put.fp = b.at + 8 + Bytes(kind, b.size)
      <4>1. EndOf(kind, b) <= Len(io.d)
        <5>1. EndOf(kind, b) = EndOf(kind, c[done + 1])
          BY <2>5 DEF EndOf
        <5> QED BY <1>1, <1>2, <5>1, ChainFacts
      <4> QED BY <1>1, <2>4, <2>5, <2>6, <4>1, ElementsPut DEF Rewritten
    <3>3. x \in Stream0 /\ x.d = put.d /\ x.ok /\ x.fp = LinkAt(kind, b)
      <4>1. Bounded(kind, b)
        BY <2>5 DEF Shorter
      <4> QED BY <1>1, <3>2, <4>1, PaddingIsSkipped
    <3> HIDE DEF x
    <3>4. EndsAt(kind, io.d, b, x.fp)
      BY <3>3 DEF EndsAt
    <3>5. x.d = NewElements(kind, Trimmed(io), es).d
      BY <2>4, <3>3
    <3> QED BY <1>1, <2>1, <2>5, <2>6, <2>7, <3>1, <3>3, <3>4, <3>5, LastElements
  <2>11. CASE ~ ends
    <3>1. kind = "int"
      BY <1>8, <2>8, <2>11
    <3>2. io' = NewElements(kind, Trimmed(io), es) /\ Goto("link") /\ Unchanged
      BY <2>4, <2>9, <2>11
    <3>3. b.size < c[done + 1].size
      BY <1>4, <2>1, <2>5
    <3> QED BY <1>1, <2>1, <2>3, <2>6, <2>7, <3>1, <3>2, <3>3, TrimmedGoesOn
  <2> QED BY <2>10, <2>11
<1> QED BY <1>10, <1>11

-----------------------------------------------------------------------------
(* write_file of a new record.                                               *)

\* The file e is the file d with something added to it.
Extends(e, d) == Len(d) <= Len(e) /\ SameIn(d, e, 0, Len(d))

IsAppended(u, s, m) ==
  /\ u \in Stream0 /\ u.ok = s.ok
  /\ u.fp = Len(s.d) + m /\ Len(u.d) = Len(s.d) + m
  /\ Extends(u.d, s.d)

LEMMA ExtendsAgain ==
  ASSUME NEW d \in Seq(Nat), NEW e \in Seq(Nat), NEW f \in Seq(Nat), Extends(e, d), Extends(f, e)
  PROVE  Extends(f, d)
<1>1. PICK x \in Nat, y \in Nat, z \in Nat : x = Len(d) /\ y = Len(e) /\ z = Len(f)
  BY LenProperties
<1>2. x <= y /\ y <= z /\ SameIn(d, e, 0, x) /\ SameIn(e, f, 0, y)
  BY <1>1 DEF Extends
<1>3. x <= z /\ \A q \in Nat : q < x => q < y
  BY <1>2
<1>4. SameIn(d, f, 0, x)
  BY <1>2, <1>3 DEF SameIn
<1> QED BY <1>1, <1>3, <1>4 DEF Extends

LEMMA NumberExtends ==
  ASSUME NEW d \in Seq(Nat), NEW e, Extends(e, d), NEW p \in Nat, NEW m \in Widths, p + m <= Len(d)
  PROVE  NumberAt(e, p, m) = NumberAt(d, p, m)
<1>1. PICK x \in Nat : x = Len(d)
  BY LenProperties
<1>2. SameIn(d, e, 0, x) /\ 0 \in Nat /\ 0 <= p /\ p + m <= x
  BY <1>1 DEF Extends
<1>3. NumberAt(d, p, m) = NumberAt(e, p, m)
  BY <1>2, NumberIn
<1> QED BY <1>3

\* What is written at the end of the file leaves the file as it was.
LEMMA PutAppends ==
  ASSUME NEW s \in Stream0, s.fp = Len(s.d), NEW b \in Seq(Nat)
  PROVE  /\ IsAppended(Put(s, b), s, Len(b))
         /\ \A i \in 1 .. Len(b) : ByteAt(Put(s, b).d, Len(s.d) + i - 1) = b[i]
<1>1. PICK x \in Nat, m \in Nat : x = Len(s.d) /\ m = Len(b)
  BY LenProperties DEF Stream0
<1> DEFINE u == Put(s, b)
<1>2. /\ u \in Stream0 /\ u.fp = s.fp + Len(b) /\ u.ok = s.ok
      /\ Len(u.d) = IF s.fp + Len(b) > Len(s.d) THEN s.fp + Len(b) ELSE Len(s.d)
      /\ \A i \in 1 .. Len(b) : ByteAt(u.d, s.fp + i - 1) = b[i]
      /\ SameBut(u.d, s.d, s.fp, s.fp + Len(b))
  BY PutIs
<1> HIDE DEF u
<1>3. u.fp = x + m /\ Len(u.d) = x + m
  <2>1. (IF x + m > x THEN x + m ELSE x) = x + m
    OBVIOUS
  <2> QED BY <1>1, <1>2, <2>1
<1>4. SameIn(s.d, u.d, 0, x)
  <2>1. SameBut(u.d, s.d, x, x + m)
    BY <1>1, <1>2
  <2> QED BY <2>1 DEF SameBut, SameIn
<1>5. x <= x + m
  OBVIOUS
<1> QED BY <1>1, <1>2, <1>3, <1>4, <1>5 DEF IsAppended, Extends, u

LEMMA NumberAppends ==
  ASSUME NEW s \in Stream0, s.fp = Len(s.d), NEW v \in Nat, NEW m \in Widths
  PROVE  /\ IsAppended(PutNumber(s, v, m), s, m)
         /\ NumberAt(PutNumber(s, v, m).d, Len(s.d), m) = v
<1>1. PICK x \in Nat : x = Len(s.d)
  BY LenProperties DEF Stream0
<1> DEFINE u == PutNumber(s, v, m)
<1>2. /\ u \in Stream0 /\ u.ok = s.ok
      /\ u.fp = s.fp + m /\ Len(u.d) = s.fp + m
      /\ NumberAt(u.d, s.fp, m) = v
      /\ SameBut(u.d, s.d, s.fp, s.fp + m)
  BY PutAtEnd
<1> HIDE DEF u
<1>3. SameIn(s.d, u.d, 0, x)
  <2>1. SameBut(u.d, s.d, x, x + m)
    BY <1>1, <1>2
  <2> QED BY <2>1 DEF SameBut, SameIn
<1>4. m \in Nat /\ x <= x + m
  BY DEF Widths
<1> QED BY <1>1, <1>2, <1>3, <1>4 DEF IsAppended, Extends, u

\* A string with its buffer.
IsNewText(u, s, text, size) ==
  /\ IsAppended(u, s, 16 + size)
  /\ NumberAt(u.d, Len(s.d), 8) = 0 /\ NumberAt(u.d, Len(s.d) + 8, 8) = size
  /\ \A i \in 1 .. size : ByteAt(u.d, Len(s.d) + 16 + i - 1) = Buffer(text, size)[i]

\* A new string is its size and its buffer.
LEMMA NewTextIs ==
  ASSUME NEW s \in Stream0, s.fp = Len(s.d), NEW text \in Seq(Nat \ {0})
  PROVE  IsNewText(NewString(s, text), s, text, 2 * Len(text) + 1)
<1>1. PICK p \in Nat, l \in Nat, size \in Nat : p = Len(s.d) /\ l = Len(text) /\ size = 2 * l + 1 /\ l <= size
  <2>1. PICK p \in Nat, l \in Nat : p = Len(s.d) /\ l = Len(text)
    BY LenProperties DEF Stream0
  <2>2. 2 * l + 1 \in Nat /\ l <= 2 * l + 1
    BY <2>1
  <2> QED BY <2>1, <2>2
<1>w. 8 \in Widths /\ 0 \in Nat
  BY DEF Widths
<1> DEFINE a == PutNumber(s, 0, 8)
           b == PutNumber(a, size, 8)
           u == Put(b, Buffer(text, size))
<1>2. IsAppended(a, s, 8) /\ NumberAt(a.d, p, 8) = 0
  BY <1>1, <1>w, NumberAppends
<1> HIDE DEF a
<1>3. a \in Stream0 /\ a.d \in Seq(Nat) /\ a.fp = p + 8 /\ Len(a.d) = p + 8 /\ a.ok = s.ok /\ Extends(a.d, s.d)
  BY <1>1, <1>2 DEF IsAppended, Stream0
<1>4. IsAppended(b, a, 8) /\ NumberAt(b.d, p + 8, 8) = size
  <2>1. a.fp = Len(a.d)
    BY <1>3
  <2>2. IsAppended(PutNumber(a, size, 8), a, 8) /\ NumberAt(PutNumber(a, size, 8).d, Len(a.d), 8) = size
    BY <1>3, <1>w, <2>1, NumberAppends
  <2> QED BY <1>3, <2>2
<1> HIDE DEF b
<1>5. b \in Stream0 /\ b.d \in Seq(Nat) /\ b.fp = p + 16 /\ Len(b.d) = p + 16 /\ b.ok = s.ok /\ Extends(b.d, a.d)
  <2>1. p + 8 + 8 = p + 16
    OBVIOUS
  <2> QED BY <1>3, <1>4, <2>1 DEF IsAppended, Stream0
<1>6. Buffer(text, size) \in Seq(Nat) /\ Len(Buffer(text, size)) = size
  <2>1. text \in Seq(Nat) /\ Len(text) <= size
    BY <1>1
  <2> QED BY <2>1, BufferIs
<1>7. /\ IsAppended(u, b, size)
      /\ \A i \in 1 .. size : ByteAt(u.d, p + 16 + i - 1) = Buffer(text, size)[i]
  <2>1. b.fp = Len(b.d)
    BY <1>5
  <2>2. PICK c \in Seq(Nat) : c = Buffer(text, size) /\ Len(c) = size
    BY <1>6
  <2>3. /\ IsAppended(Put(b, c), b, Len(c))
        /\ \A i \in 1 .. Len(c) : ByteAt(Put(b, c).d, Len(b.d) + i - 1) = c[i]
    BY <1>5, <2>1, PutAppends
  <2> QED BY <1>5, <2>2, <2>3
<1> HIDE DEF u
<1>8. u \in Stream0 /\ u.d \in Seq(Nat) /\ u.fp = p + (16 + size) /\ Len(u.d) = p + (16 + size) /\ u.ok = s.ok /\ Extends(u.d, b.d)
  <2>1. p + 16 + size = p + (16 + size)
    OBVIOUS
  <2> QED BY <1>5, <1>7, <2>1 DEF IsAppended, Stream0
<1>9. Extends(u.d, a.d) /\ Extends(u.d, s.d)
  <2>1. s.d \in Seq(Nat)
    BY DEF Stream0
  <2>2. Extends(u.d, a.d)
    BY <1>3, <1>5, <1>8, ExtendsAgain
  <2> QED BY <1>3, <1>8, <2>1, <2>2, ExtendsAgain
<1>10. NumberAt(u.d, p, 8) = 0
  <2>1. p + 8 <= Len(a.d)
    BY <1>3
  <2>2. NumberAt(u.d, p, 8) = NumberAt(a.d, p, 8)
    BY <1>3, <1>9, <1>w, <2>1, NumberExtends
  <2> QED BY <1>2, <2>2
<1>11. NumberAt(u.d, p + 8, 8) = size
  <2>1. p + 8 \in Nat /\ p + 8 + 8 <= Len(b.d)
    BY <1>5
  <2>2. NumberAt(u.d, p + 8, 8) = NumberAt(b.d, p + 8, 8)
    BY <1>5, <1>8, <1>w, <2>1, NumberExtends
  <2> QED BY <1>4, <2>2
<1>12. IsNewText(u, s, text, size)
  BY <1>1, <1>7, <1>8, <1>9, <1>10, <1>11 DEF IsNewText, IsAppended
<1>13. NewString(s, text) = u
  BY <1>1 DEF NewString, a, b, u
<1> QED BY <1>1, <1>12, <1>13

LEMMA NewHeader ==
  /\ Put(Stream(<<>>), <<2, 0, 1>>) \in Stream0 /\ Put(Stream(<<>>), <<2, 0, 1>>).ok
  /\ Put(Stream(<<>>), <<2, 0, 1>>).fp = 3 /\ Len(Put(Stream(<<>>), <<2, 0, 1>>).d) = 3
<1>1. <<>> \in Seq(Nat) /\ Len(<<>>) = 0
  BY EmptySeq
<1>2. PICK d \in Seq(Nat) : d = <<>> /\ Len(d) = 0
  BY <1>1
<1>3. PICK s \in Stream0 : s = Stream(d) /\ s.d = d /\ s.fp = 0 /\ s.ok
  <2>1. 0 \in Nat
    OBVIOUS
  <2>2. Stream(d) \in Stream0 /\ Stream(d).d = d /\ Stream(d).fp = 0 /\ Stream(d).ok
    BY <2>1 DEF Stream, Stream0
  <2> QED BY <2>2
<1>4. PICK b \in Seq(Nat) : b = <<2, 0, 1>> /\ Len(b) = 3
  <2>1. <<2, 0, 1>> \in Seq(Nat) /\ Len(<<2, 0, 1>>) = 3
    OBVIOUS
  <2> QED BY <2>1
<1>5. Put(s, b) \in Stream0 /\ Put(s, b).fp = s.fp + Len(b) /\ Put(s, b).ok = s.ok
  BY PutIs
<1>6. s.fp = Len(s.d)
  BY <1>2, <1>3
<1>7. IsAppended(Put(s, b), s, Len(b))
  BY <1>6, PutAppends
<1>8. Len(Put(s, b).d) = Len(s.d) + Len(b)
  BY <1>7 DEF IsAppended
<1>9. Put(s, b).fp = 3 /\ Len(Put(s, b).d) = 3
  <2>1. Put(s, b).fp = 0 + 3 /\ Len(Put(s, b).d) = 0 + 3
    BY <1>2, <1>3, <1>4, <1>5, <1>8
  <2> QED BY <2>1
<1> QED BY <1>2, <1>3, <1>4, <1>5, <1>9

\* A record of one block, its text in its own buffer, with a neighbour behind it.
IsNewRecord(k, u, end, r, b, t) ==
  /\ u \in Stream0 /\ u.ok /\ end \in Nat
  /\ b \in Piece /\ b.from = 0 /\ b.size = Len(r.array)
  /\ Layout(k, u.d, <<b>>, t, end)
  /\ Holds(k, u.d, b, r.array)
  /\ TextAt(u.d, EndOf(k, b)) = r.text

\* The block of a new record.
IsNewBlock(k, u, r, b) ==
  /\ u \in Stream0 /\ u.ok
  /\ b \in Piece /\ b.at = ArrayAt /\ b.from = 0 /\ b.size = Len(r.array) /\ b.pad = 0
  /\ u.fp = EndOf(k, b) /\ Len(u.d) = EndOf(k, b)
  /\ InFile(k, u.d, b, 0) /\ Holds(k, u.d, b, r.array)

\* A new record has one block.
LEMMA NewBlockOfRecord ==
  ASSUME NEW k \in NumberKinds, NEW r, GoodRecord(r)
  PROVE  \E b \in Piece : IsNewBlock(k, NewBlock(k, Put(Stream(<<>>), <<2, 0, 1>>), r.array), r, b)
<1>1. PICK es \in Seq(Element) : es = r.array
  BY DEF GoodRecord
<1>2. PICK l \in Nat : l = Len(es)
  BY LenProperties
<1>3. PICK b \in Piece : b.at = ArrayAt /\ b.size = l /\ b.pad = 0 /\ b.from = 0
  <2>1. ArrayAt \in Nat /\ 0 \in Nat
    BY DEF ArrayAt
  <2>2. [at |-> ArrayAt, size |-> l, pad |-> 0, from |-> 0] \in Piece
    BY <2>1 DEF Piece
  <2> QED BY <2>2
<1>4. PICK s \in Stream0 : s = Put(Stream(<<>>), <<2, 0, 1>>) /\ s.ok /\ s.fp = 3 /\ Len(s.d) = 3
  BY NewHeader
<1>5. s.fp = Len(s.d) /\ b.at = Len(s.d) /\ Len(es) = b.size
  BY <1>2, <1>3, <1>4 DEF ArrayAt
<1>6. \A j \in 1 .. b.size : es[j] = es[b.from + j]
  BY <1>2, <1>3
<1>7. /\ NewBlock(k, s, es) \in Stream0 /\ NewBlock(k, s, es).ok = s.ok
      /\ NewBlock(k, s, es).fp = EndOf(k, b) /\ Len(NewBlock(k, s, es).d) = EndOf(k, b)
      /\ InFile(k, NewBlock(k, s, es).d, b, 0)
      /\ Holds(k, NewBlock(k, s, es).d, b, es)
  BY <1>3, <1>5, <1>6, NewBlockIs
<1>8. IsNewBlock(k, NewBlock(k, s, es), r, b)
  BY <1>1, <1>2, <1>3, <1>4, <1>7 DEF IsNewBlock
<1> QED BY <1>1, <1>4, <1>8

LEMMA NeighbourIs ==
  /\ Neighbour \in Seq(Nat) /\ Len(Neighbour) = 4
  /\ \A i \in 1 .. 4 : Neighbour[i] = 255
<1>1. Neighbour \in Seq(Nat) /\ Len(Neighbour) = 4
  BY DEF Neighbour
<1>2. Neighbour[1] = 255 /\ Neighbour[2] = 255 /\ Neighbour[3] = 255 /\ Neighbour[4] = 255
  BY DEF Neighbour
<1>3. \A i \in 1 .. 4 : i = 1 \/ i = 2 \/ i = 3 \/ i = 4
  OBVIOUS
<1> QED BY <1>1, <1>2, <1>3

\* A block without a link is a chain.
LEMMA OneBlock ==
  ASSUME NEW k \in NumberKinds, NEW d, NEW b \in Piece, b.at = ArrayAt, b.from = 0, b.pad = 0,
         b.size \in 1 .. MaxElements, InFile(k, d, b, 0)
  PROVE  IsChain(k, d, <<b>>) /\ <<b>> \in Seq(Piece) /\ Len(<<b>>) = 1 /\ <<b>>[1] = b /\ Total(<<b>>) = b.size
<1>1. PICK c \in Seq(Piece) : c = <<b>> /\ Len(c) = 1 /\ c[1] = b
  <2>1. <<b>> \in Seq(Piece) /\ Len(<<b>>) = 1 /\ <<b>>[1] = b
    OBVIOUS
  <2> QED BY <2>1
<1>2. PICK y \in Nat : y = b.size /\ y >= 1 /\ y <= MaxElements
  BY DEF Piece, MaxElements
<1>3. Bounded(k, b)
  <2>1. y + 0 <= MaxElements
    BY <1>2 DEF MaxElements
  <2> QED BY <1>2, <2>1 DEF Bounded
<1>4. \A i \in 1 .. Len(c) : i = 1
  BY <1>1
<1>5. NextAt(c, 1) = 0
  BY <1>1 DEF NextAt
<1>6. \A i \in 1 .. Len(c) : Bounded(k, c[i]) /\ InFile(k, d, c[i], NextAt(c, i))
  <2> TAKE i \in 1 .. Len(c)
  <2>1. i = 1
    BY <1>4
  <2> QED BY <1>1, <1>3, <1>5, <2>1
<1>7. \A i \in 1 .. Len(c) - 1 : FALSE
  BY <1>1
<1>8. \A i, j \in 1 .. Len(c) : ~ (i < j)
  BY <1>4
<1>9. IsChain(k, d, c)
  BY <1>1, <1>2, <1>6, <1>7, <1>8 DEF IsChain
<1>10. Total(c) = b.size
  <2>1. Total(c) = 0 + y
    BY <1>1, <1>2 DEF Total
  <2> QED BY <1>2, <2>1
<1> QED BY <1>1, <1>9, <1>10

\* A new record is laid out, with its neighbour behind it.
LEMMA NewRecordIs ==
  ASSUME NEW k \in NumberKinds, NEW r, GoodRecord(r)
  PROVE  \E b \in Piece, t \in TextPlace :
           IsNewRecord(k, Put(WriteNew(k, r), Neighbour), Len(WriteNew(k, r).d), r, b, t)
<1>w. 8 \in Widths /\ 0 \in Nat
  BY DEF Widths
<1> DEFINE x == NewBlock(k, Put(Stream(<<>>), <<2, 0, 1>>), r.array)
           y == NewString(x, r.text)
           z == PutNumber(y, 0, 8)
           u == Put(z, Neighbour)
<1>1. PICK b \in Piece : IsNewBlock(k, x, r, b)
  BY NewBlockOfRecord
<1> HIDE DEF x
<1>2. PICK e \in Nat, own \in Nat : /\ e = EndOf(k, b) /\ own = 2 * Len(r.text) + 1 /\ Len(r.text) < own
  <2>1. PICK e \in Nat : e = EndOf(k, b)
    BY PieceEnds
  <2>2. PICK l \in Nat : l = Len(r.text)
    BY LenProperties DEF GoodRecord
  <2>3. 2 * l + 1 \in Nat /\ l < 2 * l + 1
    OBVIOUS
  <2> QED BY <2>1, <2>2, <2>3
<1>3. x \in Stream0 /\ x.d \in Seq(Nat) /\ x.ok /\ x.fp = e /\ Len(x.d) = e
  BY <1>1, <1>2 DEF IsNewBlock, Stream0
<1>4. PICK text \in Seq(Nat \ {0}) : text = r.text
  BY DEF GoodRecord
<1>5. IsNewText(y, x, text, own)
  <2>1. x.fp = Len(x.d)
    BY <1>3
  <2>2. IsNewText(NewString(x, text), x, text, 2 * Len(text) + 1)
    BY <1>3, <2>1, NewTextIs
  <2> QED BY <1>2, <1>4, <2>2
<1> HIDE DEF y
<1>6. /\ y \in Stream0 /\ y.d \in Seq(Nat) /\ y.ok /\ y.fp = e + (16 + own) /\ Len(y.d) = e + (16 + own)
      /\ Extends(y.d, x.d)
      /\ NumberAt(y.d, e, 8) = 0 /\ NumberAt(y.d, e + 8, 8) = own
      /\ \A i \in 1 .. own : ByteAt(y.d, e + 16 + i - 1) = Buffer(text, own)[i]
  BY <1>3, <1>5 DEF IsNewText, IsAppended, Stream0
<1>7. PICK m \in Nat : m = e + (16 + own)
  OBVIOUS
<1>8. z \in Stream0 /\ z.d \in Seq(Nat) /\ z.ok /\ z.fp = m + 8 /\ Len(z.d) = m + 8 /\ Extends(z.d, y.d)
  <2>1. y.fp = Len(y.d)
    BY <1>6
  <2>2. IsAppended(PutNumber(y, 0, 8), y, 8)
    BY <1>6, <1>w, <2>1, NumberAppends
  <2> QED BY <1>6, <1>7, <2>2 DEF IsAppended, Stream0
<1> HIDE DEF z
<1>9. PICK end \in Nat : end = m + 8
  OBVIOUS
<1>10. /\ u \in Stream0 /\ u.d \in Seq(Nat) /\ u.ok /\ Len(u.d) = end + 4 /\ Extends(u.d, z.d)
       /\ \A i \in 1 .. 4 : ByteAt(u.d, end + i - 1) = 255
  <2>1. z.fp = Len(z.d)
    BY <1>8
  <2>2. PICK c \in Seq(Nat) : c = Neighbour /\ Len(c) = 4 /\ \A i \in 1 .. 4 : c[i] = 255
    BY NeighbourIs
  <2>3. /\ IsAppended(Put(z, c), z, Len(c))
        /\ \A i \in 1 .. Len(c) : ByteAt(Put(z, c).d, Len(z.d) + i - 1) = c[i]
    BY <1>8, <2>1, PutAppends
  <2> QED BY <1>8, <1>9, <2>2, <2>3 DEF IsAppended, Stream0
<1> HIDE DEF u
<1>11. Extends(u.d, y.d) /\ Extends(u.d, x.d)
  <2>1. Extends(u.d, y.d)
    BY <1>6, <1>8, <1>10, ExtendsAgain
  <2> QED BY <1>3, <1>6, <1>10, <2>1, ExtendsAgain
<1>12. InFile(k, u.d, b, 0) /\ Holds(k, u.d, b, r.array)
  <2>1. Len(x.d) \in Nat /\ Len(u.d) \in Nat /\ Len(x.d) <= Len(u.d) /\ SameIn(x.d, u.d, 0, e)
    <3>1. Len(x.d) \in Nat /\ Len(u.d) \in Nat
      BY <1>3, <1>10, LenProperties
    <3> QED BY <1>3, <1>11, <3>1 DEF Extends
  <2>2. SameIn(x.d, u.d, b.at, EndOf(k, b))
    BY <1>2, <2>1 DEF SameIn, Piece
  <2>3. /\ \A next : InFile(k, x.d, b, next) => InFile(k, u.d, b, next)
        /\ \A array : Holds(k, x.d, b, array) => Holds(k, u.d, b, array)
    BY <2>1, <2>2, BlockKept
  <2> QED BY <1>1, <2>3 DEF IsNewBlock
<1>13. b.at = ArrayAt /\ b.from = 0 /\ b.pad = 0 /\ b.size = Len(r.array) /\ b.size \in 1 .. MaxElements
  BY <1>1 DEF IsNewBlock, GoodRecord
<1>14. PICK c \in Seq(Piece) : c = <<b>> /\ Len(c) = 1 /\ c[1] = b /\ IsChain(k, u.d, c)
  BY <1>12, <1>13, OneBlock
<1>15. PICK t \in TextPlace : t.loc = 0 /\ t.own = own /\ t.size = 0
  <2>1. [loc |-> 0, own |-> own, size |-> 0] \in TextPlace
    BY <1>w DEF TextPlace
  <2> QED BY <2>1
<1>16. NumberAt(u.d, e, 8) = 0 /\ NumberAt(u.d, e + 8, 8) = own
  <2>1. e + 8 \in Nat /\ e + 8 <= Len(y.d) /\ e + 8 + 8 <= Len(y.d)
    BY <1>6
  <2>2. NumberAt(u.d, e, 8) = NumberAt(y.d, e, 8)
    BY <1>6, <1>11, <1>w, <2>1, NumberExtends
  <2>3. NumberAt(u.d, e + 8, 8) = NumberAt(y.d, e + 8, 8)
    BY <1>6, <1>11, <1>w, <2>1, NumberExtends
  <2> QED BY <1>6, <2>2, <2>3
<1>17. end = e + 24 + own /\ end + 4 <= Len(u.d)
  BY <1>7, <1>9, <1>10
<1>18. IsText(u.d, e, t, end)
  BY <1>15, <1>16, <1>17 DEF IsText
<1>19. NextTo(u.d, end)
  <2>1. ASSUME NEW q \in Nat, end <= q, q < end + 4
        PROVE  ByteAt(u.d, q) = 255
    <3>1. q - end + 1 \in 1 .. 4 /\ end + (q - end + 1) - 1 = q
      BY <2>1
    <3>2. ByteAt(u.d, end + (q - end + 1) - 1) = 255
      BY <1>10, <3>1
    <3> QED BY <3>1, <3>2
  <2> QED BY <2>1 DEF NextTo
<1>20. Layout(k, u.d, c, t, end)
  <2>1. \A i \in 2 .. Len(c) : FALSE
    BY <1>14
  <2> QED BY <1>2, <1>14, <1>18, <1>19, <2>1 DEF Layout
<1>21. TextAt(u.d, e) = text
  <2>0. PICK d \in Seq(Nat) : d = u.d
    BY <1>10
  <2>1. PICK p \in Nat : p = e + 16
    OBVIOUS
  <2>2. BufferAt(e, t) + 8 = p /\ BufferSize(t) = own
    <3>1. BufferAt(e, t) = e + 8 /\ BufferSize(t) = own
      BY <1>15 DEF BufferAt, BufferSize
    <3> QED BY <2>1, <3>1
  <2>3. \A i \in 1 .. own : ByteAt(u.d, p + i - 1) = Buffer(text, own)[i]
    <3> TAKE i \in 1 .. own
    <3>1. PICK q \in Nat : q = p + i - 1 /\ q < Len(y.d)
      <4>1. p + i - 1 \in Nat /\ p + i - 1 < e + (16 + own)
        BY <2>1
      <4> QED BY <1>6, <4>1
    <3>2. ByteAt(u.d, q) = ByteAt(y.d, q)
      BY <1>11, <3>1 DEF Extends, SameIn
    <3>3. ByteAt(y.d, e + 16 + i - 1) = Buffer(text, own)[i]
      BY <1>6
    <3> QED BY <2>1, <3>1, <3>2, <3>3
  <2>4. Len(text) < own
    BY <1>2, <1>4
  <2>d. \A i \in 1 .. own : ByteAt(d, p + i - 1) = Buffer(text, own)[i]
    BY <2>0, <2>3
  <2>e. IsText(d, e, t, end)
    BY <1>18, <2>0
  <2>5. [i \in 1 .. TextLength(d, p, own) |-> ByteAt(d, p + i - 1)] = text
    BY <2>d, <2>4, TextRead
  <2>6. TextAt(d, e) =
          [i \in 1 .. TextLength(d, BufferAt(e, t) + 8, BufferSize(t)) |-> ByteAt(d, BufferAt(e, t) + 8 + i - 1)]
    BY <2>e, TextAtBuffer
  <2> QED BY <2>0, <2>2, <2>5, <2>6
<1>22. IsNewRecord(k, u, end, r, b, t)
  BY <1>2, <1>4, <1>10, <1>12, <1>13, <1>14, <1>20, <1>21 DEF IsNewRecord
<1>23. z = WriteNew(k, r)
  BY DEF WriteNew, x, y, z
<1>24. u = Put(WriteNew(k, r), Neighbour) /\ end = Len(WriteNew(k, r).d)
  BY <1>8, <1>9, <1>23 DEF u
<1> QED BY <1>22, <1>24

-----------------------------------------------------------------------------
(* The invariant.                                                            *)

\* The record that is there at first satisfies the invariant.
LEMMA InvAtInit ==
  ASSUME Followed, Init, kind \in NumberKinds
  PROVE  Inv
<1>1. kind \in NumberKinds /\ pc = "idle" /\ gen = 1 /\ w = Idle /\ want = stored
  BY DEF Init
<1>2. GoodRecord(stored)
  <2>1. PICK shape \in ShapesOf(kind) : stored = Record(1, shape, 1)
    BY DEF Init
  <2>2. 1 \in Nat \ {0} /\ 1 \in {1, 5}
    OBVIOUS
  <2> QED BY <1>1, <2>1, <2>2, RecordIs
<1>3. PICK b \in Piece, t \in TextPlace : IsNewRecord(kind, io, home, stored, b, t)
  BY <1>1, <1>2, NewRecordIs DEF Init
<1>4. Types
  <2>1. Idle \in WriteVars
    BY DEF Idle, WriteVars
  <2>2. io \in Stream0 /\ io.ok /\ home \in Nat
    BY <1>3 DEF IsNewRecord
  <2>3. 1 \in Nat \ {0}
    OBVIOUS
  <2> QED BY <1>1, <1>2, <2>1, <2>2, <2>3 DEF Types, WriteVars, Places
<1>5. PICK c \in Seq(Piece) : c = <<b>> /\ Len(c) = 1 /\ c[1] = b
  <2>1. <<b>> \in Seq(Piece) /\ Len(<<b>>) = 1 /\ <<b>>[1] = b
    OBVIOUS
  <2> QED BY <2>1
<1>6. /\ Layout(kind, io.d, c, t, home) /\ Holds(kind, io.d, c[1], stored.array)
      /\ TextAt(io.d, EndOf(kind, c[1])) = stored.text
  BY <1>3, <1>5 DEF IsNewRecord
<1>7. Total(c) = n
  <2>1. PICK l \in Nat : l = Len(stored.array) /\ c[1].from = 0 /\ c[1].size = l
    <3>1. Len(stored.array) \in Nat
      BY <1>2, LenProperties DEF GoodRecord
    <3> QED BY <1>3, <1>5, <3>1 DEF IsNewRecord
  <2>2. Total(c) = 0 + l
    BY <1>5, <2>1 DEF Total
  <2> QED BY <1>1, <2>1, <2>2 DEF n
<1>8. Written(kind, io.d, c, 1, want.array)
  <2>1. \A i \in 1 .. 1 : i = 1
    OBVIOUS
  <2> QED BY <1>1, <1>6, <2>1 DEF Written
<1>9. Kept(kind, io.d, c, 1, stored.array, n)
  <2>1. \A i \in 1 + 1 .. Len(c) : FALSE
    BY <1>5
  <2>2. Total(c) = Len(stored.array)
    BY <1>1, <1>7 DEF n
  <2> QED BY <2>1, <2>2 DEF Kept
<1>10. Done(c, 1)
  BY <1>1, <1>5, <1>7 DEF Done
<1>11. 1 \in Nat
  OBVIOUS
<1>12. State(c, t, 1)
  BY <1>1, <1>6, <1>8, <1>9, <1>10 DEF State, Reading
<1> QED BY <1>4, <1>11, <1>12 DEF Inv

\* Every step keeps it.
LEMMA InvKept ==
  ASSUME Followed, Inv, [Next]_vars
  PROVE  Inv'
<1>1. PICK c \in Seq(Piece), t \in TextPlace, done \in Nat : State(c, t, done)
  BY DEF Inv
<1>2. Types
  BY DEF Inv
<1>3. CASE StartUpdate
  BY <1>1, <1>2, <1>3, StartUpdateKeeps DEF Inv
<1>4. CASE ReadSize
  BY <1>1, <1>2, <1>4, ReadSizeKeeps DEF Inv
<1>5. CASE OverwriteBlock
  BY <1>1, <1>2, <1>5, OverwriteBlockKeeps DEF Inv
<1>6. CASE FillBlock
  BY <1>1, <1>2, <1>6, FillBlockKeeps DEF Inv
<1>7. CASE FollowLink
  BY <1>1, <1>2, <1>7, FollowLinkKeeps DEF Inv
<1>8. CASE AppendBlock
  BY <1>1, <1>2, <1>8, AppendBlockKeeps DEF Inv
<1>9. CASE LinkBlock
  BY <1>1, <1>2, <1>9, LinkBlockKeeps DEF Inv
<1>10. CASE ShrinkBlock
  BY <1>1, <1>2, <1>10, ShrinkBlockKeeps DEF Inv
<1>11. CASE SameSize
  BY <1>1, <1>2, <1>11, SameSizeKeeps DEF Inv
<1>12. CASE Return
  BY <1>1, <1>2, <1>12, ReturnKeeps DEF Inv
<1>13. CASE WriteText
  BY <1>1, <1>2, <1>13, WriteTextKeeps DEF Inv
<1>14. CASE WriteEnd
  BY <1>1, <1>2, <1>14, WriteEndKeeps DEF Inv
<1>15. CASE UNCHANGED vars
  BY <1>15 DEF Inv, State, Types, vars, n, AtBlock, AfterBlock, AtNewBlock, Done
<1> QED BY <1>3, <1>4, <1>5, <1>6, <1>7, <1>8, <1>9, <1>10, <1>11, <1>12, <1>13, <1>14, <1>15 DEF Next

-----------------------------------------------------------------------------
(* The properties.                                                           *)

\* What a get finds while an update is under way.
LEMMA ReaderSees ==
  ASSUME Types, NEW c, NEW t, NEW done \in Nat, State(c, t, done), pc # "idle", n >= Len(stored.array)
  PROVE  OldOrNew(ReadRecord(kind, io.d))
<1>1. /\ kind \in NumberKinds /\ io.d \in Seq(Nat) /\ pc \in Places
      /\ stored.array \in Seq(Element) /\ want.array \in Seq(Element)
  BY DEF Types, GoodRecord, Stream0
<1>2. IsChain(kind, io.d, c) /\ Written(kind, io.d, c, done, want.array)
  BY DEF State, Layout
<1>3. PICK old \in Nat, new \in Nat : old = Len(stored.array) /\ new = n /\ new = Len(want.array) /\ old <= new
  <2>1. Len(stored.array) \in Nat
    BY <1>1, LenProperties
  <2>2. n \in Nat /\ n = Len(want.array)
    BY NIs
  <2> QED BY <2>1, <2>2
<1> DEFINE a == ReadFrom(kind, io.d)[ArrayAt].array
<1>4. /\ ReadRecord(kind, io.d) = [array |-> a, text |-> TextAt(io.d, EndOf(kind, c[1]))]
      /\ DOMAIN a = 1 .. Total(c) /\ Len(a) = Total(c)
      /\ \A y \in 1 .. Total(c) : InBlock(kind, io.d, c, 1, y, a[y])
  BY <1>1, <1>2, ReadRecordIs
<1> HIDE DEF a
<1>5. PICK total \in Nat, blocks \in Nat : total = Total(c) /\ blocks = Len(c)
  BY <1>1, <1>2, ChainFacts
\* Each block holds the new array or, before the array is written, the old one.
<1>6. \/ total = new /\ done = blocks
      \/ total = old /\ \A x \in done + 1 .. blocks : Holds(kind, io.d, c[x], stored.array)
  <2>1. CASE pc \in {"return", "text", "end"}
    <3>1. Done(c, done)
      BY <2>1 DEF State
    <3> QED BY <1>3, <1>5, <3>1 DEF Done
  <2>2. CASE pc \notin {"return", "text", "end"}
    <3>1. Kept(kind, io.d, c, done, stored.array, n)
      BY <2>2 DEF State
    <3> QED BY <1>3, <1>5, <3>1 DEF Kept
  <2> QED BY <2>1, <2>2
<1>7. ASSUME NEW y \in 1 .. total
      PROVE  a[y] = want.array[y] \/ (y \in 1 .. old /\ a[y] = stored.array[y])
  <2>1. InBlock(kind, io.d, c, 1, y, a[y])
    BY <1>4, <1>5
  <2>2. PICK x \in 1 .. blocks : \A array \in Seq(Element) :
          Holds(kind, io.d, c[x], array) /\ y \in 1 .. Len(array) => a[y] = array[y]
    <3>1. PICK element : element = a[y]
      OBVIOUS
    <3>k. PICK k \in NumberKinds : k = kind
      BY <1>1
    <3>d. PICK d : d = io.d
      OBVIOUS
    <3>2. InBlock(k, d, c, 1, y, element) /\ IsChain(k, d, c)
      BY <1>2, <2>1, <3>1, <3>k, <3>d
    <3>3. PICK x \in 1 .. Len(c) :
            /\ y <= c[x].from + c[x].size
            /\ \A array \in Seq(Element) :
                 Holds(k, d, c[x], array) /\ y \in 1 .. Len(array) => element = array[y]
      BY <3>2, ElementIs
    <3>4. x \in 1 .. blocks
      BY <1>5
    <3> QED BY <3>1, <3>k, <3>d, <3>3, <3>4
  <2>3. y \in 1 .. new
    BY <1>3, <1>6
  <2>4. CASE x <= done
    <3>1. Holds(kind, io.d, c[x], want.array)
      BY <1>2, <2>4 DEF Written
    <3> QED BY <1>1, <1>3, <2>2, <2>3, <3>1
  <2>5. CASE ~ (x <= done)
    <3>1. x \in done + 1 .. blocks /\ done # blocks
      BY <2>5
    <3>2. total = old /\ Holds(kind, io.d, c[x], stored.array)
      BY <1>6, <3>1
    <3> QED BY <1>1, <1>3, <2>2, <3>2
  <2> QED BY <2>4, <2>5
<1>8. DOMAIN stored.array = 1 .. old
  BY <1>1, <1>3, LenProperties
<1>9. ASSUME NEW y \in DOMAIN a
      PROVE  a[y] = want.array[y] \/ (y \in DOMAIN stored.array /\ a[y] = stored.array[y])
  <2>1. y \in 1 .. total
    BY <1>4, <1>5
  <2> QED BY <1>7, <1>8, <2>1
<1>10. Len(a) \in {Len(stored.array), n}
  BY <1>3, <1>4, <1>5, <1>6
<1>11. TextAt(io.d, EndOf(kind, c[1])) \in {stored.text, want.text}
  BY DEF State
<1>12. PICK r : r = ReadRecord(kind, io.d) /\ r.array = a /\ r.text \in {stored.text, want.text}
  BY <1>4, <1>11
<1>13. OldOrNew(r)
  BY <1>9, <1>10, <1>12 DEF OldOrNew
<1> QED BY <1>12, <1>13

\* What a get finds when no update is.
LEMMA RecordIsRead ==
  ASSUME Types, NEW c, NEW t, NEW done \in Nat, State(c, t, done), pc = "idle"
  PROVE  ReadRecord(kind, io.d) = stored
<1>1. kind \in NumberKinds /\ io.d \in Seq(Nat) /\ stored \in [array : Seq(Element), text : Seq(Nat \ {0})]
  BY DEF Types, GoodRecord, Stream0
<1>2. /\ IsChain(kind, io.d, c) /\ Written(kind, io.d, c, done, want.array) /\ want = stored /\ Done(c, done)
      /\ TextAt(io.d, EndOf(kind, c[1])) = stored.text
  BY DEF State, Layout
<1>3. Total(c) = Len(stored.array) /\ Written(kind, io.d, c, Len(c), stored.array)
  BY <1>2 DEF Done, n
<1> QED BY <1>1, <1>2, <1>3, ArrayIsRead

\* The neighbour's bytes are where the record ends.
LEMMA NeighbourStays ==
  ASSUME Types, NEW c, NEW t, NEW done \in Nat, State(c, t, done)
  PROVE  NeighbourUntouched
<1>1. kind \in NumberKinds /\ io.d \in Seq(Nat) /\ home \in Nat
  BY DEF Types, Stream0
<1>2. Layout(kind, io.d, c, t, home)
  BY DEF State
<1>3. PICK d \in Seq(Nat), l \in Nat : d = io.d /\ l = Len(d) /\ home + 4 <= l
  <2>1. home + 4 <= Len(io.d)
    BY <1>1, <1>2, LayoutFacts
  <2> QED BY <1>1, <2>1, LenProperties
<1>4. \A i \in 1 .. 4 : d[home + i] = 255
  <2> TAKE i \in 1 .. 4
  <2>1. PICK q \in Nat : q = home + i - 1 /\ home <= q /\ q < home + 4 /\ q < l /\ q + 1 = home + i
    BY <1>1, <1>3
  <2>2. ByteAt(d, q) = 255
    BY <1>2, <1>3, <2>1 DEF Layout, NextTo
  <2> QED BY <1>3, <2>1, <2>2 DEF ByteAt
<1>5. PICK s \in Seq(Nat) : /\ s = SubSeq(d, home + 1, home + 4) /\ Len(s) = 4
                            /\ \A i \in 1 .. 4 : s[i] = d[home + i]
  <2>1. home + 1 \in 1 .. l + 1 /\ home + 4 \in home + 1 - 1 .. l /\ home + 4 - (home + 1) + 1 = 4
    BY <1>1, <1>3
  <2>2. \A i \in 1 .. 4 : home + 1 + i - 1 = home + i /\ home + i \in 1 .. l
    BY <1>1, <1>3
  <2>3. SubSeq(d, home + 1, home + 4) = [i \in 1 .. 4 |-> d[home + i]]
    BY <1>1, <1>3, <2>1, <2>2
  <2>4. [i \in 1 .. 4 |-> d[home + i]] \in [1 .. 4 -> Nat]
    BY <1>3, <2>2, ElementOfSeq
  <2>5. 4 \in Nat
    OBVIOUS
  <2> QED BY <2>3, <2>4, <2>5, SeqOfFunction
<1>6. Neighbour \in Seq(Nat) /\ Len(Neighbour) = 4 /\ \A i \in 1 .. 4 : Neighbour[i] = 255
  BY NeighbourIs
<1>7. s = Neighbour
  <2>1. PICK b \in Seq(Nat) : b = Neighbour /\ Len(b) = 4 /\ \A i \in 1 .. 4 : b[i] = 255
    BY <1>6
  <2>2. s \in [1 .. 4 -> Nat] /\ b \in [1 .. 4 -> Nat]
    <3>1. s \in [1 .. Len(s) -> Nat] /\ b \in [1 .. Len(b) -> Nat]
      BY LenProperties
    <3> QED BY <1>5, <2>1, <3>1
  <2>3. \A i \in 1 .. 4 : s[i] = b[i]
    <3> TAKE i \in 1 .. 4
    <3>1. s[i] = d[home + i] /\ d[home + i] = 255
      BY <1>4, <1>5
    <3> QED BY <2>1, <3>1
  <2>4. s = [i \in 1 .. 4 |-> s[i]] /\ b = [i \in 1 .. 4 |-> b[i]]
    BY <2>2
  <2> QED BY <2>1, <2>3, <2>4
<1> QED BY <1>3, <1>5, <1>6, <1>7 DEF NeighbourUntouched

NumberInv == kind \in NumberKinds => Inv

LEMMA InvariantHolds == ASSUME Followed PROVE Spec => []NumberInv
<1>1. Init => NumberInv
  BY InvAtInit DEF NumberInv
<1>2. NumberInv /\ [Next]_vars => NumberInv'
  <2> SUFFICES ASSUME NumberInv, [Next]_vars, kind' \in NumberKinds PROVE Inv'
    BY DEF NumberInv
  <2>1. kind' = kind
    BY DEF Next, vars, StartUpdate, ReadSize, OverwriteBlock, FillBlock, FollowLink, AppendBlock, LinkBlock,
           ShrinkBlock, SameSize, Return, WriteText, WriteEnd, Unchanged
  <2>2. Inv
    BY <2>1 DEF NumberInv
  <2> QED BY <2>2, InvKept
<1> QED BY <1>1, <1>2, PTL DEF Spec

\* Whatever updates of an array of numbers the code handles, any number of them and
\* whatever blocks they add, shrink and fill again: when the update is done, read_file
\* gives back the array and the text that write_file was given.
THEOREM NumbersReadBack == Followed /\ Spec => [](kind \in NumberKinds => ReadBack)
<1> SUFFICES ASSUME Followed PROVE Spec => [](kind \in NumberKinds => ReadBack)
  OBVIOUS
<1>1. NumberInv => (kind \in NumberKinds => ReadBack)
  <2> SUFFICES ASSUME NumberInv, kind \in NumberKinds PROVE ReadBack
    OBVIOUS
  <2>1. Types
    BY DEF NumberInv, Inv
  <2>2. PICK c \in Seq(Piece), t \in TextPlace, done \in Nat : State(c, t, done)
    BY DEF NumberInv, Inv
  <2>3. pc # "failed"
    BY <2>1 DEF Types, Places, Reading
  <2>4. pc = "idle" => ReadRecord(kind, io.d) = stored
    BY <2>1, <2>2, RecordIsRead
  <2> QED BY <2>3, <2>4 DEF ReadBack
<1> QED BY <1>1, InvariantHolds, PTL

\* At no step of such an update is a byte of the record that follows in the file
\* written over.
THEOREM NumbersLeaveTheNeighbour == Followed /\ Spec => [](kind \in NumberKinds => NeighbourUntouched)
<1> SUFFICES ASSUME Followed PROVE Spec => [](kind \in NumberKinds => NeighbourUntouched)
  OBVIOUS
<1>1. NumberInv => (kind \in NumberKinds => NeighbourUntouched)
  <2> SUFFICES ASSUME NumberInv, kind \in NumberKinds PROVE NeighbourUntouched
    OBVIOUS
  <2>1. Types
    BY DEF NumberInv, Inv
  <2>2. PICK c \in Seq(Piece), t \in TextPlace, done \in Nat : State(c, t, done)
    BY DEF NumberInv, Inv
  <2> QED BY <2>1, <2>2, NeighbourStays
<1> QED BY <1>1, InvariantHolds, PTL

\* A get that reads the record without the lock between any two steps of an update, or after
\* the update was killed there, finds the array as long as before or after it, every
\* element old or new, and the old or the new text, unless the array becomes shorter.
THEOREM NumbersAreOldOrNew == Followed /\ Spec => [](kind \in NumberKinds => ReaderSeesOldOrNew)
<1> SUFFICES ASSUME Followed PROVE Spec => [](kind \in NumberKinds => ReaderSeesOldOrNew)
  OBVIOUS
<1>1. NumberInv => (kind \in NumberKinds => ReaderSeesOldOrNew)
  <2> SUFFICES ASSUME NumberInv, kind \in NumberKinds PROVE ReaderSeesOldOrNew
    OBVIOUS
  <2>1. Types
    BY DEF NumberInv, Inv
  <2>2. PICK c \in Seq(Piece), t \in TextPlace, done \in Nat : State(c, t, done)
    BY DEF NumberInv, Inv
  <2>3. pc # "idle" /\ n >= Len(stored.array) => OldOrNew(ReadRecord(kind, io.d))
    BY <2>1, <2>2, ReaderSees
  <2> QED BY <2>3 DEF ReaderSeesOldOrNew
<1> QED BY <1>1, InvariantHolds, PTL
=============================================================================
