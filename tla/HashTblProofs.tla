--------------------------- MODULE HashTblProofs ----------------------------
(* What the operations of hash_tbl.c preserve, for every hash and table size. *)
EXTENDS HashTbl, PositionsProofs, FiniteSetTheorems, SequenceTheorems, TLAPS

-----------------------------------------------------------------------------
(* Chains.                                                                   *)

LEMMA AppendChain ==
  ASSUME NEW c \in Seq(Node), NEW b, NEW n, WellChained(c, b, n), NEW node \in Node,
         Hash[n][node.key] = b,
         node.key = EmptyKey \/ \A i \in DOMAIN c : c[i].key # node.key
  PROVE  Append(c, node) \in Seq(Node) /\ WellChained(Append(c, node), b, n)
<1>1. /\ Append(c, node) \in Seq(Node)
      /\ Len(Append(c, node)) = Len(c) + 1
      /\ \A i \in 1..Len(c) : Append(c, node)[i] = c[i]
      /\ Append(c, node)[Len(c) + 1] = node
  BY AppendProperties
<1>2. DOMAIN Append(c, node) = 1..Len(c) + 1 /\ DOMAIN c = 1..Len(c) /\ Len(c) \in Nat
  BY <1>1, LenProperties
<1> QED BY <1>1, <1>2 DEF WellChained

LEMMA PrefixChain ==
  ASSUME NEW c \in Seq(Node), NEW b, NEW n, WellChained(c, b, n), NEW l \in Int, l <= Len(c)
  PROVE  SubSeq(c, 1, l) \in Seq(Node) /\ WellChained(SubSeq(c, 1, l), b, n)
<1> DEFINE d == SubSeq(c, 1, l)
<1>1. c \in [1..Len(c) -> Node] /\ Len(c) \in Nat
  BY LenProperties
<1>2. \A i \in 1..l : c[i] \in Node
  BY <1>1
<1>3. /\ d \in Seq(Node)
      /\ Len(d) = IF 1 <= l THEN l - 1 + 1 ELSE 0
      /\ \A i \in 1..l-1+1 : d[i] = c[1+i-1]
  BY <1>2, SubSeqProperties, 1 \in Int
<1>4. DOMAIN d = 1..Len(d) /\ Len(d) <= Len(c) /\ \A i \in 1..Len(d) : d[i] = c[i]
  BY <1>1, <1>3, LenProperties
<1> HIDE DEF d
<1> QED BY <1>1, <1>3, <1>4 DEF WellChained

\* What is left of a chain without its node i.
LEMMA RemoveAtIs ==
  ASSUME NEW c \in Seq(Node), NEW i \in DOMAIN c
  PROVE  /\ RemoveAt(c, i) \in Seq(Node)
         /\ DOMAIN RemoveAt(c, i) = 1..Len(c)-1
         /\ \A j \in 1..Len(c)-1 : RemoveAt(c, i)[j] = IF j < i THEN c[j] ELSE c[j+1]
<1> DEFINE x == SubSeq(c, 1, i-1)
           y == SubSeq(c, i+1, Len(c))
           d == RemoveAt(c, i)
<1>1. c \in [1..Len(c) -> Node] /\ Len(c) \in Nat /\ i \in 1..Len(c)
  BY LenProperties
<1>2. x \in Seq(Node) /\ Len(x) = i - 1 /\ \A j \in 1..i-1 : x[j] = c[j]
  <2>1. \A j \in 1..i-1 : c[j] \in Node
    BY <1>1
  <2>2. 1 \in Int /\ i - 1 \in Int
    BY <1>1
  <2>3. /\ x \in Seq(Node)
        /\ Len(x) = IF 1 <= i - 1 THEN i - 1 - 1 + 1 ELSE 0
        /\ \A j \in 1..i-1-1+1 : x[j] = c[1+j-1]
    BY <2>1, <2>2, SubSeqProperties
  <2> QED BY <1>1, <2>3
<1>3. /\ y \in Seq(Node) /\ Len(y) = Len(c) - i
      /\ \A j \in 1..Len(c)-i : y[j] = c[i+j]
  <2>1. \A j \in i+1..Len(c) : c[j] \in Node
    BY <1>1
  <2>2. i + 1 \in Int /\ Len(c) \in Int
    BY <1>1
  <2>3. /\ y \in Seq(Node)
        /\ Len(y) = IF i + 1 <= Len(c) THEN Len(c) - (i + 1) + 1 ELSE 0
        /\ \A j \in 1..Len(c)-(i+1)+1 : y[j] = c[i+1+j-1]
    BY <2>1, <2>2, SubSeqProperties
  <2> QED BY <1>1, <2>3
<1>4. /\ d \in Seq(Node) /\ Len(d) = Len(c) - 1
      /\ \A j \in 1..Len(c)-1 : d[j] = IF j < i THEN c[j] ELSE c[j+1]
  <2>1. d = x \o y
    BY DEF RemoveAt
  <2> HIDE DEF x, y, d
  <2>2. /\ x \o y \in Seq(Node) /\ Len(x \o y) = Len(x) + Len(y)
        /\ \A j \in 1..Len(x)+Len(y) : (x \o y)[j] = IF j <= Len(x) THEN x[j] ELSE y[j - Len(x)]
    BY <1>2, <1>3, ConcatProperties
  <2>3. Len(x) + Len(y) = Len(c) - 1
    BY <1>1, <1>2, <1>3
  <2>4. ASSUME NEW j \in 1..Len(c)-1 PROVE (x \o y)[j] = IF j < i THEN c[j] ELSE c[j+1]
    <3>1. CASE j < i
      BY <1>1, <1>2, <2>2, <2>3, <3>1
    <3>2. CASE ~(j < i)
      <4>1. PICK l \in Int : l = j - (i - 1)
        BY <1>1
      <4>2. (x \o y)[j] = y[l]
        <5>1. j \in 1..Len(x)+Len(y) /\ ~(j <= Len(x)) /\ j - Len(x) = l
          BY <1>1, <1>2, <2>3, <3>2, <4>1
        <5> QED BY <2>2, <5>1
      <4>3. i + l = j + 1 /\ l \in 1..Len(c)-i
        BY <1>1, <3>2, <4>1
      <4> QED BY <1>3, <3>2, <4>2, <4>3
    <3> QED BY <3>1, <3>2
  <2> QED BY <2>1, <2>2, <2>3, <2>4
<1> HIDE DEF x, y, d
<1>5. DOMAIN d = 1..Len(c)-1
  BY <1>1, <1>4, LenProperties
<1> QED BY <1>4, <1>5 DEF d

LEMMA RemoveChain ==
  ASSUME NEW c \in Seq(Node), NEW b, NEW n, WellChained(c, b, n), NEW i \in DOMAIN c
  PROVE  RemoveAt(c, i) \in Seq(Node) /\ WellChained(RemoveAt(c, i), b, n)
<1> DEFINE d == RemoveAt(c, i)
<1>1. Len(c) \in Nat /\ DOMAIN c = 1..Len(c) /\ i \in 1..Len(c)
  BY LenProperties
<1>2. /\ d \in Seq(Node) /\ DOMAIN d = 1..Len(c)-1
      /\ \A j \in 1..Len(c)-1 : d[j] = IF j < i THEN c[j] ELSE c[j+1]
  BY RemoveAtIs
<1> HIDE DEF d
<1>3. \A j \in DOMAIN d : \E l \in DOMAIN c : /\ d[j] = c[l]
                                            /\ l = IF j < i THEN j ELSE j + 1
  BY <1>1, <1>2
<1> QED
  <2>1. WellChained(d, b, n)
    BY <1>1, <1>2, <1>3 DEF WellChained
  <2> QED BY <1>2, <2>1 DEF d

LEMMA ZeroValueChain ==
  ASSUME NEW c \in Seq(Node), NEW b, NEW n, WellChained(c, b, n), NEW i,
         NEW d, d = [c EXCEPT ![i] = [key |-> c[i].key, value |-> 0]]
  PROVE  d \in Seq(Node) /\ WellChained(d, b, n)
<1>1. CASE i \notin DOMAIN c
  <2>1. d = c
    BY <1>1, LenProperties
  <2> QED BY <2>1
<1>2. CASE i \in DOMAIN c
  <2>1. c \in [1..Len(c) -> Node] /\ DOMAIN c = 1..Len(c)
    BY LenProperties
  <2>2. [key |-> c[i].key, value |-> 0] \in Node
    BY <1>2, <2>1 DEF Node
  <2>3. d \in Seq(Node) /\ Len(d) = Len(c)
    BY <1>2, <2>1, <2>2, ExceptSeq
  <2>4. DOMAIN d = DOMAIN c /\ \A j \in DOMAIN c : d[j].key = c[j].key
    BY <1>2, <2>1
  <2> QED BY <2>3, <2>4 DEF WellChained
<1> QED BY <1>1, <1>2

LEMMA KeepIs ==
  ASSUME NEW c \in Seq(Node)
  PROVE  /\ Kept(c) \in SUBSET DOMAIN c
         /\ Keep(c) \in Seq(Node)
         /\ DOMAIN Keep(c) = 1..Cardinality(Kept(c))
         /\ \A n \in DOMAIN Keep(c) : Nth(Kept(c), n) \in Kept(c)
                                     /\ Keep(c)[n] = c[Nth(Kept(c), n)]
         /\ \A m, n \in DOMAIN Keep(c) : Nth(Kept(c), m) = Nth(Kept(c), n) => m = n
         /\ \A i \in Kept(c) : \E n \in DOMAIN Keep(c) : Keep(c)[n] = c[i]
<1>1. Kept(c) \in SUBSET DOMAIN c
  BY DEF Kept
<1> DEFINE I == Kept(c)
<1> HIDE DEF I
<1>2. I \in SUBSET DOMAIN c
  BY <1>1 DEF I
<1>3. Keep(c) = AtPositions(c, I)
  BY DEF Keep, I
<1>4. /\ AtPositions(c, I) \in Seq(Node)
      /\ DOMAIN AtPositions(c, I) = 1..Cardinality(I)
      /\ \A n \in DOMAIN AtPositions(c, I) :
            Nth(I, n) \in I /\ AtPositions(c, I)[n] = c[Nth(I, n)]
      /\ \A m, n \in DOMAIN AtPositions(c, I) : Nth(I, m) = Nth(I, n) => m = n
      /\ \A i \in I : \E n \in DOMAIN AtPositions(c, I) : AtPositions(c, I)[n] = c[i]
  BY ONLY <1>2, c \in Seq(Node), AtPositionsIs
<1> QED BY <1>2, <1>3, <1>4 DEF I

LEMMA KeepChain ==
  ASSUME NEW c \in Seq(Node), NEW b, NEW n, WellChained(c, b, n)
  PROVE  Keep(c) \in Seq(Node) /\ WellChained(Keep(c), b, n)
<1> DEFINE at(m) == Nth(Kept(c), m)
           d == Keep(c)
<1>1. /\ d \in Seq(Node)
      /\ \A m \in DOMAIN d : at(m) \in DOMAIN c /\ d[m] = c[at(m)]
      /\ \A l, m \in DOMAIN d : at(l) = at(m) => l = m
  BY KeepIs
<1> HIDE DEF at, d
<1>2. WellChained(d, b, n)
  BY <1>1 DEF WellChained
<1> QED BY <1>1, <1>2 DEF d

\* Loading a chain adds no node, and keeps those with a string key.
LEMMA KeepIsFrom ==
  ASSUME NEW c \in Seq(Node)
  PROVE  /\ \A i \in DOMAIN Keep(c) : \E j \in DOMAIN c : Keep(c)[i] = c[j]
         /\ \A j \in DOMAIN c : IsString(c[j].key) => \E i \in DOMAIN Keep(c) : Keep(c)[i] = c[j]
<1>1. \A i \in DOMAIN Keep(c) : \E j \in DOMAIN c : Keep(c)[i] = c[j]
  BY KeepIs
<1>2. \A j \in DOMAIN c : IsString(c[j].key) => j \in Kept(c)
  BY DEF Kept
<1> QED BY <1>1, <1>2, KeepIs
-----------------------------------------------------------------------------
(* Tables.                                                                   *)

GoodTable(t) == t \in Table /\ WellPlaced(t)

LEMMA NewTableIsGood ==
  ASSUME NEW n \in Buckets \union {0} PROVE GoodTable(NewTable(n))
<1>1. NewTable(n) \in Table
  BY EmptySeq DEF NewTable, Table
<1>2. WellPlaced(NewTable(n))
  BY DEF NewTable, WellPlaced, WellChained
<1> QED BY <1>1, <1>2 DEF GoodTable

\* set() on a key that is not in its chain, and the end of the chain of "".
LEMMA SetIsGood ==
  ASSUME NEW t, GoodTable(t), NEW k \in NodeKey, NEW v \in Nat,
         k = EmptyKey \/ \A i \in DOMAIN Chain(t, k) : Chain(t, k)[i].key # k
  PROVE  GoodTable(Set(t, k, v))
<1> DEFINE b == Hash[t.size][k]
           node == [key |-> k, value |-> v]
<1>1. node \in Node
  BY DEF Node
<1>2. ASSUME b \in DOMAIN t.map
      PROVE  Append(t.map[b], node) \in Seq(Node) /\ WellChained(Append(t.map[b], node), b, t.size)
  <2>1. t.map[b] \in Seq(Node) /\ WellChained(t.map[b], b, t.size)
    BY <1>2 DEF GoodTable, Table, WellPlaced
  <2> QED BY <1>1, <2>1, AppendChain DEF Chain
<1>3. [t EXCEPT !.map[b] = Append(t.map[b], node)] \in Table
  BY <1>2 DEF GoodTable, Table
<1>4. WellPlaced([t EXCEPT !.map[b] = Append(t.map[b], node)])
  BY <1>2 DEF GoodTable, Table, WellPlaced
<1> QED BY <1>3, <1>4 DEF GoodTable, Set

\* The scan of set() for a duplicate: it finds the key, faults, or there is none.
LEMMA NotThere ==
  ASSUME NEW t, GoodTable(t), NEW k \in NodeKey, ~Kills(t, k), ~Has(t, k)
  PROVE  /\ t.size # 0
         /\ k = EmptyKey \/ \A i \in DOMAIN Chain(t, k) : Chain(t, k)[i].key # k
<1> DEFINE c == Chain(t, k)
<1>1. t.size \in Buckets /\ Hash[t.size][k] \in DOMAIN t.map
  <2>1. t.size \in Buckets /\ t.size \in 1..MaxHtBucket
    BY HashTblAssumption DEF Kills, GoodTable, Table
  <2>2. Hash[t.size][k] \in Nat /\ Hash[t.size][k] < t.size
    BY <2>1, HashTblAssumption
  <2>3. DOMAIN t.map = 0..MaxHtBucket-1
    BY DEF GoodTable, Table
  <2> QED BY <2>1, <2>2, <2>3, HashTblAssumption
<1>2. c \in Seq(Node) /\ WellChained(c, Hash[t.size][k], t.size)
  BY <1>1 DEF Chain, GoodTable, Table, WellPlaced
<1>3. DOMAIN c = 1..Len(c) /\ Len(c) \in Nat
  BY <1>2, LenProperties
<1> HIDE DEF c
<1>4. ASSUME k # EmptyKey, NEW i \in DOMAIN c, c[i].key = k PROVE FALSE
  <2>1. \A j \in 1..i-1 : j \in DOMAIN c /\ c[j].key # k
    BY <1>2, <1>3, <1>4 DEF WellChained
  <2>2. ~Hit(c, k, i)
    BY DEF Has, Found, c
  <2>3. PICK j \in 1..i-1 : BadPointer(k, c[j])
    BY <1>4, <2>1, <2>2 DEF Hit
  <2>4. \A l \in 1..j-1 : c[l].key # k
    BY <1>3, <2>1
  <2>5. Faults(c, k)
    BY <2>1, <2>3, <2>4 DEF Faults
  <2> QED BY <2>5 DEF Kills, c
<1> QED BY <1>1, <1>4, HashTblAssumption DEF c

\* delete() of a key that is there.
LEMMA DeleteIsGood ==
  ASSUME NEW t, GoodTable(t), NEW k \in NodeKey, Has(t, k)
  PROVE  GoodTable(Delete(t, k))
<1> DEFINE b == Hash[t.size][k]
           d == RemoveAt(t.map[b], Position(t.map[b], k))
<1>1. Position(t.map[b], k) \in DOMAIN t.map[b]
  BY DEF Has, Found, Position, Chain
<1>2. ASSUME b \in DOMAIN t.map
      PROVE  d \in Seq(Node) /\ WellChained(d, b, t.size)
  <2>1. t.map[b] \in Seq(Node) /\ WellChained(t.map[b], b, t.size)
    BY <1>2 DEF GoodTable, Table, WellPlaced
  <2> QED BY <1>1, <2>1, RemoveChain
<1> HIDE DEF d
<1>3. [t EXCEPT !.map[b] = d] \in Table
  BY <1>2 DEF GoodTable, Table
<1>4. WellPlaced([t EXCEPT !.map[b] = d])
  BY <1>2 DEF GoodTable, Table, WellPlaced
<1> QED BY <1>3, <1>4 DEF GoodTable, Delete, d

\* read_index_file of a whole table.
LEMMA LoadIsGood ==
  ASSUME NEW t, GoodTable(t) PROVE GoodTable(Load(t))
<1>1. \A b \in DOMAIN t.map : Keep(t.map[b]) \in Seq(Node) /\ WellChained(Keep(t.map[b]), b, t.size)
  <2>1. \A b \in DOMAIN t.map : t.map[b] \in Seq(Node) /\ WellChained(t.map[b], b, t.size)
    BY DEF GoodTable, Table, WellPlaced
  <2> QED BY <2>1, KeepChain
<1>2. Load(t) \in Table
  BY <1>1 DEF GoodTable, Table, Load
<1>3. WellPlaced(Load(t))
  BY <1>1 DEF GoodTable, Table, Load, WellPlaced
<1> QED BY <1>2, <1>3 DEF GoodTable
-----------------------------------------------------------------------------
(* Tables whose last node is torn.                                           *)

LEMMA DropLastIsGood ==
  ASSUME NEW t, GoodTable(t) PROVE GoodTable(DropLast(t))
<1> DEFINE b == LastBucket(t)
           d == SubSeq(t.map[b], 1, Len(t.map[b]) - 1)
<1>1. ASSUME b \in DOMAIN t.map
      PROVE  d \in Seq(Node) /\ WellChained(d, b, t.size)
  <2>1. t.map[b] \in Seq(Node) /\ WellChained(t.map[b], b, t.size)
    BY <1>1 DEF GoodTable, Table, WellPlaced
  <2>2. Len(t.map[b]) - 1 \in Int /\ Len(t.map[b]) - 1 <= Len(t.map[b])
    BY <2>1, LenProperties
  <2> QED BY <2>1, <2>2, PrefixChain
<1> HIDE DEF b, d
<1>2. [t EXCEPT !.map[b] = d] \in Table
  BY <1>1 DEF GoodTable, Table
<1>3. WellPlaced([t EXCEPT !.map[b] = d])
  BY <1>1 DEF GoodTable, Table, WellPlaced
<1> QED BY <1>2, <1>3 DEF GoodTable, DropLast, b, d

LEMMA ZeroValueIsGood ==
  ASSUME NEW t, GoodTable(t) PROVE GoodTable(ZeroValue(t))
<1> DEFINE b == LastBucket(t)
           n == Len(t.map[b])
           d == [t.map[b] EXCEPT ![n] = [key |-> t.map[b][n].key, value |-> 0]]
<1>1. ASSUME b \in DOMAIN t.map
      PROVE  d \in Seq(Node) /\ WellChained(d, b, t.size)
  <2>1. t.map[b] \in Seq(Node) /\ WellChained(t.map[b], b, t.size)
    BY <1>1 DEF GoodTable, Table, WellPlaced
  <2> QED BY <2>1, ZeroValueChain
<1>2. ZeroValue(t) = Load([t EXCEPT !.map[b] = d])
  BY DEF ZeroValue
<1> HIDE DEF b, n, d
<1>3. [t EXCEPT !.map[b] = d] \in Table
  BY <1>1 DEF GoodTable, Table
<1>4. WellPlaced([t EXCEPT !.map[b] = d])
  BY <1>1 DEF GoodTable, Table, WellPlaced
<1> QED BY <1>2, <1>3, <1>4, LoadIsGood DEF GoodTable

LEMMA ZeroKeyNodeIsGood ==
  ASSUME NEW t, GoodTable(t) PROVE GoodTable(ZeroKeyNode(t))
<1> DEFINE rest == Load(DropLast(t))
<1>1. GoodTable(rest)
  BY DropLastIsGood, LoadIsGood
<1>2. ZeroKey \in NodeKey /\ EmptyKey \in NodeKey /\ 0 \in Nat
  BY DEF NodeKey
<1>3. CASE IsString(LastNode(t).key)
  <2> HIDE DEF rest
  <2>1. GoodTable(Set(rest, EmptyKey, 0))
    BY <1>1, <1>2, SetIsGood
  <2> QED BY <1>3, <2>1 DEF ZeroKeyNode, rest
<1>4. CASE ~IsString(LastNode(t).key) /\ Chain(rest, ZeroKey) # <<>>
  BY <1>1, <1>4 DEF ZeroKeyNode
<1>5. CASE ~IsString(LastNode(t).key) /\ Chain(rest, ZeroKey) = <<>>
  <2>1. \A i \in DOMAIN Chain(rest, ZeroKey) : Chain(rest, ZeroKey)[i].key # ZeroKey
    BY <1>5
  <2> HIDE DEF rest
  <2>2. GoodTable(Set(rest, ZeroKey, 0))
    BY <1>1, <1>2, <2>1, SetIsGood
  <2> QED BY <1>5, <2>2 DEF ZeroKeyNode, rest
<1> QED BY <1>3, <1>4, <1>5
-----------------------------------------------------------------------------
(* The nodes of a table.                                                     *)

NodesIn(t, S) == \A b \in DOMAIN t.map : \A i \in DOMAIN t.map[b] : t.map[b][i] \in S

LEMMA NewTableNodes ==
  ASSUME NEW n, NEW S PROVE NodesIn(NewTable(n), S)
BY DEF NewTable, NodesIn

LEMMA LoadNodes ==
  ASSUME NEW t \in Table, NEW S, NodesIn(t, S) PROVE NodesIn(Load(t), S)
<1>1. Load(t).map = [b \in DOMAIN t.map |-> Keep(t.map[b])]
  BY DEF Load, Table
<1>2. \A b \in DOMAIN t.map : \A i \in DOMAIN Keep(t.map[b]) : Keep(t.map[b])[i] \in S
  <2>1. \A b \in DOMAIN t.map : t.map[b] \in Seq(Node)
    BY DEF Table
  <2> QED BY <2>1, KeepIsFrom DEF NodesIn
<1> QED BY <1>1, <1>2 DEF NodesIn

LEMMA SetNodes ==
  ASSUME NEW t \in Table, NEW S, NodesIn(t, S), NEW k \in NodeKey, NEW v \in Nat,
         [key |-> k, value |-> v] \in S
  PROVE  NodesIn(Set(t, k, v), S)
<1> DEFINE b == Hash[t.size][k]
           node == [key |-> k, value |-> v]
           d == Append(t.map[b], node)
<1>1. ASSUME b \in DOMAIN t.map PROVE \A i \in DOMAIN d : d[i] \in S
  <2>1. t.map[b] \in Seq(Node) /\ node \in Node
    BY <1>1 DEF Table, Node
  <2> HIDE DEF b, node
  <2>2. PICK c \in Seq(Node) : c = t.map[b]
    BY <2>1
  <2>3. /\ d \in Seq(Node) /\ Len(d) = Len(c) + 1
        /\ \A i \in 1..Len(c) : d[i] = c[i]
        /\ d[Len(c)+1] = node
    BY <2>1, <2>2, AppendProperties
  <2> HIDE DEF d
  <2>4. DOMAIN d = 1..Len(c)+1 /\ DOMAIN c = 1..Len(c) /\ Len(c) \in Nat
    BY <2>3, LenProperties
  <2>5. node \in S /\ \A i \in DOMAIN c : c[i] \in S
    BY <1>1, <2>2 DEF NodesIn, node
  <2> QED BY <2>3, <2>4, <2>5
<1>2. Set(t, k, v) = [t EXCEPT !.map[b] = d]
  BY DEF Set
<1> HIDE DEF d, b
<1>3. Set(t, k, v).map = [t.map EXCEPT ![b] = d]
  BY <1>2 DEF Table
<1> QED BY <1>1, <1>3 DEF NodesIn

LEMMA DeleteNodes ==
  ASSUME NEW t \in Table, NEW S, NodesIn(t, S), NEW k, Has(t, k)
  PROVE  NodesIn(Delete(t, k), S)
<1> DEFINE b == Hash[t.size][k]
           d == RemoveAt(t.map[b], Position(t.map[b], k))
<1>1. ASSUME b \in DOMAIN t.map PROVE \A i \in DOMAIN d : d[i] \in S
  <2>1. t.map[b] \in Seq(Node) /\ Position(t.map[b], k) \in DOMAIN t.map[b]
    BY <1>1 DEF Table, Has, Found, Position, Chain
  <2>2. DOMAIN t.map[b] = 1..Len(t.map[b]) /\ Len(t.map[b]) \in Nat
    BY <2>1, LenProperties
  <2>3. /\ DOMAIN d = 1..Len(t.map[b])-1
        /\ \A j \in 1..Len(t.map[b])-1 :
               d[j] = IF j < Position(t.map[b], k) THEN t.map[b][j] ELSE t.map[b][j+1]
    BY <2>1, RemoveAtIs
  <2> HIDE DEF d
  <2>4. \A j \in DOMAIN t.map[b] : t.map[b][j] \in S
    BY <1>1 DEF NodesIn
  <2>5. ASSUME NEW j \in DOMAIN d PROVE d[j] \in S
    <3>1. j \in 1..Len(t.map[b])-1 /\ j \in DOMAIN t.map[b] /\ j + 1 \in DOMAIN t.map[b]
      <4>1. j \in 1..Len(t.map[b])-1
        BY <2>3
      <4> QED BY <2>2, <4>1
    <3>2. d[j] = t.map[b][j] \/ d[j] = t.map[b][j+1]
      BY <2>3, <3>1
    <3> QED BY <2>4, <3>1, <3>2
  <2> QED BY <2>5
<1>2. Delete(t, k) = [t EXCEPT !.map[b] = d]
  BY DEF Delete
<1> HIDE DEF d, b
<1>3. Delete(t, k).map = [t.map EXCEPT ![b] = d]
  BY <1>2 DEF Table
<1> QED BY <1>1, <1>3 DEF NodesIn

\* The chain where an operation on a key looks, in a table that has buckets.
LEMMA ChainInTable ==
  ASSUME NEW t, GoodTable(t), t.size # 0, NEW k \in NodeKey
  PROVE  /\ Hash[t.size][k] \in DOMAIN t.map /\ Chain(t, k) = t.map[Hash[t.size][k]]
         /\ Chain(t, k) \in Seq(Node)
<1>1. t.size \in Buckets /\ t.size \in 1..MaxHtBucket
  BY HashTblAssumption DEF GoodTable, Table
<1>2. Hash[t.size][k] \in Nat /\ Hash[t.size][k] < t.size
  BY <1>1, HashTblAssumption
<1>3. Hash[t.size][k] \in DOMAIN t.map
  BY <1>1, <1>2, HashTblAssumption DEF GoodTable, Table
<1> QED BY <1>3 DEF Chain, GoodTable, Table

\* The node that get() finds.
LEMMA GetIsNode ==
  ASSUME NEW t, GoodTable(t), t.size # 0, NEW k \in NodeKey, Has(t, k),
         NEW S, NodesIn(t, S)
  PROVE  /\ Get(t, k) \in Nat /\ [key |-> k, value |-> Get(t, k)] \in S
<1> DEFINE c == Chain(t, k)
           i == Position(c, k)
<1>1. i \in DOMAIN c /\ Hit(c, k, i)
  BY DEF Has, Found, Position
<1>2. c[i] \in Node /\ c[i] \in S
  BY <1>1, ChainInTable, LenProperties DEF NodesIn
<1>3. c[i].key = k /\ Get(t, k) = c[i].value
  BY <1>1 DEF Hit, Get
<1>4. c[i] = [key |-> k, value |-> Get(t, k)]
  BY <1>2, <1>3 DEF Node
<1> QED BY <1>2, <1>3, <1>4 DEF Node

\* A string key that is in a written table is found where a loaded table has it.
LEMMA KeyLoads ==
  ASSUME NEW t, GoodTable(t), NEW b \in DOMAIN t.map, NEW i \in DOMAIN t.map[b],
         t.map[b][i].key \in StrKey
  PROVE  LET k == t.map[b][i].key
         IN \E j \in DOMAIN Chain(Load(t), k) : Chain(Load(t), k)[j].key = k
<1> DEFINE k == t.map[b][i].key
<1>1. t.map[b] \in Seq(Node) /\ Hash[t.size][k] = b
  BY DEF GoodTable, Table, WellPlaced, WellChained
<1>2. Load(t).size = t.size /\ Load(t).map[b] = Keep(t.map[b])
  BY DEF GoodTable, Table, Load
<1>3. Chain(Load(t), k) = Keep(t.map[b])
  BY <1>1, <1>2 DEF Chain
<1>4. PICK j \in DOMAIN Keep(t.map[b]) : Keep(t.map[b])[j] = t.map[b][i]
  BY <1>1, KeepIsFrom DEF IsString
<1> QED BY <1>3, <1>4
-----------------------------------------------------------------------------
(* Tables whose keys are all strings: a load gives back what was written,    *)
(* and get() answers with the node of the key.                               *)

Strings == {node \in Node : node.key \in StrKey}

StringTable(t) == t.size # 0 /\ NodesIn(t, Strings)

LEMMA KeepStrings ==
  ASSUME NEW c \in Seq(Node), \A i \in DOMAIN c : c[i].key \in StrKey
  PROVE  Keep(c) = c
<1>1. Kept(c) = DOMAIN c
  BY DEF Kept, IsString
<1> QED BY <1>1, AtAllPositions DEF Keep

LEMMA LoadStrings ==
  ASSUME NEW t \in Table, NodesIn(t, Strings) PROVE Load(t) = t
<1>1. \A b \in DOMAIN t.map : Keep(t.map[b]) = t.map[b]
  <2>1. \A b \in DOMAIN t.map : t.map[b] \in Seq(Node)
    BY DEF Table
  <2> QED BY <2>1, KeepStrings DEF NodesIn, Strings
<1>2. [b \in DOMAIN t.map |-> Keep(t.map[b])] = t.map
  BY <1>1 DEF Table
<1> QED BY <1>2 DEF Load, Table

\* get() of a string key.
LEMMA GetString ==
  ASSUME NEW t, GoodTable(t), StringTable(t), NEW k \in StrKey
  PROVE  /\ \A i \in DOMAIN Chain(t, k) : Chain(t, k)[i].key = k =>
               Has(t, k) /\ Get(t, k) = Chain(t, k)[i].value
         /\ (\A i \in DOMAIN Chain(t, k) : Chain(t, k)[i].key # k) => Get(t, k) = NoRec
<1> DEFINE c == Chain(t, k)
           b == Hash[t.size][k]
<1>0. k # EmptyKey
  BY HashTblAssumption
<1>1. k \in NodeKey
  BY HashTblAssumption DEF NodeKey
<1>2. b \in DOMAIN t.map /\ c = t.map[b] /\ c \in Seq(Node)
  BY <1>1, ChainInTable DEF StringTable
<1>3. DOMAIN c = 1..Len(c) /\ Len(c) \in Nat
  BY <1>2, LenProperties
<1>4. WellChained(c, b, t.size) /\ \A i \in DOMAIN c : c[i].key \in StrKey
  BY <1>2 DEF GoodTable, WellPlaced, StringTable, NodesIn, Strings
<1>5. ASSUME NEW i \in DOMAIN c, c[i].key = k PROVE Has(t, k) /\ Get(t, k) = c[i].value
  <2> HIDE DEF c
  <2>1. Hit(c, k, i)
    <3>1. \A j \in 1..i-1 : j \in DOMAIN c /\ c[j].key # k
      BY <1>0, <1>3, <1>4, <1>5 DEF WellChained
    <3> QED BY <1>4, <1>5, <3>1 DEF Hit, BadPointer, IsString
  <2>2. \A j \in DOMAIN c : Hit(c, k, j) => j = i
    BY <1>0, <1>4, <1>5 DEF Hit, WellChained
  <2>3. Found(c, k) /\ Position(c, k) = i
    BY <2>1, <2>2 DEF Found, Position
  <2> QED BY <2>3 DEF Has, Get, c
<1>6. ASSUME \A i \in DOMAIN c : c[i].key # k PROVE Get(t, k) = NoRec
  BY <1>6 DEF Get, Has, Found, Hit
<1> QED BY <1>5, <1>6

LEMMA GetOfNew ==
  ASSUME NEW n \in Buckets, NEW k \in StrKey
  PROVE  StringTable(NewTable(n)) /\ Get(NewTable(n), k) = NoRec
<1>1. GoodTable(NewTable(n)) /\ StringTable(NewTable(n))
  BY HashTblAssumption, NewTableIsGood, NewTableNodes DEF StringTable, NewTable
<1>2. k \in NodeKey
  BY HashTblAssumption DEF NodeKey
<1>3. Chain(NewTable(n), k) = <<>>
  <2>1. /\ Chain(NewTable(n), k) = NewTable(n).map[Hash[NewTable(n).size][k]]
        /\ Hash[NewTable(n).size][k] \in DOMAIN NewTable(n).map
    BY <1>1, <1>2, ChainInTable DEF StringTable
  <2> QED BY <2>1 DEF NewTable
<1> QED BY <1>1, <1>3, GetString

LEMMA GetOfSet ==
  ASSUME NEW t, GoodTable(t), StringTable(t), NEW k \in StrKey, NEW v \in Nat,
         ~Has(t, k), NEW j \in StrKey
  PROVE  /\ GoodTable(Set(t, k, v)) /\ StringTable(Set(t, k, v))
         /\ Get(Set(t, k, v), j) = IF j = k THEN v ELSE Get(t, j)
<1> DEFINE b == Hash[t.size][k]
           node == [key |-> k, value |-> v]
           d == Append(t.map[b], node)
           s == Set(t, k, v)
<1>1. k \in NodeKey /\ j \in NodeKey /\ node \in Node /\ node \in Strings /\ t \in Table
  BY HashTblAssumption DEF NodeKey, Node, Strings, GoodTable
<1>2. /\ b \in DOMAIN t.map /\ Chain(t, k) = t.map[b] /\ Chain(t, k) \in Seq(Node)
      /\ Hash[t.size][j] \in DOMAIN t.map /\ Chain(t, j) = t.map[Hash[t.size][j]]
      /\ Chain(t, j) \in Seq(Node)
  BY <1>1, ChainInTable DEF StringTable
<1>3. \A i \in DOMAIN Chain(t, k) : Chain(t, k)[i].key # k
  BY GetString
<1>4. GoodTable(s)
  BY <1>1, <1>3, SetIsGood
<1>5. s.size = t.size /\ s.map = [t.map EXCEPT ![b] = d]
  BY <1>1 DEF Set, Table
<1>6. StringTable(s)
  <2>1. NodesIn(s, Strings)
    BY <1>1, SetNodes DEF StringTable
  <2> QED BY <1>5, <2>1 DEF StringTable
<1>7. /\ Len(d) = Len(t.map[b]) + 1 /\ DOMAIN d = 1..Len(t.map[b]) + 1
      /\ Len(t.map[b]) \in Nat /\ DOMAIN t.map[b] = 1..Len(t.map[b])
      /\ \A i \in 1..Len(t.map[b]) : d[i] = t.map[b][i]
      /\ d[Len(t.map[b]) + 1] = node
  <2> HIDE DEF node
  <2>1. PICK c \in Seq(Node) : c = t.map[b]
    BY <1>2
  <2>2. /\ Append(c, node) \in Seq(Node) /\ Len(Append(c, node)) = Len(c) + 1
        /\ \A i \in 1..Len(c) : Append(c, node)[i] = c[i]
        /\ Append(c, node)[Len(c) + 1] = node
    BY <1>1, AppendProperties
  <2> QED BY <2>1, <2>2, LenProperties
<1>8. Chain(s, j) = IF Hash[t.size][j] = b THEN d ELSE Chain(t, j)
  BY <1>2, <1>5 DEF Chain
<1> HIDE DEF s, d, b
<1>9. CASE j = k
  <2>1. Chain(s, k) = d
    <3>1. Hash[t.size][j] = b
      BY <1>9 DEF b
    <3> QED BY <1>8, <1>9, <3>1
  <2>2. Chain(s, k)[Len(t.map[b]) + 1] = node /\ Len(t.map[b]) + 1 \in DOMAIN Chain(s, k)
    BY <1>7, <2>1
  <2> QED BY <1>4, <1>6, <1>9, <2>2, GetString DEF s
<1>10. CASE j # k
  <2>1. CASE \E i \in DOMAIN Chain(t, j) : Chain(t, j)[i].key = j
    <3>1. PICK i \in DOMAIN Chain(t, j) : Chain(t, j)[i].key = j
      BY <2>1
    <3>2. i \in DOMAIN Chain(s, j) /\ Chain(s, j)[i] = Chain(t, j)[i]
      BY <1>2, <1>7, <1>8, <3>1
    <3> QED BY <1>4, <1>6, <1>10, <3>1, <3>2, GetString DEF s
  <2>2. CASE \A i \in DOMAIN Chain(t, j) : Chain(t, j)[i].key # j
    <3>1. \A i \in DOMAIN Chain(s, j) : Chain(s, j)[i].key # j
      <4>1. CASE Hash[t.size][j] = b
        <5>1. Chain(s, j) = d /\ Chain(t, j) = t.map[b]
          BY <1>2, <1>8, <4>1
        <5>2. ASSUME NEW i \in DOMAIN d PROVE d[i].key # j
          <6>1. CASE i \in 1..Len(t.map[b])
            <7>1. d[i] = t.map[b][i] /\ i \in DOMAIN Chain(t, j)
              BY <1>7, <5>1, <6>1
            <7> QED BY <2>2, <5>1, <7>1
          <6>2. CASE i = Len(t.map[b]) + 1
            <7>1. d[i].key = k
              BY <1>7, <6>2
            <7> QED BY <1>10, <7>1
          <6> QED BY <1>7, <6>1, <6>2
        <5> QED BY <5>1, <5>2
      <4>2. CASE Hash[t.size][j] # b
        BY <1>8, <2>2, <4>2
      <4> QED BY <4>1, <4>2
    <3> QED BY <1>4, <1>6, <1>10, <2>2, <3>1, GetString DEF s
  <2> QED BY <2>1, <2>2
<1> QED BY <1>4, <1>6, <1>9, <1>10 DEF s

LEMMA GetOfDelete ==
  ASSUME NEW t, GoodTable(t), StringTable(t), NEW k \in StrKey, Has(t, k), NEW j \in StrKey
  PROVE  /\ GoodTable(Delete(t, k)) /\ StringTable(Delete(t, k))
         /\ Get(Delete(t, k), j) = IF j = k THEN NoRec ELSE Get(t, j)
<1> DEFINE b == Hash[t.size][k]
           n == Position(t.map[b], k)
           d == RemoveAt(t.map[b], n)
           s == Delete(t, k)
           m == Len(t.map[b])
<1>1. k \in NodeKey /\ j \in NodeKey /\ t \in Table
  BY HashTblAssumption DEF NodeKey, GoodTable
<1>2. /\ b \in DOMAIN t.map /\ Chain(t, k) = t.map[b] /\ t.map[b] \in Seq(Node)
      /\ Hash[t.size][j] \in DOMAIN t.map /\ Chain(t, j) = t.map[Hash[t.size][j]]
      /\ Chain(t, j) \in Seq(Node)
  BY <1>1, ChainInTable DEF StringTable
<1>3. m \in Nat /\ DOMAIN t.map[b] = 1..m
  BY <1>2, LenProperties
<1>4. GoodTable(s)
  BY <1>1, DeleteIsGood
<1>5. s.size = t.size /\ s.map = [t.map EXCEPT ![b] = d]
  BY <1>1 DEF Delete, Table
<1>6. StringTable(s)
  <2>1. NodesIn(s, Strings)
    BY <1>1, DeleteNodes DEF StringTable
  <2> QED BY <1>5, <2>1 DEF StringTable
<1>7. n \in DOMAIN t.map[b] /\ n \in 1..m /\ t.map[b][n].key = k
  <2>1. n \in DOMAIN t.map[b] /\ t.map[b][n].key = k
    BY <1>2 DEF Has, Found, Position, Hit
  <2> QED BY <1>3, <2>1
<1>8. DOMAIN d = 1..m-1 /\ \A i \in 1..m-1 : d[i] = IF i < n THEN t.map[b][i] ELSE t.map[b][i+1]
  BY <1>2, <1>7, RemoveAtIs
<1>9. Chain(s, j) = IF Hash[t.size][j] = b THEN d ELSE Chain(t, j)
  BY <1>2, <1>5 DEF Chain
<1>10. \A i, l \in 1..m : t.map[b][i].key = t.map[b][l].key => i = l
  <2>1. WellChained(t.map[b], b, t.size)
    BY <1>2 DEF GoodTable, WellPlaced
  <2>2. \A i \in 1..m : t.map[b][i].key # EmptyKey
    BY <1>2, <1>3, HashTblAssumption DEF StringTable, NodesIn, Strings
  <2> QED BY <1>3, <2>1, <2>2 DEF WellChained
<1> HIDE DEF s, d, n, m
<1>11. CASE j = k
  <2>1. ASSUME NEW i \in 1..m-1 PROVE d[i].key # k
    <3>1. CASE i < n
      <4>1. i \in 1..m /\ i # n /\ n \in 1..m /\ d[i] = t.map[b][i]
        <5>1. i \in 1..m /\ i # n
          BY <1>3, <1>7, <3>1
        <5> QED BY <1>7, <1>8, <3>1, <5>1
      <4> QED BY <1>7, <1>10, <4>1
    <3>2. CASE ~(i < n)
      <4>1. i + 1 \in 1..m /\ i + 1 # n /\ n \in 1..m /\ d[i] = t.map[b][i+1]
        <5>1. i + 1 \in 1..m /\ i + 1 # n
          BY <1>3, <1>7, <3>2
        <5> QED BY <1>7, <1>8, <3>2, <5>1
      <4> QED BY <1>7, <1>10, <4>1
    <3> QED BY <3>1, <3>2
  <2>2. Chain(s, k) = d
    <3>1. Hash[t.size][j] = b
      BY <1>11 DEF b
    <3> QED BY <1>9, <1>11, <3>1
  <2>3. \A i \in DOMAIN Chain(s, k) : Chain(s, k)[i].key # k
    BY <1>8, <2>1, <2>2
  <2> QED BY <1>4, <1>6, <1>11, <2>3, GetString DEF s
<1>12. CASE j # k
  <2>1. CASE \E i \in DOMAIN Chain(t, j) : Chain(t, j)[i].key = j
    <3>1. PICK i \in DOMAIN Chain(t, j) : Chain(t, j)[i].key = j
      BY <2>1
    <3>2. CASE Hash[t.size][j] = b
      <4>1. i \in 1..m /\ t.map[b][i].key = j /\ Chain(t, j) = t.map[b]
        BY <1>2, <1>3, <3>1, <3>2
      <4>2. i # n
        BY <1>7, <1>12, <4>1
      <4>3. PICK l \in Int : l = IF i < n THEN i ELSE i - 1
        BY <4>1
      <4>4. l \in 1..m-1 /\ d[l] = t.map[b][i]
        <5>1. CASE i < n
          <6>1. l = i /\ l \in 1..m-1
            BY <1>3, <1>7, <4>1, <4>3, <5>1
          <6> QED BY <1>8, <5>1, <6>1
        <5>2. CASE ~(i < n)
          <6>1. l = i - 1 /\ l + 1 = i /\ l \in 1..m-1 /\ ~(l < n)
            BY <1>3, <1>7, <4>1, <4>2, <4>3, <5>2
          <6> QED BY <1>8, <6>1
        <5> QED BY <5>1, <5>2
      <4>5. l \in DOMAIN Chain(s, j) /\ Chain(s, j)[l] = Chain(t, j)[i]
        BY <1>8, <1>9, <3>2, <4>1, <4>4
      <4> QED BY <1>4, <1>6, <1>12, <3>1, <4>5, GetString DEF s
    <3>3. CASE Hash[t.size][j] # b
      BY <1>4, <1>6, <1>9, <1>12, <3>1, <3>3, GetString DEF s
    <3> QED BY <3>2, <3>3
  <2>2. CASE \A i \in DOMAIN Chain(t, j) : Chain(t, j)[i].key # j
    <3>1. \A i \in DOMAIN Chain(s, j) : Chain(s, j)[i].key # j
      <4>1. CASE Hash[t.size][j] = b
        <5>1. \A i \in 1..m : t.map[b][i].key # j
          BY <1>2, <1>3, <2>2, <4>1
        <5>2. \A i \in 1..m-1 : d[i].key # j
          <6> TAKE i \in 1..m-1
          <6>1. i \in 1..m /\ i + 1 \in 1..m
            BY <1>3
          <6>2. d[i] = t.map[b][i] \/ d[i] = t.map[b][i+1]
            BY <1>8
          <6> QED BY <5>1, <6>1, <6>2
        <5> QED BY <1>8, <1>9, <4>1, <5>2
      <4>2. CASE Hash[t.size][j] # b
        BY <1>9, <2>2, <4>2
      <4> QED BY <4>1, <4>2
    <3> QED BY <1>4, <1>6, <1>12, <2>2, <3>1, GetString DEF s
  <2> QED BY <2>1, <2>2
<1> QED BY <1>4, <1>6, <1>11, <1>12 DEF s
=============================================================================
