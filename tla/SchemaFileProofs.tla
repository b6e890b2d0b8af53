-------------------------- MODULE SchemaFileProofs --------------------------
(* What SchemaFile guarantees for every definition, every input and every    *)
(* number of commands, and what needs commands that do not overlap.          *)
EXTENDS SchemaFile, PositionsProofs, WellFoundedInduction

-----------------------------------------------------------------------------
(* Sequences and the least and greatest of a set of numbers.                 *)

LEMMA SeqOfFunction ==
  ASSUME NEW S, NEW n \in Nat, NEW f \in [1..n -> S]
  PROVE  f \in Seq(S) /\ Len(f) = n /\ DOMAIN f = 1..n
<1>1. f \in Seq(S)
  BY SeqDef
<1>2. DOMAIN f = 1..Len(f) /\ Len(f) \in Nat
  BY <1>1, LenProperties
<1> QED BY <1>1, <1>2, IntervalLength

LEMMA Least ==
  ASSUME NEW I \in SUBSET Nat, I # {} PROVE \E x \in I : \A y \in I : x <= y
<1>1. PICK x \in I : \A y \in I : ~ (<<y, x>> \in OpToRel(<, Nat))
  BY NatLessThanWellFounded, WFMin
<1>2. \A y \in I : ~ (y < x)
  BY <1>1 DEF OpToRel
<1> QED BY <1>2

LEMMA Greatest ==
  ASSUME NEW I \in SUBSET Nat, I # {}, NEW n \in Nat, \A x \in I : x <= n
  PROVE  \E x \in I : \A y \in I : x >= y
<1> DEFINE J == {n - x : x \in I}
<1>1. J \in SUBSET Nat /\ J # {}
  OBVIOUS
<1>2. PICK j \in J : \A k \in J : j <= k
  BY <1>1, Least
<1>3. PICK x \in I : j = n - x
  BY <1>2
<1>4. \A y \in I : n - x <= n - y
  BY <1>2, <1>3
<1>5. \A y \in I : x >= y
  BY <1>4
<1> QED BY <1>5

\* Finitely many numbers have a bound.
LEMMA Bounded ==
  ASSUME NEW n \in Nat, NEW f \in [1..n -> Nat]
  PROVE  \E b \in Nat : \A i \in 1..n : f[i] <= b
<1> DEFINE G == {m \in 0..n : \A b \in Nat : \E i \in 1..m : ~(f[i] <= b)}
<1> SUFFICES ASSUME G # {} PROVE FALSE
  <2>1. n \notin G
    OBVIOUS
  <2> QED BY <2>1
<1>0. /\ G \in SUBSET (0..n)
      /\ \A m \in 0..n : m \notin G => \E b \in Nat : \A i \in 1..m : f[i] <= b
      /\ \A m \in G : \A b \in Nat : \E i \in 1..m : ~(f[i] <= b)
  OBVIOUS
<1> HIDE DEF G
<1>1. PICK m \in G : \A k \in G : m <= k
  BY <1>0, Least
<1>2. m # 0 /\ m \in 1..n
  <2>1. m # 0
    <3>1. SUFFICES ASSUME m = 0 PROVE FALSE
      OBVIOUS
    <3>2. \E i \in 1..0 : ~(f[i] <= 0)
      BY <1>0, <1>1, <3>1
    <3> QED BY <3>2
  <2> QED BY <1>0, <1>1, <2>1
<1>3. m - 1 \notin G /\ m - 1 \in 0..n
  <2>1. m - 1 \in 0..n /\ ~(m <= m - 1)
    BY <1>2
  <2> QED BY <1>1, <2>1
<1>4. PICK b \in Nat : \A i \in 1..m-1 : f[i] <= b
  BY <1>0, <1>3
<1>5. PICK c \in Nat : b <= c /\ f[m] <= c
  <2>1. f[m] \in Nat
    BY <1>2
  <2>2. b <= f[m] \/ f[m] <= b
    BY <2>1
  <2> QED BY <2>1, <2>2
<1>6. \A i \in 1..m : f[i] <= c
  <2> TAKE i \in 1..m
  <2>1. f[i] \in Nat
    BY <1>2
  <2> QED BY <1>2, <1>4, <1>5, <2>1
<1> QED BY <1>0, <1>1, <1>6

LEMMA MaxOfImage ==
  ASSUME NEW n \in Nat, NEW f \in [1..n -> Nat], NEW I \in SUBSET (1..n), I # {}
  PROVE  Max({f[i] : i \in I}) \in {f[i] : i \in I}
<1> DEFINE V == {f[i] : i \in I}
<1>1. V \in SUBSET Nat /\ V # {}
  OBVIOUS
<1>2. PICK b \in Nat : \A i \in 1..n : f[i] <= b
  BY Bounded
<1>3. \A v \in V : v <= b
  BY <1>2
<1> HIDE DEF V
<1>4. \E x \in V : \A y \in V : x >= y
  BY <1>1, <1>3, Greatest
<1>5. Max(V) \in V
  BY <1>4 DEF Max
<1> QED BY <1>5 DEF V

LEMMA MaxIn ==
  ASSUME NEW n \in Nat, NEW I \in SUBSET (1..n), I # {} PROVE Max(I) \in I
<1>0. I \in SUBSET Nat /\ \A x \in I : x <= n
  OBVIOUS
<1>1. \E x \in I : \A y \in I : x >= y
  BY ONLY <1>0, I # {}, n \in Nat, Greatest
<1> QED BY <1>1 DEF Max

LEMMA MinIn ==
  ASSUME NEW n \in Nat, NEW I \in SUBSET (1..n), I # {} PROVE Min(I) \in I
<1>0. I \in SUBSET Nat
  OBVIOUS
<1>1. \E x \in I : \A y \in I : x <= y
  BY ONLY <1>0, I # {}, Least
<1> QED BY <1>1 DEF Min
-----------------------------------------------------------------------------
(* What a command makes of the definition it has read.                       *)

Types == Type \union {NoType, TypeInt}
Names == Name \union {NoName}

\* A definition that is one of the program and only adds to d.
Extending(e, d) == e \in Seq(Field) /\ Definition!Extends(e, d)

GoodCheck(c, d) ==
    /\ c.code \in Nat /\ c.hd \in Seq(Field) /\ c.rec \in Seq(Record)
    /\ Accepted(c.code) => Definition!Extends(c.hd, d)

LEMMA ExtendsItself ==
  ASSUME NEW d \in Seq(Field) PROVE Extending(d, d)
BY LenProperties DEF Extending, Definition!Extends

LEMMA WiderExtends ==
  ASSUME NEW d \in Seq(Field), NEW e \in Seq(Field) PROVE Extending(d \o e, d)
<1>1. Len(d) \in Nat /\ Len(e) \in Nat /\ DOMAIN d = 1..Len(d)
  BY LenProperties
<1>2. /\ d \o e \in Seq(Field) /\ Len(d \o e) = Len(d) + Len(e)
      /\ \A i \in 1..Len(d) + Len(e) : (d \o e)[i] = IF i <= Len(d) THEN d[i] ELSE e[i - Len(d)]
  BY ConcatProperties
<1>3. \A i \in DOMAIN d : (d \o e)[i] = d[i]
  BY <1>1, <1>2
<1> QED BY <1>1, <1>2, <1>3 DEF Extending, Definition!Extends

\* -R: whatever an input says, and whatever its array pos held, the fields that
\* were there stay (add_fields_to_schema).
LEMMA AddFieldsExtends ==
  ASSUME NEW d \in Seq(Field), NEW in \in Seq(Field), NEW stale
  PROVE  AddFields(d, in, stale) = <<>> \/ Extending(AddFields(d, in, stale), d)
<1>1. \A I \in SUBSET DOMAIN in : Extending(d \o AtPositions(in, I), d)
  <2> TAKE I \in SUBSET DOMAIN in
  <2>1. AtPositions(in, I) \in Seq(Field)
    BY AtPositionsIs
  <2> QED BY <2>1, WiderExtends
<1>2. Extending(d, d)
  BY ExtendsItself
<1> QED BY <1>1, <1>2 DEF AddFields

\* Only types of fields that have none are given.
LEMMA TypedExtends ==
  ASSUME NEW d \in Seq(Field), NEW e, DOMAIN e = DOMAIN d, e = [i \in DOMAIN d |-> e[i]],
         \A i \in DOMAIN d : \/ e[i] = d[i]
                              \/ /\ d[i].type = NoType
                                 /\ \E t \in Types : e[i] = [d[i] EXCEPT !.type = t]
  PROVE  Extending(e, d) /\ Len(e) = Len(d)
<1>1. Len(d) \in Nat /\ DOMAIN d = 1..Len(d) /\ d \in [1..Len(d) -> Field]
  BY LenProperties
<1>2. \A i \in DOMAIN d : e[i] \in Field /\ e[i].name = d[i].name
  <2> TAKE i \in DOMAIN d
  <2>1. d[i] \in Field
    BY <1>1
  <2>2. \A t \in Types : [d[i] EXCEPT !.type = t] \in Field
                          /\ [d[i] EXCEPT !.type = t].name = d[i].name
    BY <2>1 DEF Field, Types
  <2> QED BY <2>1, <2>2
<1>3. e \in [1..Len(d) -> Field]
  BY <1>1, <1>2
<1>4. e \in Seq(Field) /\ Len(e) = Len(d)
  BY <1>1, <1>3, SeqOfFunction
<1> QED BY <1>1, <1>2, <1>4 DEF Extending, Definition!Extends

LEMMA EqAssignExtends ==
  ASSUME NEW d \in Seq(Field), NEW in \in Seq(Field)
  PROVE  Extending(EqAssignType(d, in), d) /\ Len(EqAssignType(d, in)) = Len(d)
<1> DEFINE e == EqAssignType(d, in)
           Typing(i) == {j \in 1..Len(in) : Starts(in[j].name, d[i].name) /\ in[j].type # NoType}
<1>1. \A j \in 1..Len(in) : in[j].type \in Types
  <2>1. \A j \in 1..Len(in) : in[j] \in Field
    BY ElementOfSeq
  <2> QED BY <2>1 DEF Field, Types
<1>2. Len(in) \in Nat
  BY LenProperties
<1>3. ASSUME NEW i \in DOMAIN d
      PROVE  \/ e[i] = d[i]
             \/ /\ d[i].type = NoType
                /\ \E t \in Types : e[i] = [d[i] EXCEPT !.type = t]
  <2>1. CASE Typing(i) = {}
    BY <2>1 DEF EqAssignType, SelectInSeq
  <2>2. CASE Typing(i) # {}
    <3>1. Min(Typing(i)) \in Typing(i)
      BY <1>2, <2>2, MinIn
    <3>2. e[i] = d[i] \/ (d[i].type = NoType /\ e[i] = [d[i] EXCEPT !.type = in[Min(Typing(i))].type])
      BY <2>2 DEF EqAssignType, SelectInSeq
    <3>3. in[Min(Typing(i))].type \in Types
      BY <1>1, <3>1
    <3> QED BY <3>2, <3>3
  <2> QED BY <2>1, <2>2
<1>4. DOMAIN e = DOMAIN d /\ e = [i \in DOMAIN d |-> e[i]]
  BY DEF EqAssignType
<1> QED BY <1>3, <1>4, TypedExtends

LEMMA CtAssignExtends ==
  ASSUME NEW d \in Seq(Field), NEW in \in Seq(Field)
  PROVE  /\ Extending(CtAssignType(d, in).hd, d) /\ Len(CtAssignType(d, in).hd) = Len(d)
         /\ CtAssignType(d, in).code \in Nat
<1> DEFINE e == CtAssignType(d, in).hd
           Typing(i) == {j \in 1..Len(in) : Starts(d[i].name, in[j].name) /\ in[j].type # NoType}
<1>1. \A j \in 1..Len(in) : in[j].type \in Types
  <2>1. \A j \in 1..Len(in) : in[j] \in Field
    BY ElementOfSeq
  <2> QED BY <2>1 DEF Field, Types
<1>2. /\ Len(in) \in Nat /\ DOMAIN in = 1..Len(in)
      /\ Len(d) \in Nat /\ DOMAIN d = 1..Len(d)
  BY LenProperties
<1>3. ASSUME NEW i \in DOMAIN d
      PROVE  \/ e[i] = d[i]
             \/ /\ d[i].type = NoType
                /\ \E t \in Types : e[i] = [d[i] EXCEPT !.type = t]
  <2>1. CASE Typing(i) = {} \/ d[i].type # NoType
    BY <2>1 DEF CtAssignType, SelectInSeq
  <2>2. CASE Typing(i) # {} /\ d[i].type = NoType
    <3>1. Min(Typing(i)) \in Typing(i)
      BY <1>2, <2>2, MinIn
    <3>2. e[i] = [d[i] EXCEPT !.type = in[Min(Typing(i))].type]
      <4>1. SelectInSeq(in, LAMBDA f : Starts(d[i].name, f.name) /\ f.type # NoType)
            = Min(Typing(i))
        BY <2>2 DEF SelectInSeq
      <4>2. Min(Typing(i)) # 0
        BY <3>1
      <4>3. e[i] = IF Min(Typing(i)) = 0 THEN d[i]
                   ELSE [d[i] EXCEPT !.type = in[Min(Typing(i))].type]
        BY <2>2, <4>1 DEF CtAssignType
      <4> QED BY <4>2, <4>3
    <3>3. in[Min(Typing(i))].type \in Types
      BY <1>1, <3>1
    <3> QED BY <2>2, <3>2, <3>3
  <2> QED BY <2>1, <2>2
<1>4. DOMAIN e = DOMAIN d /\ e = [i \in DOMAIN d |-> e[i]]
  BY DEF CtAssignType
<1>5. Extending(e, d) /\ Len(e) = Len(d)
  BY <1>3, <1>4, TypedExtends
<1>6. ASSUME NEW P \in SUBSET ((DOMAIN in) \X (DOMAIN d)) PROVE Cardinality(P) \in Nat
  <2>1. IsFiniteSet(1..Len(in)) /\ IsFiniteSet(1..Len(d))
    BY <1>2, FS_Interval
  <2>2. IsFiniteSet((DOMAIN in) \X (DOMAIN d))
    BY <1>2, <2>1, FS_Product
  <2>3. IsFiniteSet(P)
    BY <2>2, FS_Subset
  <2> QED BY <2>3, FS_CardinalityType
<1>7. CtAssignType(d, in).code \in Nat
  <2>1. PICK P \in SUBSET ((DOMAIN in) \X (DOMAIN d)) :
           \/ CtAssignType(d, in).code = 0
           \/ CtAssignType(d, in).code = Cardinality(P)
           \/ CtAssignType(d, in).code = Cardinality(P) + 12
    <3> DEFINE pairs == {ij \in (DOMAIN in) \X (DOMAIN d) :
                            Starts(d[ij[2]].name, in[ij[1]].name)}
    <3>1. \E U : LET P == {ij \in pairs : \A u \in U :
                               u[1] < ij[1] \/ (u[1] = ij[1] /\ u[2] < ij[2])}
                 IN CtAssignType(d, in).code =
                      IF Cardinality(pairs) # Len(in) THEN 0
                      ELSE Cardinality(P) + (IF U = {} THEN 0 ELSE 12)
      BY DEF CtAssignType, SCHEMA_CT_NT
    <3>2. pairs \in SUBSET ((DOMAIN in) \X (DOMAIN d))
      OBVIOUS
    <3> HIDE DEF pairs
    <3>3. PICK U : LET P == {ij \in pairs : \A u \in U :
                               u[1] < ij[1] \/ (u[1] = ij[1] /\ u[2] < ij[2])}
                 IN CtAssignType(d, in).code =
                      IF Cardinality(pairs) # Len(in) THEN 0
                      ELSE Cardinality(P) + (IF U = {} THEN 0 ELSE 12)
      BY <3>1
    <3> DEFINE P == {ij \in pairs : \A u \in U :
                               u[1] < ij[1] \/ (u[1] = ij[1] /\ u[2] < ij[2])}
    <3>4. P \in SUBSET ((DOMAIN in) \X (DOMAIN d))
      BY <3>2
    <3>5. CtAssignType(d, in).code =
             IF Cardinality(pairs) # Len(in) THEN 0
             ELSE Cardinality(P) + (IF U = {} THEN 0 ELSE 12)
      BY <3>3
    <3> HIDE DEF P
    <3>6. Cardinality(P) \in Nat
      BY <1>6, <3>4
    <3> QED BY <3>4, <3>5, <3>6
  <2> QED BY <1>6, <2>1
<1> QED BY <1>5, <1>7
-----------------------------------------------------------------------------
(* The input put in the order of the definition, and the record made of it.  *)

\* What is sorted is as long as the input and has its types, or none.
LEMMA SortedIsInput ==
  ASSUME NEW d, NEW in \in Seq(Field), NEW n \in 0..Len(in)
  PROVE  /\ SortLikeHeader(d, in, n) \in Seq(Field)
         /\ Len(SortLikeHeader(d, in, n)) = Len(in)
<1> DEFINE pos == [i \in 1..n |-> PositionOf(in[i].name, d)]
           Claims(k) == {i \in 1..n : pos[i] = k}
           name == [i \in 1..n |-> in[i].name]
           Placed(k) == IF Claims(k) = {} THEN Blank
                        ELSE [name |-> Max({in[i].name : i \in Claims(k)}),
                              type |-> in[Max(Claims(k))].type]
           s == SortLikeHeader(d, in, n)
<1>1. Len(in) \in Nat /\ DOMAIN in = 1..Len(in) /\ n \in Nat
  BY LenProperties
<1>2. \A i \in 1..Len(in) : in[i] \in Field
  BY ElementOfSeq
<1>3. ASSUME NEW k PROVE Placed(k) \in Field
  <2>1. CASE Claims(k) = {}
    BY <2>1 DEF Blank, Field
  <2>2. CASE Claims(k) # {}
    <3> DEFINE C == Claims(k)
    <3>1. C \in SUBSET (1..n) /\ C # {}
      BY <2>2
    <3> HIDE DEF C
    <3>0. \A i \in 1..n : i \in 1..Len(in)
      BY <1>1
    <3>8. \A f \in Field : f.name \in Names /\ f.name \in Nat
      <4>1. \A m \in Names : m \in Nat
        BY ONLY SchemaAssumption DEF Names, NoName
      <4>2. \A f \in Field : f.name \in Names
        BY ONLY TRUE DEF Field, Names
      <4> QED BY ONLY <4>1, <4>2
    <3>2. name \in [1..n -> Nat] /\ \A i \in 1..n : name[i] \in Names
      <4>1. \A i \in 1..n : in[i].name \in Names /\ in[i].name \in Nat
        BY <1>2, <3>0, <3>8
      <4> QED BY <4>1
    <3>3. Max({name[i] : i \in C}) \in {name[i] : i \in C}
      BY <1>1, <3>1, <3>2, MaxOfImage
    <3>4. {name[i] : i \in C} = {in[i].name : i \in C}
      BY <3>1
    <3>5. Max({in[i].name : i \in C}) \in Name \union {NoName}
      BY <3>1, <3>2, <3>3, <3>4 DEF Names
    <3>6. Max(C) \in 1..Len(in)
      <4>1. Max(C) \in C
        BY <1>1, <3>1, MaxIn
      <4> QED BY <3>0, <3>1, <4>1
    <3>7. in[Max(C)].type \in Type \union {NoType, TypeInt}
      BY <1>2, <3>6 DEF Field
    <3> QED BY <2>2, <3>5, <3>7 DEF Field, C
  <2> QED BY <2>1, <2>2
<1> HIDE DEF Placed
<1>4. \A i \in 1..Len(in) : [in[i] EXCEPT !.name = NoName] \in Field
  BY <1>2 DEF Field
<1>5. s = [i \in DOMAIN in |-> IF i <= n /\ pos[i] # 0 THEN Placed(i)
                               ELSE [in[i] EXCEPT !.name = NoName]]
  BY DEF SortLikeHeader, Placed
<1>6. s \in [1..Len(in) -> Field]
  BY <1>1, <1>3, <1>4, <1>5
<1> QED BY <1>1, <1>6, SeqOfFunction

LEMMA SortedPartIsInput ==
  ASSUME NEW d, NEW in \in Seq(Field)
  PROVE  SortPartial(d, in) \in Seq(Field) /\ Len(SortPartial(d, in)) = Len(in)
<1>1. Len(in) \in Nat /\ DOMAIN in = 1..Len(in)
  BY LenProperties
<1>2. \A i \in 1..Len(in) : in[i] \in Field
  BY ElementOfSeq
<1>3. \A i \in 1..Len(in) : [in[i] EXCEPT !.name = NoName] \in Field
  BY <1>2 DEF Field
<1>4. SortPartial(d, in) \in [1..Len(in) -> Field]
  BY <1>1, <1>2, <1>3 DEF SortPartial
<1> QED BY <1>1, <1>4, SeqOfFunction

LEMMA CoercedIsInput ==
  ASSUME NEW d \in Seq(Field), NEW in \in Seq(Field), Len(in) = Len(d)
  PROVE  CoerceDoubles(d, in) \in Seq(Field) /\ Len(CoerceDoubles(d, in)) = Len(in)
<1>1. Len(in) \in Nat /\ DOMAIN in = 1..Len(in)
  BY LenProperties
<1>2. \A i \in 1..Len(in) : in[i] \in Field /\ d[i] \in Field
  BY ElementOfSeq
<1>3. \A i \in 1..Len(in) : d[i].type = TypeDouble => [in[i] EXCEPT !.type = TypeDouble] \in Field
  BY <1>2 DEF Field
<1>4. CoerceDoubles(d, in) \in [1..Len(in) -> Field]
  BY <1>1, <1>2, <1>3 DEF CoerceDoubles
<1> QED BY <1>1, <1>4, SeqOfFunction

LEMMA WholeRecordIs ==
  ASSUME NEW d \in Seq(Field), NEW in \in Seq(Field), Len(d) <= Len(in)
  PROVE  WholeRecord(d, in) \in Seq(Record)
<1>1. Len(d) \in Nat /\ DOMAIN d = 1..Len(d) /\ Len(in) \in Nat
  BY LenProperties
<1>2. \A i \in 1..Len(d) : in[i] \in Field
  BY <1>1, ElementOfSeq
<1>3. WholeRecord(d, in) \in [1..Len(d) -> Record]
  BY <1>1, <1>2 DEF WholeRecord, Record, Field
<1> QED BY <1>1, <1>3, SeqOfFunction

LEMMA PartRecordIs ==
  ASSUME NEW d \in Seq(Field), NEW in \in Seq(Field)
  PROVE  PartRecord(d, in) \in [1..Len(d) -> Record] /\ PartRecord(d, in) \in Seq(Record)
<1> DEFINE r == PartRecord(d, in)
           Given_(i) == {j \in 1..Len(in) : in[j].name = d[i].name}
<1>1. Len(d) \in Nat /\ DOMAIN d = 1..Len(d) /\ Len(in) \in Nat
  BY LenProperties
<1>2. /\ \A i \in 1..Len(d) : d[i].type \in Type \union {NoType, TypeInt}
      /\ \A i \in 1..Len(in) : in[i].type \in Type \union {NoType, TypeInt}
  <2>1. /\ \A i \in 1..Len(d) : d[i] \in Field
        /\ \A i \in 1..Len(in) : in[i] \in Field
    BY ElementOfSeq
  <2> QED BY <2>1 DEF Field
<1>3. ASSUME NEW i \in 1..Len(d) PROVE r[i] \in Record
  <2>1. CASE Given_(i) = {}
    <3>1. r[i] = [type |-> d[i].type, set |-> FALSE]
      BY <1>1, <2>1 DEF PartRecord, SelectLastInSeq
    <3> QED BY <1>2, <3>1 DEF Record
  <2>2. CASE Given_(i) # {}
    <3>1. Max(Given_(i)) \in Given_(i)
      BY <1>1, <2>2, MaxIn
    <3>2. r[i] = [type |-> in[Max(Given_(i))].type, set |-> TRUE]
      <4>1. SelectLastInSeq(in, LAMBDA f : f.name = d[i].name) = Max(Given_(i))
        BY <2>2 DEF SelectLastInSeq
      <4>2. Max(Given_(i)) # 0
        BY <3>1
      <4>3. r[i] = IF Max(Given_(i)) = 0 THEN [type |-> d[i].type, set |-> FALSE]
                   ELSE [type |-> in[Max(Given_(i))].type, set |-> TRUE]
        BY <1>1, <4>1 DEF PartRecord
      <4> QED BY <4>2, <4>3
    <3> QED BY <1>2, <3>1, <3>2 DEF Record
  <2> QED BY <2>1, <2>2
<1>4. r = [i \in 1..Len(d) |-> r[i]]
  BY <1>1 DEF PartRecord
<1>5. r \in [1..Len(d) -> Record]
  BY <1>3, <1>4
<1> QED BY <1>1, <1>5, SeqOfFunction

LEMMA PartRecordByRankIs ==
  ASSUME NEW d \in Seq(Field), NEW in \in Seq(Field), NEW types,
         \A i \in DOMAIN d : types[i] \in Types
  PROVE  PartRecordByRank(d, in, types) \in Seq(Record)
<1>1. Len(d) \in Nat /\ DOMAIN d = 1..Len(d)
  BY LenProperties
<1>2. PartRecord(d, in) \in [1..Len(d) -> Record]
  BY PartRecordIs
<1>3. \A i \in 1..Len(d) : [PartRecord(d, in)[i] EXCEPT !.type = types[i]] \in Record
  BY <1>1, <1>2 DEF Record, Types
<1>4. PartRecordByRank(d, in, types) \in [1..Len(d) -> Record]
  BY <1>1, <1>2, <1>3 DEF PartRecordByRank
<1> QED BY <1>1, <1>4, SeqOfFunction

LEMMA CheckIsGood ==
  ASSUME NEW d, NEW code \in Nat, NEW e, Extending(e, d), NEW rec \in Seq(Record)
  PROVE  GoodCheck(Check(code, e, rec), d)
BY DEF GoodCheck, Check, Extending

LEMMA RefusedIsGood ==
  ASSUME NEW d PROVE GoodCheck(Refused, d)
<1>1. <<>> \in Seq(Field) /\ <<>> \in Seq(Record)
  BY EmptySeq
<1> QED BY <1>1 DEF GoodCheck, Refused, Check, Accepted, SCHEMA_ERR

\* The results perform_checks_on_schema has numbers for.
LEMMA CodesAreNumbers ==
  /\ SCHEMA_ERR \in Nat /\ SCHEMA_EQ \in Nat /\ SCHEMA_NW \in Nat /\ SCHEMA_CT \in Nat
  /\ SCHEMA_EQ_NT \in Nat /\ SCHEMA_CT_NT \in Nat
BY DEF SCHEMA_ERR, SCHEMA_EQ, SCHEMA_NW, SCHEMA_CT, SCHEMA_EQ_NT, SCHEMA_CT_NT

LEMMA CheckTypedIsGood ==
  ASSUME NEW d \in Seq(Field), NEW in \in Seq(Field)
  PROVE  GoodCheck(CheckTyped(d, in), d)
<1> DEFINE code == CheckSchema(d, in)
           sorted == SortLikeHeader(d, in, Len(d))
           more == SubSeq(sorted, Len(d) + 1, Len(in))
<1>1. Len(d) \in Nat /\ Len(in) \in Nat /\ Extending(d, d)
  BY LenProperties, ExtendsItself
<1>2. code \in {SCHEMA_ERR, SCHEMA_CT, SCHEMA_CT_NT, SCHEMA_EQ, SCHEMA_NW}
      /\ (code \in {SCHEMA_EQ, SCHEMA_NW} => Len(d) <= Len(in))
  BY <1>1 DEF CheckSchema, CkSchemaContainInput, SCHEMA_ERR, SCHEMA_CT, SCHEMA_CT_NT,
              SCHEMA_EQ, SCHEMA_NW
<1>3. code \in Nat
  BY <1>2, CodesAreNumbers
<1> HIDE DEF code
<1>4. GoodCheck(Check(code, d, PartRecord(d, in)), d)
  BY <1>1, <1>3, PartRecordIs, CheckIsGood
<1>5. ASSUME Len(d) <= Len(in)
      PROVE  /\ GoodCheck(Check(code, d \o more, WholeRecord(d \o more, sorted)), d)
             /\ GoodCheck(Check(code, d, WholeRecord(d, sorted)), d)
  <2>1. sorted \in Seq(Field) /\ Len(sorted) = Len(in)
    BY <1>1, <1>5, SortedIsInput
  <2> HIDE DEF sorted
  <2>2. \A i \in Len(d) + 1 .. Len(in) : sorted[i] \in Field
    BY <1>1, <2>1, ElementOfSeq
  <2>3. more \in Seq(Field) /\ Len(more) = Len(in) - Len(d)
    <3>1. Len(d) + 1 \in Int /\ Len(in) \in Int
      BY <1>1
    <3>2. /\ more \in Seq(Field)
          /\ Len(more) = IF Len(d) + 1 <= Len(in) THEN Len(in) - (Len(d) + 1) + 1 ELSE 0
      BY <2>2, <3>1, SubSeqProperties
    <3> QED BY <1>1, <1>5, <3>2
  <2> HIDE DEF more
  <2>4. Extending(d \o more, d) /\ Len(d \o more) = Len(in) /\ d \o more \in Seq(Field)
    BY <1>1, <2>3, WiderExtends, ConcatProperties
  <2>5. WholeRecord(d \o more, sorted) \in Seq(Record) /\ WholeRecord(d, sorted) \in Seq(Record)
    <3> DEFINE w == d \o more
    <3>1. w \in Seq(Field) /\ Len(w) <= Len(sorted) /\ Len(d) <= Len(sorted)
      BY <1>1, <1>5, <2>1, <2>4
    <3> HIDE DEF w
    <3>2. WholeRecord(w, sorted) \in Seq(Record)
      BY <2>1, <3>1, WholeRecordIs
    <3>3. WholeRecord(d, sorted) \in Seq(Record)
      BY <2>1, <3>1, WholeRecordIs
    <3> QED BY <3>2, <3>3 DEF w
  <2> QED BY <1>1, <1>3, <2>4, <2>5, CheckIsGood
<1>6. GoodCheck(Refused, d)
  BY RefusedIsGood
<1>7. ASSUME code # SCHEMA_ERR, code \notin {SCHEMA_CT, SCHEMA_CT_NT} PROVE Len(d) <= Len(in)
  BY <1>2, <1>7
<1> HIDE DEF sorted, more
<1>8. \/ CheckTyped(d, in) = Refused
      \/ CheckTyped(d, in) = Check(code, d, PartRecord(d, in))
      \/ /\ code # SCHEMA_ERR /\ code \notin {SCHEMA_CT, SCHEMA_CT_NT}
         /\ \/ CheckTyped(d, in) = Check(code, d \o more, WholeRecord(d \o more, sorted))
            \/ CheckTyped(d, in) = Check(code, d, WholeRecord(d, sorted))
  BY DEF CheckTyped, ParseDFlag, code, sorted, more
<1> QED BY <1>4, <1>5, <1>6, <1>7, <1>8

LEMMA CheckUntypedEqIsGood ==
  ASSUME NEW d \in Seq(Field), NEW in \in Seq(Field), Len(in) = Len(d)
  PROVE  GoodCheck(CheckUntypedEq(d, in), d)
<1> DEFINE sorted == SortLikeHeader(d, in, Len(in))
           typed == EqAssignType(d, sorted)
<1>1. Len(in) \in Nat /\ Len(in) \in 0..Len(in)
  BY LenProperties
<1>2. sorted \in Seq(Field) /\ Len(sorted) = Len(in)
  BY <1>1, SortedIsInput
<1> HIDE DEF sorted
<1>3. Extending(typed, d) /\ Len(typed) = Len(d)
  BY <1>2, EqAssignExtends
<1> HIDE DEF typed
<1>4. WholeRecord(typed, sorted) \in Seq(Record)
  BY <1>1, <1>2, <1>3, WholeRecordIs DEF Extending
<1>5. GoodCheck(Check(SCHEMA_EQ_NT, typed, WholeRecord(typed, sorted)), d)
  BY <1>3, <1>4, CheckIsGood, CodesAreNumbers
<1>6. CheckUntypedEq(d, in) \in {Refused, Check(SCHEMA_EQ_NT, typed, WholeRecord(typed, sorted))}
  BY DEF CheckUntypedEq, typed, sorted
<1> QED BY <1>5, <1>6, RefusedIsGood

LEMMA CheckEqIsGood ==
  ASSUME NEW d \in Seq(Field), NEW in \in Seq(Field), Len(in) = Len(d)
  PROVE  GoodCheck(CheckEq(d, in), d)
<1> DEFINE sorted == SortLikeHeader(d, in, Len(in))
           coerced == CoerceDoubles(d, sorted)
<1>1. Len(in) \in Nat /\ Len(in) \in 0..Len(in) /\ Extending(d, d)
  BY LenProperties, ExtendsItself
<1>2. sorted \in Seq(Field) /\ Len(sorted) = Len(in)
  BY <1>1, SortedIsInput
<1> HIDE DEF sorted
<1>3. coerced \in Seq(Field) /\ Len(coerced) = Len(in)
  BY <1>2, CoercedIsInput
<1> HIDE DEF coerced
<1>4. WholeRecord(d, coerced) \in Seq(Record)
  BY <1>1, <1>3, WholeRecordIs
<1>5. GoodCheck(Check(SCHEMA_EQ, d, WholeRecord(d, coerced)), d)
  BY <1>1, <1>4, CheckIsGood, CodesAreNumbers
<1>6. CheckEq(d, in) \in {Refused, Check(SCHEMA_EQ, d, WholeRecord(d, coerced))}
  BY DEF CheckEq, coerced, sorted
<1> QED BY <1>5, <1>6, RefusedIsGood

LEMMA CheckNoTypeIsGood ==
  ASSUME NEW d \in Seq(Field), NEW in \in Seq(Field)
  PROVE  GoodCheck(CheckNoType(d, in), d)
<1> DEFINE ct == CtAssignType(d, in)
<1>1. Len(in) \in Nat /\ Len(d) \in Nat /\ Extending(d, d)
  BY LenProperties, ExtendsItself
<1>2. Extending(ct.hd, d) /\ ct.code \in Nat
  BY CtAssignExtends
<1>3. PartRecord(ct.hd, in) \in Seq(Record)
  BY <1>2, PartRecordIs DEF Extending
<1>4. PartRecordByRank(d, in, TypesOf(d)) \in Seq(Record)
  <2>1. \A i \in DOMAIN d : d[i] \in Field
    BY ElementOfSeq, LenProperties
  <2>2. \A i \in DOMAIN d : TypesOf(d)[i] \in Types
    BY <2>1 DEF TypesOf, Field, Types
  <2> QED BY <2>2, PartRecordByRankIs
<1>5. /\ GoodCheck(Check(ct.code, ct.hd, PartRecord(ct.hd, in)), d)
      /\ GoodCheck(Check(SCHEMA_CT, d, PartRecordByRank(d, in, TypesOf(d))), d)
  BY <1>1, <1>2, <1>3, <1>4, CheckIsGood, CodesAreNumbers
<1> HIDE DEF ct
<1>6. \/ CheckNoType(d, in) = Refused
      \/ Len(in) = Len(d) /\ CheckNoType(d, in) \in {CheckEq(d, in), CheckUntypedEq(d, in)}
      \/ CheckNoType(d, in) = Check(ct.code, ct.hd, PartRecord(ct.hd, in))
      \/ CheckNoType(d, in) = Check(SCHEMA_CT, d, PartRecordByRank(d, in, TypesOf(d)))
  BY DEF CheckNoType, ct
<1> QED BY <1>5, <1>6, RefusedIsGood, CheckEqIsGood, CheckUntypedEqIsGood

LEMMA CheckHybridIsGood ==
  ASSUME NEW d \in Seq(Field), NEW in \in Seq(Field)
  PROVE  GoodCheck(CheckHybrid(d, in), d)
<1> DEFINE ct == CtAssignType(d, in)
           kept == SortPartial(ct.hd, in)
           byRank == [i \in DOMAIN d |-> IF i <= Len(in) THEN in[i].type ELSE NoType]
<1>1. Len(in) \in Nat /\ Len(d) \in Nat /\ Extending(d, d)
  BY LenProperties, ExtendsItself
<1>2. Extending(ct.hd, d) /\ ct.code \in Nat
  BY CtAssignExtends
<1>3. kept \in Seq(Field)
  BY SortedPartIsInput
<1> HIDE DEF kept
<1>4. PartRecord(ct.hd, kept) \in Seq(Record)
  BY <1>2, <1>3, PartRecordIs DEF Extending
<1>5. PartRecordByRank(ct.hd, kept, TypesOf(ct.hd)) \in Seq(Record)
  <2> DEFINE e == ct.hd
  <2>1. e \in Seq(Field)
    BY <1>2 DEF Extending
  <2> HIDE DEF e
  <2>2. \A i \in DOMAIN e : e[i] \in Field
    BY <2>1, ElementOfSeq, LenProperties
  <2>3. \A i \in DOMAIN e : TypesOf(e)[i] \in Types
    BY <2>2 DEF TypesOf, Field, Types
  <2>4. PartRecordByRank(e, kept, TypesOf(e)) \in Seq(Record)
    BY <1>3, <2>1, <2>3, PartRecordByRankIs
  <2> QED BY <2>4 DEF e
<1>6. PartRecordByRank(d, in, byRank) \in Seq(Record)
  <2>1. \A i \in 1..Len(in) : in[i] \in Field
    BY ElementOfSeq
  <2>2. \A i \in DOMAIN d : i \in Nat \ {0}
    BY LenProperties
  <2>3. \A i \in DOMAIN d : byRank[i] \in Types
    BY <1>1, <2>1, <2>2 DEF Field, Types
  <2> HIDE DEF byRank
  <2> QED BY <2>3, PartRecordByRankIs
<1>7. Len(in) > Len(d) => WholeRecord(d, in) \in Seq(Record)
  BY <1>1, WholeRecordIs
<1>8. /\ Len(in) > Len(d) => GoodCheck(Check(SCHEMA_NW, d, WholeRecord(d, in)), d)
      /\ GoodCheck(Check(SCHEMA_CT, d, PartRecordByRank(d, in, byRank)), d)
      /\ GoodCheck(Check(SCHEMA_CT_NT, ct.hd, PartRecord(ct.hd, kept)), d)
      /\ GoodCheck(Check(SCHEMA_CT, ct.hd, PartRecordByRank(ct.hd, kept, TypesOf(ct.hd))), d)
  BY <1>1, <1>2, <1>4, <1>5, <1>6, <1>7, CheckIsGood, CodesAreNumbers
<1> HIDE DEF ct, byRank
<1>9. \/ CheckHybrid(d, in) = Refused
      \/ Len(in) = Len(d) /\ CheckHybrid(d, in) \in {CheckEq(d, in), CheckUntypedEq(d, in)}
      \/ Len(in) > Len(d) /\ CheckHybrid(d, in) = Check(SCHEMA_NW, d, WholeRecord(d, in))
      \/ CheckHybrid(d, in) = Check(SCHEMA_CT, d, PartRecordByRank(d, in, byRank))
      \/ CheckHybrid(d, in) = Check(SCHEMA_CT_NT, ct.hd, PartRecord(ct.hd, kept))
      \/ CheckHybrid(d, in) = Check(SCHEMA_CT, ct.hd, PartRecordByRank(ct.hd, kept, TypesOf(ct.hd)))
  BY DEF CheckHybrid, ct, kept, byRank
<1> QED BY <1>8, <1>9, RefusedIsGood, CheckEqIsGood, CheckUntypedEqIsGood

\* -a: whatever the mode and the input, an accepted input only adds to the
\* definition (perform_checks_on_schema).
LEMMA PerformChecksExtends ==
  ASSUME NEW mode, NEW d \in Seq(Field), NEW in \in Seq(Field)
  PROVE  GoodCheck(PerformChecks(mode, d, in), d)
BY CheckTypedIsGood, CheckNoTypeIsGood, CheckHybridIsGood DEF PerformChecks
-----------------------------------------------------------------------------
(* The .sch file while it is written.                                        *)

LEMMA FieldAt ==
  ASSUME NEW d \in Seq(Field)
  PROVE  /\ Len(d) \in Nat /\ DOMAIN d = 1..Len(d)
         /\ \A i \in 1..Len(d) : /\ d[i] \in Field /\ d[i].name \in Names /\ d[i].type \in Types
                                 /\ d[i] = [name |-> d[i].name, type |-> d[i].type]
<1>1. Len(d) \in Nat /\ DOMAIN d = 1..Len(d)
  BY LenProperties
<1>2. \A i \in 1..Len(d) : d[i] \in Field
  BY ElementOfSeq
<1> QED BY <1>1, <1>2 DEF Field, Names, Types

LEMMA FixedCells ==
  /\ Id \in Cells /\ Version \in Cells /\ Length \in Cells /\ Zeros \in Cells
  /\ \A n \in Nat : Count(n) \in Cells
  /\ \A n \in Names : NameCell(n) \in Cells
  /\ \A t \in Types : TypeCell(t) \in Cells
BY DEF Cells, Id, Version, Length, Zeros, Count, NameCell, TypeCell, Names, Types, TypeInt

LEMMA CellsOf ==
  ASSUME NEW d \in Seq(Field)
  PROVE  /\ Cell(d, 1) = Id /\ Cell(d, 2) = Version /\ Cell(d, 3) = Count(Len(d))
         /\ \A i \in 1..Len(d) :
               /\ Cell(d, NamesEnd(i) - 1) = Length
               /\ Cell(d, NamesEnd(i)) = NameCell(d[i].name)
               /\ Cell(d, NamesEnd(Len(d)) + i) = TypeCell(d[i].type)
<1> DEFINE n == Len(d)
<1>1. n \in Nat
  BY FieldAt
<1>2. ASSUME NEW i \in 1..n
      PROVE  Cell(d, NamesEnd(i) - 1) = Length /\ Cell(d, NamesEnd(i)) = NameCell(d[i].name)
  <2> DEFINE k == 2 * i + 2
  <2>1. NamesEnd(i) - 1 = k /\ NamesEnd(i) = k + 1 /\ k \in Nat /\ k > 3 /\ k < 3 + 2 * n
    BY <1>1, <1>2 DEF NamesEnd
  <2>2. k % 2 = 0 /\ (k + 1) % 2 = 1 /\ (k + 1 - 3) \div 2 = i
    BY <1>1, <1>2
  <2> HIDE DEF k, n
  <2>3. Cell(d, k) = Length
    BY <1>1, <2>1, <2>2 DEF Cell, NamesEnd, n
  <2>4. Cell(d, k + 1) = NameCell(d[i].name)
    BY <1>1, <2>1, <2>2 DEF Cell, NamesEnd, n
  <2> QED BY <2>1, <2>3, <2>4
<1>3. ASSUME NEW i \in 1..n
      PROVE  Cell(d, NamesEnd(n) + i) = TypeCell(d[i].type)
  <2> DEFINE e == NamesEnd(n)
             k == NamesEnd(n) + i
  <2>1. k > e /\ k > 3 /\ k - e = i /\ k \in Nat
    BY <1>1, <1>3 DEF NamesEnd
  <2>2. NamesEnd(Len(d)) = e
    OBVIOUS
  <2> HIDE DEF e, k
  <2>3. Cell(d, k) = TypeCell(d[i].type)
    BY <2>1, <2>2 DEF Cell
  <2> QED BY <2>3 DEF k
<1>4. Cell(d, 1) = Id /\ Cell(d, 2) = Version /\ Cell(d, 3) = Count(n)
  BY DEF Cell
<1> HIDE DEF n
<1> QED BY <1>2, <1>3, <1>4 DEF n

\* A cell is one of the fixed ones, or of a field.
LEMMA CellIsOf ==
  ASSUME NEW d \in Seq(Field), NEW k \in 1..Size(d)
  PROVE  \/ k \in 1..3
         \/ \E i \in 1..Len(d) : k \in {NamesEnd(i) - 1, NamesEnd(i), NamesEnd(Len(d)) + i}
<1> DEFINE n == Len(d)
<1>1. n \in Nat /\ k \in 1..(3 + 3 * n)
  BY FieldAt DEF Size
<1>2. CASE k > 3 + 2 * n
  <2>1. k - (3 + 2 * n) \in 1..n /\ k = NamesEnd(n) + (k - (3 + 2 * n))
    BY <1>1, <1>2 DEF NamesEnd
  <2> QED BY <2>1
<1>3. CASE k > 3 /\ k <= 3 + 2 * n /\ k % 2 = 0
  <2>1. (k - 2) \div 2 \in 1..n /\ k = NamesEnd((k - 2) \div 2) - 1
    BY <1>1, <1>3 DEF NamesEnd
  <2> QED BY <2>1
<1>4. CASE k > 3 /\ k <= 3 + 2 * n /\ k % 2 # 0
  <2>1. (k - 3) \div 2 \in 1..n /\ k = NamesEnd((k - 3) \div 2)
    BY <1>1, <1>4 DEF NamesEnd
  <2> QED BY <2>1
<1> QED BY <1>1, <1>2, <1>3, <1>4

LEMMA CellIsCell ==
  ASSUME NEW d \in Seq(Field), NEW k \in 1..Size(d)
  PROVE  Cell(d, k) \in Cells
<1>1. CASE k \in 1..3
  BY <1>1, CellsOf, FixedCells, FieldAt
<1>2. CASE \E i \in 1..Len(d) : k \in {NamesEnd(i) - 1, NamesEnd(i), NamesEnd(Len(d)) + i}
  <2>1. PICK i \in 1..Len(d) : k \in {NamesEnd(i) - 1, NamesEnd(i), NamesEnd(Len(d)) + i}
    BY <1>2
  <2>2. Cell(d, k) \in {Length, NameCell(d[i].name), TypeCell(d[i].type)}
    BY <2>1, CellsOf
  <2>3. d[i].name \in Names /\ d[i].type \in Types
    BY FieldAt
  <2>4. {Length, NameCell(d[i].name), TypeCell(d[i].type)} \subseteq Cells
    BY <2>3, FixedCells
  <2> QED BY <2>2, <2>4
<1> QED BY <1>1, <1>2, CellIsOf

LEMMA BegunIs ==
  ASSUME NEW d \in Seq(Field), NEW n \in 0..Size(d)
  PROVE  /\ Begun(d, n) \in Seq(Cells) /\ Len(Begun(d, n)) = n
         /\ \A k \in 1..n : Begun(d, n)[k] = Cell(d, k)
         /\ Size(d) \in Nat /\ Size(d) = 3 + 3 * Len(d)
<1>1. Size(d) \in Nat /\ n \in Nat /\ \A k \in 1..n : k \in 1..Size(d)
  BY FieldAt DEF Size
<1>2. Begun(d, n) \in [1..n -> Cells]
  BY <1>1, CellIsCell DEF Begun
<1>3. Begun(d, n) \in Seq(Cells) /\ Len(Begun(d, n)) = n
  BY <1>1, <1>2, SeqOfFunction
<1> QED BY <1>1, <1>3 DEF Begun, Size

\* A file that is not written to its end is not taken for a definition.
LEMMA BegunIsTorn ==
  ASSUME NEW d \in Seq(Field), NEW n \in 0..Size(d), n # Size(d)
  PROVE  ~Whole(Begun(d, n))
<1> DEFINE f == Begun(d, n)
<1>1. Len(f) = n /\ n \in Nat /\ Size(d) = 3 + 3 * Len(d) /\ Len(d) \in Nat
  BY BegunIs, FieldAt
<1>2. CASE n >= 3
  <2>1. f[3] = Count(Len(d))
    BY <1>1, <1>2, BegunIs, CellsOf
  <2>2. f[3].of = Len(d)
    BY <2>1 DEF Count
  <2> HIDE DEF f
  <2>3. Len(f) # 3 + 3 * f[3].of
    BY <1>1, <2>2
  <2> QED BY <2>3 DEF Whole, f
<1>3. CASE n < 3
  BY <1>1, <1>3 DEF Whole
<1> QED BY <1>1, <1>2, <1>3

LEMMA SavedIsWhole ==
  ASSUME NEW d \in Seq(Field)
  PROVE  DefOf(SavedAs(d)) = d /\ Whole(SavedAs(d)) /\ SavedAs(d) \in Seq(Cells)
<1> DEFINE f == SavedAs(d)
           n == Len(d)
<1>1. Size(d) \in Nat /\ Size(d) = 3 + 3 * n /\ n \in Nat
  BY FieldAt DEF Size
<1>2. /\ f = Begun(d, Size(d)) /\ f \in Seq(Cells) /\ Len(f) = 3 + 3 * n
      /\ \A k \in 1..3 + 3 * n : f[k] = Cell(d, k)
  <2>1. Size(d) \in 0..Size(d)
    BY <1>1
  <2> QED BY <1>1, <2>1, BegunIs DEF SavedAs
<1> HIDE DEF f, n
<1>3. f[3] = Count(n) /\ f[3].of = n
  BY <1>1, <1>2, CellsOf DEF Count, n
<1>4. \A i \in 1..n : f[NamesEnd(i)] = NameCell(d[i].name)
                      /\ f[NamesEnd(n) + i] = TypeCell(d[i].type)
  <2> TAKE i \in 1..n
  <2>1. NamesEnd(i) \in 1..3 + 3 * n /\ NamesEnd(n) + i \in 1..3 + 3 * n
    BY <1>1 DEF NamesEnd
  <2> QED BY <1>2, <2>1, CellsOf DEF n
<1>5. DefOf(f) = d
  <2>0. \A i \in 1..n : f[NamesEnd(i)].of = d[i].name /\ f[NamesEnd(n) + i].of = d[i].type
    <3> TAKE i \in 1..n
    <3>1. f[NamesEnd(i)] = NameCell(d[i].name) /\ f[NamesEnd(n) + i] = TypeCell(d[i].type)
      BY <1>4
    <3>2. \A a, b : NameCell(a).of = a /\ TypeCell(b).of = b
      BY DEF NameCell, TypeCell
    <3> QED BY <3>1, <3>2
  <2>1. DefOf(f) = [i \in 1..n |-> [name |-> d[i].name, type |-> d[i].type]]
    BY <1>3, <2>0 DEF DefOf
  <2>2. \A i \in 1..n : d[i] = [name |-> d[i].name, type |-> d[i].type]
    BY FieldAt DEF n
  <2>3. d = [i \in 1..n |-> d[i]]
    BY FieldAt DEF n
  <2>4. [i \in 1..n |-> [name |-> d[i].name, type |-> d[i].type]] = [i \in 1..n |-> d[i]]
    BY <2>2
  <2> QED BY <2>1, <2>3, <2>4
<1>6. Whole(f)
  <2>1. SavedAs(DefOf(f)) = f
    BY <1>5 DEF f
  <2>2. Len(f) >= 3 /\ Len(f) = 3 + 3 * f[3].of
    BY <1>1, <1>2, <1>3
  <2> QED BY <2>1, <2>2 DEF Whole
<1> QED BY <1>2, <1>5, <1>6 DEF f

LEMMA MaxOfTwo ==
  ASSUME NEW a \in Nat, NEW b \in Nat
  PROVE  Max({a, b}) = IF a >= b THEN a ELSE b
<1> DEFINE m == IF a >= b THEN a ELSE b
<1>1. m \in {a, b} /\ \A y \in {a, b} : m >= y
  OBVIOUS
<1>2. \A x \in {a, b} : (\A y \in {a, b} : x >= y) => x = m
  OBVIOUS
<1> HIDE DEF m
<1> QED BY <1>1, <1>2 DEF Max, m

LEMMA MinOfTwo ==
  ASSUME NEW a \in Nat, NEW b \in Nat
  PROVE  Min({a, b}) = IF a <= b THEN a ELSE b
<1> DEFINE m == IF a <= b THEN a ELSE b
<1>1. m \in {a, b} /\ \A y \in {a, b} : m <= y
  OBVIOUS
<1>2. \A x \in {a, b} : (\A y \in {a, b} : x <= y) => x = m
  OBVIOUS
<1> HIDE DEF m
<1> QED BY <1>1, <1>2 DEF Min, m

LEMMA PutIsFile ==
  ASSUME NEW f \in Seq(Cells), NEW k \in Nat, NEW c \in Cells
  PROVE  Put(f, k, c) \in Seq(Cells)
<1> DEFINE m == Max({k + 1, Len(f)})
<1>1. Len(f) \in Nat /\ m \in Nat
  BY LenProperties, MaxOfTwo
<1>2. \A i \in 1..m : i <= Len(f) => f[i] \in Cells
  BY <1>1, ElementOfSeq
<1>3. Put(f, k, c) \in [1..m -> Cells]
  BY <1>1, <1>2, FixedCells DEF Put
<1> HIDE DEF m
<1> QED BY <1>1, <1>3, SeqOfFunction

\* write_header goes on where it is.
LEMMA PutGoesOn ==
  ASSUME NEW d \in Seq(Field), NEW k \in 0..Size(d), k # Size(d)
  PROVE  Put(Begun(d, k), k, Cell(d, k + 1)) = Begun(d, k + 1)
<1>1. /\ Len(Begun(d, k)) = k /\ k \in Nat
      /\ \A i \in 1..k : Begun(d, k)[i] = Cell(d, i)
  BY BegunIs
<1>2. Max({k + 1, k}) = k + 1
  BY <1>1, MaxOfTwo
<1>3. Put(Begun(d, k), k, Cell(d, k + 1)) =
         [i \in 1..k + 1 |-> IF i = k + 1 THEN Cell(d, k + 1)
                             ELSE IF i <= k THEN Begun(d, k)[i] ELSE Zeros]
  BY <1>1, <1>2 DEF Put
<1>4. \A i \in 1..k + 1 : (IF i = k + 1 THEN Cell(d, k + 1)
                           ELSE IF i <= k THEN Begun(d, k)[i] ELSE Zeros) = Cell(d, i)
  BY <1>1
<1> QED BY <1>3, <1>4 DEF Begun
-----------------------------------------------------------------------------
(* The invariant of any number of commands.                                  *)

CheckRecord == [code : Nat, hd : Seq(Field), rec : Seq(Record)]
Checks == chk \in [Proc -> CheckRecord]

\* A command holds its lock from its truncation of the file to its unlock.
Locked == {"trunc", "write", "append", "unlock"}
OwnsItsLock(p) == IF cmd[p].op = "def" THEN schowner = p /\ schlive ELSE inxowner = p /\ inxlive
Owns == \A p \in Proc : pc[p] \in Locked => OwnsItsLock(p)

Commanded == \A p \in Proc : pc[p] # "idle" => cmd[p] \in Command
Within == \A p \in Proc : pc[p] = "write" => at[p] < Size(hd[p])

IInv == TypeOK /\ Checks /\ Commanded /\ Owns /\ Within

LEMMA InitInv == Init => IInv
<1> SUFFICES ASSUME Init PROVE IInv
  OBVIOUS
<1>1. Base \in Seq(Field)
  BY SchemaFileAssumption
<1>2. sch \in Seq(Cells)
  BY <1>1, SavedIsWhole DEF Init
<1>3. <<>> \in Seq(Field) /\ <<>> \in Seq(Record) /\ Refused \in CheckRecord
  BY EmptySeq DEF Refused, Check, CheckRecord, SCHEMA_ERR
<1>4. dat \in Seq([fields : Seq(Record), def : Seq(Field), code : Nat,
                   in : Seq(Field), mode : Modes])
  BY EmptySeq DEF Init
<1>5. TypeOK
  <2>1. InxLock!TypeOK /\ SchLock!TypeOK
    BY DEF Init, InxLock!Init, SchLock!Init, InxLock!TypeOK, SchLock!TypeOK
  <2>2. pc \in [Proc -> Label] /\ cmd \in [Proc -> Command \union {NoCommand}] /\ at \in [Proc -> Nat]
    BY DEF Init, Label
  <2>3. hd \in [Proc -> Seq(Field)] /\ \A p \in Proc : chk[p].rec \in Seq(Record)
    BY <1>3 DEF Init, CheckRecord
  <2> QED BY <1>2, <1>4, <2>1, <2>2, <2>3 DEF TypeOK
<1>6. Checks /\ Commanded /\ Owns /\ Within
  BY <1>3 DEF Init, Checks, Commanded, Owns, Within, Locked
<1> QED BY <1>5, <1>6 DEF IInv

\* The memory of p, and p alone, is now this.
Becomes(p, l, c, o, d, k) ==
    /\ pc' = [pc EXCEPT ![p] = l] /\ cmd' = [cmd EXCEPT ![p] = c]
    /\ at' = [at EXCEPT ![p] = o]
    /\ hd' = [hd EXCEPT ![p] = d] /\ chk' = [chk EXCEPT ![p] = k]

LEMMA BecameOf ==
  ASSUME IInv, NEW p \in Proc, NEW l, NEW c, NEW o, NEW d, NEW k, Becomes(p, l, c, o, d, k)
  PROVE  /\ pc'[p] = l /\ cmd'[p] = c /\ at'[p] = o /\ hd'[p] = d /\ chk'[p] = k
         /\ \A q \in Proc \ {p} : /\ pc'[q] = pc[q] /\ cmd'[q] = cmd[q] /\ at'[q] = at[q]
                                  /\ hd'[q] = hd[q] /\ chk'[q] = chk[q]
BY DEF IInv, TypeOK, Checks, Becomes

\* A step of p that writes to no file and does not start to write the definition.
LEMMA MemoryStep ==
  ASSUME IInv, NEW p \in Proc, NEW l \in Label \ {"write"},
         NEW c \in Command \union {NoCommand}, NEW o \in Nat, NEW d \in Seq(Field),
         NEW k \in CheckRecord,
         l # "idle" => c \in Command, Becomes(p, l, c, o, d, k),
         UNCHANGED <<sch, dat>>,
         InxLock!TypeOK', SchLock!TypeOK', Owns'
  PROVE  IInv'
<1>1. pc' \in [Proc -> Label] /\ cmd' \in [Proc -> Command \union {NoCommand}]
      /\ at' \in [Proc -> Nat] /\ hd' \in [Proc -> Seq(Field)] /\ Checks'
  BY DEF IInv, TypeOK, Checks, Becomes
<1>2. \A q \in Proc : chk'[q].rec \in Seq(Record)
  BY <1>1 DEF Checks, CheckRecord
<1>3. TypeOK'
  BY <1>1, <1>2 DEF IInv, TypeOK
<1>4. Commanded' /\ Within'
  BY BecameOf DEF IInv, Commanded, Within
<1> QED BY <1>1, <1>3, <1>4 DEF IInv

\* Without a change of the locks, unless p goes on to hold one.
LEMMA LocalStep ==
  ASSUME IInv, NEW p \in Proc, NEW l \in Label \ Locked,
         NEW c \in Command \union {NoCommand}, NEW o \in Nat, NEW d \in Seq(Field),
         NEW k \in CheckRecord,
         l # "idle" => c \in Command, Becomes(p, l, c, o, d, k),
         UNCHANGED <<lockvars, sch, dat>>
  PROVE  IInv'
<1>1. InxLock!TypeOK' /\ SchLock!TypeOK'
  BY DEF IInv, TypeOK, InxLock!TypeOK, SchLock!TypeOK, lockvars
<1>2. Owns'
  BY BecameOf DEF IInv, Owns, OwnsItsLock, lockvars
<1>3. l \in Label \ {"write"}
  BY DEF Locked
<1> QED BY <1>1, <1>2, <1>3, MemoryStep

LEMMA RefusedIsCheck == Refused \in CheckRecord /\ <<>> \in Seq(Field) /\ "idle" \in Label \ Locked
BY EmptySeq DEF Refused, Check, CheckRecord, SCHEMA_ERR, Label, Locked

LEMMA ExitIs ==
  ASSUME NEW p \in Proc, Exit(p) PROVE Becomes(p, "idle", NoCommand, 0, <<>>, Refused)
BY DEF Exit, Goto, Becomes

LEMMA ExitStep ==
  ASSUME IInv, NEW p \in Proc, Exit(p), UNCHANGED <<lockvars, sch, dat>> PROVE IInv'
BY LocalStep, ExitIs, RefusedIsCheck

LEMMA BeginIs ==
  ASSUME NEW p \in Proc, NEW c \in Command, Begin(p, c)
  PROVE  Becomes(p, "read", c, 0, <<>>, Refused)
BY DEF Begin, Goto, Becomes

LEMMA BeginInv ==
  ASSUME IInv, NEW p \in Proc, NEW c \in Command, Begin(p, c) PROVE IInv'
<1>1. "read" \in Label \ Locked
  BY DEF Label, Locked
<1>2. UNCHANGED <<lockvars, sch, dat>>
  BY DEF Begin
<1> QED BY <1>1, <1>2, BeginIs, LocalStep, RefusedIsCheck

\* What a command keeps.
LEMMA Kept ==
  ASSUME IInv, NEW p \in Proc
  PROVE  /\ cmd[p] \in Command \union {NoCommand} /\ hd[p] \in Seq(Field) /\ chk[p] \in CheckRecord
         /\ at[p] \in Nat
         /\ cmd = [cmd EXCEPT ![p] = cmd[p]] /\ hd = [hd EXCEPT ![p] = hd[p]]
         /\ chk = [chk EXCEPT ![p] = chk[p]] /\ at = [at EXCEPT ![p] = at[p]]
         /\ pc = [pc EXCEPT ![p] = pc[p]]
         /\ pc[p] # "idle" => cmd[p] \in Command
         /\ sch \in Seq(Cells)
BY DEF IInv, TypeOK, Checks, Commanded

LEMMA InputOfCommand ==
  ASSUME NEW c \in Command
  PROVE  c.in \in Seq(Field) /\ c.mode \in Modes /\ c.op \in {"def", "put"}
BY SchemaFileAssumption DEF Command

\* The same command goes on with another definition.
LEMMA GoOn ==
  ASSUME IInv, NEW p \in Proc, pc[p] # "idle", NEW l \in Label \ Locked, NEW o \in Nat,
         NEW d \in Seq(Field), NEW k \in CheckRecord,
         Becomes(p, l, cmd[p], o, d, k), UNCHANGED <<lockvars, sch, dat>>
  PROVE  IInv'
<1>1. cmd[p] \in Command
  BY Kept
<1> DEFINE c == cmd[p]
<1>2. c \in Command /\ Becomes(p, l, c, o, d, k)
  BY <1>1
<1> HIDE DEF c
<1> QED BY <1>2, LocalStep

\* A step of p that may change the locks, but neither its command nor its memory.
LEMMA LockedStep ==
  ASSUME IInv, NEW p \in Proc, cmd[p] \in Command, NEW l \in Label \ {"write"},
         Goto(p, l), UNCHANGED <<sch, dat, cmd, at, hd, chk>>,
         InxLock!TypeOK', SchLock!TypeOK', Owns'
  PROVE  IInv'
<1> DEFINE c == cmd[p]
           k == chk[p]
           d == hd[p]
           o == at[p]
<1>1. /\ c \in Command /\ k \in CheckRecord /\ d \in Seq(Field) /\ o \in Nat
      /\ Becomes(p, l, c, o, d, k)
  BY Kept DEF Goto, Becomes
<1> HIDE DEF c, d, k, o
<1> QED BY <1>1, MemoryStep

LEMMA ReadNamesInv ==
  ASSUME IInv, NEW p \in Proc, ReadNames(p) PROVE IInv'
<1> DEFINE n == CountIn(sch)
<1>1. sch \in Seq(Cells) /\ Len(sch) \in Nat /\ \A k \in 1..Len(sch) : sch[k] \in Cells
  BY Kept, LenProperties, ElementOfSeq
<1>2. n \in Nat
  BY <1>1 DEF CountIn, Cells
<1>3. CASE Exit(p)
  BY <1>3, ExitStep DEF ReadNames
<1>4. CASE ~Exit(p)
  <2>1. NamesInPlace(sch) => \A i \in 1..n : NameAt(sch, NamesEnd(i)) \in Names
    <3> SUFFICES ASSUME NamesInPlace(sch), NEW i \in 1..n
                 PROVE  NameAt(sch, NamesEnd(i)) \in Names
      OBVIOUS
    <3>1. CASE NamesEnd(i) <= Len(sch)
      <4>1. NamesEnd(i) \in 1..Len(sch)
        BY <1>1, <1>2, <3>1 DEF NamesEnd
      <4>2. sch[NamesEnd(i)].is = "name" /\ sch[NamesEnd(i)] \in Cells
        BY <1>1, <3>1, <4>1 DEF NamesInPlace, InPlace
      <4>3. sch[NamesEnd(i)].of \in Names
        BY <4>2 DEF Cells, Names
      <4> QED BY <3>1, <4>3 DEF NameAt
    <3>2. CASE ~(NamesEnd(i) <= Len(sch))
      BY <3>2 DEF NameAt, Names
    <3> QED BY <3>1, <3>2
  <2> DEFINE After(f) == hd' = [hd EXCEPT ![p] = [i \in 1..n |-> [name |-> f[i], type |-> NoType]]]
             There(k) == at' = [at EXCEPT ![p] = k]
  <2>2. /\ \E f \in IF NamesInPlace(sch) THEN {[i \in 1..n |-> NameAt(sch, NamesEnd(i))]}
                    ELSE [1..n -> Name \union {NoName}] : After(f)
        /\ \E k \in IF NamesInPlace(sch) THEN {Min({NamesEnd(n), Len(sch)})}
                    ELSE 3..Len(sch) : There(k)
        /\ Goto(p, "types") /\ UNCHANGED <<cmd, chk>>
    BY <1>4 DEF ReadNames
  <2> HIDE DEF After, There
  <2>3. \E f \in [1..n -> Names] : After(f)
    <3>1. CASE NamesInPlace(sch)
      <4>1. [i \in 1..n |-> NameAt(sch, NamesEnd(i))] \in [1..n -> Names]
        BY <2>1, <3>1
      <4> QED BY <2>2, <3>1, <4>1
    <3>2. CASE ~NamesInPlace(sch)
      BY <2>2, <3>2 DEF Names
    <3> QED BY <3>1, <3>2
  <2>4. \E k \in Nat : There(k)
    <3>1. CASE NamesInPlace(sch)
      <4>1. Min({NamesEnd(n), Len(sch)}) \in Nat
        BY <1>1, <1>2, MinOfTwo DEF NamesEnd
      <4> QED BY <2>2, <3>1, <4>1
    <3>2. CASE ~NamesInPlace(sch)
      BY <1>1, <2>2, <3>2
    <3> QED BY <3>1, <3>2
  <2>5. PICK f \in [1..n -> Names] : After(f)
    BY <2>3
  <2>6. PICK k \in Nat : There(k)
    BY <2>4
  <2> DEFINE d == [i \in 1..n |-> [name |-> f[i], type |-> NoType]]
  <2>7. d \in Seq(Field)
    <3>1. d \in [1..n -> Field]
      BY DEF Field, Names
    <3> HIDE DEF n
    <3> QED BY <1>2, <3>1, SeqOfFunction
  <2>8. hd' = [hd EXCEPT ![p] = d] /\ at' = [at EXCEPT ![p] = k]
    BY <2>5, <2>6 DEF After, There
  <2> HIDE DEF d, n
  <2>9. Becomes(p, "types", cmd[p], k, d, chk[p])
    BY <2>2, <2>8, Kept DEF Goto, Becomes
  <2>10. "types" \in Label \ Locked /\ pc[p] # "idle" /\ UNCHANGED <<lockvars, sch, dat>>
         /\ chk[p] \in CheckRecord
    BY Kept DEF Label, Locked, ReadNames
  <2> QED BY <2>7, <2>9, <2>10, GoOn
<1> QED BY <1>3, <1>4

LEMMA ReadTypesInv ==
  ASSUME IInv, NEW p \in Proc, ReadTypes(p) PROVE IInv'
<1> DEFINE n == Len(hd[p])
<1>1. n \in Nat /\ (\A i \in 1..n : hd[p][i] \in Field) /\ at[p] \in Nat
  BY Kept, LenProperties, ElementOfSeq
<1>2. \A i \in 1..n : TypesAt(sch, at[p] + i) \subseteq Types
  <2> TAKE i \in 1..n
  <2>1. sch \in Seq(Cells) /\ Len(sch) \in Nat
    BY Kept, LenProperties
  <2> DEFINE k == at[p] + i
  <2>2. k \in Nat /\ k >= 1
    BY <1>1
  <2> HIDE DEF k
  <2>3. CASE k <= Len(sch) /\ sch[k].is = "type"
    <3>1. sch[k] \in Cells
      BY <2>1, <2>2, <2>3, ElementOfSeq
    <3>2. sch[k].of \in Types
      BY <2>3, <3>1 DEF Cells, Types
    <3>3. TypesAt(sch, k) = {sch[k].of}
      BY <2>1, <2>2, <2>3 DEF TypesAt
    <3> QED BY <3>2, <3>3 DEF k
  <2>4. CASE ~(k <= Len(sch) /\ sch[k].is = "type")
    <3>1. TypesAt(sch, k) \in {{TypeInt}, Types}
      BY <2>1, <2>2, <2>4 DEF TypesAt, Types
    <3> QED BY <3>1 DEF k, Types
  <2> QED BY <2>3, <2>4
<1>3. PICK types \in [1..n -> Types] :
        hd' = [hd EXCEPT ![p] = [i \in 1..n |-> [hd[p][i] EXCEPT !.type = types[i]]]]
  <2> DEFINE After(types) ==
        hd' = [hd EXCEPT ![p] = [i \in 1..n |-> [hd[p][i] EXCEPT !.type = types[i]]]]
  <2>1. PICK types \in [1..n -> UNION {TypesAt(sch, at[p] + i) : i \in 1..n}] : After(types)
    BY DEF ReadTypes
  <2>2. UNION {TypesAt(sch, at[p] + i) : i \in 1..n} \subseteq Types
    BY <1>2
  <2>3. types \in [1..n -> Types]
    BY <2>2
  <2> QED BY <2>1, <2>3
<1> DEFINE d == [i \in 1..n |-> [hd[p][i] EXCEPT !.type = types[i]]]
<1>4. d \in Seq(Field)
  <2>1. d \in [1..n -> Field]
    BY <1>1 DEF Field, Types
  <2> QED BY <1>1, <2>1, SeqOfFunction
<1>5. hd' = [hd EXCEPT ![p] = d]
  BY <1>3
<1> HIDE DEF d
<1>6. Becomes(p, "check", cmd[p], at[p], d, chk[p])
  BY <1>5, Kept DEF ReadTypes, Goto, Becomes
<1>7. "check" \in Label \ Locked /\ pc[p] # "idle" /\ UNCHANGED <<lockvars, sch, dat>>
      /\ chk[p] \in CheckRecord /\ at[p] \in Nat
  BY Kept DEF Label, Locked, ReadTypes
<1> QED BY <1>4, <1>6, <1>7, GoOn

LEMMA CheckAddedInv ==
  ASSUME IInv, NEW p \in Proc, CheckAdded(p) PROVE IInv'
<1>1. CASE Exit(p)
  BY <1>1, ExitStep DEF CheckAdded
<1>2. CASE ~Exit(p)
  <2>1. cmd[p].in \in Seq(Field) /\ hd[p] \in Seq(Field) /\ cmd[p] \in Command
    BY Kept, InputOfCommand DEF CheckAdded
  <2>2. PICK stale : LET new == AddFields(hd[p], cmd[p].in, stale)
                     IN /\ hd' = [hd EXCEPT ![p] = new] /\ Goto(p, "lock")
                        /\ UNCHANGED <<cmd, at, chk>>
    BY <1>2 DEF CheckAdded
  <2> DEFINE d == AddFields(hd[p], cmd[p].in, stale)
  <2>3. d \in Seq(Field)
    BY <2>1, AddFieldsExtends, RefusedIsCheck DEF Extending
  <2>4. hd' = [hd EXCEPT ![p] = d] /\ Goto(p, "lock") /\ UNCHANGED <<cmd, at, chk>>
    BY <2>2
  <2> HIDE DEF d
  <2>5. Becomes(p, "lock", cmd[p], at[p], d, chk[p])
    BY <2>4, Kept DEF Goto, Becomes
  <2>6. "lock" \in Label \ Locked /\ pc[p] # "idle" /\ UNCHANGED <<lockvars, sch, dat>>
        /\ chk[p] \in CheckRecord /\ at[p] \in Nat
    BY Kept DEF Label, Locked, CheckAdded
  <2> QED BY <2>3, <2>5, <2>6, GoOn
<1> QED BY <1>1, <1>2

LEMMA CheckGivenInv ==
  ASSUME IInv, NEW p \in Proc, CheckGiven(p) PROVE IInv'
<1>1. CASE Exit(p)
  BY <1>1, ExitStep DEF CheckGiven
<1>2. CASE ~Exit(p)
  <2> DEFINE k == PerformChecks(cmd[p].mode, hd[p], cmd[p].in)
  <2>1. cmd[p].in \in Seq(Field) /\ hd[p] \in Seq(Field) /\ cmd[p] \in Command
    BY Kept, InputOfCommand DEF CheckGiven
  <2>2. GoodCheck(k, hd[p]) /\ k = Check(k.code, k.hd, k.rec)
    <3>1. GoodCheck(k, hd[p])
      BY <2>1, PerformChecksExtends
    <3>2. \E a, b, c : k = Check(a, b, c)
      BY DEF PerformChecks, CheckTyped, CheckNoType, CheckHybrid, ParseDFlag, CheckEq,
             CheckUntypedEq, Refused
    <3> HIDE DEF k
    <3> QED BY <3>1, <3>2 DEF Check
  <2>3. /\ hd' = [hd EXCEPT ![p] = k.hd] /\ chk' = [chk EXCEPT ![p] = k]
        /\ Goto(p, "lock") /\ UNCHANGED <<cmd, at>>
    BY <1>2 DEF CheckGiven
  <2> HIDE DEF k
  <2>4. k.hd \in Seq(Field) /\ k \in CheckRecord
    BY <2>2 DEF GoodCheck, CheckRecord, Check
  <2> DEFINE d == k.hd
  <2>5. Becomes(p, "lock", cmd[p], at[p], d, k)
    BY <2>3, Kept DEF Goto, Becomes
  <2>6. "lock" \in Label \ Locked /\ pc[p] # "idle" /\ UNCHANGED <<lockvars, sch, dat>>
        /\ at[p] \in Nat /\ d \in Seq(Field)
    BY <2>4, Kept DEF Label, Locked, CheckGiven
  <2> HIDE DEF d
  <2> QED BY <2>4, <2>5, <2>6, GoOn
<1> QED BY <1>1, <1>2

LEMMA LockInv ==
  ASSUME IInv, NEW p \in Proc, Lock(p) PROVE IInv'
<1>1. cmd[p] \in Command
  BY Kept DEF Lock
<1>2. CASE Exit(p) /\ UNCHANGED lockvars
  BY <1>2, ExitStep DEF Lock
<1>3. ASSUME cmd[p].op = "def", SchLock!Acquire(p) \/ SchLock!Reclaim(p), Goto(p, "trunc"),
             UNCHANGED <<inxowner, inxlive, sch, dat, cmd, at, hd, chk>>
      PROVE  IInv'
  <2>1. InxLock!TypeOK' /\ SchLock!TypeOK'
    BY <1>3 DEF IInv, TypeOK, InxLock!TypeOK, SchLock!TypeOK, SchLock!Acquire, SchLock!Reclaim
  <2>2. Owns'
    <3> SUFFICES ASSUME NEW q \in Proc, pc'[q] \in Locked PROVE OwnsItsLock(q)'
      BY DEF Owns
    <3>1. CASE q = p
      BY <1>3, <3>1 DEF OwnsItsLock, SchLock!Acquire, SchLock!Reclaim
    <3>2. CASE q # p
      <4>1. pc[q] \in Locked
        BY <1>3, <3>2 DEF Goto, IInv, TypeOK
      <4>2. OwnsItsLock(q)
        BY <4>1 DEF IInv, Owns
      <4> QED BY <1>3, <3>2, <4>2, SchemaFileAssumption
               DEF OwnsItsLock, SchLock!Acquire, SchLock!Reclaim
    <3> QED BY <3>1, <3>2
  <2> QED BY <1>1, <1>3, <2>1, <2>2, LockedStep DEF Label
<1>4. ASSUME cmd[p].op # "def", InxLock!Acquire(p) \/ InxLock!Reclaim(p),
             NEW l \in {"trunc", "append"}, Goto(p, l),
             UNCHANGED <<schowner, schlive, sch, dat, cmd, at, hd, chk>>
      PROVE  IInv'
  <2>1. InxLock!TypeOK' /\ SchLock!TypeOK'
    BY <1>4 DEF IInv, TypeOK, InxLock!TypeOK, SchLock!TypeOK, InxLock!Acquire, InxLock!Reclaim
  <2>2. Owns'
    <3> SUFFICES ASSUME NEW q \in Proc, pc'[q] \in Locked PROVE OwnsItsLock(q)'
      BY DEF Owns
    <3>1. CASE q = p
      BY <1>4, <3>1 DEF OwnsItsLock, InxLock!Acquire, InxLock!Reclaim
    <3>2. CASE q # p
      <4>1. pc[q] \in Locked
        BY <1>4, <3>2 DEF Goto, IInv, TypeOK
      <4>2. OwnsItsLock(q)
        BY <4>1 DEF IInv, Owns
      <4> QED BY <1>4, <3>2, <4>2, SchemaFileAssumption
               DEF OwnsItsLock, InxLock!Acquire, InxLock!Reclaim
    <3> QED BY <3>1, <3>2
  <2>3. l \in Label \ {"write"}
    BY DEF Label
  <2> QED BY <1>1, <1>4, <2>1, <2>2, <2>3, LockedStep
<1>5. UNCHANGED <<sch, dat>>
  BY DEF Lock
<1>6. CASE cmd[p].op = "def"
  BY <1>2, <1>3, <1>5, <1>6 DEF Lock
<1>7. CASE cmd[p].op # "def"
  <2>1. CASE /\ InxLock!Acquire(p) \/ InxLock!Reclaim(p)
             /\ Goto(p, IF SavesHeader(chk[p].code) THEN "trunc" ELSE "append")
             /\ UNCHANGED <<schowner, schlive, cmd, at, hd, chk>>
    <3>1. (IF SavesHeader(chk[p].code) THEN "trunc" ELSE "append") \in {"trunc", "append"}
      OBVIOUS
    <3> QED BY <1>4, <1>5, <1>7, <2>1, <3>1
  <2> QED BY <1>2, <1>7, <2>1 DEF Lock
<1> QED BY <1>6, <1>7

\* Two commands that hold the same lock are one.
LEMMA SameLock ==
  ASSUME IInv, NEW p \in Proc, NEW q \in Proc, pc[p] \in Locked, pc[q] \in Locked,
         cmd[q].op = cmd[p].op
  PROVE  q = p
BY DEF IInv, Owns, OwnsItsLock

\* A step of one that may write to the .sch file.
LEMMA WriterStep ==
  ASSUME IInv, NEW p \in Proc, pc[p] \in Locked, NEW l \in Locked, NEW o \in Nat,
         Becomes(p, l, cmd[p], o, hd[p], chk[p]), sch' \in Seq(Cells),
         UNCHANGED <<lockvars, dat>>, l = "write" => o < Size(hd[p])
  PROVE  IInv'
<1>1. pc[p] # "idle" /\ l \in Label
  BY DEF Locked, Label
<1>2. cmd[p] \in Command /\ hd[p] \in Seq(Field) /\ chk[p] \in CheckRecord
  BY <1>1, Kept
<1>3. /\ pc' \in [Proc -> Label] /\ cmd' \in [Proc -> Command \union {NoCommand}]
      /\ at' \in [Proc -> Nat] /\ hd' \in [Proc -> Seq(Field)] /\ Checks'
  BY <1>1, <1>2 DEF IInv, TypeOK, Checks, Becomes
<1>4. \A q \in Proc : chk'[q].rec \in Seq(Record)
  BY <1>3 DEF Checks, CheckRecord
<1>5. TypeOK'
  BY <1>3, <1>4 DEF IInv, TypeOK, InxLock!TypeOK, SchLock!TypeOK, lockvars
<1>6. Commanded' /\ Owns' /\ Within'
  <2>1. /\ pc'[p] = l /\ cmd'[p] = cmd[p] /\ at'[p] = o /\ hd'[p] = hd[p]
        /\ \A q \in Proc \ {p} : pc'[q] = pc[q] /\ cmd'[q] = cmd[q] /\ at'[q] = at[q] /\ hd'[q] = hd[q]
    BY BecameOf
  <2> QED BY <1>2, <2>1 DEF IInv, Commanded, Owns, OwnsItsLock, Within, lockvars
<1> QED BY <1>3, <1>5, <1>6 DEF IInv

LEMMA TruncInv ==
  ASSUME IInv, NEW p \in Proc, Trunc(p) PROVE IInv'
<1>1. PICK l \in {"unlock", "write"} : Goto(p, l)
  BY DEF Trunc
<1>2. Becomes(p, l, cmd[p], 0, hd[p], chk[p])
  BY <1>1, Kept DEF Trunc, Goto, Becomes
<1>3. 0 < Size(hd[p])
  BY Kept, FieldAt DEF Size
<1>4. /\ pc[p] \in Locked /\ l \in Locked /\ UNCHANGED <<lockvars, dat>>
      /\ sch' \in Seq(Cells)
  BY EmptySeq DEF Trunc, Locked
<1> QED BY <1>2, <1>3, <1>4, WriterStep

\* Where one write of write_header leads.
LEMMA WriteIs ==
  ASSUME IInv, NEW p \in Proc, WriteHeader(p)
  PROVE  /\ at[p] \in 0..Size(hd[p]) /\ at[p] # Size(hd[p]) /\ Size(hd[p]) \in Nat
         /\ at[p] + 1 \in 0..Size(hd[p])
         /\ \E l \in {"write", "unlock", "append"} :
               /\ Becomes(p, l, cmd[p], at[p] + 1, hd[p], chk[p])
               /\ l = "write" <=> at[p] + 1 # Size(hd[p])
               /\ l = "append" => cmd[p].op # "def"
<1>1. at[p] \in Nat /\ Size(hd[p]) \in Nat /\ at[p] < Size(hd[p])
  BY Kept, FieldAt DEF Size, WriteHeader, IInv, Within
<1>2. CASE at[p] + 1 = Size(hd[p])
  <2>1. PICK l \in {"unlock", "append"} : Goto(p, l) /\ (l = "append" => cmd[p].op # "def")
    BY <1>2 DEF WriteHeader, Saved
  <2>2. Becomes(p, l, cmd[p], at[p] + 1, hd[p], chk[p])
    BY <2>1, Kept DEF WriteHeader, Goto, Becomes
  <2> QED BY <1>1, <1>2, <2>1, <2>2
<1>3. CASE at[p] + 1 # Size(hd[p])
  <2>1. Becomes(p, "write", cmd[p], at[p] + 1, hd[p], chk[p])
    BY <1>3, Kept DEF WriteHeader, Becomes
  <2> QED BY <1>1, <1>3, <2>1
<1> QED BY <1>2, <1>3

LEMMA WriteHeaderInv ==
  ASSUME IInv, NEW p \in Proc, WriteHeader(p) PROVE IInv'
<1>1. PICK l \in {"write", "unlock", "append"} :
         /\ Becomes(p, l, cmd[p], at[p] + 1, hd[p], chk[p])
         /\ l = "write" <=> at[p] + 1 # Size(hd[p])
  BY WriteIs
<1>2. at[p] \in Nat /\ at[p] + 1 \in 0..Size(hd[p]) /\ Size(hd[p]) \in Nat /\ at[p] + 1 \in Nat
  BY WriteIs, Kept
<1>3. sch' \in Seq(Cells)
  <2>1. at[p] + 1 \in 1..Size(hd[p])
    BY <1>2
  <2>2. Cell(hd[p], at[p] + 1) \in Cells
    BY <2>1, Kept, CellIsCell
  <2> QED BY <1>2, <2>2, Kept, PutIsFile DEF WriteHeader
<1>4. /\ pc[p] \in Locked /\ l \in Locked /\ UNCHANGED <<lockvars, dat>>
      /\ (l = "write" => at[p] + 1 < Size(hd[p]))
  BY <1>1, <1>2 DEF WriteHeader, Locked
<1> DEFINE o == at[p] + 1
<1>5. o \in Nat /\ Becomes(p, l, cmd[p], o, hd[p], chk[p]) /\ (l = "write" => o < Size(hd[p]))
  BY <1>1, <1>2, <1>4
<1> HIDE DEF o
<1> QED BY <1>3, <1>4, <1>5, WriterStep

LEMMA AppendRecordInv ==
  ASSUME IInv, NEW p \in Proc, AppendRecord(p) PROVE IInv'
<1> DEFINE r == [fields |-> chk[p].rec, def |-> hd[p], code |-> chk[p].code,
                 in |-> cmd[p].in, mode |-> cmd[p].mode]
           R == [fields : Seq(Record), def : Seq(Field), code : Nat,
                 in : Seq(Field), mode : Modes]
<1>1. cmd[p] \in Command /\ chk[p] \in CheckRecord /\ hd[p] \in Seq(Field)
  BY Kept DEF AppendRecord
<1>2. r \in R
  BY <1>1, InputOfCommand DEF CheckRecord
<1>3. dat' = Append(dat, r)
  BY DEF AppendRecord
<1>4. dat \in Seq(R)
  BY DEF IInv, TypeOK
<1> HIDE DEF r, R
<1>5. dat' \in Seq(R)
  BY <1>2, <1>3, <1>4, AppendProperties
<1>6. pc' \in [Proc -> Label] /\ pc'[p] = "unlock" /\ \A q \in Proc : q # p => pc'[q] = pc[q]
  BY DEF AppendRecord, Goto, IInv, TypeOK, Label
<1>7. TypeOK'
  BY <1>5, <1>6 DEF AppendRecord, IInv, TypeOK, InxLock!TypeOK, SchLock!TypeOK, lockvars, R
<1>8. Checks' /\ Commanded' /\ Within'
  BY <1>1, <1>6 DEF AppendRecord, IInv, Checks, Commanded, Within
<1>9. Owns'
  BY <1>6 DEF AppendRecord, IInv, Owns, OwnsItsLock, lockvars, Locked
<1> QED BY <1>7, <1>8, <1>9 DEF IInv

LEMMA UnlockInv ==
  ASSUME IInv, NEW p \in Proc, Unlock(p) PROVE IInv'
<1>1. InxLock!TypeOK' /\ SchLock!TypeOK'
  BY DEF Unlock, IInv, TypeOK, InxLock!TypeOK, SchLock!TypeOK, InxLock!Release, SchLock!Release
<1>2. Becomes(p, "idle", NoCommand, 0, <<>>, Refused) /\ UNCHANGED <<sch, dat>>
  BY ExitIs DEF Unlock
<1>3. Owns'
  <2> SUFFICES ASSUME NEW q \in Proc, pc'[q] \in Locked PROVE OwnsItsLock(q)'
    BY DEF Owns
  <2>1. q # p
    BY <1>2, BecameOf DEF Locked
  <2>2. pc[q] = pc'[q] /\ cmd'[q] = cmd[q]
    BY <1>2, <2>1, BecameOf
  <2>3. OwnsItsLock(q)
    BY <2>2 DEF IInv, Owns
  <2> QED BY <2>1, <2>2, <2>3 DEF Unlock, OwnsItsLock, InxLock!Release, SchLock!Release
<1>4. "idle" \in Label \ {"write"}
  BY DEF Label
<1> QED BY <1>1, <1>2, <1>3, <1>4, RefusedIsCheck, MemoryStep

LEMMA KillInv ==
  ASSUME IInv, NEW p \in Proc, Kill(p) PROVE IInv'
<1>1. cmd[p] \in Command
  BY Kept DEF Kill
<1>2. ASSUME NEW q \in Proc, q # p, pc'[q] \in Locked
      PROVE  pc[q] \in Locked /\ cmd'[q] = cmd[q] /\ OwnsItsLock(q)
  <2>1. pc'[q] = pc[q] /\ cmd'[q] = cmd[q]
    BY <1>2 DEF Kill, Exit, Goto, IInv, TypeOK
  <2> QED BY <1>2, <2>1 DEF IInv, Owns
<1>3. pc'[p] \notin Locked
  BY DEF Kill, Exit, Goto, IInv, TypeOK, Locked
<1>4. InxLock!TypeOK' /\ SchLock!TypeOK'
  BY DEF Kill, IInv, TypeOK, InxLock!TypeOK, SchLock!TypeOK, lockvars,
         InxLock!Die, SchLock!Die, InxLock!Jam, SchLock!Jam
<1>5. Owns'
  <2> SUFFICES ASSUME NEW q \in Proc, pc'[q] \in Locked PROVE OwnsItsLock(q)'
    BY DEF Owns
  <2>1. q # p
    BY <1>3
  <2>2. OwnsItsLock(q) /\ cmd'[q] = cmd[q]
    BY <1>2, <2>1
  <2> QED BY <2>1, <2>2, SchemaFileAssumption
           DEF Kill, OwnsItsLock, lockvars, InxLock!Die, SchLock!Die, InxLock!Jam, SchLock!Jam
<1>6. UNCHANGED <<sch, dat>>
  BY DEF Kill
<1>7. CASE Goto(p, "dead") /\ UNCHANGED <<cmd, at, hd, chk>>
  <2>1. "dead" \in Label \ {"write"}
    BY DEF Label
  <2> QED BY <1>1, <1>4, <1>5, <1>6, <1>7, <2>1, LockedStep
<1>8. CASE Exit(p)
  <2>1. "idle" \in Label \ {"write"}
    BY DEF Label
  <2> QED BY <1>4, <1>5, <1>6, <1>8, <2>1, ExitIs, RefusedIsCheck, MemoryStep
<1> QED BY <1>7, <1>8 DEF Kill

LEMMA StutterInv == ASSUME IInv, UNCHANGED vars PROVE IInv'
<1>1. TypeOK'
  BY DEF vars, IInv, TypeOK, InxLock!TypeOK, SchLock!TypeOK
<1> QED BY <1>1 DEF vars, IInv, Checks, Commanded, Owns, OwnsItsLock, Within

LEMMA NextInv == IInv /\ [Next]_vars => IInv'
BY BeginInv, ReadNamesInv, ReadTypesInv, CheckAddedInv, CheckGivenInv, LockInv, TruncInv,
   WriteHeaderInv, AppendRecordInv, UnlockInv, KillInv, StutterInv DEF Next

LEMMA Invariant == Spec => []IInv
BY InitInv, NextInv, PTL DEF Spec

\* However commands on a definition overlap, of one kind or of both, read
\* half-written files, write over each other and are killed, what they hold in
\* memory and what they store are definitions and records (parse.c, read_header,
\* write_header).
THEOREM DefinitionsAreTyped == Spec => []TypeOK
<1>1. IInv => TypeOK
  BY DEF IInv
<1> QED BY <1>1, Invariant, PTL
-----------------------------------------------------------------------------
(* Rewrites that do not overlap: commands of one kind, which take one lock,  *)
(* or commands given one at a time.                                          *)

Disjoint == ~Overlap \/ Added = {} \/ Given = {}

Alone == ~Overlap => \A p, q \in Proc : Running(p) /\ Running(q) => p = q

\* The file holds a definition, or its beginning.
FileBegun == \E d \in Seq(Field) : \E k \in 0..Size(d) : sch = Begun(d, k)

WInv == Alone /\ HeaderOfWriter /\ FileBegun

\* A step of p changes the memory of no other command.
Others(p) == \A q \in Proc \ {p} : /\ pc'[q] = pc[q] /\ cmd'[q] = cmd[q] /\ at'[q] = at[q]
                                   /\ hd'[q] = hd[q] /\ chk'[q] = chk[q]

\* The steps that do not write to the file.
Quiet(p) == \/ ReadNames(p) \/ ReadTypes(p) \/ CheckAdded(p) \/ CheckGiven(p)
            \/ Lock(p) \/ AppendRecord(p) \/ Unlock(p) \/ Kill(p)

LEMMA OthersOfExit ==
  ASSUME IInv, NEW p \in Proc, Exit(p) PROVE Others(p) /\ pc'[p] = "idle"
BY ExitIs, BecameOf DEF Others

\* Where the steps of p lead.
LEMMA QuietIs ==
  ASSUME IInv, NEW p \in Proc, Quiet(p)
  PROVE  /\ Others(p) /\ UNCHANGED sch /\ Running(p)
         /\ \/ ReadNames(p) /\ pc'[p] = "types"
            \/ ReadTypes(p) /\ pc'[p] = "check"
            \/ (CheckAdded(p) \/ CheckGiven(p)) /\ pc'[p] = "lock"
            \/ Lock(p) /\ pc'[p] \in {"trunc", "append"}
            \/ AppendRecord(p) /\ pc'[p] = "unlock"
            \/ pc'[p] = "idle"
            \/ Kill(p) /\ pc'[p] = "dead"
<1>1. UNCHANGED sch /\ Running(p)
  BY DEF Quiet, ReadNames, ReadTypes, CheckAdded, CheckGiven, Lock, AppendRecord, Unlock, Kill,
         Running
<1>2. CASE Exit(p)
  BY <1>1, <1>2, OthersOfExit
<1>3. CASE ~Exit(p)
  <2>1. CASE ReadNames(p)
    BY <1>1, <1>3, <2>1 DEF ReadNames, Goto, IInv, TypeOK, Checks, Others
  <2>2. CASE ReadTypes(p)
    BY <1>1, <2>2 DEF ReadTypes, Goto, IInv, TypeOK, Checks, Others
  <2>3. CASE CheckAdded(p)
    BY <1>1, <1>3, <2>3 DEF CheckAdded, Goto, IInv, TypeOK, Checks, Others
  <2>4. CASE CheckGiven(p)
    BY <1>1, <1>3, <2>4 DEF CheckGiven, Goto, IInv, TypeOK, Checks, Others
  <2>5. CASE Lock(p)
    BY <1>1, <1>3, <2>5 DEF Lock, Goto, IInv, TypeOK, Checks, Others
  <2>6. CASE AppendRecord(p)
    BY <1>1, <2>6 DEF AppendRecord, Goto, IInv, TypeOK, Checks, Others
  <2>7. CASE Unlock(p)
    BY <1>3, <2>7 DEF Unlock
  <2>8. CASE Kill(p)
    BY <1>1, <1>3, <2>8 DEF Kill, Goto, IInv, TypeOK, Checks, Others
  <2> QED BY <2>1, <2>2, <2>3, <2>4, <2>5, <2>6, <2>7, <2>8 DEF Quiet
<1> QED BY <1>2, <1>3

LEMMA OneLocked ==
  ASSUME Disjoint, IInv, Alone, NEW p \in Proc, NEW q \in Proc, pc[p] \in Locked, pc[q] \in Locked
  PROVE  q = p
<1>1. CASE ~Overlap
  BY <1>1 DEF Alone, Running, Locked
<1>2. CASE Added = {} \/ Given = {}
  <2>1. cmd[p] \in Command /\ cmd[q] \in Command
    BY Kept DEF Locked
  <2>2. cmd[q].op = cmd[p].op
    BY <1>2, <2>1 DEF Command
  <2> QED BY <2>2, SameLock
<1> QED BY <1>1, <1>2 DEF Disjoint

LEMMA NothingBegun == ASSUME NEW d \in Seq(Field) PROVE Begun(d, 0) = <<>> /\ 0 \in 0..Size(d)
<1>1. 0 \in 0..Size(d)
  BY FieldAt DEF Size
<1> QED BY <1>1, BegunIs, EmptySeq

LEMMA InitWriter == Init => WInv
<1> SUFFICES ASSUME Init PROVE WInv
  OBVIOUS
<1>1. Base \in Seq(Field) /\ Size(Base) \in 0..Size(Base) /\ sch = Begun(Base, Size(Base))
  BY SchemaFileAssumption, FieldAt DEF Init, SavedAs, Size
<1> QED BY <1>1 DEF Init, WInv, Alone, HeaderOfWriter, FileBegun, Running

LEMMA QuietWriter ==
  ASSUME IInv, WInv, NEW p \in Proc, Quiet(p) PROVE WInv'
<1>1. Others(p) /\ UNCHANGED sch /\ Running(p) /\ pc'[p] # "write"
  BY QuietIs
<1> QED BY <1>1 DEF WInv, Alone, HeaderOfWriter, FileBegun, Running, Others

LEMMA BeginWriter ==
  ASSUME IInv, WInv, NEW p \in Proc, NEW c \in Command, Begin(p, c) PROVE WInv'
<1>1. pc'[p] = "read" /\ Others(p) /\ UNCHANGED sch
  <2>1. Becomes(p, "read", c, 0, <<>>, Refused)
    BY BeginIs
  <2> QED BY <2>1, BecameOf DEF Begin, Others
<1>2. Overlap \/ \A q \in Proc : ~Running(q)
  BY DEF Begin
<1> QED BY <1>1, <1>2 DEF WInv, Alone, HeaderOfWriter, FileBegun, Running, Others

LEMMA TruncIs ==
  ASSUME IInv, NEW p \in Proc, Trunc(p)
  PROVE  Others(p) /\ hd' = hd /\ at'[p] = 0 /\ sch' = Begun(hd[p], 0) /\ pc[p] \in Locked
         /\ pc'[p] = IF hd[p] = <<>> \/ hd[p][1].name = NoName THEN "unlock" ELSE "write"
<1>1. Begun(hd[p], 0) = <<>>
  BY Kept, NothingBegun
<1> QED BY <1>1 DEF Trunc, Goto, IInv, TypeOK, Others, Locked

LEMMA TruncWriter ==
  ASSUME Disjoint, IInv, WInv, NEW p \in Proc, Trunc(p) PROVE WInv'
<1>1. Others(p) /\ hd' = hd /\ at'[p] = 0 /\ sch' = Begun(hd[p], 0) /\ pc[p] \in Locked
      /\ pc'[p] \in {"unlock", "write"}
  BY TruncIs
<1>2. \A q \in Proc \ {p} : pc'[q] # "write"
  BY <1>1, OneLocked DEF WInv, Others, Locked
<1>3. Alone'
  BY <1>1 DEF WInv, Alone, Others, Running, Locked
<1>4. HeaderOfWriter' /\ FileBegun'
  BY <1>1, <1>2, Kept, NothingBegun DEF HeaderOfWriter, FileBegun
<1> QED BY <1>3, <1>4 DEF WInv

\* A write where nobody else has written since.
LEMMA WriteOn ==
  ASSUME IInv, WInv, NEW p \in Proc, WriteHeader(p)
  PROVE  sch = Begun(hd[p], at[p]) /\ sch' = Begun(hd[p], at[p] + 1)
<1>1. sch = Begun(hd[p], at[p]) /\ sch' = Put(sch, at[p], Cell(hd[p], at[p] + 1))
  BY DEF WInv, HeaderOfWriter, WriteHeader
<1> QED BY <1>1, WriteIs, Kept, PutGoesOn

LEMMA WriteOthers ==
  ASSUME IInv, NEW p \in Proc, WriteHeader(p)
  PROVE  /\ Others(p) /\ hd'[p] = hd[p] /\ at'[p] = at[p] + 1 /\ cmd'[p] = cmd[p]
         /\ pc'[p] \in {"write", "unlock", "append"}
         /\ pc'[p] = "write" <=> at[p] + 1 # Size(hd[p])
<1>1. PICK l \in {"write", "unlock", "append"} :
         /\ Becomes(p, l, cmd[p], at[p] + 1, hd[p], chk[p])
         /\ l = "write" <=> at[p] + 1 # Size(hd[p])
  BY WriteIs
<1>2. /\ pc'[p] = l /\ cmd'[p] = cmd[p] /\ at'[p] = at[p] + 1 /\ hd'[p] = hd[p] /\ Others(p)
  BY <1>1, BecameOf DEF Others
<1> QED BY <1>1, <1>2

LEMMA WriteHeaderWriter ==
  ASSUME Disjoint, IInv, WInv, NEW p \in Proc, WriteHeader(p) PROVE WInv'
<1>1. /\ Others(p) /\ hd'[p] = hd[p] /\ at'[p] = at[p] + 1
      /\ pc'[p] \in {"write", "unlock", "append"} /\ pc[p] = "write"
  BY WriteOthers DEF WriteHeader
<1>2. sch' = Begun(hd[p], at[p] + 1)
  BY WriteOn
<1>3. \A q \in Proc \ {p} : pc'[q] # "write"
  BY <1>1, OneLocked DEF WInv, Others, Locked
<1>4. Alone'
  BY <1>1 DEF WInv, Alone, Others, Running
<1>5. HeaderOfWriter'
  BY <1>1, <1>2, <1>3 DEF HeaderOfWriter
<1>6. FileBegun'
  BY <1>2, WriteIs, Kept DEF FileBegun
<1> QED BY <1>4, <1>5, <1>6 DEF WInv

LEMMA NextWriter == Disjoint /\ IInv /\ WInv /\ [Next]_vars => WInv'
<1> SUFFICES ASSUME Disjoint, IInv, WInv, [Next]_vars PROVE WInv'
  OBVIOUS
<1>1. CASE UNCHANGED vars
  BY <1>1 DEF vars, WInv, Alone, HeaderOfWriter, FileBegun, Running
<1>2. ASSUME NEW p \in Proc, Quiet(p) PROVE WInv'
  BY <1>2, QuietWriter
<1>3. ASSUME NEW p \in Proc, NEW c \in Command, Begin(p, c) PROVE WInv'
  BY <1>3, BeginWriter
<1>4. ASSUME NEW p \in Proc, Trunc(p) \/ WriteHeader(p) PROVE WInv'
  BY <1>4, TruncWriter, WriteHeaderWriter
<1> QED BY <1>1, <1>2, <1>3, <1>4 DEF Next, Quiet

LEMMA WriterInvariant == Disjoint /\ Spec => []WInv
<1> SUFFICES ASSUME Disjoint PROVE Spec => []WInv
  OBVIOUS
<1>1. IInv /\ WInv /\ [Next]_vars => WInv'
  BY NextWriter
<1> QED BY <1>1, InitWriter, Invariant, PTL DEF Spec

\* Commands of one kind, however many overlap, and commands of both given one at
\* a time never write into each other's definition, killed or not and whoever gets
\* a killed one's pid: the lock is taken before the file is truncated and kept
\* until it is written (write_header; crud.c:214-228, main.c:754-783).
THEOREM WriterOwnsHeader == Disjoint /\ Spec => []HeaderOfWriter
<1> SUFFICES ASSUME Disjoint PROVE Spec => []HeaderOfWriter
  OBVIOUS
<1>1. WInv => HeaderOfWriter
  BY DEF WInv
<1> QED BY <1>1, WriterInvariant, PTL
-----------------------------------------------------------------------------
(* What read_header makes of a definition or its beginning.                  *)

LEMMA ReadBegun ==
  ASSUME NEW d \in Seq(Field), NEW k \in 0..Size(d), NEW f, f = Begun(d, k)
  PROVE  /\ CountIn(f) = IF k >= 3 THEN Len(d) ELSE 0
         /\ NamesInPlace(f) /\ Len(f) = k /\ Len(d) \in Nat
         /\ \A i \in 1..CountIn(f) :
               /\ i \in 1..Len(d)
               /\ NameAt(f, NamesEnd(i)) = IF NamesEnd(i) <= k THEN d[i].name ELSE NoName
         /\ k >= 2 => IsHeader(f)
<1>1. /\ Len(f) = k /\ k \in Nat /\ Len(d) \in Nat /\ Size(d) = 3 + 3 * Len(d)
      /\ \A i \in 1..k : f[i] = Cell(d, i)
  BY BegunIs, FieldAt
<1>2. CountIn(f) = IF k >= 3 THEN Len(d) ELSE 0
  <2>1. CASE k >= 3
    <3>1. f[3] = Count(Len(d))
      BY <1>1, <2>1, CellsOf
    <3>2. f[3].is = "count" /\ f[3].of = Len(d)
      BY <3>1 DEF Count
    <3> QED BY <1>1, <2>1, <3>2 DEF CountIn
  <2>2. CASE ~(k >= 3)
    BY <1>1, <2>2 DEF CountIn
  <2> QED BY <2>1, <2>2
<1>3. \A i \in 1..CountIn(f) : i \in 1..Len(d)
  BY <1>1, <1>2
<1>4. ASSUME NEW i \in 1..CountIn(f)
      PROVE  /\ InPlace(f, NamesEnd(i) - 1, "length") /\ InPlace(f, NamesEnd(i), "name")
             /\ NameAt(f, NamesEnd(i)) = IF NamesEnd(i) <= k THEN d[i].name ELSE NoName
  <2>1. i \in 1..Len(d) /\ NamesEnd(i) \in Nat /\ NamesEnd(i) - 1 \in Nat /\ NamesEnd(i) - 1 >= 1
    BY <1>1, <1>3, <1>4 DEF NamesEnd
  <2>2. Cell(d, NamesEnd(i) - 1) = Length /\ Cell(d, NamesEnd(i)) = NameCell(d[i].name)
    BY <2>1, CellsOf
  <2> DEFINE e == NamesEnd(i)
  <2> HIDE DEF e
  <2>3. e - 1 <= k => f[e - 1].is = "length"
    <3> SUFFICES ASSUME e - 1 <= k PROVE f[e - 1].is = "length"
      OBVIOUS
    <3>1. f[e - 1] = Length
      BY <1>1, <2>1, <2>2 DEF e
    <3> QED BY <3>1 DEF Length
  <2>4. e <= k => f[e].is = "name" /\ f[e].of = d[i].name
    <3> SUFFICES ASSUME e <= k PROVE f[e].is = "name" /\ f[e].of = d[i].name
      OBVIOUS
    <3>1. f[e] = NameCell(d[i].name)
      BY <1>1, <2>1, <2>2 DEF e
    <3> QED BY <3>1 DEF NameCell
  <2> QED BY <1>1, <2>3, <2>4 DEF InPlace, NameAt, e
<1>5. NamesInPlace(f)
  BY <1>4 DEF NamesInPlace
<1>6. k >= 2 => IsHeader(f)
  BY <1>1, CellsOf DEF IsHeader
<1> QED BY <1>1, <1>2, <1>3, <1>4, <1>5, <1>6

\* What ReadNames then leaves in memory.
LEMMA NamesRead ==
  ASSUME IInv, NEW p \in Proc, ReadNames(p), ~Exit(p),
         NEW d \in Seq(Field), NEW k \in 0..Size(d), sch = Begun(d, k)
  PROVE  /\ at'[p] = Min({NamesEnd(CountIn(sch)), k})
         /\ Len(hd'[p]) = CountIn(sch)
         /\ \A i \in 1..CountIn(sch) :
               /\ i \in 1..Len(d)
               /\ hd'[p][i].name = IF NamesEnd(i) <= k THEN d[i].name ELSE NoName
<1> DEFINE n == CountIn(sch)
           e == [i \in 1..n |-> [name |-> NameAt(sch, NamesEnd(i)), type |-> NoType]]
<1>1. /\ NamesInPlace(sch) /\ n \in Nat /\ Len(sch) = k
      /\ \A i \in 1..n : /\ i \in 1..Len(d)
                         /\ NameAt(sch, NamesEnd(i)) = IF NamesEnd(i) <= k THEN d[i].name ELSE NoName
  BY ReadBegun
<1>2. hd' = [hd EXCEPT ![p] = e] /\ at' = [at EXCEPT ![p] = Min({NamesEnd(n), Len(sch)})]
  <2> DEFINE names == [i \in 1..n |-> NameAt(sch, NamesEnd(i))]
             After(f) == hd' = [hd EXCEPT ![p] = [i \in 1..n |-> [name |-> f[i], type |-> NoType]]]
             There(o) == at' = [at EXCEPT ![p] = o]
  <2>1. /\ \E f \in {names} : After(f)
        /\ \E o \in {Min({NamesEnd(n), Len(sch)})} : There(o)
    BY <1>1 DEF ReadNames
  <2>2. After(names) /\ There(Min({NamesEnd(n), Len(sch)}))
    BY <2>1
  <2>3. [i \in 1..n |-> [name |-> names[i], type |-> NoType]] = e
    OBVIOUS
  <2> QED BY <2>2, <2>3
<1>3. hd'[p] = e /\ at'[p] = Min({NamesEnd(n), k})
  BY <1>1, <1>2 DEF IInv, TypeOK
<1>4. Len(e) = n
  <2>1. e \in [1..n -> {e[i] : i \in 1..n}]
    OBVIOUS
  <2> HIDE DEF e, n
  <2> QED BY <1>1, <2>1, SeqOfFunction
<1>5. \A i \in 1..n : e[i].name = NameAt(sch, NamesEnd(i))
  OBVIOUS
<1> HIDE DEF e, n
<1> QED BY <1>1, <1>3, <1>4, <1>5 DEF n

-----------------------------------------------------------------------------
(* Commands given one at a time, of one kind once one was killed, on a file    *)
(* created with a definition.  (With Overlap or AfterKill ImplementsDefinition *)
(* is false: others may lose the definition.)                                  *)

Named(d) == d # <<>> /\ d[1].name # NoName

Careful == ~Overlap /\ ~AfterKill /\ ~PidReuse /\ Named(Base)

LiveOwner ==
    \A p \in Proc : /\ inxowner = p /\ inxlive => pc[p] \in Locked /\ cmd[p].op # "def"
                    /\ schowner = p /\ schlive => pc[p] \in Locked /\ cmd[p].op = "def"

\* A command killed with its lock keeps it.
DeadOwns ==
    \A p \in Proc : pc[p] = "dead" => IF cmd[p].op = "def" THEN schowner = p ELSE inxowner = p

OneKind ==
    \A p, q \in Proc : pc[p] = "dead" /\ pc[q] # "idle" => cmd[q].op = cmd[p].op

AInv == LiveOwner /\ DeadOwns /\ OneKind

LEMMA InitAlive == Init => AInv
<1>1. ASSUME Init PROVE AInv
  BY <1>1, SchemaFileAssumption DEF Init, AInv, LiveOwner, DeadOwns, OneKind,
     InxLock!Init, SchLock!Init
<1> QED BY <1>1

LEMMA DeadKept ==
  ASSUME IInv, AInv, NEW p \in Proc, Others(p), UNCHANGED lockvars, pc[p] \notin Locked,
         pc'[p] \notin Locked \union {"dead"},
         pc'[p] # "idle" => /\ \A q \in Proc : pc[q] = "dead" /\ q # p => cmd[q].op = cmd'[p].op
  PROVE  AInv'
<1>1. LiveOwner' /\ DeadOwns'
  BY DEF AInv, LiveOwner, DeadOwns, Others, lockvars
<1>2. OneKind'
  BY DEF AInv, OneKind, Others
<1> QED BY <1>1, <1>2 DEF AInv

LEMMA NextAlive ==
  ASSUME Careful, IInv, WInv, AInv, [Next]_vars PROVE AInv'
<1>1. CASE UNCHANGED vars
  BY <1>1 DEF vars, AInv, LiveOwner, DeadOwns, OneKind
<1>2. ASSUME NEW p \in Proc, NEW c \in Command, Begin(p, c) PROVE AInv'
  <2>1. Becomes(p, "read", c, 0, <<>>, Refused)
    BY <1>2, BeginIs
  <2>2. Others(p) /\ pc'[p] = "read" /\ cmd'[p] = c
    BY <2>1, BecameOf DEF Others
  <2>3. /\ UNCHANGED lockvars /\ pc[p] \in {"idle", "dead"}
        /\ \A q \in Proc : pc[q] = "dead" => cmd[q].op = c.op
    BY <1>2 DEF Begin, Careful
  <2> QED BY <2>2, <2>3, DeadKept DEF Locked
<1>3. ASSUME NEW p \in Proc,
             ReadNames(p) \/ ReadTypes(p) \/ CheckAdded(p) \/ CheckGiven(p)
      PROVE  AInv'
  <2>1. Quiet(p) /\ pc[p] \notin Locked \union {"idle"} /\ UNCHANGED lockvars
    BY <1>3 DEF Quiet, ReadNames, ReadTypes, CheckAdded, CheckGiven, Locked
  <2>2. Others(p) /\ pc'[p] \in {"types", "check", "lock", "idle"}
    <3>1. Others(p)
      BY <2>1, QuietIs
    <3>2. CASE Exit(p)
      BY <3>2, OthersOfExit
    <3>3. CASE ~Exit(p)
      <4>1. \E l \in {"types", "check", "lock"} : Goto(p, l)
        <5>1. CASE ReadNames(p)
          BY <3>3, <5>1 DEF ReadNames
        <5>2. CASE ReadTypes(p)
          BY <5>2 DEF ReadTypes
        <5>3. CASE CheckAdded(p)
          BY <3>3, <5>3 DEF CheckAdded
        <5>4. CASE CheckGiven(p)
          BY <3>3, <5>4 DEF CheckGiven
        <5> QED BY <1>3, <5>1, <5>2, <5>3, <5>4
      <4>2. PICK l \in {"types", "check", "lock"} : Goto(p, l)
        BY <4>1
      <4>3. pc'[p] = l
        BY <4>2 DEF Goto, IInv, TypeOK
      <4> QED BY <3>1, <4>3
    <3> QED BY <3>1, <3>2, <3>3
  <2>3. pc'[p] # "idle" => cmd'[p] = cmd[p]
    <3>1. CASE Exit(p)
      BY <3>1, OthersOfExit
    <3>2. CASE ~Exit(p)
      BY <1>3, <3>2 DEF ReadNames, ReadTypes, CheckAdded, CheckGiven
    <3> QED BY <3>1, <3>2
  <2>4. \A q \in Proc : pc[q] = "dead" => cmd[q].op = cmd[p].op
    BY <2>1 DEF AInv, OneKind
  <2> QED BY <2>1, <2>2, <2>3, <2>4, DeadKept DEF Locked
<1>4. ASSUME NEW p \in Proc, Lock(p) PROVE AInv'
  <2>0. pc[p] = "lock" /\ cmd[p].op \in {"def", "put"}
    BY <1>4, Kept, InputOfCommand DEF Lock
  <2>1. CASE Exit(p)
    <3>1. Others(p) /\ pc'[p] = "idle"
      BY <2>1, OthersOfExit
    <3>2. UNCHANGED lockvars
      BY <1>4, <2>0, <2>1, <3>1 DEF Lock, Exit, Goto, IInv, TypeOK
    <3> QED BY <2>0, <3>1, <3>2, DeadKept DEF Locked
  <2>2. CASE ~Exit(p)
    <3>1. Others(p) /\ pc'[p] \in {"trunc", "append"} /\ cmd' = cmd
      BY <1>4, <2>2 DEF Lock, Goto, IInv, TypeOK, Checks, Others
    <3>2. OneKind'
      BY <2>0, <3>1 DEF AInv, OneKind, Others
    <3>3. CASE cmd[p].op = "def"
      <4>1. (SchLock!Acquire(p) \/ SchLock!Reclaim(p)) /\ UNCHANGED <<inxowner, inxlive>>
        BY <1>4, <2>2, <3>3 DEF Lock
      <4>2. LiveOwner' /\ DeadOwns'
        BY <2>0, <3>1, <3>3, <4>1, SchemaFileAssumption
           DEF AInv, LiveOwner, DeadOwns, Others, SchLock!Acquire, SchLock!Reclaim, Locked
      <4> QED BY <3>2, <4>2 DEF AInv
    <3>4. CASE cmd[p].op # "def"
      <4>1. (InxLock!Acquire(p) \/ InxLock!Reclaim(p)) /\ UNCHANGED <<schowner, schlive>>
        BY <1>4, <2>2, <3>4 DEF Lock
      <4>2. LiveOwner' /\ DeadOwns'
        BY <2>0, <3>1, <3>4, <4>1, SchemaFileAssumption
           DEF AInv, LiveOwner, DeadOwns, Others, InxLock!Acquire, InxLock!Reclaim, Locked
      <4> QED BY <3>2, <4>2 DEF AInv
    <3> QED BY <3>3, <3>4
  <2> QED BY <2>1, <2>2
<1>5. ASSUME NEW p \in Proc, Trunc(p) \/ WriteHeader(p) \/ AppendRecord(p) PROVE AInv'
  <2>1. Others(p) /\ pc[p] \in Locked /\ pc'[p] \in Locked /\ cmd'[p] = cmd[p] /\ UNCHANGED lockvars
    <3>1. CASE Trunc(p)
      BY <3>1, TruncIs DEF Trunc, Locked
    <3>2. CASE WriteHeader(p)
      BY <3>2, WriteOthers DEF WriteHeader, Locked
    <3>3. CASE AppendRecord(p)
      BY <3>3 DEF AppendRecord, Goto, IInv, TypeOK, Checks, Others, Locked
    <3> QED BY <1>5, <3>1, <3>2, <3>3
  <2>2. \A q \in Proc : pc'[q] = "dead" => pc[q] = "dead" /\ cmd'[q] = cmd[q] /\ q # p
    BY <2>1 DEF Others, Locked
  <2>3. LiveOwner' /\ DeadOwns'
    BY <2>1, <2>2 DEF AInv, LiveOwner, DeadOwns, Others, lockvars
  <2>4. OneKind'
    BY <2>1, <2>2 DEF AInv, OneKind, Others, Locked
  <2> QED BY <2>3, <2>4 DEF AInv
<1>6. ASSUME NEW p \in Proc, Unlock(p) PROVE AInv'
  <2>1. Others(p) /\ pc'[p] = "idle" /\ pc[p] = "unlock"
    BY <1>6, OthersOfExit DEF Unlock
  <2>2. LiveOwner' /\ DeadOwns'
    BY <1>6, <2>1, SchemaFileAssumption
       DEF Unlock, AInv, LiveOwner, DeadOwns, Others, SchLock!Release, InxLock!Release
  <2>3. OneKind'
    BY <2>1 DEF AInv, OneKind, Others
  <2> QED BY <2>2, <2>3 DEF AInv
<1>7. ASSUME NEW p \in Proc, Kill(p) PROVE AInv'
  <2>1. Running(p) /\ Others(p) /\ cmd[p] \in Command
    BY <1>7, QuietIs, Kept DEF Kill, Running, Quiet
  <2>2. CASE ~(inxowner = p /\ inxlive) /\ ~(schowner = p /\ schlive)
    <3>1. Exit(p) /\ (UNCHANGED lockvars
                      \/ (InxLock!Jam /\ UNCHANGED <<schowner, schlive>>)
                      \/ (SchLock!Jam /\ UNCHANGED <<inxowner, inxlive>>))
      BY <1>7, <2>2 DEF Kill
    <3>2. pc'[p] = "idle"
      BY <3>1, OthersOfExit
    <3>3. LiveOwner' /\ DeadOwns'
      BY <2>1, <2>2, <3>1, <3>2, SchemaFileAssumption
         DEF AInv, LiveOwner, DeadOwns, Others, InxLock!Jam, SchLock!Jam, lockvars
    <3>4. OneKind'
      BY <2>1, <3>2 DEF AInv, OneKind, Others
    <3> QED BY <3>3, <3>4 DEF AInv
  <2>3. CASE (inxowner = p /\ inxlive) \/ (schowner = p /\ schlive)
    <3>1. /\ \/ inxowner = p /\ InxLock!Die(p) /\ UNCHANGED <<schowner, schlive>>
             \/ schowner = p /\ SchLock!Die(p) /\ UNCHANGED <<inxowner, inxlive>>
          /\ Goto(p, "dead") /\ UNCHANGED cmd
      BY <1>7, <2>3 DEF Kill
    <3>2. pc'[p] = "dead"
      BY <3>1 DEF Goto, IInv, TypeOK
    <3>3. LiveOwner' /\ DeadOwns'
      BY <2>1, <3>1, <3>2, SchemaFileAssumption
         DEF AInv, LiveOwner, DeadOwns, Others, InxLock!Die, SchLock!Die
    <3>4. OneKind'
      <4>1. \A q \in Proc : q # p => ~Running(q)
        BY <2>1 DEF WInv, Alone, Careful
      <4> QED BY <2>1, <3>1, <3>2, <4>1 DEF AInv, OneKind, Others, Running
    <3> QED BY <3>3, <3>4 DEF AInv
  <2> QED BY <2>2, <2>3
<1> QED BY <1>1, <1>2, <1>3, <1>4, <1>5, <1>6, <1>7 DEF Next
-----------------------------------------------------------------------------
(* Such commands only add to the definition.                                 *)

LEMMA AliveInvariant == Careful /\ Spec => []AInv
<1> SUFFICES ASSUME Careful PROVE Spec => []AInv
  OBVIOUS
<1>1. IInv /\ WInv /\ AInv /\ [Next]_vars => AInv'
  BY NextAlive
<1>2. Disjoint
  BY DEF Careful, Disjoint
<1> QED BY <1>1, <1>2, InitAlive, Invariant, WriterInvariant, PTL DEF Spec

\* Once a command was killed with its lock, no other gets there.
LEMMA DeadAlone ==
  ASSUME Careful, IInv, WInv, AInv, NEW p \in Proc, NEW q \in Proc,
         pc[p] \in {"write", "dead"}, pc[q] \in Locked \union {"dead"}
  PROVE  q = p
<1>1. ASSUME NEW r \in Proc, NEW s \in Proc, pc[r] = "dead", pc[s] \in Locked \union {"dead"}
      PROVE  s = r
  <2>1. cmd[s].op = cmd[r].op
    BY <1>1 DEF AInv, OneKind, Locked
  <2>2. IF cmd[r].op = "def" THEN schowner = r ELSE inxowner = r
    BY <1>1 DEF AInv, DeadOwns
  <2>3. IF cmd[s].op = "def" THEN schowner = s ELSE inxowner = s
    BY <1>1 DEF AInv, DeadOwns, IInv, Owns, OwnsItsLock
  <2> QED BY <2>1, <2>2, <2>3
<1>2. CASE pc[p] = "dead"
  BY <1>1, <1>2
<1>3. CASE pc[p] = "write" /\ pc[q] = "dead"
  BY <1>1, <1>3 DEF Locked
<1>4. CASE pc[p] = "write" /\ pc[q] \in Locked
  <2>1. Disjoint /\ Alone
    BY DEF Careful, Disjoint, WInv
  <2> QED BY <1>4, <2>1, OneLocked DEF Locked
<1> QED BY <1>2, <1>3, <1>4

\* What a whole file holds.
LEMMA WholeIs ==
  ASSUME FileBegun, Whole(sch)
  PROVE  DefOf(sch) \in Seq(Field) /\ sch = SavedAs(DefOf(sch))
<1>1. PICK d \in Seq(Field) : \E k \in 0..Size(d) : sch = Begun(d, k)
  BY DEF FileBegun
<1>2. PICK k \in 0..Size(d) : sch = Begun(d, k)
  BY <1>1
<1>3. k = Size(d)
  BY <1>2, BegunIsTorn
<1> QED BY <1>2, <1>3, SavedIsWhole DEF SavedAs

\* A command at l, which has read up to the offset o and holds d, when the file
\* holds f.
SoloAt(l, o, d, f) ==
    /\ l = "types" => /\ Len(d) = Len(f) /\ o = NamesEnd(Len(f))
                      /\ \A i \in 1..Len(f) : d[i].name = f[i].name
    /\ l = "check" => d = f
    /\ l \in {"lock", "trunc"} => Definition!Extends(d, f)

Writing(w) == pc[w] \in {"write", "dead"} /\ Named(hd[w])

SoloInv ==
    /\ Whole(sch) => /\ Named(DefOf(sch))
                     /\ \A p \in Proc : SoloAt(pc[p], at[p], hd[p], DefOf(sch))
    /\ ~Whole(sch) => \E w \in Proc : Writing(w)

\* The definition while it is being written.
LEMMA DefWhile ==
  ASSUME ~Whole(sch), NEW w \in Proc, Writing(w),
         \A q \in Proc : pc[q] \in {"write", "dead"} => q = w
  PROVE  Def = hd[w]
<1>1. {p \in Proc : pc[p] = "write" \/ (pc[p] = "dead" /\ hd[p] # <<>>)} = {w}
  BY DEF Writing, Named
<1> QED BY <1>1 DEF Def

LEMMA DefWhileNext ==
  ASSUME ~Whole(sch)', NEW w \in Proc, Writing(w)',
         \A q \in Proc : pc'[q] \in {"write", "dead"} => q = w
  PROVE  Def' = hd'[w]
<1>1. {p \in Proc : pc'[p] = "write" \/ (pc'[p] = "dead" /\ hd'[p] # <<>>)} = {w}
  BY DEF Writing, Named
<1> QED BY <1>1 DEF Def

LEMMA DefIs ==
  ASSUME Careful, IInv, WInv, AInv, ~Whole(sch), NEW w \in Proc, Writing(w)
  PROVE  Def = hd[w] /\ \A q \in Proc : pc[q] \in Locked \union {"dead"} => q = w
<1>1. \A q \in Proc : pc[q] \in Locked \union {"dead"} => q = w
  BY DeadAlone DEF Writing
<1>2. \A q \in Proc : pc[q] \in {"write", "dead"} => q = w
  BY <1>1 DEF Locked
<1> QED BY <1>1, <1>2, DefWhile

LEMMA NothingKept ==
  ASSUME UNCHANGED sch, Whole(sch)
  PROVE  UNCHANGED Definition!vars /\ Whole(sch)' /\ DefOf(sch)' = DefOf(sch)
<1>1. Whole(sch)' /\ DefOf(sch)' = DefOf(sch)
  BY DEF Whole, DefOf
<1> QED BY <1>1 DEF Definition!vars, Def

\* A step of p that writes nothing, when the file is whole.
LEMMA WholeStep ==
  ASSUME NEW p \in Proc, Others(p), UNCHANGED sch, SoloInv, Whole(sch),
         SoloAt(pc'[p], at'[p], hd'[p], DefOf(sch))
  PROVE  SoloInv' /\ UNCHANGED Definition!vars
<1>1. UNCHANGED Definition!vars /\ Whole(sch)' /\ DefOf(sch)' = DefOf(sch)
  BY NothingKept
<1>2. Named(DefOf(sch)) /\ \A q \in Proc : SoloAt(pc[q], at[q], hd[q], DefOf(sch))
  BY DEF SoloInv
<1>3. \A q \in Proc : SoloAt(pc'[q], at'[q], hd'[q], DefOf(sch))
  <2> TAKE q \in Proc
  <2>1. CASE q = p
    BY <2>1
  <2>2. CASE q # p
    <3>1. pc'[q] = pc[q] /\ at'[q] = at[q] /\ hd'[q] = hd[q]
      BY <2>2 DEF Others
    <3> QED BY <1>2, <3>1
  <2> QED BY <2>1, <2>2
<1> DEFINE d == DefOf(sch)
<1>4. d' = d
  BY <1>1
<1>5. Named(d') /\ \A q \in Proc : SoloAt(pc'[q], at'[q], hd'[q], d')
  <2>1. Named(d) /\ \A q \in Proc : SoloAt(pc'[q], at'[q], hd'[q], d)
    BY <1>2, <1>3
  <2> HIDE DEF d
  <2> QED BY <1>4, <2>1
<1> HIDE DEF d
<1>6. Named(d)' /\ \A q \in Proc : SoloAt(pc[q], at[q], hd[q], d)'
  BY <1>5 DEF SoloAt, Named, Definition!Extends
<1> QED BY <1>1, <1>6 DEF SoloInv, d

\* And when it is not: w wrote it last.
LEMMA TornStep ==
  ASSUME Careful, IInv, WInv, AInv, ~Whole(sch), UNCHANGED sch,
         NEW w \in Proc, Writing(w), pc'[w] \in {"write", "dead"}, hd'[w] = hd[w],
         \A q \in Proc : pc'[q] \in {"write", "dead"} => q = w
  PROVE  SoloInv' /\ UNCHANGED Definition!vars
<1>1. ~Whole(sch)' /\ Writing(w)'
  BY DEF Whole, Writing, Named
<1>2. Def = hd[w] /\ Def' = hd'[w]
  BY <1>1, DefIs, DefWhileNext
<1>3. SoloInv'
  BY <1>1 DEF SoloInv
<1> QED BY <1>1, <1>2, <1>3 DEF Definition!vars

\* Where p goes when the file is not whole.
LEMMA QuietTorn ==
  ASSUME Careful, IInv, WInv, AInv, ~Whole(sch), SoloInv, NEW p \in Proc, Quiet(p)
  PROVE  SoloInv' /\ UNCHANGED Definition!vars
<1>1. PICK w \in Proc : Writing(w)
  BY DEF SoloInv
<1>2. Others(p) /\ UNCHANGED sch /\ Running(p) /\ pc'[p] # "write"
      /\ (pc'[p] = "dead" => Kill(p))
  BY QuietIs
<1>3. \A q \in Proc : pc[q] \in Locked \union {"dead"} => q = w
  BY <1>1, DefIs
<1>4. CASE p = w
  <2>1. pc[p] = "write"
    BY <1>1, <1>2, <1>4 DEF Writing, Running
  <2>2. Kill(p) /\ OwnsItsLock(p)
    BY <2>1 DEF Quiet, ReadNames, ReadTypes, CheckAdded, CheckGiven, Lock, AppendRecord, Unlock,
                IInv, Owns, Locked
  <2>3. Goto(p, "dead") /\ hd' = hd
    BY <2>2 DEF Kill, OwnsItsLock
  <2>4. pc'[w] = "dead" /\ hd'[w] = hd[w]
    BY <1>4, <2>3 DEF Goto, IInv, TypeOK
  <2>5. \A q \in Proc : pc'[q] \in {"write", "dead"} => q = w
    BY <1>2, <1>3, <1>4 DEF Others, Locked
  <2> QED BY <1>1, <1>2, <2>4, <2>5, TornStep
<1>5. CASE p # w
  <2>1. pc'[w] = pc[w] /\ hd'[w] = hd[w] /\ pc[w] \in {"write", "dead"}
    BY <1>1, <1>2, <1>5 DEF Others, Writing
  <2>2. pc'[p] # "dead"
    <3> SUFFICES ASSUME pc'[p] = "dead" PROVE FALSE
      OBVIOUS
    <3>1. Kill(p) /\ ~Exit(p)
      BY <1>2, OthersOfExit
    <3>2. (inxowner = p /\ inxlive) \/ (schowner = p /\ schlive)
      BY <3>1 DEF Kill
    <3>3. pc[p] \in Locked
      BY <3>2 DEF AInv, LiveOwner
    <3> QED BY <1>3, <1>5, <3>3
  <2>3. \A q \in Proc : pc'[q] \in {"write", "dead"} => q = w
    BY <1>2, <1>3, <2>2 DEF Others, Locked
  <2> QED BY <1>1, <1>2, <2>1, <2>3, TornStep
<1> QED BY <1>4, <1>5

LEMMA SoloBegin ==
  ASSUME Careful, IInv, WInv, AInv, SoloInv, NEW p \in Proc, NEW c \in Command, Begin(p, c)
  PROVE  SoloInv' /\ UNCHANGED Definition!vars
<1>1. Others(p) /\ pc'[p] = "read" /\ UNCHANGED sch
  <2>1. Becomes(p, "read", c, 0, <<>>, Refused)
    BY BeginIs
  <2> QED BY <2>1, BecameOf DEF Begin, Others
<1>2. CASE Whole(sch)
  BY <1>1, <1>2, WholeStep DEF SoloAt
<1>3. CASE ~Whole(sch)
  <2>1. PICK w \in Proc : Writing(w)
    BY <1>3 DEF SoloInv
  <2>2. pc[p] = "idle" /\ p # w
    BY <2>1 DEF Begin, Careful, Writing
  <2>3. pc'[w] = pc[w] /\ hd'[w] = hd[w] /\ pc[w] \in {"write", "dead"}
    BY <1>1, <2>1, <2>2 DEF Others, Writing
  <2>4. \A q \in Proc : pc'[q] \in {"write", "dead"} => q = w
    BY <1>1, <1>3, <2>1, DefIs DEF Others, Locked
  <2> QED BY <1>1, <1>3, <2>1, <2>3, <2>4, TornStep
<1> QED BY <1>2, <1>3

\* A command reads a whole file.
LEMMA SoloReadNames ==
  ASSUME IInv, WInv, SoloInv, Whole(sch), NEW p \in Proc, ReadNames(p), ~Exit(p)
  PROVE  SoloAt("types", at'[p], hd'[p], DefOf(sch))
<1>1. PICK d \in Seq(Field) : d = DefOf(sch) /\ sch = SavedAs(d)
  BY WholeIs DEF WInv
<1>2. PICK k \in 0..Size(d) : k = Size(d)
  BY FieldAt DEF Size
<1>3. k = 3 + 3 * Len(d) /\ Len(d) \in Nat /\ sch = Begun(d, k)
  BY <1>1, <1>2, FieldAt DEF SavedAs, Size
<1>4. CountIn(sch) = Len(d)
  BY <1>3, ReadBegun
<1>5. /\ at'[p] = Min({NamesEnd(CountIn(sch)), k}) /\ Len(hd'[p]) = CountIn(sch)
      /\ \A i \in 1..CountIn(sch) :
            hd'[p][i].name = IF NamesEnd(i) <= k THEN d[i].name ELSE NoName
  <2>1. /\ at'[p] = Min({NamesEnd(CountIn(sch)), k})
        /\ Len(hd'[p]) = CountIn(sch)
        /\ \A i \in 1..CountIn(sch) :
              /\ i \in 1..Len(d)
              /\ hd'[p][i].name = IF NamesEnd(i) <= k THEN d[i].name ELSE NoName
    BY <1>3, NamesRead, Zenon
  <2> QED BY <2>1
<1>6. at'[p] = NamesEnd(Len(d))
  <2> DEFINE e == NamesEnd(Len(d))
  <2>1. e \in Nat /\ k \in Nat /\ e <= k
    BY <1>3 DEF NamesEnd
  <2> HIDE DEF e
  <2>2. Min({e, k}) = e
    BY <2>1, MinOfTwo
  <2> QED BY <1>4, <1>5, <2>2 DEF e
<1>7. \A i \in 1..Len(d) : hd'[p][i].name = d[i].name
  <2> TAKE i \in 1..Len(d)
  <2>1. NamesEnd(i) <= k
    BY <1>3 DEF NamesEnd
  <2> QED BY <1>4, <1>5, <2>1
<1> QED BY <1>1, <1>4, <1>5, <1>6, <1>7 DEF SoloAt

LEMMA SoloReadTypes ==
  ASSUME IInv, WInv, SoloInv, Whole(sch), NEW p \in Proc, ReadTypes(p)
  PROVE  SoloAt("check", at'[p], hd'[p], DefOf(sch))
<1> DEFINE d == DefOf(sch)
           n == Len(hd[p])
<1>1. d \in Seq(Field) /\ sch = SavedAs(d)
  BY WholeIs DEF WInv
<1>2. n = Len(d) /\ at[p] = NamesEnd(Len(d)) /\ \A i \in 1..n : hd[p][i].name = d[i].name
  BY DEF SoloInv, SoloAt, ReadTypes
<1> HIDE DEF d
<1>3. ASSUME NEW i \in 1..n PROVE TypesAt(sch, at[p] + i) = {d[i].type}
  <2> DEFINE k == NamesEnd(Len(d)) + i
  <2>1. Len(d) \in Nat /\ Size(d) \in 0..Size(d) /\ Size(d) = 3 + 3 * Len(d) /\ i \in 1..Len(d)
    BY <1>1, <1>2, FieldAt DEF Size
  <2>2. k \in 1..Size(d)
    BY <2>1 DEF NamesEnd
  <2>3. Len(sch) = Size(d) /\ sch[k] = Cell(d, k)
    BY <1>1, <2>1, <2>2, BegunIs DEF SavedAs
  <2>4. sch[k] = TypeCell(d[i].type)
    BY <1>1, <2>1, <2>3, CellsOf
  <2>5. sch[k].is = "type" /\ sch[k].of = d[i].type
    BY <2>4 DEF TypeCell
  <2>6. at[p] + i = k
    BY <1>2
  <2> HIDE DEF k
  <2>7. ~(k > Len(sch))
    BY <2>1, <2>2, <2>3
  <2> QED BY <2>5, <2>6, <2>7 DEF TypesAt
<1>4. PICK types : /\ \A i \in 1..n : types[i] \in TypesAt(sch, at[p] + i)
                   /\ hd' = [hd EXCEPT ![p] = [i \in 1..n |-> [hd[p][i] EXCEPT !.type = types[i]]]]
  BY DEF ReadTypes
<1> DEFINE e == [i \in 1..n |-> [hd[p][i] EXCEPT !.type = types[i]]]
<1>5. hd'[p] = e
  <2>1. hd' = [hd EXCEPT ![p] = e]
    BY <1>4
  <2> HIDE DEF e
  <2> QED BY <2>1 DEF IInv, TypeOK
<1>6. \A i \in 1..n : e[i] = d[i]
  <2> TAKE i \in 1..n
  <2>1. types[i] = d[i].type
    BY <1>3, <1>4
  <2>2. hd[p][i] \in Field /\ hd[p][i].name = d[i].name
    BY <1>2, Kept, FieldAt
  <2>3. d[i] = [name |-> d[i].name, type |-> d[i].type]
    BY <1>1, <1>2, FieldAt
  <2>4. [hd[p][i] EXCEPT !.type = d[i].type] = [name |-> d[i].name, type |-> d[i].type]
    BY <2>2 DEF Field
  <2> QED BY <2>1, <2>3, <2>4
<1>7. e = d
  <2>1. d = [i \in 1..n |-> d[i]]
    BY <1>1, <1>2, FieldAt
  <2>2. e = [i \in 1..n |-> e[i]]
    OBVIOUS
  <2> HIDE DEF e
  <2> QED BY <1>6, <2>1, <2>2
<1> QED BY <1>5, <1>7 DEF SoloAt, d

\* The definition that -R and -a work out only adds to the one they read.
LEMMA SoloCheck ==
  ASSUME IInv, WInv, SoloInv, Whole(sch), NEW p \in Proc, CheckAdded(p) \/ CheckGiven(p), ~Exit(p)
  PROVE  SoloAt("lock", at'[p], hd'[p], DefOf(sch))
<1>1. /\ hd[p] = DefOf(sch) /\ hd[p] \in Seq(Field) /\ Named(hd[p])
      /\ cmd[p].in \in Seq(Field)
  BY Kept, InputOfCommand DEF SoloInv, SoloAt, CheckAdded, CheckGiven
<1>2. CASE CheckAdded(p)
  <2>1. PICK stale : LET new == AddFields(hd[p], cmd[p].in, stale)
                     IN /\ new # <<>> \/ hd[p] = <<>>
                        /\ hd' = [hd EXCEPT ![p] = new] /\ Goto(p, "lock")
    BY <1>2 DEF CheckAdded
  <2>2. Extending(AddFields(hd[p], cmd[p].in, stale), hd[p])
    BY <1>1, <2>1, AddFieldsExtends DEF Named
  <2>3. hd'[p] = AddFields(hd[p], cmd[p].in, stale)
    BY <1>1, <2>1 DEF IInv, TypeOK
  <2> QED BY <1>1, <2>2, <2>3 DEF SoloAt, Extending
<1>3. CASE CheckGiven(p)
  <2> DEFINE k == PerformChecks(cmd[p].mode, hd[p], cmd[p].in)
  <2>1. GoodCheck(k, hd[p])
    BY <1>1, PerformChecksExtends
  <2>2. Accepted(k.code) /\ hd' = [hd EXCEPT ![p] = k.hd]
    BY <1>3 DEF CheckGiven
  <2> HIDE DEF k
  <2>3. hd'[p] = k.hd
    BY <1>1, <2>2 DEF IInv, TypeOK
  <2> QED BY <1>1, <2>1, <2>2, <2>3 DEF SoloAt, GoodCheck
<1> QED BY <1>2, <1>3

LEMMA SoloLock ==
  ASSUME IInv, SoloInv, Whole(sch), NEW p \in Proc, Lock(p), pc'[p] \in {"trunc", "append"}
  PROVE  SoloAt(pc'[p], at'[p], hd'[p], DefOf(sch))
<1>1. ~Exit(p)
  BY OthersOfExit
<1>2. hd' = hd
  BY <1>1 DEF Lock
<1>3. Definition!Extends(hd[p], DefOf(sch))
  BY DEF SoloInv, SoloAt, Lock
<1> QED BY <1>2, <1>3 DEF SoloAt

LEMMA QuietWhole ==
  ASSUME IInv, WInv, Whole(sch), SoloInv, NEW p \in Proc, Quiet(p)
  PROVE  SoloInv' /\ UNCHANGED Definition!vars
<1>1. Others(p) /\ UNCHANGED sch
  BY QuietIs
<1> SUFFICES SoloAt(pc'[p], at'[p], hd'[p], DefOf(sch))
  BY <1>1, WholeStep
<1>2. CASE pc'[p] \in {"idle", "unlock", "dead"}
  BY <1>2 DEF SoloAt
<1>3. CASE ReadNames(p) /\ pc'[p] = "types"
  BY <1>3, OthersOfExit, SoloReadNames
<1>4. CASE ReadTypes(p) /\ pc'[p] = "check"
  BY <1>4, SoloReadTypes
<1>5. CASE (CheckAdded(p) \/ CheckGiven(p)) /\ pc'[p] = "lock"
  BY <1>5, OthersOfExit, SoloCheck
<1>6. CASE Lock(p) /\ pc'[p] \in {"trunc", "append"}
  BY <1>6, SoloLock
<1> QED BY <1>2, <1>3, <1>4, <1>5, <1>6, QuietIs

LEMMA ExtendsNamed ==
  ASSUME NEW d \in Seq(Field), Named(d), NEW e \in Seq(Field), Definition!Extends(e, d)
  PROVE  Named(e)
<1>1. Len(d) \in Nat \ {0} /\ DOMAIN d = 1..Len(d) /\ Len(e) \in Nat /\ Len(<<>>) = 0
  BY EmptySeq, LenProperties DEF Named
<1>2. 1 \in DOMAIN d /\ Len(e) # 0
  BY <1>1 DEF Definition!Extends
<1> QED BY <1>1, <1>2 DEF Named, Definition!Extends

LEMMA SoloTrunc ==
  ASSUME Careful, IInv, WInv, AInv, SoloInv, NEW p \in Proc, Trunc(p)
  PROVE  SoloInv' /\ Definition!Change
<1>1. Whole(sch)
  <2> SUFFICES ASSUME ~Whole(sch) PROVE FALSE
    OBVIOUS
  <2>1. PICK w \in Proc : Writing(w)
    BY DEF SoloInv
  <2>2. p = w
    BY <2>1, DefIs DEF Trunc, Locked
  <2> QED BY <2>1, <2>2 DEF Trunc, Writing
<1>2. /\ hd[p] \in Seq(Field) /\ Definition!Extends(hd[p], DefOf(sch)) /\ Named(DefOf(sch))
      /\ DefOf(sch) \in Seq(Field)
  BY <1>1, Kept, WholeIs DEF SoloInv, SoloAt, Trunc, WInv
<1>3. Named(hd[p])
  BY <1>2, ExtendsNamed
<1>4. Others(p) /\ hd' = hd /\ pc'[p] = "write" /\ sch' = <<>>
  BY <1>3, TruncIs DEF Named, Trunc
<1>5. ~Whole(sch)'
  BY <1>4, EmptySeq DEF Whole
<1>6. Writing(p)'
  BY <1>3, <1>4 DEF Writing, Named
<1>7. \A q \in Proc : pc'[q] \in {"write", "dead"} => q = p
  <2> TAKE q \in Proc
  <2> SUFFICES ASSUME q # p, pc'[q] \in {"write", "dead"} PROVE FALSE
    OBVIOUS
  <2>1. pc[q] \in {"write", "dead"}
    BY <1>4 DEF Others
  <2>2. pc[p] \in Locked \union {"dead"}
    BY DEF Trunc, Locked
  <2> QED BY <2>1, <2>2, DeadAlone
<1>8. Def = DefOf(sch) /\ Def' = hd[p]
  BY <1>1, <1>4, <1>5, <1>6, <1>7, DefWhileNext DEF Def
<1>9. SoloInv'
  BY <1>5, <1>6 DEF SoloInv
<1> QED BY <1>1, <1>2, <1>5, <1>8, <1>9 DEF Definition!Change

LEMMA SoloWrite ==
  ASSUME Careful, IInv, WInv, AInv, SoloInv, NEW p \in Proc, WriteHeader(p)
  PROVE  SoloInv' /\ [Definition!Finish]_(Definition!vars)
<1> DEFINE d == hd[p]
           k == at[p]
<1>1. /\ d \in Seq(Field) /\ k \in 0..Size(d) /\ k # Size(d) /\ k + 1 \in 0..Size(d)
      /\ sch = Begun(d, k) /\ sch' = Begun(d, k + 1)
  <2>1. d \in Seq(Field) /\ k \in Nat /\ k < Size(d) /\ Size(d) \in Nat
    BY Kept, FieldAt DEF IInv, Within, WriteHeader, Size
  <2> QED BY <2>1, WriteOn
<1>2. ~Whole(sch)
  BY <1>1, BegunIsTorn
<1>3. Writing(p)
  <2>1. PICK w \in Proc : Writing(w)
    BY <1>2 DEF SoloInv
  <2>2. p = w
    BY <1>2, <2>1, DefIs DEF WriteHeader, Locked
  <2> QED BY <2>1, <2>2
<1>4. Def = d /\ \A q \in Proc : pc[q] \in Locked \union {"dead"} => q = p
  BY <1>2, <1>3, DefIs
<1>5. /\ Others(p) /\ hd'[p] = d /\ pc'[p] \in {"write", "unlock", "append"}
      /\ pc'[p] = "write" <=> k + 1 # Size(d)
  BY WriteOthers
<1>6. CASE k + 1 = Size(d)
  <2>1. Whole(sch') /\ DefOf(sch') = d
    BY <1>1, <1>6, SavedIsWhole DEF SavedAs
  <2>2. Whole(sch)' /\ DefOf(sch)' = d
    BY <2>1 DEF Whole, DefOf
  <2>3. \A q \in Proc : pc'[q] \notin {"types", "check", "lock", "trunc"}
    <3> TAKE q \in Proc
    <3>1. CASE q = p
      BY <1>5, <3>1
    <3>2. CASE q # p
      <4>1. Running(p) /\ Alone
        BY DEF WriteHeader, Running, WInv
      <4>2. ~Running(q)
        BY <3>2, <4>1 DEF Alone, Careful
      <4> QED BY <1>5, <3>2, <4>2 DEF Others, Running
    <3> QED BY <3>1, <3>2
  <2>4. SoloInv'
    <3>1. Named(DefOf(sch))'
      BY <1>3, <2>2 DEF Named, Writing
    <3>2. \A q \in Proc : SoloAt(pc[q], at[q], hd[q], DefOf(sch))'
      BY <2>3 DEF SoloAt
    <3> QED BY <2>2, <3>1, <3>2 DEF SoloInv
  <2>5. Def' = d
    BY <2>2 DEF Def
  <2> QED BY <1>2, <1>4, <2>2, <2>4, <2>5 DEF Definition!Finish
<1>7. CASE k + 1 # Size(d)
  <2>1. ~Whole(sch')
    BY <1>1, <1>7, BegunIsTorn
  <2>2. ~Whole(sch)'
    BY <2>1 DEF Whole
  <2>3. pc'[p] = "write" /\ Writing(p)'
    BY <1>3, <1>5, <1>7 DEF Writing, Named
  <2>4. \A q \in Proc : pc'[q] \in {"write", "dead"} => q = p
    BY <1>4, <1>5 DEF Others, Locked
  <2>5. Def' = d
    BY <1>5, <2>2, <2>3, <2>4, DefWhileNext
  <2>6. SoloInv'
    BY <2>2, <2>3 DEF SoloInv
  <2> QED BY <1>2, <1>4, <2>2, <2>5, <2>6 DEF Definition!vars
<1> QED BY <1>6, <1>7

LEMMA SoloNext ==
  ASSUME Careful, IInv, WInv, AInv, SoloInv, [Next]_vars
  PROVE  SoloInv' /\ [Definition!Next]_(Definition!vars)
<1>1. CASE UNCHANGED vars
  <2>1. SoloInv'
    <3>1. UNCHANGED <<sch, pc, at, hd>>
      BY <1>1 DEF vars
    <3>2. CASE Whole(sch) /\ \E p : p \in Proc
      <4>1. PICK p : p \in Proc
        BY <3>2
      <4>2. SoloAt(pc'[p], at'[p], hd'[p], DefOf(sch)) /\ Others(p)
        BY <1>1, <3>1, <3>2, <4>1 DEF SoloInv, Others, vars
      <4> QED BY <3>1, <3>2, <4>1, <4>2, WholeStep
    <3>3. CASE Whole(sch) /\ ~\E p : p \in Proc
      <4>1. DefOf(sch)' = DefOf(sch)
        BY <3>1, <3>3, NothingKept
      <4>2. Named(DefOf(sch))'
        BY <3>3, <4>1 DEF SoloInv, Named
      <4> QED BY <3>1, <3>3, <4>2 DEF SoloInv, Whole
    <3>4. CASE ~Whole(sch)
      BY <3>1, <3>4 DEF SoloInv, Writing, Named, Whole
    <3> QED BY <3>2, <3>3, <3>4
  <2>2. UNCHANGED Definition!vars
    BY <1>1 DEF vars, Definition!vars, Def, Whole
  <2> QED BY <2>1, <2>2
<1>2. ASSUME NEW p \in Proc, NEW c \in Command, Begin(p, c)
      PROVE  SoloInv' /\ UNCHANGED Definition!vars
  BY <1>2, SoloBegin
<1>3. ASSUME NEW p \in Proc, Quiet(p) PROVE SoloInv' /\ UNCHANGED Definition!vars
  BY <1>3, QuietWhole, QuietTorn
<1>4. ASSUME NEW p \in Proc, Trunc(p) PROVE SoloInv' /\ Definition!Next
  BY <1>4, SoloTrunc DEF Definition!Next
<1>5. ASSUME NEW p \in Proc, WriteHeader(p) PROVE SoloInv' /\ [Definition!Next]_(Definition!vars)
  BY <1>5, SoloWrite DEF Definition!Next
<1> QED BY <1>1, <1>2, <1>3, <1>4, <1>5 DEF Next, Quiet

LEMMA InitSolo == ASSUME Careful, Init PROVE SoloInv /\ Definition!Init
<1>1. Base \in Seq(Field) /\ Named(Base) /\ sch = SavedAs(Base)
  BY SchemaFileAssumption DEF Careful, Init
<1>2. Whole(sch) /\ DefOf(sch) = Base
  BY <1>1, SavedIsWhole
<1>3. \A p \in Proc : SoloAt(pc[p], at[p], hd[p], DefOf(sch))
  BY DEF Init, SoloAt
<1>4. SoloInv
  BY <1>1, <1>2, <1>3 DEF SoloInv
<1>5. Def = Base
  BY <1>2 DEF Def
<1> QED BY <1>2, <1>4, <1>5 DEF Definition!Init

LEMMA SoloInvariant == Careful /\ Spec => []SoloInv
<1> SUFFICES ASSUME Careful PROVE Spec => []SoloInv
  OBVIOUS
<1>1. Init => SoloInv
  BY InitSolo
<1>2. IInv /\ WInv /\ AInv /\ SoloInv /\ [Next]_vars => SoloInv'
  BY SoloNext
<1>3. Disjoint
  BY DEF Careful, Disjoint
<1> QED BY <1>1, <1>2, <1>3, Invariant, WriterInvariant, AliveInvariant, PTL DEF Spec

\* A half-written definition always has an owner, when the file was created with
\* a field, commands are given one at a time, only of one kind once one was killed,
\* and none gets the pid of a killed one: whatever the modes and inputs, wherever
\* commands are killed and however many follow (main.c:754-783, crud.c:204-228).
THEOREM TornDefinitionIsOwned == Careful /\ Spec => []TornIsOwned
<1> SUFFICES ASSUME Careful PROVE Spec => []TornIsOwned
  OBVIOUS
<1>1. IInv /\ AInv /\ SoloInv => TornIsOwned
  <2> SUFFICES ASSUME IInv, AInv, SoloInv, ~Whole(sch)
               PROVE  inxowner \in Proc \/ schowner \in Proc
    BY DEF TornIsOwned
  <2>1. PICK w \in Proc : Writing(w)
    BY DEF SoloInv
  <2> QED BY <2>1 DEF Writing, AInv, DeadOwns, IInv, Owns, OwnsItsLock, Locked
<1> QED BY <1>1, Invariant, AliveInvariant, SoloInvariant, PTL

\* Under the same conditions commands only ever add to the definition: no field
\* changes its place, its name or the type it has (README.md:112), for every
\* definition, mode and input and wherever a command is killed.  The commands that
\* follow a killed one find its lock, and save nothing.
THEOREM CommandsOnlyAdd == Careful /\ Spec => ImplementsDefinition
<1> SUFFICES ASSUME Careful PROVE Spec => ImplementsDefinition
  OBVIOUS
<1>1. Init => Definition!Init
  BY InitSolo
<1>2. IInv /\ WInv /\ AInv /\ SoloInv /\ [Next]_vars => [Definition!Next]_(Definition!vars)
  BY SoloNext
<1>3. Disjoint
  BY DEF Careful, Disjoint
<1> QED BY <1>1, <1>2, <1>3, Invariant, WriterInvariant, AliveInvariant, SoloInvariant, PTL
        DEF Spec, ImplementsDefinition, Definition!Spec
-----------------------------------------------------------------------------
(* Partial records, when names are told apart.                               *)

OnceNamed(d) == \A i, j \in 1..Len(d) : d[i].name # NoName /\ d[i].name = d[j].name => i = j

\* The state of add_fields_to_schema after k fields of d, for one field f.
Comparing(acc, f, d, k) ==
    \/ acc.found = 1
    \/ /\ acc \in [pos : [{1} -> {0}], found : {0}, new : BOOLEAN]
       /\ \A i \in 1..k : ~Starts(f.name, d[i].name)

\* add_fields_to_schema compares a single field with each field of d in turn.
LEMMA OneFieldCompared ==
  ASSUME NEW d \in Seq(Field), NEW in \in Seq(Field), Len(in) = 1, NEW stale, stale = {}
  PROVE  LET Compare(acc, ij) ==
               LET i == ij[1]  j == ij[2]
               IN IF acc.found = Len(in) \/ acc.pos[j] = j THEN acc
                  ELSE IF Starts(in[j].name, d[i].name)
                  THEN [acc EXCEPT !.pos[acc.found + 1] = j, !.found = @ + 1]
                  ELSE [acc EXCEPT !.new = TRUE]
             end == FoldLeft(Compare,
                             [pos |-> [j \in DOMAIN in |-> IF j \in stale THEN j ELSE 0],
                              found |-> 0, new |-> FALSE],
                             Loops(Len(d), Len(in)))
         IN Comparing(end, in[1], d, Len(d))
<1> DEFINE n == Len(d)
           C(acc, ij) == LET i == ij[1]  j == ij[2]
               IN IF acc.found = Len(in) \/ acc.pos[j] = j THEN acc
                  ELSE IF Starts(in[j].name, d[i].name)
                  THEN [acc EXCEPT !.pos[acc.found + 1] = j, !.found = @ + 1]
                  ELSE [acc EXCEPT !.new = TRUE]
           L == Loops(Len(d), Len(in))
           base == [pos |-> [j \in DOMAIN in |-> IF j \in stale THEN j ELSE 0],
                    found |-> 0, new |-> FALSE]
           F(g, s) == IF s = {} THEN base ELSE C(g[s \ {Max(s)}], L[Max(s)])
           end == FoldLeft(C, base, L)
           Fold == CHOOSE g : g = [s \in SUBSET DOMAIN L |-> F(g, s)]
           Defined(k) == \E g : g = [s \in SUBSET (1..k) |-> F(g, s)]
<1>1. n \in Nat /\ DOMAIN L = 1..n /\ \A k \in 1..n : L[k] = <<k, 1>>
  <2>1. n \in Nat
    BY LenProperties
  <2>2. L = [k \in 1..n * 1 |-> <<((k - 1) \div 1) + 1, ((k - 1) % 1) + 1>>]
    BY DEF Loops
  <2>3. n * 1 = n /\ \A k \in 1..n : ((k - 1) \div 1) + 1 = k /\ ((k - 1) % 1) + 1 = 1
    BY <2>1
  <2> QED BY <2>1, <2>2, <2>3
<1>2. end = Fold[DOMAIN L]
  BY DEF FoldLeft, MapThenFoldSet
<1> HIDE DEF L, end, C, base
<1>3. ASSUME NEW s, NEW k \in Nat, s \in SUBSET (1..k + 1), s # {} PROVE s \ {Max(s)} \in SUBSET (1..k)
  <2>1. Max(s) \in s /\ \A x \in s : x <= Max(s)
    <3>1. s \in SUBSET Nat /\ \A x \in s : x <= k + 1
      BY <1>3
    <3>2. \E x \in s : \A y \in s : x >= y
      BY ONLY <3>1, s # {}, k + 1 \in Nat, <1>3, Greatest
    <3>3. Max(s) \in s /\ \A y \in s : Max(s) >= y
      BY <3>2 DEF Max
    <3> QED BY <3>1, <3>3
  <2> DEFINE m == Max(s)
  <2> HIDE DEF m
  <2>2. m \in s /\ \A x \in s : x <= m
    BY <2>1 DEF m
  <2>3. \A x \in s \ {m} : x \in 1..k
    BY <1>3, <2>2
  <2>4. s \ {m} \in SUBSET (1..k)
    BY <2>3
  <2> QED BY <2>4 DEF m
<1>4. Defined(0)
  <2>1. SUBSET (1..0) = {{}}
    OBVIOUS
  <2> WITNESS [s \in SUBSET (1..0) |-> base]
  <2> QED BY <2>1
<1>5. ASSUME NEW k \in Nat, Defined(k) PROVE Defined(k + 1)
  <2>1. PICK g : g = [s \in SUBSET (1..k) |-> F(g, s)]
    BY <1>5
  <2> DEFINE h == [s \in SUBSET (1..k + 1) |-> F(g, s)]
  <2>2. \A s \in SUBSET (1..k) : h[s] = g[s]
    <3>1. SUBSET (1..k) \subseteq SUBSET (1..k + 1)
      OBVIOUS
    <3>2. \A s \in SUBSET (1..k) : g[s] = F(g, s)
      BY <2>1
    <3> HIDE DEF F
    <3> QED BY <3>1, <3>2
  <2>3. \A s \in SUBSET (1..k + 1) : F(h, s) = F(g, s)
    <3> HIDE DEF h
    <3> QED BY <1>3, <2>2
  <2>4. h = [s \in SUBSET (1..k + 1) |-> F(h, s)]
    <3>1. h = [s \in SUBSET (1..k + 1) |-> F(g, s)]
      OBVIOUS
    <3> HIDE DEF h, F
    <3> QED BY <2>3, <3>1
  <2> HIDE DEF h, F
  <2>5. \E f : f = [s \in SUBSET (1..k + 1) |-> F(f, s)]
    BY <2>4
  <2> QED BY <2>5
<1> HIDE DEF Defined
<1>6. Defined(n)
  <2> DEFINE G == {k \in 0..n : ~Defined(k)}
  <2>1. SUFFICES ASSUME G # {} PROVE FALSE
    BY <1>1
  <2>2. G \in SUBSET (0..n) /\ \A k \in 0..n : k \in G <=> ~Defined(k)
    OBVIOUS
  <2> HIDE DEF G
  <2>3. PICK k \in G : \A x \in G : k <= x
    BY <2>1, <2>2, Least
  <2>4. k \in 0..n /\ ~Defined(k) /\ k # 0
    BY <1>4, <2>2, <2>3
  <2>5. k - 1 \in Nat /\ k - 1 \notin G /\ k - 1 \in 0..n /\ k - 1 + 1 = k
    BY <1>1, <2>3, <2>4
  <2>6. Defined(k - 1)
    BY <2>2, <2>5
  <2> QED BY <1>5, <2>4, <2>5, <2>6
<1>7. \A s \in SUBSET (1..n) : Fold[s] = F(Fold, s)
  <2>1. Fold = [s \in SUBSET (1..n) |-> F(Fold, s)]
    <3>1. \E g : g = [s \in SUBSET DOMAIN L |-> F(g, s)]
      BY <1>1, <1>6 DEF Defined
    <3> HIDE DEF F
    <3>2. Fold = [s \in SUBSET DOMAIN L |-> F(Fold, s)]
      BY <3>1
    <3> QED BY <1>1, <3>2
  <2> HIDE DEF F, Fold
  <2> QED BY <2>1
<1> HIDE DEF Fold
<1>8. Fold[1..0] = base
  <2>1. 1..0 = {} /\ {} \in SUBSET (1..n)
    OBVIOUS
  <2>2. Fold[{}] = F(Fold, {})
    BY <1>7, <2>1
  <2> QED BY <2>1, <2>2
<1>9. ASSUME NEW k \in 1..n PROVE Fold[1..k] = C(Fold[1..k - 1], <<k, 1>>)
  <2>1. Max(1..k) = k /\ (1..k) \ {k} = 1..k - 1 /\ 1..k # {} /\ 1..k \in SUBSET (1..n)
    <3>1. Max(1..k) = k
      <4>1. k \in 1..k /\ \A y \in 1..k : k >= y
        OBVIOUS
      <4>2. \A x \in 1..k : (\A y \in 1..k : x >= y) => x = k
        BY <4>1
      <4> QED BY <4>1, <4>2 DEF Max
    <3>2. (1..k) \ {k} = 1..k - 1 /\ 1..k # {}
      <4>1. k \in Nat /\ k >= 1
        BY <1>1
      <4>2. k \in 1..k /\ \A x \in 1..k : x # k => x \in 1..k - 1
        BY <4>1
      <4>3. \A x \in 1..k - 1 : x \in 1..k /\ x # k
        BY <4>1
      <4> QED BY <4>2, <4>3
    <3>3. 1..k \in SUBSET (1..n)
      BY <1>1
    <3> QED BY <3>1, <3>2, <3>3
  <2> DEFINE s == 1..k
  <2>2. Fold[s] = F(Fold, s)
    BY <1>7, <2>1
  <2>3. s # {} /\ Max(s) = k /\ s \ {k} = 1..k - 1
    BY <2>1
  <2> HIDE DEF s
  <2>4. Fold[s] = C(Fold[1..k - 1], L[k])
    BY <2>2, <2>3
  <2> QED BY <1>1, <2>4 DEF s
<1>10. Comparing(Fold[1..0], in[1], d, 0)
  <2>1. DOMAIN in = {1}
    BY LenProperties
  <2>2. base \in [pos : [{1} -> {0}], found : {0}, new : BOOLEAN]
    BY <2>1 DEF base
  <2> QED BY <1>8, <2>2 DEF Comparing
<1>11. ASSUME NEW k \in 1..n, Comparing(Fold[1..k - 1], in[1], d, k - 1)
       PROVE  Comparing(Fold[1..k], in[1], d, k)
  <2> DEFINE a == Fold[1..k - 1]
  <2>1. Fold[1..k] = C(a, <<k, 1>>)
    BY <1>9
  <2>1a. Comparing(a, in[1], d, k - 1)
    BY <1>11
  <2> HIDE DEF a
  <2>2. CASE a.found = 1
    <3>1. Fold[1..k] = a
      BY <2>1, <2>2 DEF C
    <3> QED BY <2>2, <3>1 DEF Comparing
  <2>3. CASE a.found # 1
    <3>1. PICK b \in BOOLEAN : a = [pos |-> [x \in {1} |-> 0], found |-> 0, new |-> b]
      BY <2>1a, <2>3 DEF Comparing
    <3>2. CASE Starts(in[1].name, d[k].name)
      <4>1. Fold[1..k] = [a EXCEPT !.pos[1] = 1, !.found = 1]
        BY <2>1, <3>1, <3>2 DEF C
      <4> QED BY <3>1, <4>1 DEF Comparing
    <3>3. CASE ~Starts(in[1].name, d[k].name)
      <4>1. Fold[1..k] = [a EXCEPT !.new = TRUE]
        BY <2>1, <3>1, <3>3 DEF C
      <4>2. Fold[1..k] \in [pos : [{1} -> {0}], found : {0}, new : BOOLEAN]
        <5>1. Fold[1..k] = [pos |-> [x \in {1} |-> 0], found |-> 0, new |-> TRUE]
          BY <3>1, <4>1
        <5> QED BY <5>1
      <4>3. \A i \in 1..k : i \in 1..k - 1 \/ i = k
        OBVIOUS
      <4> QED BY <2>1a, <2>3, <3>3, <4>2, <4>3 DEF Comparing
    <3> QED BY <3>2, <3>3
  <2> QED BY <2>2, <2>3
<1>12. \A k \in 0..n : Comparing(Fold[1..k], in[1], d, k)
  <2> DEFINE G == {k \in 0..n : ~Comparing(Fold[1..k], in[1], d, k)}
  <2>1. SUFFICES ASSUME G # {} PROVE FALSE
    OBVIOUS
  <2>2. G \in SUBSET (0..n) /\ \A k \in 0..n : k \in G <=> ~Comparing(Fold[1..k], in[1], d, k)
    OBVIOUS
  <2> HIDE DEF G
  <2>3. PICK k \in G : \A x \in G : k <= x
    BY <2>1, <2>2, Least
  <2>4. k \in 0..n /\ k # 0
    BY <1>10, <2>2, <2>3
  <2>5. k \in 1..n /\ k - 1 \in 0..n /\ k - 1 \notin G
    BY <1>1, <2>3, <2>4
  <2>6. Comparing(Fold[1..k - 1], in[1], d, k - 1)
    BY <2>2, <2>5
  <2> QED BY <1>11, <2>2, <2>3, <2>5, <2>6
<1>13. Comparing(end, in[1], d, n)
  BY <1>1, <1>2, <1>12
<1> QED BY <1>13 DEF end, C, base, L

LEMMA AddOneOnceNamed ==
  ASSUME NEW d \in Seq(Field), OnceNamed(d), NEW in \in Seq(Field), Len(in) = 1,
         NEW stale \in StaleSets(in)
  PROVE  OnceNamed(AddFields(d, in, stale))
<1> DEFINE new == AddFields(d, in, stale)
           Compare(acc, ij) ==
               LET i == ij[1]  j == ij[2]
               IN IF acc.found = Len(in) \/ acc.pos[j] = j THEN acc
                  ELSE IF Starts(in[j].name, d[i].name)
                  THEN [acc EXCEPT !.pos[acc.found + 1] = j, !.found = @ + 1]
                  ELSE [acc EXCEPT !.new = TRUE]
           end == FoldLeft(Compare,
                           [pos |-> [j \in DOMAIN in |-> IF j \in stale THEN j ELSE 0],
                            found |-> 0, new |-> FALSE],
                           Loops(Len(d), Len(in)))
           added == {j \in DOMAIN in : end.pos[j] # j}
           e == AtPositions(in, added)
<1>1. stale = {}
  BY DEF StaleSets
<1>2. Comparing(end, in[1], d, Len(d))
  BY <1>1, OneFieldCompared
<1>3. new = IF end.found = Len(in) THEN <<>> ELSE IF end.new THEN d \o e ELSE d
  BY DEF AddFields
<1>4. Len(d) \in Nat /\ DOMAIN d = 1..Len(d) /\ DOMAIN in = {1} /\ in[1] \in Field
  <2>1. DOMAIN in = 1..1 /\ Len(d) \in Nat /\ DOMAIN d = 1..Len(d)
    BY LenProperties
  <2>2. in[1] \in Field
    <3>1. 1 \in 1..Len(in)
      OBVIOUS
    <3> QED BY <3>1, ElementOfSeq
  <2> QED BY <2>1, <2>2
<1> HIDE DEF end
<1>5. CASE end.found = 1
  <2>1. new = <<>>
    BY <1>3, <1>5
  <2>2. Len(<<>>) = 0
    BY EmptySeq
  <2>3. OnceNamed(<<>>)
    BY <2>2 DEF OnceNamed
  <2> QED BY <2>1, <2>3
<1>6. CASE end.found # 1
  <2>1. \A i \in 1..Len(d) : ~Starts(in[1].name, d[i].name)
    BY <1>2, <1>6 DEF Comparing
  <2>2. added = {1}
    BY <1>2, <1>4, <1>6 DEF Comparing
  <2>3. Len(e) = 1 /\ e \in Seq(Field) /\ e[1] = in[1]
    <3>1. Cardinality({1}) = 1
      BY FS_Singleton
    <3>2. e = [n \in 1..1 |-> in[Nth(added, n)]]
      BY <2>2, <3>1 DEF AtPositions
    <3>3. Rank({1}, 1) = 1
      <4>1. {j \in {1} : j <= 1} = {1}
        OBVIOUS
      <4> QED BY <3>1, <4>1 DEF Rank
    <3>4. Nth({1}, 1) = 1
      BY <3>3 DEF Nth
    <3>5. e[1] = in[1] /\ e \in [1..1 -> Field]
      <4>1. \A n \in 1..1 : n = 1
        OBVIOUS
      <4>2. \A n \in 1..1 : e[n] = in[1]
        BY <2>2, <3>2, <3>4, <4>1
      <4>3. e[1] = in[1]
        BY <4>2
      <4> QED BY <1>4, <3>2, <4>2, <4>3
    <3> HIDE DEF e
    <3> QED BY <3>5, SeqOfFunction
  <2> HIDE DEF e, added
  <2>4. Len(d \o e) = Len(d) + 1
        /\ \A i \in 1..Len(d) + 1 : (d \o e)[i] = IF i <= Len(d) THEN d[i] ELSE in[1]
    <3>1. /\ Len(d \o e) = Len(d) + Len(e)
          /\ \A i \in 1..Len(d) + Len(e) : (d \o e)[i] = IF i <= Len(d) THEN d[i] ELSE e[i - Len(d)]
      BY <2>3, ConcatProperties
    <3>2. \A i \in 1..Len(d) + 1 : i <= Len(d) \/ i - Len(d) = 1
      BY <1>4
    <3> QED BY <2>3, <3>1, <3>2
  <2>5. \A i \in 1..Len(d) : in[1].name # d[i].name
    <3> TAKE i \in 1..Len(d)
    <3>1. d[i] \in Field
      BY ElementOfSeq
    <3>2. d[i].name \in Names /\ in[1].name \in Names
      BY <1>4, <3>1 DEF Field, Names
    <3> QED BY <2>1, <3>2, SchemaAssumption DEF Starts, Names
  <2>6. OnceNamed(d \o e)
    <3> SUFFICES ASSUME NEW i \in 1..Len(d) + 1, NEW j \in 1..Len(d) + 1,
                        (d \o e)[i].name # NoName, (d \o e)[i].name = (d \o e)[j].name
                 PROVE  i = j
      BY <2>4 DEF OnceNamed
    <3>1. i \in 1..Len(d) \/ i = Len(d) + 1
      BY <1>4
    <3>2. j \in 1..Len(d) \/ j = Len(d) + 1
      BY <1>4
    <3> QED BY <1>4, <2>4, <2>5, <3>1, <3>2 DEF OnceNamed
  <2>7. new = d \o e \/ new = d
    BY <1>3, <1>6 DEF added, e
  <2> QED BY <2>6, <2>7
<1> QED BY <1>5, <1>6

\* Each of n is in a pair, if there are n pairs and no two have the same one.
LEMMA EachInAPair ==
  ASSUME NEW n \in Nat, NEW m \in Nat, NEW P \in SUBSET ((1..n) \X (1..m)),
         \A a, b \in P : a[1] = b[1] => a = b, Cardinality(P) = n
  PROVE  \A j \in 1..n : \E a \in P : a[1] = j
<1> DEFINE f == [a \in P |-> a[1]]
<1>1. IsFiniteSet(1..n) /\ Cardinality(1..n) = n
  <2>1. 1 \in Int /\ n \in Int
    OBVIOUS
  <2> QED BY <2>1, FS_Interval
<1>2. f \in Injection(P, 1..n)
  BY DEF Injection, IsInjective
<1>3. f \in Surjection(P, 1..n)
  BY <1>1, <1>2, FS_Injection
<1> QED BY <1>3 DEF Surjection

LEMMA PairsAreFinite ==
  ASSUME NEW n \in Nat, NEW m \in Nat, NEW P \in SUBSET ((1..n) \X (1..m))
  PROVE  IsFiniteSet(P) /\ Cardinality(P) \in Nat
<1>1. 1 \in Int /\ n \in Int /\ m \in Int
  OBVIOUS
<1>2. IsFiniteSet(1..n) /\ IsFiniteSet(1..m)
  BY <1>1, FS_Interval
<1>3. IsFiniteSet(P)
  BY <1>2, FS_Product, FS_Subset
<1> QED BY <1>3, FS_CardinalityType

\* What is promised of a partial record, for any definition.
StoredAs(mode, code, in, d, fields) ==
    mode # "HYB_WR" /\ code = SCHEMA_CT =>
        /\ \A j \in DOMAIN in : \E i \in DOMAIN d :
                d[i] = in[j] /\ fields[i] = [type |-> in[j].type, set |-> TRUE]
        /\ \A i \in DOMAIN d : fields[i].set => \E j \in DOMAIN in : in[j].name = d[i].name

\* A field is set when an input has its name, with the type of one that does.
LEMMA PartRecordSets ==
  ASSUME NEW d \in Seq(Field), NEW in \in Seq(Field), NEW i \in DOMAIN d
  PROVE  LET r == PartRecord(d, in)
         IN \/ /\ \A j \in DOMAIN in : in[j].name # d[i].name
               /\ ~r[i].set
            \/ \E j \in DOMAIN in : /\ in[j].name = d[i].name
                                    /\ r[i] = [type |-> in[j].type, set |-> TRUE]
<1> DEFINE I == {j \in 1..Len(in) : in[j].name = d[i].name}
           r == PartRecord(d, in)
<1>1. Len(in) \in Nat /\ DOMAIN in = 1..Len(in)
  BY LenProperties
<1>2. CASE I = {}
  <2>1. r[i] = [type |-> d[i].type, set |-> FALSE]
    BY <1>2 DEF PartRecord, SelectLastInSeq
  <2> QED BY <1>1, <1>2, <2>1
<1>3. CASE I # {}
  <2>1. Max(I) \in I
    BY <1>1, <1>3, MaxIn
  <2>2. Max(I) # 0
    BY <2>1
  <2>3. r[i] = IF Max(I) = 0 THEN [type |-> d[i].type, set |-> FALSE]
               ELSE [type |-> in[Max(I)].type, set |-> TRUE]
    <3>1. SelectLastInSeq(in, LAMBDA f : f.name = d[i].name) = Max(I)
      BY <1>3 DEF SelectLastInSeq
    <3> QED BY <3>1 DEF PartRecord
  <2>4. r[i] = [type |-> in[Max(I)].type, set |-> TRUE]
    BY <2>2, <2>3
  <2> QED BY <1>1, <2>1, <2>4
<1> QED BY <1>2, <1>3

LEMMA MatchedIsStored ==
  ASSUME NEW mode, NEW code, NEW d \in Seq(Field), NEW in \in Seq(Field),
         \A j \in DOMAIN in : \E i \in DOMAIN d : in[j].name = d[i].name,
         \A j \in DOMAIN in, i \in DOMAIN d : in[j].name = d[i].name => in[j].type = d[i].type
  PROVE  /\ StoredAs(mode, code, in, d, PartRecord(d, in))
         /\ StoredAs(mode, code, in, d, PartRecordByRank(d, in, TypesOf(d)))
<1> DEFINE r == PartRecord(d, in)
           k == PartRecordByRank(d, in, TypesOf(d))
<1>1. /\ \A i \in DOMAIN d : d[i] \in Field
      /\ \A j \in DOMAIN in : in[j] \in Field
  BY ElementOfSeq, LenProperties
<1>2. \A i \in DOMAIN d : \/ /\ \A j \in DOMAIN in : in[j].name # d[i].name
                             /\ ~r[i].set
                          \/ \E j \in DOMAIN in : /\ in[j].name = d[i].name
                                                  /\ r[i] = [type |-> in[j].type, set |-> TRUE]
  BY PartRecordSets
<1>6. k = [i \in DOMAIN d |-> IF r[i].set THEN [r[i] EXCEPT !.type = d[i].type] ELSE r[i]]
  <2>1. k = [i \in DOMAIN d |-> IF r[i].set THEN [r[i] EXCEPT !.type = TypesOf(d)[i]] ELSE r[i]]
    BY DEF PartRecordByRank
  <2>2. \A i \in DOMAIN d : TypesOf(d)[i] = d[i].type
    BY DEF TypesOf
  <2> HIDE DEF k, r
  <2> QED BY <2>1, <2>2
<1>7. r \in [DOMAIN d -> Record]
  BY PartRecordIs, LenProperties
<1> HIDE DEF r, k
<1>3. ASSUME NEW i \in DOMAIN d, NEW j \in DOMAIN in, in[j].name = d[i].name
      PROVE  d[i] = in[j] /\ r[i] = [type |-> in[j].type, set |-> TRUE] /\ k[i] = r[i]
  <2>1. d[i] = in[j]
    <3>1. d[i].name = in[j].name /\ d[i].type = in[j].type
      BY <1>3
    <3> QED BY <1>1, <3>1 DEF Field
  <2>2. r[i] = [type |-> d[i].type, set |-> TRUE]
    BY <1>2, <1>3
  <2>3. k[i] = IF r[i].set THEN [r[i] EXCEPT !.type = d[i].type] ELSE r[i]
    BY <1>6
  <2>4. r[i].set = TRUE /\ [r[i] EXCEPT !.type = d[i].type] = r[i]
    <3>1. r[i] \in Record
      BY <1>7
    <3>2. \A x \in Record : x.type = d[i].type => [x EXCEPT !.type = d[i].type] = x
      BY DEF Record
    <3>3. r[i].type = d[i].type /\ r[i].set = TRUE
      BY <2>2
    <3> QED BY <3>1, <3>2, <3>3
  <2>5. k[i] = r[i]
    BY <2>3, <2>4
  <2>6. d[i].type = in[j].type
    BY <2>1
  <2> QED BY <2>1, <2>2, <2>5, <2>6
<1>4. \A i \in DOMAIN d : k[i].set => r[i].set
  BY <1>6
<1>5. StoredAs(mode, code, in, d, r) /\ StoredAs(mode, code, in, d, k)
  <2>1. \A j \in DOMAIN in : \E i \in DOMAIN d :
            /\ d[i] = in[j] /\ r[i] = [type |-> in[j].type, set |-> TRUE]
            /\ k[i] = [type |-> in[j].type, set |-> TRUE]
    BY <1>3
  <2>2. \A i \in DOMAIN d : r[i].set => \E j \in DOMAIN in : in[j].name = d[i].name
    BY <1>2
  <2> QED BY <1>4, <2>1, <2>2 DEF StoredAs
<1> QED BY <1>5 DEF r, k

NamesDiffer == \A a, b \in Name : <<a, b>> \in StartsOf => a = b
NamesGiven(in) == \A j \in DOMAIN in : in[j].name # NoName

\* The names that an input has in common with a definition are as many as it has:
\* then it has no other.
LEMMA CountedAreAll ==
  ASSUME NEW d \in Seq(Field), OnceNamed(d), NEW in \in Seq(Field), NamesGiven(in),
         Cardinality(Matches(d, in)) = Len(in)
  PROVE  \A j \in DOMAIN in : \E i \in DOMAIN d : in[j].name = d[i].name
<1> DEFINE P == Matches(d, in)
<1>0. P = {ij \in (DOMAIN in) \X (DOMAIN d) : in[ij[1]].name = d[ij[2]].name}
  BY DEF Matches
<1> HIDE DEF P
<1>1. /\ Len(d) \in Nat /\ DOMAIN d = 1..Len(d)
      /\ Len(in) \in Nat /\ DOMAIN in = 1..Len(in)
  BY LenProperties
<1>2. P \in SUBSET ((1..Len(in)) \X (1..Len(d)))
  BY <1>0, <1>1
<1>3. \A a, b \in P : a[1] = b[1] => a = b
  <2> SUFFICES ASSUME NEW a \in P, NEW b \in P, a[1] = b[1] PROVE a = b
    OBVIOUS
  <2>1. \A c \in P : /\ c[2] \in 1..Len(d) /\ c[1] \in DOMAIN in
                      /\ in[c[1]].name = d[c[2]].name
    BY <1>0, <1>1
  <2>4. in[a[1]].name # NoName
    BY <2>1 DEF NamesGiven
  <2>5. d[a[2]].name # NoName /\ d[a[2]].name = d[b[2]].name
    BY <2>1, <2>4
  <2>2. a[2] = b[2]
    BY <2>1, <2>5 DEF OnceNamed
  <2>3. a = <<a[1], a[2]>> /\ b = <<b[1], b[2]>>
    BY <1>2
  <2> QED BY <2>2, <2>3
<1>4. \A c \in P : /\ c[2] \in DOMAIN d /\ c[1] \in DOMAIN in
                  /\ in[c[1]].name = d[c[2]].name
  BY <1>0
<1> DEFINE n == Len(in)
           m == Len(d)
<1>5. n \in Nat /\ m \in Nat /\ P \in SUBSET ((1..n) \X (1..m)) /\ Cardinality(P) = n
  BY <1>1, <1>2 DEF P
<1>6. \A j \in 1..n : \E a \in P : a[1] = j
  <2> HIDE DEF n, m
  <2> QED BY ONLY <1>3, <1>5, EachInAPair
<1> SUFFICES ASSUME NEW j \in DOMAIN in PROVE \E i \in DOMAIN d : in[j].name = d[i].name
  OBVIOUS
<1>7. PICK a \in P : a[1] = j
  BY <1>1, <1>6
<1>8. a[2] \in DOMAIN d /\ in[j].name = d[a[2]].name
  BY <1>4, <1>7
<1> QED BY <1>8

\* All types declared (check_schema, parse_d_flag_input).
LEMMA TypedIsStored ==
  ASSUME NamesDiffer, NEW d \in Seq(Field), OnceNamed(d), NEW in \in Seq(Field), NamesGiven(in),
         CheckTyped(d, in).code = SCHEMA_CT
  PROVE  StoredAs("TYPE_WR", SCHEMA_CT, in, CheckTyped(d, in).hd, CheckTyped(d, in).rec)
<1> DEFINE code == CheckSchema(d, in)
           r == CheckTyped(d, in)
           P == Matches(d, in)
           pairs == {ij \in (DOMAIN in) \X (DOMAIN d) : Starts(in[ij[1]].name, d[ij[2]].name)}
           typeAt(j) == IF d[j].type # NoType THEN d[j].type
                        ELSE in[Min({ij[1] : ij \in {p \in pairs : p[2] = j}})].type
<1>1. code = SCHEMA_CT /\ r = Check(SCHEMA_CT, d, PartRecord(d, in))
  <2> HIDE DEF code
  <2>1. \/ r = Refused
        \/ code = SCHEMA_CT /\ r = Check(code, d, PartRecord(d, in))
        \/ code # SCHEMA_CT /\ \E e, k : r = Check(code, e, k)
    BY DEF CheckTyped, ParseDFlag, code, SCHEMA_ERR, SCHEMA_CT, SCHEMA_CT_NT, SCHEMA_NW
  <2>2. r.code = SCHEMA_CT
    OBVIOUS
  <2> HIDE DEF r
  <2>3. r # Refused
    BY <2>2 DEF Refused, Check, SCHEMA_ERR, SCHEMA_CT
  <2>4. ~(code # SCHEMA_CT /\ \E e, k : r = Check(code, e, k))
    BY <2>2 DEF Check
  <2> QED BY <2>1, <2>3, <2>4
<1>2. CkSchemaContainInput(d, in) = SCHEMA_CT
  BY <1>1 DEF CheckSchema, SCHEMA_ERR, SCHEMA_CT, SCHEMA_EQ, SCHEMA_NW
<1>3. /\ \A ij \in pairs : in[ij[1]].type = typeAt(ij[2])
      /\ Cardinality(pairs) = Len(in)
      /\ \A ij \in pairs : d[ij[2]].type # NoType
  <2> HIDE DEF typeAt
  <2>1. CkSchemaContainInput(d, in) =
          IF (\E ij \in pairs : in[ij[1]].type # typeAt(ij[2])) \/ Cardinality(pairs) # Len(in)
          THEN SCHEMA_ERR
          ELSE IF \E ij \in pairs : d[ij[2]].type = NoType THEN SCHEMA_CT_NT ELSE SCHEMA_CT
    BY DEF CkSchemaContainInput, typeAt
  <2> HIDE DEF pairs
  <2> QED BY <1>2, <2>1 DEF SCHEMA_ERR, SCHEMA_CT, SCHEMA_CT_NT
<1>4. /\ \A i \in DOMAIN d : d[i].name \in Names
      /\ \A j \in DOMAIN in : in[j].name \in Names
  <2>1. /\ \A i \in DOMAIN d : d[i] \in Field
        /\ \A j \in DOMAIN in : in[j] \in Field
    BY ElementOfSeq, LenProperties
  <2> QED BY <2>1 DEF Field, Names
<1>5. \A j \in DOMAIN in, i \in DOMAIN d : Starts(in[j].name, d[i].name) <=> in[j].name = d[i].name
  BY <1>4, SchemaAssumption DEF Starts, Names, NamesDiffer, NamesGiven
<1>6. pairs = P
  BY <1>5 DEF Matches
<1>7. \A j \in DOMAIN in : \E i \in DOMAIN d : in[j].name = d[i].name
  <2>1. Cardinality(P) = Len(in)
    BY <1>3, <1>6
  <2> HIDE DEF pairs, typeAt, r, code
  <2> QED BY <2>1, CountedAreAll
<1>8. ASSUME NEW j \in DOMAIN in, NEW i \in DOMAIN d, in[j].name = d[i].name
      PROVE  in[j].type = d[i].type
  <2>1. <<j, i>> \in pairs
    BY <1>6, <1>8 DEF Matches
  <2>2. d[i].type # NoType /\ in[j].type = typeAt(i)
    BY <1>3, <2>1
  <2> QED BY <2>2
<1>9. StoredAs("TYPE_WR", SCHEMA_CT, in, d, PartRecord(d, in))
  BY <1>7, <1>8, MatchedIsStored
<1>10. r.hd = d /\ r.rec = PartRecord(d, in)
  BY <1>1 DEF Check
<1> QED BY <1>9, <1>10

\* The number of an input's fields whose type is known is taken for a result: five
\* look like SCHEMA_CT (schema_ct_assign_type).
LEMMA CtCodeIsCount ==
  ASSUME NEW d \in Seq(Field), NEW in \in Seq(Field), CtAssignType(d, in).code = SCHEMA_CT
  PROVE  Len(in) = SCHEMA_CT
<1> DEFINE pairs == {ij \in (DOMAIN in) \X (DOMAIN d) : Starts(d[ij[2]].name, in[ij[1]].name)}
           Giver(j) == IF d[j].type # NoType THEN 0
                       ELSE SelectInSeq(in, LAMBDA f : /\ Starts(d[j].name, f.name)
                                                       /\ f.type # NoType)
           untyped == {ij \in pairs : /\ d[ij[2]].type = NoType
                                      /\ Giver(ij[2]) = 0 \/ ij[1] <= Giver(ij[2])}
           counted == {ij \in pairs : \A u \in untyped :
                          u[1] < ij[1] \/ (u[1] = ij[1] /\ u[2] < ij[2])}
<1>1. CtAssignType(d, in).code = IF Cardinality(pairs) # Len(in) THEN 0
         ELSE Cardinality(counted) + (IF untyped = {} THEN 0 ELSE SCHEMA_CT_NT)
  BY DEF CtAssignType
<1>2. counted \in SUBSET pairs /\ (untyped = {} => counted = pairs)
  OBVIOUS
<1> HIDE DEF Giver, untyped, counted
<1>3. pairs \in SUBSET ((1..Len(in)) \X (1..Len(d))) /\ Len(in) \in Nat /\ Len(d) \in Nat
  BY LenProperties
<1> HIDE DEF pairs
<1>4. Cardinality(counted) \in Nat
  <2>1. counted \in SUBSET ((1..Len(in)) \X (1..Len(d)))
    BY <1>2, <1>3
  <2> QED BY <1>3, <2>1, PairsAreFinite
<1>5. Cardinality(pairs) = Len(in)
  BY <1>1 DEF SCHEMA_CT
<1>6. untyped = {}
  BY <1>1, <1>4, <1>5 DEF SCHEMA_CT, SCHEMA_CT_NT
<1> QED BY <1>1, <1>2, <1>4, <1>5, <1>6

\* All types guessed, of other than five fields.
LEMMA NoTypeIsStored ==
  ASSUME NEW d \in Seq(Field), OnceNamed(d), NEW in \in Seq(Field), NamesGiven(in),
         Len(in) # SCHEMA_CT, CheckNoType(d, in).code = SCHEMA_CT
  PROVE  StoredAs("NO_TYPE_WR", SCHEMA_CT, in, CheckNoType(d, in).hd, CheckNoType(d, in).rec)
<1> DEFINE ct == CtAssignType(d, in)
           r == CheckNoType(d, in)
           k == PartRecordByRank(d, in, TypesOf(d))
<1>1. CheckTypeCt(d, in) /\ r = Check(SCHEMA_CT, d, k)
  <2>1. \/ r = Refused
        \/ r \in {CheckEq(d, in), CheckUntypedEq(d, in)}
        \/ r = Check(ct.code, ct.hd, PartRecord(ct.hd, in))
        \/ CheckTypeCt(d, in) /\ r = Check(SCHEMA_CT, d, k)
    BY DEF CheckNoType
  <2>2. ct.code # SCHEMA_CT
    BY CtCodeIsCount
  <2>3. \A e, f : Check(ct.code, e, f).code # SCHEMA_CT
    BY <2>2 DEF Check
  <2>4. Refused.code # SCHEMA_CT
    BY DEF Refused, Check, SCHEMA_ERR, SCHEMA_CT
  <2>5. CheckEq(d, in).code # SCHEMA_CT /\ CheckUntypedEq(d, in).code # SCHEMA_CT
    BY <2>4 DEF CheckEq, CheckUntypedEq, Check, SCHEMA_EQ, SCHEMA_EQ_NT, SCHEMA_CT
  <2>6. r.code = SCHEMA_CT
    OBVIOUS
  <2> HIDE DEF r, ct, k
  <2> QED BY <2>1, <2>3, <2>4, <2>5, <2>6
<1>2. /\ \A j \in DOMAIN in, i \in DOMAIN d : in[j].name = d[i].name => in[j].type = d[i].type
      /\ Cardinality(Matches(d, in)) = Len(in)
  <2>1. \A ij \in Matches(d, in) : in[ij[1]].type = d[ij[2]].type
    BY <1>1 DEF CheckTypeCt
  <2>2. \A j \in DOMAIN in, i \in DOMAIN d : in[j].name = d[i].name => <<j, i>> \in Matches(d, in)
    BY DEF Matches
  <2> QED BY <1>1, <2>1, <2>2 DEF CheckTypeCt
<1>3. \A j \in DOMAIN in : \E i \in DOMAIN d : in[j].name = d[i].name
  BY <1>2, CountedAreAll
<1>4. StoredAs("NO_TYPE_WR", SCHEMA_CT, in, d, k)
  BY <1>2, <1>3, MatchedIsStored
<1>5. r.hd = d /\ r.rec = k
  BY <1>1 DEF Check
<1> QED BY <1>4, <1>5

\* Fields that are added without a name.
LEMMA WiderOnceNamed ==
  ASSUME NEW d \in Seq(Field), OnceNamed(d), NEW e \in Seq(Field),
         \A i \in 1..Len(e) : e[i].name = NoName
  PROVE  OnceNamed(d \o e)
<1>1. Len(d) \in Nat /\ Len(e) \in Nat
  BY LenProperties
<1>2. /\ Len(d \o e) = Len(d) + Len(e)
      /\ \A i \in 1..Len(d) + Len(e) : (d \o e)[i] = IF i <= Len(d) THEN d[i] ELSE e[i - Len(d)]
  BY ConcatProperties
<1>3. \A i \in 1..Len(d) + Len(e) : (d \o e)[i].name # NoName => i \in 1..Len(d) /\ (d \o e)[i] = d[i]
  <2> TAKE i \in 1..Len(d) + Len(e)
  <2>1. CASE i <= Len(d)
    BY <1>1, <1>2, <2>1
  <2>2. CASE ~(i <= Len(d))
    <3>1. i - Len(d) \in 1..Len(e)
      BY <1>1, <2>2
    <3> QED BY <1>2, <2>2, <3>1
  <2> QED BY <2>1, <2>2
<1>4. \A i, j \in 1..Len(d) + Len(e) :
        (d \o e)[i].name # NoName /\ (d \o e)[i].name = (d \o e)[j].name => i = j
  BY <1>3 DEF OnceNamed
<1> QED BY <1>2, <1>4 DEF OnceNamed

\* Only types change.
LEMMA SameNamesOnce ==
  ASSUME NEW d \in Seq(Field), OnceNamed(d), NEW e \in Seq(Field), Definition!Extends(e, d),
         Len(e) = Len(d)
  PROVE  OnceNamed(e)
<1>1. DOMAIN d = 1..Len(d)
  BY LenProperties
<1>2. \A i \in 1..Len(d) : e[i].name = d[i].name
  BY <1>1 DEF Definition!Extends
<1> QED BY <1>2 DEF OnceNamed

LEMMA CheckTypedOnceNamed ==
  ASSUME NEW d \in Seq(Field), OnceNamed(d), NEW in \in Seq(Field)
  PROVE  LET r == CheckTyped(d, in) IN r = Refused \/ OnceNamed(r.hd)
<1> DEFINE r == CheckTyped(d, in)
           code == CheckSchema(d, in)
           sorted == SortLikeHeader(d, in, Len(d))
           more == SubSeq(sorted, Len(d) + 1, Len(in))
<1>1. Len(d) \in Nat /\ Len(in) \in Nat /\ DOMAIN in = 1..Len(in)
  BY LenProperties
<1>2. code = SCHEMA_NW => Len(d) <= Len(in)
  BY <1>1 DEF CheckSchema, CkSchemaContainInput, SCHEMA_ERR, SCHEMA_CT, SCHEMA_CT_NT,
              SCHEMA_EQ, SCHEMA_NW
<1>3. \/ r = Refused
      \/ \E c, k : r = Check(c, d, k)
      \/ code = SCHEMA_NW /\ \E c, k : r = Check(c, d \o more, k)
  <2> HIDE DEF code, more
  <2> QED BY DEF CheckTyped, ParseDFlag, code, more, sorted
<1>4. ASSUME code = SCHEMA_NW PROVE OnceNamed(d \o more)
  <2> HIDE DEF code
  <2>1. Len(d) \in 0..Len(in)
    BY <1>1, <1>2, <1>4
  <2>2. sorted \in Seq(Field) /\ Len(sorted) = Len(in)
    BY <2>1, SortedIsInput
  <2>3. \A i \in 1..Len(in) : ~(i <= Len(d)) => sorted[i].name = NoName
    <3>1. \A i \in 1..Len(in) : in[i] \in Field
      BY ElementOfSeq
    <3>2. \A f \in Field : [f EXCEPT !.name = NoName].name = NoName
      BY DEF Field
    <3>3. \A i \in 1..Len(in) : ~(i <= Len(d)) => sorted[i] = [in[i] EXCEPT !.name = NoName]
      BY <1>1 DEF SortLikeHeader
    <3> HIDE DEF sorted
    <3> QED BY <3>1, <3>2, <3>3
  <2> HIDE DEF sorted
  <2>4. \A i \in Len(d) + 1 .. Len(in) : sorted[i] \in Field
    BY <1>1, <2>2, ElementOfSeq
  <2>5. Len(d) + 1 \in Int /\ Len(in) \in Int
    BY <1>1
  <2>6. /\ more \in Seq(Field)
        /\ Len(more) = IF Len(d) + 1 <= Len(in) THEN Len(in) - (Len(d) + 1) + 1 ELSE 0
        /\ \A i \in 1..Len(in) - (Len(d) + 1) + 1 : more[i] = sorted[Len(d) + 1 + i - 1]
    BY <2>4, <2>5, SubSeqProperties
  <2> HIDE DEF more
  <2>7. \A i \in 1..Len(more) : more[i].name = NoName
    <3> TAKE i \in 1..Len(more)
    <3>1. Len(more) = Len(in) - Len(d)
      <4>1. \A a, b \in Nat : a <= b =>
              (IF a + 1 <= b THEN b - (a + 1) + 1 ELSE 0) = b - a
        OBVIOUS
      <4>2. Len(d) <= Len(in)
        BY <1>1, <2>1
      <4>3. Len(more) = IF Len(d) + 1 <= Len(in) THEN Len(in) - (Len(d) + 1) + 1 ELSE 0
        BY <2>6
      <4> QED BY ONLY <1>1, <4>1, <4>2, <4>3
    <3>2. i \in 1..Len(in) - Len(d)
      BY <3>1
    <3> HIDE DEF sorted
    <3>3. i \in 1..Len(in) - (Len(d) + 1) + 1 /\ Len(d) + 1 + i - 1 \in 1..Len(in)
          /\ ~(Len(d) + 1 + i - 1 <= Len(d))
      BY <1>1, <3>2
    <3> QED BY <2>3, <2>6, <3>3
  <2> QED BY <2>6, <2>7, WiderOnceNamed
<1> HIDE DEF r, code, more
<1>5. r = Refused \/ OnceNamed(r.hd)
  <2>1. \A c, e, k : r = Check(c, e, k) => r.hd = e
    BY DEF Check
  <2> QED BY <1>3, <1>4, <2>1
<1> QED BY <1>5 DEF r

LEMMA CheckEqOnceNamed ==
  ASSUME NEW d \in Seq(Field), OnceNamed(d), NEW in \in Seq(Field), Len(in) = Len(d)
  PROVE  /\ CheckEq(d, in) = Refused \/ OnceNamed(CheckEq(d, in).hd)
         /\ CheckUntypedEq(d, in) = Refused \/ OnceNamed(CheckUntypedEq(d, in).hd)
<1> DEFINE sorted == SortLikeHeader(d, in, Len(in))
           typed == EqAssignType(d, sorted)
<1>1. Len(in) \in Nat /\ Len(in) \in 0..Len(in)
  BY LenProperties
<1>2. sorted \in Seq(Field) /\ Len(sorted) = Len(in)
  BY <1>1, SortedIsInput
<1>3. CheckEq(d, in) = Refused \/ \E k : CheckEq(d, in) = Check(SCHEMA_EQ, d, k)
  BY DEF CheckEq
<1>4. CheckUntypedEq(d, in) = Refused
      \/ \E k : CheckUntypedEq(d, in) = Check(SCHEMA_EQ_NT, typed, k)
  BY DEF CheckUntypedEq
<1> HIDE DEF sorted
<1>5. Extending(typed, d) /\ Len(typed) = Len(d)
  BY <1>2, EqAssignExtends
<1> HIDE DEF typed
<1>6. OnceNamed(typed)
  BY <1>5, SameNamesOnce DEF Extending
<1> QED BY <1>3, <1>4, <1>6 DEF Check

LEMMA ChecksOnceNamed ==
  ASSUME NEW mode, NEW d \in Seq(Field), OnceNamed(d), NEW in \in Seq(Field)
  PROVE  LET r == PerformChecks(mode, d, in) IN r = Refused \/ OnceNamed(r.hd)
<1> DEFINE ct == CtAssignType(d, in)
           r == PerformChecks(mode, d, in)
<1>1. OnceNamed(ct.hd)
  <2>1. Extending(ct.hd, d)
    BY CtAssignExtends
  <2>2. Len(ct.hd) = Len(d)
    BY CtAssignExtends
  <2> HIDE DEF ct
  <2> QED BY <2>1, <2>2, SameNamesOnce DEF Extending
<1>2. \/ r = Refused
      \/ r = CheckTyped(d, in)
      \/ Len(in) = Len(d) /\ r \in {CheckEq(d, in), CheckUntypedEq(d, in)}
      \/ \E c, k : r = Check(c, d, k)
      \/ \E c, k : r = Check(c, ct.hd, k)
  BY DEF PerformChecks, CheckNoType, CheckHybrid
<1> HIDE DEF r, ct
<1> QED BY <1>1, <1>2, CheckTypedOnceNamed, CheckEqOnceNamed DEF Check, r

\* -a, in any mode, of an input that names its fields.
LEMMA CheckedIsStored ==
  ASSUME NamesDiffer, NEW mode \in Modes, NEW d \in Seq(Field), OnceNamed(d),
         NEW in \in Seq(Field), NamesGiven(in),
         "NO_TYPE_WR" \in Modes => Len(in) # SCHEMA_CT
  PROVE  LET r == PerformChecks(mode, d, in) IN StoredAs(mode, r.code, in, r.hd, r.rec)
<1> DEFINE r == PerformChecks(mode, d, in)
<1>1. CASE mode = "HYB_WR" \/ r.code # SCHEMA_CT
  BY <1>1 DEF StoredAs
<1>2. CASE mode # "HYB_WR" /\ r.code = SCHEMA_CT
  <2>1. \/ mode = "TYPE_WR" /\ r = CheckTyped(d, in)
        \/ mode = "NO_TYPE_WR" /\ r = CheckNoType(d, in)
    BY <1>2, SchemaFileAssumption DEF PerformChecks
  <2> HIDE DEF r
  <2>2. StoredAs(mode, SCHEMA_CT, in, r.hd, r.rec)
    BY <1>2, <2>1, TypedIsStored, NoTypeIsStored
  <2> QED BY <1>2, <2>2 DEF r
<1> QED BY <1>1, <1>2

-----------------------------------------------------------------------------
(* The invariant of partial records.                                         *)

\* The commands for which partial records are stored as they should be: no name
\* starts another, the definition and the inputs name their fields, -R adds them
\* one at a time, and -a is not given five whose types it has to guess.
WellNamed ==
    /\ NamesDiffer /\ OnceNamed(Base)
    /\ \A in \in Added : Len(in) = 1
    /\ \A in \in Given : NamesGiven(in) /\ ("NO_TYPE_WR" \in Modes => Len(in) # SCHEMA_CT)

\* The file holds such a definition, or its beginning.
FileOnceNamed == \E d \in Seq(Field) : /\ OnceNamed(d)
                                       /\ \E k \in 0..Size(d) : sch = Begun(d, k)

Checked == {"lock", "trunc", "write", "append"}

\* What a command holds in memory once it has been checked.
HoldsRecord(p) ==
    /\ OnceNamed(hd[p])
    /\ pc[p] = "append" => cmd[p].op = "put"
    /\ pc[p] \in Checked /\ cmd[p].op = "put" =>
          StoredAs(cmd[p].mode, chk[p].code, cmd[p].in, hd[p], chk[p].rec)

PartInv == FileOnceNamed /\ (\A p \in Proc : HoldsRecord(p)) /\ PartialIsStored

LEMMA NothingOnceNamed == OnceNamed(<<>>)
<1>1. Len(<<>>) = 0
  BY EmptySeq
<1> QED BY <1>1 DEF OnceNamed

LEMMA InitPart == WellNamed /\ Init => PartInv
<1> SUFFICES ASSUME WellNamed, Init PROVE PartInv
  OBVIOUS
<1>1. Base \in Seq(Field) /\ OnceNamed(Base)
  BY SchemaFileAssumption DEF WellNamed
<1>2. FileOnceNamed
  <2>1. Size(Base) \in 0..Size(Base) /\ sch = Begun(Base, Size(Base))
    BY <1>1, FieldAt DEF Init, SavedAs, Size
  <2> QED BY <1>1, <2>1 DEF FileOnceNamed
<1>3. \A p \in Proc : HoldsRecord(p)
  BY NothingOnceNamed DEF Init, HoldsRecord, Checked
<1>4. PartialIsStored
  <2>1. DOMAIN <<>> = {}
    OBVIOUS
  <2> QED BY <2>1 DEF Init, PartialIsStored
<1> QED BY <1>2, <1>3, <1>4 DEF PartInv

\* A step of p that stores no record.
LEMMA PartStep ==
  ASSUME IInv, PartInv, NEW p \in Proc, Others(p),
         HoldsRecord(p)', FileOnceNamed', UNCHANGED dat
  PROVE  PartInv'
<1>1. \A q \in Proc \ {p} : HoldsRecord(q)'
  BY DEF PartInv, HoldsRecord, Others
<1>2. PartialIsStored'
  BY DEF PartInv, PartialIsStored, Stores
<1> QED BY <1>1, <1>2 DEF PartInv

\* A step after which p has no record to store.
LEMMA UncheckedStep ==
  ASSUME IInv, PartInv, NEW p \in Proc, NEW l, NEW c, NEW o, NEW d, NEW k,
         Becomes(p, l, c, o, d, k),
         OnceNamed(d), l \notin Checked \/ (l = "lock" /\ c.op # "put"), UNCHANGED <<sch, dat>>
  PROVE  PartInv'
<1>1. HoldsRecord(p)'
  BY BecameOf DEF HoldsRecord, Checked
<1>2. FileOnceNamed'
  BY DEF PartInv, FileOnceNamed
<1>3. Others(p)
  BY BecameOf DEF Others
<1> QED BY <1>1, <1>2, <1>3, PartStep

LEMMA ExitPart ==
  ASSUME IInv, PartInv, NEW p \in Proc, Exit(p), UNCHANGED <<sch, dat>> PROVE PartInv'
<1>1. "idle" \notin Checked
  BY DEF Checked
<1> QED BY <1>1, ExitIs, NothingOnceNamed, UncheckedStep

\* A step that keeps the command and its memory.
LEMMA HoldingStep ==
  ASSUME IInv, PartInv, NEW p \in Proc, NEW l, Goto(p, l), UNCHANGED <<cmd, hd, chk, dat>>,
         \A q \in Proc \ {p} : at'[q] = at[q],
         l \in Checked => pc[p] \in Checked, l = "append" => cmd[p].op = "put", FileOnceNamed'
  PROVE  PartInv'
<1>1. pc'[p] = l /\ Others(p)
  BY DEF Goto, IInv, TypeOK, Others
<1>2. HoldsRecord(p)'
  BY <1>1 DEF HoldsRecord, PartInv
<1> QED BY <1>1, <1>2, PartStep

LEMMA BeginPart ==
  ASSUME IInv, PartInv, NEW p \in Proc, NEW c \in Command, Begin(p, c) PROVE PartInv'
<1>1. "read" \notin Checked /\ UNCHANGED <<sch, dat>>
  BY DEF Checked, Begin
<1> QED BY <1>1, BeginIs, NothingOnceNamed, UncheckedStep

LEMMA ReadNamesPart ==
  ASSUME IInv, PartInv, NEW p \in Proc, ReadNames(p) PROVE PartInv'
<1>1. CASE Exit(p)
  BY <1>1, ExitPart DEF ReadNames
<1>2. CASE ~Exit(p)
  <2>1. PICK d \in Seq(Field) : OnceNamed(d) /\ \E k \in 0..Size(d) : sch = Begun(d, k)
    BY DEF PartInv, FileOnceNamed
  <2>2. PICK k \in 0..Size(d) : sch = Begun(d, k)
    BY <2>1
  <2>3. /\ Len(hd'[p]) = CountIn(sch)
        /\ \A i \in 1..CountIn(sch) :
              /\ i \in 1..Len(d)
              /\ hd'[p][i].name = IF NamesEnd(i) <= k THEN d[i].name ELSE NoName
    BY <1>2, <2>2, NamesRead, Zenon
  <2>4. OnceNamed(hd'[p])
    <3> SUFFICES ASSUME NEW i \in 1..CountIn(sch), NEW j \in 1..CountIn(sch),
                        hd'[p][i].name # NoName, hd'[p][i].name = hd'[p][j].name
                 PROVE  i = j
      BY <2>3 DEF OnceNamed
    <3>1. /\ i \in 1..Len(d) /\ j \in 1..Len(d)
          /\ hd'[p][i].name = d[i].name /\ hd'[p][j].name = d[j].name
      BY <2>3
    <3> QED BY <2>1, <3>1 DEF OnceNamed
  <2>5. /\ UNCHANGED <<sch, dat>> /\ Quiet(p) /\ pc'[p] \notin Checked
    <3>1. UNCHANGED <<sch, dat>> /\ Quiet(p) /\ Goto(p, "types")
      BY <1>2 DEF ReadNames, Quiet
    <3> QED BY <3>1 DEF Goto, IInv, TypeOK, Checked
  <2>6. Others(p) /\ HoldsRecord(p)' /\ FileOnceNamed'
    <3>1. pc'[p] # "append"
      BY <2>5 DEF Checked
    <3> QED BY <2>4, <2>5, <3>1, QuietIs DEF HoldsRecord, OnceNamed, PartInv, FileOnceNamed
  <2> QED BY <2>5, <2>6, PartStep
<1> QED BY <1>1, <1>2

LEMMA ReadTypesPart ==
  ASSUME IInv, PartInv, NEW p \in Proc, ReadTypes(p) PROVE PartInv'
<1> DEFINE n == Len(hd[p])
<1>1. n \in Nat /\ \A i \in 1..n : hd[p][i] \in Field
  BY Kept, LenProperties, ElementOfSeq
<1>2. \E types : hd' = [hd EXCEPT ![p] = [i \in 1..n |-> [hd[p][i] EXCEPT !.type = types[i]]]]
  BY DEF ReadTypes
<1>3. PICK types :
        hd' = [hd EXCEPT ![p] = [i \in 1..n |-> [hd[p][i] EXCEPT !.type = types[i]]]]
  BY <1>2
<1> DEFINE d == [i \in 1..n |-> [hd[p][i] EXCEPT !.type = types[i]]]
<1>4. Len(d) = n
  <2>1. d \in [1..n -> {d[i] : i \in 1..n}]
    OBVIOUS
  <2> HIDE DEF d
  <2> QED BY <1>1, <2>1, SeqOfFunction
<1>5. \A i \in 1..n : d[i].name = hd[p][i].name
  <2> TAKE i \in 1..n
  <2>1. d[i] = [hd[p][i] EXCEPT !.type = types[i]]
    OBVIOUS
  <2> HIDE DEF d
  <2>2. hd[p][i] \in Field
    BY <1>1
  <2> DEFINE f == hd[p][i]
             t == types[i]
  <2> HIDE DEF f, t
  <2>3. [f EXCEPT !.type = t].name = f.name
    BY <2>2 DEF Field, f
  <2> QED BY <2>1, <2>3 DEF f, t
<1>6. hd' = [hd EXCEPT ![p] = d] /\ Goto(p, "check") /\ UNCHANGED <<cmd, at, chk, sch, dat>>
  BY <1>3 DEF ReadTypes
<1> HIDE DEF d
<1>7. OnceNamed(d)
  BY <1>4, <1>5 DEF PartInv, HoldsRecord, OnceNamed
<1>8. Becomes(p, "check", cmd[p], at[p], d, chk[p])
  BY <1>6, Kept DEF Goto, Becomes
<1>9. "check" \notin Checked
  BY DEF Checked
<1> QED BY <1>6, <1>7, <1>8, <1>9, UncheckedStep

LEMMA CheckAddedPart ==
  ASSUME WellNamed, IInv, PartInv, NEW p \in Proc, CheckAdded(p) PROVE PartInv'
<1>1. CASE Exit(p)
  BY <1>1, ExitPart DEF CheckAdded
<1>2. CASE ~Exit(p)
  <2>1. cmd[p].in \in Seq(Field) /\ hd[p] \in Seq(Field) /\ cmd[p].op = "def" /\ OnceNamed(hd[p])
        /\ Len(cmd[p].in) = 1
    <3>1. cmd[p] \in Command /\ cmd[p].op = "def" /\ hd[p] \in Seq(Field)
      BY Kept DEF CheckAdded
    <3>2. cmd[p].in \in Added
      BY <3>1 DEF Command
    <3> QED BY <3>1, <3>2, InputOfCommand DEF WellNamed, PartInv, HoldsRecord
  <2>2. PICK stale \in StaleSets(cmd[p].in) :
           LET new == AddFields(hd[p], cmd[p].in, stale)
           IN hd' = [hd EXCEPT ![p] = new] /\ Goto(p, "lock") /\ UNCHANGED <<cmd, at, chk>>
    BY <1>2 DEF CheckAdded
  <2> DEFINE d == AddFields(hd[p], cmd[p].in, stale)
  <2>3. OnceNamed(d)
    BY <2>1, AddOneOnceNamed
  <2>4. hd' = [hd EXCEPT ![p] = d] /\ Goto(p, "lock") /\ UNCHANGED <<cmd, at, chk>>
    BY <2>2
  <2> HIDE DEF d
  <2>5. Becomes(p, "lock", cmd[p], at[p], d, chk[p]) /\ UNCHANGED <<sch, dat>>
    BY <2>4, Kept DEF CheckAdded, Goto, Becomes
  <2> QED BY <2>1, <2>3, <2>5, UncheckedStep
<1> QED BY <1>1, <1>2

LEMMA CheckGivenPart ==
  ASSUME WellNamed, IInv, PartInv, NEW p \in Proc, CheckGiven(p) PROVE PartInv'
<1>1. CASE Exit(p)
  BY <1>1, ExitPart DEF CheckGiven
<1>2. CASE ~Exit(p)
  <2> DEFINE r == PerformChecks(cmd[p].mode, hd[p], cmd[p].in)
  <2>1. /\ cmd[p].in \in Seq(Field) /\ hd[p] \in Seq(Field) /\ OnceNamed(hd[p])
        /\ NamesGiven(cmd[p].in) /\ cmd[p].mode \in Modes
        /\ "NO_TYPE_WR" \in Modes => Len(cmd[p].in) # SCHEMA_CT
    <3>1. cmd[p] \in Command /\ cmd[p].op = "put" /\ hd[p] \in Seq(Field)
      BY Kept DEF CheckGiven
    <3>2. cmd[p].in \in Given
      BY <3>1 DEF Command
    <3> QED BY <3>1, <3>2, InputOfCommand DEF WellNamed, PartInv, HoldsRecord
  <2>2. r = Refused \/ OnceNamed(r.hd)
    BY <2>1, ChecksOnceNamed
  <2>3. StoredAs(cmd[p].mode, r.code, cmd[p].in, r.hd, r.rec)
    <3>1. NamesDiffer
      BY DEF WellNamed
    <3> QED BY <2>1, <3>1, CheckedIsStored
  <2>4. /\ hd' = [hd EXCEPT ![p] = r.hd] /\ chk' = [chk EXCEPT ![p] = r]
        /\ Goto(p, "lock") /\ UNCHANGED <<cmd, at, sch, dat>> /\ Accepted(r.code)
    BY <1>2 DEF CheckGiven
  <2> HIDE DEF r
  <2>5. r # Refused
    BY <2>4 DEF Accepted, Refused, Check, SCHEMA_ERR
  <2>6. HoldsRecord(p)'
    <3>1. hd'[p] = r.hd /\ chk'[p] = r /\ cmd'[p] = cmd[p] /\ pc'[p] = "lock"
      BY <2>4 DEF Goto, IInv, TypeOK, Checks
    <3> QED BY <2>2, <2>3, <2>5, <3>1 DEF HoldsRecord
  <2>7. FileOnceNamed'
    BY <2>4 DEF PartInv, FileOnceNamed
  <2>8. Others(p)
    BY <2>4 DEF Goto, IInv, TypeOK, Checks, Others
  <2> QED BY <2>4, <2>6, <2>7, <2>8, PartStep
<1> QED BY <1>1, <1>2

LEMMA LockPart ==
  ASSUME IInv, PartInv, NEW p \in Proc, Lock(p) PROVE PartInv'
<1>1. CASE Exit(p)
  BY <1>1, ExitPart DEF Lock
<1>2. CASE ~Exit(p)
  <2>1. PICK l : /\ Goto(p, l) /\ UNCHANGED <<cmd, at, hd, chk, sch, dat>>
                 /\ l = "append" => cmd[p].op = "put"
    <3>1. cmd[p].op \in {"def", "put"}
      BY Kept, InputOfCommand DEF Lock
    <3>2. CASE cmd[p].op = "def"
      BY <1>2, <3>2 DEF Lock
    <3>3. CASE cmd[p].op = "put"
      BY <1>2, <3>3 DEF Lock
    <3> QED BY <3>1, <3>2, <3>3
  <2>2. pc[p] \in Checked /\ FileOnceNamed'
    BY <2>1 DEF Lock, Checked, PartInv, FileOnceNamed
  <2> QED BY <2>1, <2>2, HoldingStep
<1> QED BY <1>1, <1>2

LEMMA TruncPart ==
  ASSUME IInv, PartInv, NEW p \in Proc, Trunc(p) PROVE PartInv'
<1>1. PICK l \in {"unlock", "write"} : Goto(p, l)
  BY DEF Trunc
<1>2. /\ hd[p] \in Seq(Field) /\ OnceNamed(hd[p]) /\ 0 \in 0..Size(hd[p])
      /\ sch' = Begun(hd[p], 0) /\ Others(p)
  BY Kept, NothingBegun, TruncIs DEF PartInv, HoldsRecord
<1>3. FileOnceNamed'
  BY <1>2 DEF FileOnceNamed
<1>4. UNCHANGED <<cmd, hd, chk, dat>> /\ pc[p] \in Checked /\ \A q \in Proc \ {p} : at'[q] = at[q]
  BY <1>2 DEF Trunc, Checked, Others
<1> QED BY <1>1, <1>3, <1>4, HoldingStep

LEMMA WriteHeaderPart ==
  ASSUME IInv, WInv, PartInv, NEW p \in Proc, WriteHeader(p) PROVE PartInv'
<1>1. /\ hd[p] \in Seq(Field) /\ OnceNamed(hd[p]) /\ at[p] + 1 \in 0..Size(hd[p])
      /\ sch' = Begun(hd[p], at[p] + 1)
  BY Kept, WriteIs, WriteOn DEF PartInv, HoldsRecord
<1>2. FileOnceNamed'
  BY <1>1 DEF FileOnceNamed
<1>3. PICK l \in {"write", "unlock", "append"} :
         /\ Becomes(p, l, cmd[p], at[p] + 1, hd[p], chk[p])
         /\ l = "append" => cmd[p].op # "def"
  BY WriteIs
<1>4. cmd[p].op \in {"def", "put"} /\ pc[p] \in Checked
  BY Kept, InputOfCommand DEF WriteHeader, Checked
<1>5. UNCHANGED <<cmd, hd, chk, dat>> /\ Goto(p, l) /\ \A q \in Proc \ {p} : at'[q] = at[q]
  BY <1>3, BecameOf DEF WriteHeader, Becomes, Goto
<1> QED BY <1>2, <1>3, <1>4, <1>5, HoldingStep

LEMMA AppendRecordPart ==
  ASSUME IInv, PartInv, NEW p \in Proc, AppendRecord(p) PROVE PartInv'
<1> DEFINE r == [fields |-> chk[p].rec, def |-> hd[p], code |-> chk[p].code,
                 in |-> cmd[p].in, mode |-> cmd[p].mode]
           R == [fields : Seq(Record), def : Seq(Field), code : Nat,
                 in : Seq(Field), mode : Modes]
           Good(x) == StoredAs(x.mode, x.code, x.in, x.def, x.fields)
<1>1. dat \in Seq(R) /\ r \in R
  <2>1. cmd[p] \in Command /\ chk[p] \in CheckRecord /\ hd[p] \in Seq(Field)
    BY Kept DEF AppendRecord
  <2> QED BY <2>1, InputOfCommand DEF CheckRecord, IInv, TypeOK
<1>2. Good(r)
  <2>1. StoredAs(cmd[p].mode, chk[p].code, cmd[p].in, hd[p], chk[p].rec)
    BY DEF AppendRecord, PartInv, HoldsRecord, Checked
  <2> QED BY <2>1
<1>3. PartialIsStored <=> \A n \in DOMAIN dat : Good(dat[n])
  BY DEF PartialIsStored, Stores, StoredAs
<1>4. PartialIsStored' <=> \A n \in DOMAIN dat' : Good(dat'[n])
  BY DEF PartialIsStored, Stores, StoredAs
<1>5. dat' = Append(dat, r) /\ UNCHANGED <<sch, cmd, at, hd, chk>> /\ Goto(p, "unlock")
  BY DEF AppendRecord
<1> HIDE DEF r, R, Good
<1>6. /\ Len(dat) \in Nat /\ DOMAIN dat = 1..Len(dat) /\ DOMAIN dat' = 1..Len(dat) + 1
      /\ \A n \in 1..Len(dat) : dat'[n] = dat[n]
      /\ dat'[Len(dat) + 1] = r
  <2>1. /\ Append(dat, r) \in Seq(R) /\ Len(Append(dat, r)) = Len(dat) + 1
        /\ \A n \in 1..Len(dat) : Append(dat, r)[n] = dat[n]
        /\ Append(dat, r)[Len(dat) + 1] = r
    BY <1>1, AppendProperties
  <2> QED BY <1>1, <1>5, <2>1, LenProperties
<1>7. PartialIsStored'
  <2>1. \A n \in 1..Len(dat) + 1 : n \in 1..Len(dat) \/ n = Len(dat) + 1
    BY <1>6
  <2>2. \A n \in DOMAIN dat : Good(dat[n])
    BY <1>3 DEF PartInv
  <2> QED BY <1>2, <1>4, <1>6, <2>1, <2>2
<1>8. \A q \in Proc : HoldsRecord(q)'
  <2>1. \A q \in Proc : pc'[q] \in Checked => pc[q] \in Checked /\ pc'[q] = pc[q]
    BY <1>5 DEF Goto, IInv, TypeOK, Checked
  <2> QED BY <1>5, <2>1 DEF PartInv, HoldsRecord, Checked
<1>9. FileOnceNamed'
  BY <1>5 DEF PartInv, FileOnceNamed
<1> QED BY <1>7, <1>8, <1>9 DEF PartInv

LEMMA UnlockPart ==
  ASSUME IInv, PartInv, NEW p \in Proc, Unlock(p) PROVE PartInv'
BY ExitPart DEF Unlock

LEMMA KillPart ==
  ASSUME IInv, PartInv, NEW p \in Proc, Kill(p) PROVE PartInv'
<1>1. CASE Exit(p)
  BY <1>1, ExitPart DEF Kill
<1>2. CASE ~Exit(p)
  <2>1. Goto(p, "dead") /\ UNCHANGED <<cmd, at, hd, chk, sch, dat>>
    BY <1>2 DEF Kill
  <2>2. "dead" \notin Checked /\ "dead" # "append" /\ FileOnceNamed'
    BY <2>1 DEF Checked, PartInv, FileOnceNamed
  <2> QED BY <2>1, <2>2, HoldingStep
<1> QED BY <1>1, <1>2

LEMMA NextPart == WellNamed /\ IInv /\ WInv /\ PartInv /\ [Next]_vars => PartInv'
<1> SUFFICES ASSUME WellNamed, IInv, WInv, PartInv, [Next]_vars PROVE PartInv'
  OBVIOUS
<1>1. CASE UNCHANGED vars
  BY <1>1 DEF vars, PartInv, FileOnceNamed, HoldsRecord, PartialIsStored, Stores
<1>2. CASE Next
  BY <1>2, BeginPart, ReadNamesPart, ReadTypesPart, CheckAddedPart, CheckGivenPart, LockPart,
     TruncPart, WriteHeaderPart, AppendRecordPart, UnlockPart, KillPart DEF Next
<1> QED BY <1>1, <1>2

\* A partial record accepted as such is stored under the names and types of the
\* definition, whatever other commands rewrite the definition meanwhile, are killed
\* in it, or hold at the same time (perform_checks_on_schema, write_header,
\* read_header): provided that no name starts another, the definition and the
\* inputs name their fields, each -R gives one field, no -a gives five whose types
\* it guesses (CtAssignType may count them to SCHEMA_CT), and commands of both
\* kinds are given one at a time.
THEOREM PartialRecordsAreStored == Disjoint /\ WellNamed /\ Spec => []PartialIsStored
<1> SUFFICES ASSUME Disjoint, WellNamed PROVE Spec => []PartialIsStored
  OBVIOUS
<1>1. PartInv => PartialIsStored
  BY DEF PartInv
<1>2. Init => PartInv
  BY InitPart
<1>3. IInv /\ WInv /\ PartInv /\ [Next]_vars => PartInv'
  BY NextPart
<1> QED BY <1>1, <1>2, <1>3, Invariant, WriterInvariant, PTL DEF Spec
=============================================================================
