-------------------------- MODULE UpdateChainProofs -------------------------
(***************************************************************************)
(* Every link of the data file leads forward, for any number of records,   *)
(* fields, values and updates, also those the code does not handle and     *)
(* those that are killed.                                                  *)
(***************************************************************************)
EXTENDS UpdateChain, TLAPS, SequenceTheorems, FiniteSetTheorems, WellFoundedInduction

\* In a file of n items: a fragment that has fields is in the file, and the positions
\* of a record's fragments increase until one is not stored.
PositionsForward(old, n) ==
  \A i \in DOMAIN old :
    /\ old[i].pos <= n + 1
    /\ Set(old[i].frag) # {} => old[i].pos <= n
    /\ i < Len(old) => old[i + 1].pos = 0 \/ old[i + 1].pos > old[i].pos

\* The fragment to be read next comes after the last one read.
NextForward ==
  pc = "collect" => /\ u.next <= EOF
                    /\ u.next = 0 \/ u.next > u.old[Last].pos

\* The place of the new fragment comes after the last fragment with fields.
EofForward ==
  /\ pc \in {"find", "collect", "write"} => u.eof = 0
  /\ u.eof > 0 => /\ Len(u.old) > 0
                  /\ Set(u.old[Last].frag) # {} => u.old[Last].pos < u.eof

\* The commands that have read a record have a fragment of it.
SomethingRead ==
  /\ pc \in {"collect", "write", "fragment", "half", "link"} => Len(u.old) > 0
  /\ pc = "write" => u.next > 0

ChainInv ==
  /\ TypeOK /\ LinksForward
  /\ PositionsForward(u.old, Len(dat)) /\ NextForward /\ EofForward /\ SomethingRead

-----------------------------------------------------------------------------
(* Values, inputs and fragments *)

Value0 == Values \union {NoValue}

LEMMA ConstantTypes ==
  /\ Base \in Nat \ {0} /\ Fields \subseteq Nat /\ Strings \subseteq Fields
  /\ IsFiniteSet(Strings) /\ Value0 \subseteq Nat /\ NoValue \notin Values
  /\ MAX_RECS_OLD_CAP \in Nat \ {0}
<1>1. IsFiniteSet(1 .. Base) /\ Strings \subseteq 1 .. Base
  BY ConstantsAreFit, FS_Interval
<1>2. IsFiniteSet(Strings)
  BY <1>1, FS_Subset
<1> QED BY <1>1, <1>2, ConstantsAreFit DEF Fields, Value0, NoValue

\* An input gives values to the fields it names.
LEMMA InputValues ==
  ASSUME NEW in \in AnyInput, NEW f \in DOMAIN in PROVE in[f] \in Values
<1>1. CASE in \in Inputs
  <2>1. PICK S \in (SUBSET (1 .. Base)) \ {{}} : in \in [S -> Values]
    BY <1>1, ConstantsAreFit
  <2> QED BY <2>1
<1>2. CASE in \in WithNewField
  <2>1. PICK base \in Inputs \cap Complete, v \in Values :
          in = [g \in Fields |-> IF g \in DOMAIN base THEN base[g] ELSE v]
    BY <1>2 DEF WithNewField
  <2>2. base \in [1 .. Base -> Values]
    BY <2>1 DEF Complete
  <2> QED BY <2>1, <2>2
<1>3. CASE in = <<>>
  BY <1>3
<1> QED BY <1>1, <1>2, <1>3 DEF AnyInput

LEMMA NewFragmentType ==
  ASSUME NEW in, \A f \in DOMAIN in : in[f] \in Values
  PROVE  NewFragment(in) \in Fragment /\ NewFragment(in).link = 0
BY DEF NewFragment, Fragment

LEMMA EmptyType == Empty \in Fragment /\ Empty.link = 0 /\ Set(Empty) = {}
<1>1. DOMAIN <<>> = {}
  OBVIOUS
<1>2. Empty \in Fragment /\ Empty.link = 0
  BY <1>1, NewFragmentType DEF Empty
<1>3. Set(Empty) = {}
  BY <1>1 DEF Set, Empty, NewFragment
<1> QED BY <1>2, <1>3

LEMMA ItemType ==
  ASSUME dat \in Seq(Fragment), NEW p \in Nat
  PROVE  /\ Item(p) \in Fragment
         /\ Set(Item(p)) # {} => p \in 1 .. Len(dat)
BY EmptyType, ElementOfSeq, LenProperties DEF Item

\* The first of some fields.
LEMMA Least ==
  ASSUME NEW S \in SUBSET Nat, S # {} PROVE \E x \in S : \A y \in S : x <= y
<1>1. PICK x \in S : \A y \in S : ~ (<<y, x>> \in OpToRel(<, Nat))
  BY NatLessThanWellFounded, WFMin
<1>2. \A y \in S : ~ (y < x)
  BY <1>1 DEF OpToRel
<1> QED BY <1>2

\* compare_rec names a field that the fragment has and the input gives.
LEMMA CompareRecNames ==
  ASSUME NEW frag, NEW in, CompareRec(frag, in) > 0
  PROVE  CompareRec(frag, in) \in Set(frag) \cap DOMAIN in
<1>1. CASE Differ(frag, in) # {}
  <2>1. Differ(frag, in) \in SUBSET Nat
    BY ConstantTypes DEF Differ, Common, Set
  <2>2. \E f \in Differ(frag, in) : \A g \in Differ(frag, in) : f <= g
    BY <1>1, <2>1, Least
  <2>3. CompareRec(frag, in) \in Differ(frag, in)
    BY <1>1, <2>2 DEF CompareRec
  <2> QED BY <2>3 DEF Differ, Common
<1>2. CASE Differ(frag, in) = {}
  BY <1>2 DEF CompareRec
<1> QED BY <1>1, <1>2

-----------------------------------------------------------------------------
(* Writes to the file *)

Forward(d) == \A p \in DOMAIN d : d[p].link = 0 \/ d[p].link \in p + 1 .. Len(d) + 1

\* The file d keeps what e says of fragments and positions.
Grown(d, e) == e \in Seq(Fragment) /\ Len(d) <= Len(e)

LEMMA FragmentUpdated ==
  ASSUME NEW frag \in Fragment, NEW link \in Nat
  PROVE  [frag EXCEPT !.link = link,
            !.room = [f \in Fields |-> IF f \in Grows(frag) THEN frag.val[f] ELSE @[f]]]
         \in Fragment
BY DEF Fragment

\* What write_file leaves of the file when it writes a fragment with fields in its place.
LEMMA InPlaceIs ==
  ASSUME dat \in Seq(Fragment), NEW p \in Nat, NEW frag \in Fragment, NEW link \in Nat,
         Set(frag) # {}, NEW e, e = InPlace(p, frag, link)
  PROVE  /\ e \in Seq(Fragment) /\ Len(e) \in Nat /\ DOMAIN e = 1 .. Len(e)
         /\ Len(dat) \in Nat /\ Len(dat) <= Len(e)
         /\ Grows(frag) = {} => Len(e) = Len(dat)
         /\ p \in 1 .. Len(dat) => /\ e[p].val = frag.val /\ e[p].whole = frag.whole
                                  /\ e[p].link = link /\ Grows(e[p]) = {}
         /\ \A q \in 1 .. Len(dat) : q # p => e[q] = dat[q]
         /\ \A q \in 1 .. Len(e) : q > Len(dat) => e[q] = Empty
<1> DEFINE put == [frag EXCEPT !.link = link,
              !.room = [f \in Fields |-> IF f \in Grows(frag) THEN frag.val[f] ELSE @[f]]]
           new == [dat EXCEPT ![p] = put]
           more == [i \in 1 .. Cardinality(Grows(frag)) |-> Empty]
<1>1. put \in Fragment /\ put.link = link /\ put.val = frag.val /\ put.whole = frag.whole
  BY FragmentUpdated DEF Fragment
<1>2. Grows(put) = {}
  <2>1. \A f \in Fields : put.room[f] = IF f \in Grows(frag) THEN frag.val[f] ELSE frag.room[f]
    BY DEF Fragment
  <2>2. \A f \in Strings : f \in Fields /\ frag.val[f] \in Nat /\ frag.room[f] \in Nat
    BY ConstantTypes DEF Fragment, Value0
  <2> HIDE DEF put
  <2>3. ASSUME NEW f \in Strings PROVE ~ (put.val[f] > put.room[f])
    <3>1. CASE f \in Grows(frag)
      BY <1>1, <2>1, <2>2, <3>1
    <3>2. CASE f \notin Grows(frag)
      BY <1>1, <2>1, <2>2, <3>2 DEF Grows
    <3> QED BY <3>1, <3>2
  <2> QED BY <2>3 DEF Grows
<1>3. /\ Len(dat) \in Nat /\ DOMAIN dat = 1 .. Len(dat) /\ dat \in [1 .. Len(dat) -> Fragment]
  BY LenProperties
<1>4. /\ new \in Seq(Fragment) /\ Len(new) = Len(dat)
      /\ \A q \in 1 .. Len(dat) : new[q] = IF q = p THEN put ELSE dat[q]
  <2> HIDE DEF put
  <2>1. /\ new \in [1 .. Len(dat) -> Fragment]
        /\ \A q \in 1 .. Len(dat) : new[q] = IF q = p THEN put ELSE dat[q]
    BY <1>1, <1>3
  <2> HIDE DEF new
  <2>2. new \in Seq(Fragment)
    BY <1>3, <2>1, SeqDef
  <2> QED BY <1>3, <2>1, <2>2, LenProperties
<1> HIDE DEF put, new
<1>5. Cardinality(Grows(frag)) \in Nat /\ (Grows(frag) = {} => Cardinality(Grows(frag)) = 0)
  <2>1. IsFiniteSet(Grows(frag))
    BY ConstantTypes, FS_Subset DEF Grows
  <2> QED BY <2>1, FS_CardinalityType, FS_EmptySet
<1>6. /\ more \in Seq(Fragment) /\ Len(more) = Cardinality(Grows(frag))
      /\ \A i \in 1 .. Len(more) : more[i] = Empty
  <2>1. more \in [1 .. Cardinality(Grows(frag)) -> Fragment]
    BY EmptyType
  <2>2. more \in Seq(Fragment)
    BY <1>5, <2>1, SeqDef
  <2> QED BY <1>5, <2>1, <2>2, LenProperties
<1> HIDE DEF more
<1>7. /\ new \o more \in Seq(Fragment)
      /\ Len(new \o more) = Len(dat) + Cardinality(Grows(frag))
      /\ DOMAIN (new \o more) = 1 .. Len(new \o more)
      /\ \A i \in 1 .. Len(new \o more) :
           (new \o more)[i] = IF i <= Len(dat) THEN new[i] ELSE more[i - Len(dat)]
  <2>1. /\ new \o more \in Seq(Fragment)
        /\ Len(new \o more) = Len(new) + Len(more)
        /\ \A i \in 1 .. Len(new) + Len(more) :
             (new \o more)[i] = IF i <= Len(new) THEN new[i] ELSE more[i - Len(new)]
    BY <1>4, <1>6, ConcatProperties
  <2>2. DOMAIN (new \o more) = 1 .. Len(new \o more)
    BY <2>1, LenProperties
  <2> QED BY <1>4, <1>6, <2>1, <2>2
<1>8. e = new \o more
  BY DEF InPlace, put, new, more
<1>9. Len(e) \in Nat /\ Len(dat) <= Len(e) /\ (Grows(frag) = {} => Len(e) = Len(dat))
  <2>1. Len(e) = Len(dat) + Cardinality(Grows(frag))
    BY <1>7, <1>8
  <2> QED BY <1>3, <1>5, <2>1
<1>10. \A q \in 1 .. Len(dat) : e[q] = IF q = p THEN put ELSE dat[q]
  <2>1. \A q \in 1 .. Len(dat) : q \in 1 .. Len(e) /\ q <= Len(dat)
    BY <1>3, <1>9
  <2> QED BY <1>4, <1>7, <1>8, <2>1
<1>11. \A q \in 1 .. Len(e) : q > Len(dat) => e[q] = Empty
  <2> SUFFICES ASSUME NEW q \in 1 .. Len(e), q > Len(dat) PROVE e[q] = Empty
    OBVIOUS
  <2>1. q - Len(dat) \in 1 .. Len(more) /\ ~ (q <= Len(dat))
    <3>1. Len(e) = Len(dat) + Len(more)
      BY <1>6, <1>7, <1>8
    <3> QED BY <1>3, <1>5, <1>6, <3>1
  <2> QED BY <1>6, <1>7, <1>8, <2>1
<1> QED BY <1>1, <1>2, <1>3, <1>7, <1>8, <1>9, <1>10, <1>11

\* Links still lead forward.
LEMMA InPlaceWrites ==
  ASSUME dat \in Seq(Fragment), NEW p \in Nat, NEW frag \in Fragment, NEW link \in Nat,
         Forward(dat),
         Set(frag) # {} /\ p <= Len(dat) => link = 0 \/ link \in p + 1 .. EOF
  PROVE  Grown(dat, InPlace(p, frag, link)) /\ Forward(InPlace(p, frag, link))
<1>1. CASE Set(frag) = {}
  BY <1>1, LenProperties DEF InPlace, Grown
<1>2. CASE Set(frag) # {}
  <2>1. PICK e : e = InPlace(p, frag, link)
    OBVIOUS
  <2>2. /\ e \in Seq(Fragment) /\ Len(e) \in Nat /\ DOMAIN e = 1 .. Len(e)
        /\ Len(dat) \in Nat /\ Len(dat) <= Len(e)
        /\ p \in 1 .. Len(dat) => e[p].link = link
        /\ \A q \in 1 .. Len(dat) : q # p => e[q] = dat[q]
        /\ \A q \in 1 .. Len(e) : q > Len(dat) => e[q] = Empty
    BY <1>2, <2>1, InPlaceIs
  <2>3. ASSUME NEW q \in 1 .. Len(e) PROVE e[q].link = 0 \/ e[q].link \in q + 1 .. Len(e) + 1
    <3>1. CASE q = p /\ q <= Len(dat)
      BY <1>2, <2>2, <3>1 DEF EOF
    <3>2. CASE q # p /\ q <= Len(dat)
      <4>1. e[q] = dat[q] /\ q \in DOMAIN dat
        BY <2>2, <3>2, LenProperties
      <4>2. dat[q].link = 0 \/ dat[q].link \in q + 1 .. Len(dat) + 1
        BY <4>1 DEF Forward
      <4> QED BY <2>2, <4>1, <4>2
    <3>3. CASE q > Len(dat)
      BY <2>2, <3>3, EmptyType
    <3> QED BY <2>2, <3>1, <3>2, <3>3
  <2> QED BY <2>1, <2>2, <2>3 DEF Grown, Forward
<1> QED BY <1>1, <1>2

LEMMA AppendWrites ==
  ASSUME dat \in Seq(Fragment), NEW frag \in Fragment, frag.link = 0, Forward(dat)
  PROVE  /\ Grown(dat, Append(dat, frag)) /\ Forward(Append(dat, frag))
         /\ Len(Append(dat, frag)) = EOF
<1>1. /\ Append(dat, frag) \in Seq(Fragment)
      /\ Len(dat) \in Nat /\ DOMAIN dat = 1 .. Len(dat)
      /\ Len(Append(dat, frag)) = Len(dat) + 1
      /\ \A i \in 1 .. Len(dat) : Append(dat, frag)[i] = dat[i]
      /\ Append(dat, frag)[Len(dat) + 1] = frag
  BY AppendProperties, LenProperties
<1>2. DOMAIN Append(dat, frag) = 1 .. Len(dat) + 1
  BY <1>1, LenProperties
<1>3. ASSUME NEW q \in 1 .. Len(dat) + 1
      PROVE  Append(dat, frag)[q].link = 0 \/ Append(dat, frag)[q].link \in q + 1 .. Len(dat) + 2
  <2>1. CASE q <= Len(dat)
    BY <1>1, <2>1 DEF Forward
  <2>2. CASE q = Len(dat) + 1
    BY <1>1, <2>2
  <2> QED BY <1>1, <2>1, <2>2
<1> QED BY <1>1, <1>2, <1>3 DEF Grown, Forward, EOF

-----------------------------------------------------------------------------
(* Recs_old *)

LEMMA OldFacts ==
  ASSUME TypeOK
  PROVE  /\ dat \in Seq(Fragment) /\ Len(dat) \in Nat /\ DOMAIN dat = 1 .. Len(dat)
         /\ Last \in Nat /\ DOMAIN u.old = 1 .. Last
         /\ \A i \in 1 .. Last : u.old[i] \in OldRecord /\ u.old[i].pos \in Nat
                                 /\ u.old[i].frag \in Fragment
<1>1. dat \in Seq(Fragment) /\ u.old \in Seq(OldRecord)
  BY DEF TypeOK, UpdateState
<1>2. \A r \in OldRecord : r.pos \in Nat /\ r.frag \in Fragment
  BY DEF OldRecord
<1> QED BY <1>1, <1>2, LenProperties, ElementOfSeq DEF Last

\* What the invariant says stays true of a file that grows.
LEMMA GrowthKeeps ==
  ASSUME ChainInv, Grown(dat, dat')
  PROVE  /\ dat' \in Seq(Fragment)
         /\ head \in [Keys -> 0 .. Len(dat')]
         /\ u.eof \in 0 .. EOF'
         /\ EOF \in Nat /\ EOF' \in Nat /\ EOF <= EOF'
         /\ PositionsForward(u.old, Len(dat'))
<1>1. Len(dat) \in Nat /\ Len(dat') \in Nat /\ Len(dat) <= Len(dat')
  BY LenProperties DEF ChainInv, TypeOK, Grown
<1>2. ASSUME NEW i \in DOMAIN u.old
      PROVE  /\ u.old[i].pos <= Len(dat') + 1
             /\ Set(u.old[i].frag) # {} => u.old[i].pos <= Len(dat')
  <2>1. u.old[i].pos \in Nat
    BY OldFacts DEF ChainInv
  <2>2. /\ u.old[i].pos <= Len(dat) + 1
        /\ Set(u.old[i].frag) # {} => u.old[i].pos <= Len(dat)
    BY DEF ChainInv, PositionsForward
  <2> QED BY <1>1, <2>1, <2>2
<1>3. PositionsForward(u.old, Len(dat'))
  BY <1>2 DEF ChainInv, PositionsForward
<1> QED BY <1>1, <1>3 DEF ChainInv, TypeOK, UpdateState, Grown, EOF

\* Steps that change the file and go on with the same variables.
LEMMA WriteKeeps ==
  ASSUME ChainInv, Grown(dat, dat'), Forward(dat'), UNCHANGED <<head, def, lock, count, u>>,
         pc' \in {"fragment", "half", "link", "killed"},
         pc' # "killed" => Len(u.old) > 0
  PROVE  ChainInv'
<1>1. TypeOK'
  BY GrowthKeeps DEF ChainInv, TypeOK, UpdateState, EOF
<1>2. LinksForward'
  BY DEF LinksForward, Forward, EOF
<1>3. PositionsForward(u.old, Len(dat))' /\ EofForward' /\ SomethingRead'
  BY GrowthKeeps DEF ChainInv, EofForward, SomethingRead, Last, PositionsForward, Set
<1>4. NextForward'
  BY DEF NextForward
<1> QED BY <1>1, <1>2, <1>3, <1>4 DEF ChainInv

\* Steps that end the command.
LEMMA EndKeeps ==
  ASSUME ChainInv, Grown(dat, dat'), Forward(dat'), UNCHANGED <<head, def, lock, count>>,
         NEW r \in {"updated", "failed"}, End(r)
  PROVE  ChainInv'
<1>1. u' = [u EXCEPT !.result = r] /\ pc' = "unlock"
  BY DEF End
<1>2. u'.old = u.old /\ u'.eof = u.eof
  BY <1>1 DEF ChainInv, TypeOK, UpdateState
<1>3. TypeOK'
  BY <1>1, GrowthKeeps DEF ChainInv, TypeOK, UpdateState, EOF
<1>4. LinksForward'
  BY DEF LinksForward, Forward, EOF
<1>5. PositionsForward(u.old, Len(dat))' /\ EofForward' /\ SomethingRead'
  BY <1>1, <1>2, GrowthKeeps DEF ChainInv, EofForward, SomethingRead, Last, PositionsForward, Set
<1>6. NextForward'
  BY <1>1 DEF NextForward
<1> QED BY <1>3, <1>4, <1>5, <1>6 DEF ChainInv

\* A file that is left alone.
LEMMA NoWrite ==
  ASSUME ChainInv, UNCHANGED dat PROVE Grown(dat, dat') /\ Forward(dat') /\ Forward(dat)
BY OldFacts DEF ChainInv, Grown, Forward, LinksForward, EOF

-----------------------------------------------------------------------------
(* The actions *)

LEMMA InitChain == Init => ChainInv
<1> SUFFICES ASSUME Init PROVE ChainInv
  OBVIOUS
<1>1. u = Idle /\ Idle.key \in Updated
  BY ConstantsAreFit DEF Init, Idle
<1>2. TypeOK
  <2>1. dat \in Seq(Fragment) /\ Len(dat) = 0 /\ <<>> \in Seq(OldRecord)
    BY DEF Init
  <2>2. <<>> \in AnyInput
    BY DEF AnyInput
  <2>3. u \in UpdateState
    BY <1>1, <2>1, <2>2 DEF UpdateState, Idle, EOF
  <2>4. head \in [Keys -> 0 .. Len(dat)] /\ def \in Nat /\ count \in 0 .. MaxUpdates
    BY <2>1, ConstantsAreFit DEF Init
  <2> QED BY <2>1, <2>3, <2>4 DEF Init, TypeOK
<1>3. LinksForward /\ PositionsForward(u.old, Len(dat)) /\ NextForward /\ EofForward /\ SomethingRead
  BY <1>1 DEF Init, Idle, LinksForward, PositionsForward, NextForward, EofForward, SomethingRead
<1> QED BY <1>2, <1>3 DEF ChainInv

LEMMA AddKeeps ==
  ASSUME ChainInv, NEW k \in Keys, Add(k) PROVE ChainInv'
<1>1. PICK in \in IF k \in Updated THEN Inputs ELSE Complete \cap Inputs :
        dat' = Append(dat, NewFragment(in))
  BY DEF Add
<1>2. NewFragment(in) \in Fragment /\ NewFragment(in).link = 0
  BY <1>1, InputValues, NewFragmentType DEF AnyInput
<1>3. Grown(dat, dat') /\ Forward(dat') /\ Len(dat') = EOF
  BY <1>1, <1>2, AppendWrites, NoWrite, OldFacts DEF ChainInv, LinksForward, Forward, EOF
<1>4. head' = [head EXCEPT ![k] = EOF] /\ UNCHANGED <<def, lock, pc, u, count>>
  BY DEF Add
<1>5. TypeOK'
  BY <1>3, <1>4, GrowthKeeps, OldFacts DEF ChainInv, TypeOK, UpdateState, EOF
<1>6. LinksForward'
  BY <1>3 DEF LinksForward, Forward, EOF
<1>7. PositionsForward(u.old, Len(dat))' /\ EofForward' /\ SomethingRead'
  BY <1>3, <1>4, GrowthKeeps DEF ChainInv, EofForward, SomethingRead, Last, PositionsForward, Set
<1>8. NextForward'
  <2>1. u.next \in Nat
    BY DEF ChainInv, TypeOK, UpdateState
  <2>2. EOF \in Nat /\ EOF' \in Nat /\ EOF <= EOF'
    BY <1>3, GrowthKeeps
  <2> QED BY <1>4, <2>1, <2>2 DEF ChainInv, NextForward, Last
<1> QED BY <1>5, <1>6, <1>7, <1>8 DEF ChainInv

LEMMA StartUpdateKeeps ==
  ASSUME ChainInv, StartUpdate PROVE ChainInv'
<1>1. PICK k \in Updated, in \in Inputs \union IF def = Base THEN WithNewField ELSE {} :
        /\ u' = [Idle EXCEPT !.key = k, !.in = in, !.check = Check(in)]
        /\ def' = IF Check(in) = SCHEMA_NW THEN def + 1 ELSE def
  BY DEF StartUpdate
<1>2. u' = [key |-> k, in |-> in, check |-> Check(in), old |-> <<>>,
            next |-> 0, eof |-> 0, result |-> "none"]
  BY <1>1 DEF Idle
<1>3. Check(in) \in {0, SCHEMA_EQ, SCHEMA_NW, SCHEMA_CT} /\ in \in AnyInput
  BY <1>1 DEF Check, AnyInput
<1>4. UNCHANGED <<dat, head>> /\ lock' = TRUE /\ pc' = "find" /\ count' = count + 1 /\ count < MaxUpdates
  BY DEF StartUpdate
<1>5. TypeOK'
  <2>1. <<>> \in Seq(OldRecord) /\ Len(dat') \in Nat
    BY <1>4, OldFacts DEF ChainInv
  <2>2. (u \in UpdateState)'
    BY <1>2, <1>3, <2>1 DEF UpdateState, EOF
  <2> QED BY <1>1, <1>4, <2>2, ConstantsAreFit DEF ChainInv, TypeOK
<1>6. LinksForward'
  BY <1>4 DEF ChainInv, LinksForward, EOF
<1>7. PositionsForward(u.old, Len(dat))' /\ EofForward' /\ SomethingRead' /\ NextForward'
  BY <1>2, <1>4 DEF PositionsForward, EofForward, SomethingRead, NextForward
<1> QED BY <1>5, <1>6, <1>7 DEF ChainInv

\* One more fragment, which comes after those read before.
LEMMA InsertKeeps ==
  ASSUME ChainInv, NEW old \in Seq(OldRecord), PositionsForward(old, Len(dat)),
         NEW p \in 1 .. EOF, Len(old) > 0 => p > old[Len(old)].pos
  PROVE  /\ InsertRec(old, p) \in Seq(OldRecord)
         /\ Len(InsertRec(old, p)) = Len(old) + 1
         /\ PositionsForward(InsertRec(old, p), Len(dat))
         /\ Item(p).link \in Nat /\ Item(p).link <= EOF
         /\ \/ Item(p).link = 0
            \/ Item(p).link > InsertRec(old, p)[Len(InsertRec(old, p))].pos
<1> DEFINE r == [pos |-> IF Len(old) > MAX_RECS_OLD_CAP THEN 0 ELSE p, frag |-> Item(p)]
           new == InsertRec(old, p)
<1>1. /\ dat \in Seq(Fragment) /\ Len(dat) \in Nat /\ DOMAIN dat = 1 .. Len(dat) /\ EOF = Len(dat) + 1
      /\ p \in Nat /\ p > 0 /\ p <= EOF
  BY OldFacts DEF ChainInv, EOF
<1>2. Item(p) \in Fragment /\ (Set(Item(p)) # {} => p <= Len(dat))
  BY <1>1, ItemType
<1>3. r \in OldRecord /\ r.pos \in {0, p} /\ r.frag = Item(p)
  BY <1>1, <1>2 DEF OldRecord
<1>4. /\ new = Append(old, r)
      /\ new \in Seq(OldRecord)
      /\ Len(old) \in Nat /\ DOMAIN old = 1 .. Len(old)
      /\ Len(new) = Len(old) + 1
      /\ \A i \in 1 .. Len(old) : new[i] = old[i]
      /\ new[Len(old) + 1] = r
  <2>1. new = Append(old, r)
    BY DEF InsertRec
  <2> QED BY <1>3, <2>1, AppendProperties, LenProperties
<1>5. DOMAIN new = 1 .. Len(old) + 1
  BY <1>4, LenProperties
<1> HIDE DEF r, new
<1>6. ASSUME NEW i \in 1 .. Len(old) + 1
      PROVE  /\ new[i].pos <= Len(dat) + 1
             /\ Set(new[i].frag) # {} => new[i].pos <= Len(dat)
             /\ i < Len(new) => new[i + 1].pos = 0 \/ new[i + 1].pos > new[i].pos
  <2>1. CASE i < Len(old)
    <3>1. new[i] = old[i] /\ i \in DOMAIN old /\ new[i + 1] = old[i + 1]
      BY <1>4, <2>1
    <3> QED BY <2>1, <3>1 DEF PositionsForward
  <2>2. CASE i = Len(old)
    <3>1. new[i] = old[i] /\ i \in DOMAIN old /\ new[i + 1] = r
      BY <1>4, <2>2
    <3>2. old[i].pos <= Len(dat) + 1 /\ (Set(old[i].frag) # {} => old[i].pos <= Len(dat))
      BY <3>1 DEF PositionsForward
    <3>3. r.pos = 0 \/ r.pos > old[i].pos
      BY <1>3, <1>4, <2>2
    <3> QED BY <3>1, <3>2, <3>3
  <2>3. CASE i = Len(old) + 1
    BY <1>1, <1>2, <1>3, <1>4, <2>3
  <2>4. Len(old) \in Nat
    BY LenProperties
  <2>5. i < Len(old) \/ i = Len(old) \/ i = Len(old) + 1
    BY <2>4
  <2> QED BY <2>1, <2>2, <2>3, <2>5
<1>7. PositionsForward(new, Len(dat))
  BY <1>5, <1>6 DEF PositionsForward
<1>8. Item(p).link \in Nat /\ Item(p).link <= EOF /\ (Item(p).link = 0 \/ Item(p).link > p)
  <2>1. CASE p \in DOMAIN dat
    <3>1. dat[p].link = 0 \/ dat[p].link \in p + 1 .. EOF
      BY <2>1 DEF ChainInv, LinksForward
    <3>2. Item(p) = dat[p] /\ dat[p].link \in Nat
      BY <1>2, <2>1 DEF Item, Fragment
    <3> QED BY <1>1, <3>1, <3>2
  <2>2. CASE p \notin DOMAIN dat
    BY <1>1, <2>2, EmptyType DEF Item
  <2> QED BY <2>1, <2>2
<1>9. Item(p).link = 0 \/ Item(p).link > new[Len(new)].pos
  BY <1>1, <1>3, <1>4, <1>8
<1> QED BY <1>4, <1>7, <1>8, <1>9 DEF new

\* Steps that read one more fragment.
LEMMA ReadKeeps ==
  ASSUME ChainInv, NEW old \in Seq(OldRecord), PositionsForward(old, Len(dat)),
         NEW p \in 1 .. EOF, Len(old) > 0 => p > old[Len(old)].pos,
         u' = [u EXCEPT !.old = InsertRec(old, p), !.next = Item(p).link],
         pc' = "collect", u.eof = 0, UNCHANGED <<dat, head, def, lock, count>>
  PROVE  ChainInv'
<1>1. /\ u'.old = InsertRec(old, p) /\ u'.next = Item(p).link /\ u'.eof = 0
      /\ Len(u'.old) = Len(old) + 1 /\ Len(old) \in Nat
  BY InsertKeeps, LenProperties DEF ChainInv, TypeOK, UpdateState
<1>2. TypeOK'
  <2>1. (u \in UpdateState)'
    BY InsertKeeps DEF ChainInv, TypeOK, UpdateState, EOF
  <2> QED BY <2>1 DEF ChainInv, TypeOK
<1>3. LinksForward'
  BY DEF ChainInv, LinksForward, EOF
<1>4. PositionsForward(u.old, Len(dat))'
  BY <1>1, InsertKeeps DEF PositionsForward, Set
<1>5. NextForward'
  BY <1>1, InsertKeeps DEF NextForward, Last, EOF
<1>6. EofForward' /\ SomethingRead'
  BY <1>1 DEF EofForward, SomethingRead
<1> QED BY <1>2, <1>3, <1>4, <1>5, <1>6 DEF ChainInv

LEMMA FindRecordKeeps ==
  ASSUME ChainInv, FindRecord PROVE ChainInv'
<1>1. CASE End("failed")
  BY <1>1, NoWrite, EndKeeps DEF FindRecord, Unchanged
<1>2. CASE /\ head[u.key] > 0
           /\ u' = [u EXCEPT !.old = InsertRec(<<>>, head[u.key]), !.next = Item(head[u.key]).link]
           /\ pc' = "collect"
  <2>1. head[u.key] \in 1 .. EOF
    BY <1>2, ConstantsAreFit, OldFacts DEF ChainInv, TypeOK, UpdateState, EOF
  <2>2. /\ <<>> \in Seq(OldRecord) /\ ~ (Len(<<>>) > 0)
        /\ PositionsForward(<<>>, Len(dat))
    BY DEF PositionsForward
  <2>3. u.eof = 0
    BY DEF ChainInv, EofForward, FindRecord
  <2>4. UNCHANGED <<dat, head, def, lock, count>>
    BY DEF FindRecord, Unchanged
  <2> QED BY <1>2, <2>1, <2>2, <2>3, <2>4, ReadKeeps
<1> QED BY <1>1, <1>2 DEF FindRecord

LEMMA CollectKeeps ==
  ASSUME ChainInv, Collect PROVE ChainInv'
<1>1. CASE End("failed")
  BY <1>1, NoWrite, EndKeeps DEF Collect, Unchanged
<1>2. CASE /\ u' = [u EXCEPT !.old = InsertRec(u.old, u.next), !.next = Item(u.next).link]
           /\ UNCHANGED pc
  <2>1. u.next \in 1 .. EOF
    BY OldFacts DEF ChainInv, TypeOK, UpdateState, NextForward, Collect, EOF
  <2>2. u.old \in Seq(OldRecord) /\ u.next > u.old[Len(u.old)].pos /\ PositionsForward(u.old, Len(dat))
    BY <2>1 DEF ChainInv, TypeOK, UpdateState, NextForward, Collect, Last
  <2>3. u.eof = 0
    BY DEF ChainInv, EofForward, Collect
  <2> QED BY <1>2, <2>1, <2>2, <2>3, ReadKeeps DEF Collect, Unchanged
<1> QED BY <1>1, <1>2 DEF Collect

\* What is written over the only fragment of a record is a fragment, and it has
\* fields only if the one read had.
LEMMA UpdateTypes ==
  ASSUME NEW frag \in Fragment, NEW in \in AnyInput
  PROVE  /\ UpdateCommon(frag, in) \in Fragment
         /\ \A f \in Set(UpdateCommon(frag, in)) : f \in Set(frag)
<1>1. \A f \in Fields : f \in Common(frag, in) => in[f] \in Values
  BY InputValues DEF Common
<1>2. UpdateCommon(frag, in) =
        [frag EXCEPT !.val = [f \in Fields |-> IF f \in Common(frag, in) THEN in[f] ELSE frag.val[f]]]
  BY DEF UpdateCommon
<1>3. UpdateCommon(frag, in) \in Fragment
  BY <1>1, <1>2 DEF Fragment
<1>4. \A f \in Fields : UpdateCommon(frag, in).val[f] =
                          IF f \in Common(frag, in) THEN in[f] ELSE frag.val[f]
  BY <1>2 DEF Fragment
<1> QED BY <1>3, <1>4 DEF Set, Common

LEMMA UpdateAllTypes ==
  ASSUME NEW frag \in Fragment, NEW in \in AnyInput
  PROVE  /\ UpdateAll(frag, in) \in Fragment
         /\ \A f \in Set(UpdateAll(frag, in)) : f \in Set(frag)
<1>1. \A f \in Fields : f \in Common(frag, in) => in[f] \in Values
  BY InputValues DEF Common
<1>2. UpdateAll(frag, in) =
        [frag EXCEPT !.val = [f \in Fields |-> IF f \in Common(frag, in) THEN in[f] ELSE NoValue]]
  BY DEF UpdateAll
<1>3. UpdateAll(frag, in) \in Fragment
  BY <1>1, <1>2 DEF Fragment
<1>4. \A f \in Fields : UpdateAll(frag, in).val[f] =
                          IF f \in Common(frag, in) THEN in[f] ELSE NoValue
  BY <1>2 DEF Fragment
<1> QED BY <1>3, <1>4 DEF Set, Common

\* A fragment is written where it was read, with a link that leads forward.
LEMMA WriteOld ==
  ASSUME ChainInv, NEW i \in DOMAIN u.old, NEW frag \in Fragment, NEW link \in Nat,
         Set(frag) # {} => Set(u.old[i].frag) # {},
         Set(u.old[i].frag) # {} => link = 0 \/ (link > u.old[i].pos /\ link <= EOF)
  PROVE  /\ Grown(dat, InPlace(u.old[i].pos, frag, link))
         /\ Forward(InPlace(u.old[i].pos, frag, link))
<1>1. u.old[i].pos \in Nat /\ Len(dat) \in Nat /\ dat \in Seq(Fragment)
  BY OldFacts DEF ChainInv
<1>2. Forward(dat)
  BY DEF ChainInv, LinksForward, Forward, EOF
<1>3. Set(frag) # {} => link = 0 \/ link \in u.old[i].pos + 1 .. EOF
  BY <1>1 DEF EOF
<1> QED BY <1>1, <1>2, <1>3, InPlaceWrites

LEMMA UpdateInPlaceKeeps ==
  ASSUME ChainInv, UpdateInPlace PROVE ChainInv'
<1>1. 1 \in DOMAIN u.old /\ u.old[1].frag \in Fragment /\ u.in \in AnyInput
  BY OldFacts DEF ChainInv, UpdateInPlace, OnlyFragment, TypeOK, UpdateState, Last
<1>2. \/ dat' = InPlace(u.old[1].pos, UpdateCommon(u.old[1].frag, u.in), 0)
      \/ dat' = InPlace(u.old[1].pos, UpdateAll(u.old[1].frag, u.in), 0)
  BY DEF UpdateInPlace
<1>3. Grown(dat, dat') /\ Forward(dat')
  <2>1. CASE dat' = InPlace(u.old[1].pos, UpdateCommon(u.old[1].frag, u.in), 0)
    <3>1. /\ UpdateCommon(u.old[1].frag, u.in) \in Fragment
          /\ Set(UpdateCommon(u.old[1].frag, u.in)) # {} => Set(u.old[1].frag) # {}
      BY <1>1, UpdateTypes
    <3> QED BY <1>1, <2>1, <3>1, WriteOld
  <2>2. CASE dat' = InPlace(u.old[1].pos, UpdateAll(u.old[1].frag, u.in), 0)
    <3>1. /\ UpdateAll(u.old[1].frag, u.in) \in Fragment
          /\ Set(UpdateAll(u.old[1].frag, u.in)) # {} => Set(u.old[1].frag) # {}
      BY <1>1, UpdateAllTypes
    <3> QED BY <1>1, <2>2, <3>1, WriteOld
  <2> QED BY <1>2, <2>1, <2>2
<1> QED BY <1>3, EndKeeps DEF UpdateInPlace, Unchanged

LEMMA CrashKeeps ==
  ASSUME ChainInv, Crash \/ Kill PROVE ChainInv'
BY NoWrite, WriteKeeps DEF Crash, Kill, Unchanged

LEMMA LinkFirstKeeps ==
  ASSUME ChainInv, LinkFirst PROVE ChainInv'
<1>1. 1 \in DOMAIN u.old /\ u.old[1].frag \in Fragment /\ EOF \in Nat /\ u.old[1].pos \in Nat
      /\ Len(u.old) > 0
  BY OldFacts DEF ChainInv, LinkFirst, OnlyFragment, Last, EOF
<1>2. Set(u.old[1].frag) # {} => EOF > u.old[1].pos
  <2>1. Set(u.old[1].frag) # {} => u.old[1].pos <= Len(dat)
    BY <1>1 DEF ChainInv, PositionsForward
  <2>2. Len(dat) \in Nat
    BY OldFacts DEF ChainInv
  <2> QED BY <1>1, <2>1, <2>2 DEF EOF
<1>3. Grown(dat, dat') /\ Forward(dat')
  <2>1. dat' = InPlace(u.old[1].pos, u.old[1].frag, EOF)
    BY DEF LinkFirst
  <2>2. EOF <= EOF
    BY <1>1
  <2> QED BY <1>1, <1>2, <2>1, <2>2, WriteOld
<1> QED BY <1>1, <1>3, WriteKeeps DEF LinkFirst, Unchanged

\* The first field that differs is assigned; positions stay.
LEMMA FindKeeps ==
  ASSUME ChainInv, NEW old, old = FindFieldsToUpdate(u.old, u.in)
  PROVE  /\ old \in Seq(OldRecord) /\ Len(old) = Last
         /\ \A i \in 1 .. Last : /\ old[i].pos = u.old[i].pos
                                 /\ Set(old[i].frag) # {} => Set(u.old[i].frag) # {}
<1> DEFINE Marked(i) == LET f == CompareRec(u.old[i].frag, u.in)
             IN  [pos |-> u.old[i].pos, to |-> Position(u.old[i].frag, u.in),
                  frag |-> IF f > 0 THEN Assigned(u.old[i].frag, f, u.in) ELSE u.old[i].frag]
<1>1. Last \in Nat /\ DOMAIN u.old = 1 .. Last /\ u.in \in AnyInput
  BY OldFacts DEF ChainInv, TypeOK, UpdateState
<1>2. ASSUME NEW i \in 1 .. Last
      PROVE  /\ Marked(i) \in OldRecord /\ Marked(i).pos = u.old[i].pos
             /\ Set(Marked(i).frag) # {} => Set(u.old[i].frag) # {}
  <2> DEFINE frag == u.old[i].frag
             f == CompareRec(frag, u.in)
  <2>1. frag \in Fragment /\ u.old[i].pos \in Nat
    BY OldFacts DEF ChainInv
  <2>2. Position(frag, u.in) \in {"y", "n", "e"}
    BY DEF Position
  <2>3. CASE f > 0
    <3>1. f \in Set(frag) /\ u.in[f] \in Values
      BY <1>1, <2>3, CompareRecNames, InputValues
    <3>2. Assigned(frag, f, u.in) \in Fragment
      BY <2>1, <3>1 DEF Assigned, Fragment
    <3>3. Marked(i) = [pos |-> u.old[i].pos, to |-> Position(frag, u.in),
                       frag |-> Assigned(frag, f, u.in)]
      BY <2>3
    <3> QED BY <2>1, <2>2, <3>1, <3>2, <3>3 DEF OldRecord
  <2>4. CASE ~ (f > 0)
    <3>1. Marked(i) = [pos |-> u.old[i].pos, to |-> Position(frag, u.in), frag |-> frag]
      BY <2>4
    <3> QED BY <2>1, <2>2, <3>1 DEF OldRecord
  <2> QED BY <2>3, <2>4
<1>3. old = [i \in 1 .. Last |-> Marked(i)]
  BY <1>1 DEF FindFieldsToUpdate
<1> HIDE DEF Marked
<1>4. old \in [1 .. Last -> OldRecord]
  BY <1>2, <1>3
<1>5. old \in Seq(OldRecord) /\ Len(old) = Last
  <2>1. old \in Seq(OldRecord)
    BY <1>1, <1>4, SeqDef
  <2> QED BY <1>1, <1>4, <2>1, LenProperties
<1> QED BY <1>2, <1>3, <1>5

LEMMA FindFieldsKeeps ==
  ASSUME ChainInv, FindFields PROVE ChainInv'
<1>1. CASE End("failed")
  BY <1>1, NoWrite, EndKeeps DEF FindFields, Unchanged
<1>2. CASE /\ u' = [u EXCEPT !.old = FindFieldsToUpdate(u.old, u.in), !.next = 1]
           /\ pc' = "write"
  <2> DEFINE old == FindFieldsToUpdate(u.old, u.in)
  <2>1. /\ old \in Seq(OldRecord) /\ Len(old) = Last
        /\ \A i \in 1 .. Last : /\ old[i].pos = u.old[i].pos
                                /\ Set(old[i].frag) # {} => Set(u.old[i].frag) # {}
    BY FindKeeps
  <2> HIDE DEF old
  <2>2. u' = [u EXCEPT !.old = old, !.next = 1] /\ UNCHANGED <<dat, head, def, lock, count>>
    BY <1>2 DEF old, FindFields, Unchanged
  <2>3. u'.old = old /\ u'.next = 1 /\ u'.eof = 0 /\ Last > 0
    BY <2>2 DEF ChainInv, TypeOK, UpdateState, EofForward, FindFields, Last
  <2>4. TypeOK'
    <3>1. (u \in UpdateState)'
      BY <2>1, <2>2 DEF ChainInv, TypeOK, UpdateState, EOF
    <3> QED BY <1>2, <2>2, <3>1 DEF ChainInv, TypeOK
  <2>5. LinksForward'
    BY <2>2 DEF ChainInv, LinksForward, EOF
  <2>6. PositionsForward(old, Len(dat))
    <3>1. DOMAIN old = 1 .. Last /\ DOMAIN u.old = 1 .. Last /\ Last \in Nat
      BY <2>1, LenProperties, OldFacts DEF ChainInv
    <3>2. ASSUME NEW i \in 1 .. Last
          PROVE  /\ old[i].pos <= Len(dat) + 1
                 /\ Set(old[i].frag) # {} => old[i].pos <= Len(dat)
                 /\ i < Last => old[i + 1].pos = 0 \/ old[i + 1].pos > old[i].pos
      <4>1. /\ u.old[i].pos <= Len(dat) + 1
            /\ Set(u.old[i].frag) # {} => u.old[i].pos <= Len(dat)
            /\ i < Last => u.old[i + 1].pos = 0 \/ u.old[i + 1].pos > u.old[i].pos
        BY <3>1 DEF ChainInv, PositionsForward, Last
      <4>2. i < Last => i + 1 \in 1 .. Last
        BY <3>1
      <4> QED BY <2>1, <4>1, <4>2
    <3> QED BY <2>1, <3>1, <3>2 DEF PositionsForward
  <2>7. PositionsForward(u.old, Len(dat))'
    BY <2>2, <2>3, <2>6 DEF PositionsForward, Set
  <2>8. NextForward' /\ EofForward' /\ SomethingRead'
    BY <1>2, <2>1, <2>3 DEF NextForward, EofForward, SomethingRead
  <2> QED BY <2>4, <2>5, <2>7, <2>8 DEF ChainInv
<1> QED BY <1>1, <1>2 DEF FindFields

\* right_update_pos leads forward from the fragment that is written.
LEMMA LinkOfForward ==
  ASSUME ChainInv, NEW i \in 1 .. Last
  PROVE  /\ LinkOf(i) \in Nat
         /\ Set(u.old[i].frag) # {} =>
              LinkOf(i) = 0 \/ (LinkOf(i) > u.old[i].pos /\ LinkOf(i) <= EOF)
<1>1. /\ Len(dat) \in Nat /\ EOF = Len(dat) + 1 /\ Last \in Nat /\ i \in DOMAIN u.old
      /\ \A j \in 1 .. Last : u.old[j].pos \in Nat
  BY OldFacts DEF ChainInv, EOF
<1>2. CASE i < Last
  <2>1. i + 1 \in 1 .. Last /\ i + 1 \in DOMAIN u.old /\ LinkOf(i) = u.old[i + 1].pos
    BY <1>1, <1>2, OldFacts DEF ChainInv, LinkOf
  <2>2. LinkOf(i) = 0 \/ LinkOf(i) > u.old[i].pos
    BY <1>1, <1>2, <2>1 DEF ChainInv, PositionsForward, Last
  <2>3. u.old[i + 1].pos <= Len(dat) + 1
    BY <2>1 DEF ChainInv, PositionsForward
  <2> QED BY <1>1, <2>1, <2>2, <2>3
<1>3. CASE ~ (i < Last)
  <2>1. LinkOf(i) \in {0, EOF}
    BY <1>3 DEF LinkOf
  <2>2. Set(u.old[i].frag) # {} => u.old[i].pos <= Len(dat)
    BY <1>1 DEF ChainInv, PositionsForward
  <2> QED BY <1>1, <2>1, <2>2
<1> QED BY <1>2, <1>3

LEMMA WriteFragmentKeeps ==
  ASSUME ChainInv, WriteFragment PROVE ChainInv'
<1>1. /\ u.next \in 1 .. Last /\ u.next \in DOMAIN u.old /\ u.old[u.next].frag \in Fragment
      /\ u.next \in Nat /\ Len(u.old) > 0
  BY OldFacts DEF ChainInv, WriteFragment, TypeOK, UpdateState, SomethingRead
<1>2. \/ dat' = InPlace(u.old[u.next].pos, u.old[u.next].frag, LinkOf(u.next))
      \/ dat' = dat
  BY DEF WriteFragment
<1>3. Grown(dat, dat') /\ Forward(dat')
  <2>1. CASE dat' = dat
    BY <2>1, NoWrite
  <2>2. CASE dat' = InPlace(u.old[u.next].pos, u.old[u.next].frag, LinkOf(u.next))
    BY <1>1, <2>2, LinkOfForward, WriteOld
  <2> QED BY <1>2, <2>1, <2>2
<1>4. /\ u' = [u EXCEPT !.next = u.next + 1]
      /\ UNCHANGED <<head, def, lock, count, pc>> /\ pc = "write"
  BY DEF WriteFragment, Unchanged
<1>5. u'.old = u.old /\ u'.eof = 0 /\ u'.next = u.next + 1
  BY <1>4 DEF ChainInv, TypeOK, UpdateState, EofForward
<1>6. TypeOK'
  <2>1. u.next + 1 \in Nat /\ u.eof \in 0 .. EOF'
    BY <1>1, <1>3, GrowthKeeps
  <2>2. u \in UpdateState
    BY DEF ChainInv, TypeOK
  <2>3. (u \in UpdateState)'
    BY <1>4, <2>1, <2>2 DEF UpdateState
  <2> QED BY <1>3, <1>4, <2>3, GrowthKeeps DEF ChainInv, TypeOK
<1>7. LinksForward'
  BY <1>3 DEF LinksForward, Forward, EOF
<1>8. PositionsForward(u.old, Len(dat))'
  BY <1>3, <1>5, GrowthKeeps DEF PositionsForward, Set
<1>9. NextForward' /\ EofForward' /\ SomethingRead'
  BY <1>1, <1>4, <1>5 DEF NextForward, EofForward, SomethingRead
<1> QED BY <1>6, <1>7, <1>8, <1>9 DEF ChainInv

LEMMA NothingNewKeeps ==
  ASSUME ChainInv, NothingNew PROVE ChainInv'
<1>1. PICK r \in {"updated", "failed"} : End(r)
  BY DEF NothingNew
<1> QED BY <1>1, NoWrite, EndKeeps DEF NothingNew, Unchanged

LEMMA LastFacts ==
  ASSUME ChainInv, Len(u.old) > 0
  PROVE  /\ Last \in DOMAIN u.old /\ u.old[Last].frag \in Fragment
         /\ u.old[Last].pos \in Nat /\ EOF \in Nat
         /\ Set(u.old[Last].frag) # {} => u.old[Last].pos < EOF
<1>1. /\ Last \in DOMAIN u.old /\ u.old[Last].frag \in Fragment
      /\ u.old[Last].pos \in Nat /\ Len(dat) \in Nat
  BY OldFacts DEF ChainInv, Last
<1>2. Set(u.old[Last].frag) # {} => u.old[Last].pos <= Len(dat)
  BY <1>1 DEF ChainInv, PositionsForward
<1> QED BY <1>1, <1>2 DEF EOF

LEMMA NewFragmentDueKeeps ==
  ASSUME ChainInv, NewFragmentDue PROVE ChainInv'
<1>1. /\ u' = [u EXCEPT !.eof = EOF] /\ pc' = "fragment"
      /\ UNCHANGED <<dat, head, def, lock, count>> /\ Len(u.old) > 0
  BY DEF NewFragmentDue, Unchanged, Written, ChainInv, SomethingRead
<1>2. u'.old = u.old /\ u'.eof = EOF
  BY <1>1 DEF ChainInv, TypeOK, UpdateState
<1>3. TypeOK'
  <2>1. EOF \in Nat /\ EOF' = EOF
    BY <1>1, LastFacts DEF EOF
  <2>2. EOF \in 0 .. EOF'
    BY <2>1
  <2>3. u \in UpdateState
    BY DEF ChainInv, TypeOK
  <2>4. (u \in UpdateState)'
    BY <1>1, <2>2, <2>3 DEF UpdateState
  <2> QED BY <1>1, <2>4 DEF ChainInv, TypeOK
<1>4. LinksForward' /\ PositionsForward(u.old, Len(dat))'
  BY <1>1, <1>2 DEF ChainInv, LinksForward, PositionsForward, Set, EOF
<1>5. NextForward' /\ EofForward' /\ SomethingRead'
  BY <1>1, <1>2, LastFacts DEF NextForward, EofForward, SomethingRead, Last, Set
<1> QED BY <1>3, <1>4, <1>5 DEF ChainInv

LEMMA LinkNothingKeeps ==
  ASSUME ChainInv, LinkNothing PROVE ChainInv'
<1>1. Len(u.old) > 0 /\ dat' = InPlace(u.old[Last].pos, u.old[Last].frag, EOF)
  BY DEF LinkNothing, Written, ChainInv, SomethingRead
<1>2. EOF <= EOF
  BY <1>1, LastFacts
<1>3. Grown(dat, dat') /\ Forward(dat')
  BY <1>1, <1>2, LastFacts, WriteOld
<1> QED BY <1>3, EndKeeps DEF LinkNothing, Unchanged

LEMMA WriteHalfKeeps ==
  ASSUME ChainInv, WriteHalf PROVE ChainInv'
<1>1. u.in \in AnyInput /\ Len(u.old) > 0
  BY DEF ChainInv, TypeOK, UpdateState, SomethingRead, WriteHalf
<1>2. Added \in Fragment /\ Added.link = 0
  <2>1. \A f \in DOMAIN u.in : u.in[f] \in Values
    BY <1>1, InputValues
  <2>2. OnlyNew(u.old, u.in) \in Fragment /\ OnlyNew(u.old, u.in).link = 0
    BY <2>1, NewFragmentType DEF OnlyNew, NewFields
  <2> QED BY <2>1, <2>2, NewFragmentType DEF Added
<1>3. [Added EXCEPT !.whole = FALSE] \in Fragment /\ [Added EXCEPT !.whole = FALSE].link = 0
  BY <1>2 DEF Fragment
<1>4. Grown(dat, dat') /\ Forward(dat')
  BY <1>3, NoWrite, AppendWrites, OldFacts DEF WriteHalf, ChainInv, LinksForward, Forward, EOF
<1> QED BY <1>1, <1>4, WriteKeeps DEF WriteHalf, Unchanged

LEMMA WriteRestKeeps ==
  ASSUME ChainInv, WriteRest PROVE ChainInv'
<1>1. /\ dat \in Seq(Fragment) /\ Len(dat) \in Nat /\ DOMAIN dat = 1 .. Len(dat)
      /\ dat \in [1 .. Len(dat) -> Fragment] /\ Len(u.old) > 0
  BY OldFacts, LenProperties DEF ChainInv, SomethingRead, WriteRest
<1>2. /\ dat' \in [1 .. Len(dat) -> Fragment]
      /\ \A q \in 1 .. Len(dat) : dat'[q].link = dat[q].link
  BY <1>1 DEF WriteRest, Fragment
<1>3. dat' \in Seq(Fragment) /\ Len(dat') = Len(dat) /\ DOMAIN dat' = 1 .. Len(dat)
  <2>1. dat' \in Seq(Fragment)
    BY <1>1, <1>2, SeqDef
  <2> QED BY <1>1, <1>2, <2>1, LenProperties
<1>4. Grown(dat, dat') /\ Forward(dat')
  BY <1>1, <1>2, <1>3 DEF Grown, Forward, ChainInv, LinksForward, EOF
<1>5. \/ pc' = "link" /\ UNCHANGED u
      \/ End("updated")
  BY DEF WriteRest
<1> QED BY <1>1, <1>4, <1>5, WriteKeeps, EndKeeps DEF WriteRest, Unchanged

LEMMA LinkLastKeeps ==
  ASSUME ChainInv, LinkLast PROVE ChainInv'
<1>1. Len(u.old) > 0 /\ dat' = InPlace(u.old[Last].pos, u.old[Last].frag, u.eof)
  BY DEF LinkLast, ChainInv, SomethingRead
<1>2. u.eof \in Nat /\ u.eof <= EOF
  BY <1>1, LastFacts DEF ChainInv, TypeOK, UpdateState
<1>3. Set(u.old[Last].frag) # {} => u.eof = 0 \/ u.eof > u.old[Last].pos
  BY <1>1, <1>2, LastFacts DEF ChainInv, EofForward
<1>4. Grown(dat, dat') /\ Forward(dat')
  BY <1>1, <1>2, <1>3, LastFacts, WriteOld
<1> QED BY <1>4, EndKeeps DEF LinkLast, Unchanged

LEMMA UnlockKeeps ==
  ASSUME ChainInv, Unlock PROVE ChainInv'
<1>1. u' = [key |-> u.key, in |-> u.in, check |-> 0, old |-> <<>>,
            next |-> 0, eof |-> 0, result |-> u.result]
  BY DEF Unlock, Idle
<1>2. lock' = FALSE /\ pc' = "idle" /\ UNCHANGED <<dat, head, def, count>>
  BY DEF Unlock
<1>3. TypeOK'
  <2>1. <<>> \in Seq(OldRecord) /\ Len(dat') \in Nat
    BY <1>2, OldFacts DEF ChainInv
  <2>2. (u \in UpdateState)'
    BY <1>1, <2>1 DEF ChainInv, TypeOK, UpdateState, EOF
  <2> QED BY <1>2, <2>2 DEF ChainInv, TypeOK
<1>4. LinksForward'
  BY <1>2 DEF ChainInv, LinksForward, EOF
<1>5. PositionsForward(u.old, Len(dat))' /\ EofForward' /\ SomethingRead' /\ NextForward'
  BY <1>1, <1>2 DEF PositionsForward, EofForward, SomethingRead, NextForward
<1> QED BY <1>3, <1>4, <1>5 DEF ChainInv

-----------------------------------------------------------------------------
(* The theorems *)

LEMMA NextKeeps == ChainInv /\ [Next]_vars => ChainInv'
<1> SUFFICES ASSUME ChainInv, [Next]_vars PROVE ChainInv'
  OBVIOUS
<1>1. CASE Step
  BY <1>1, FindRecordKeeps, CollectKeeps, UpdateInPlaceKeeps, CrashKeeps, LinkFirstKeeps,
     FindFieldsKeeps, WriteFragmentKeeps, NothingNewKeeps, NewFragmentDueKeeps,
     LinkNothingKeeps, WriteHalfKeeps, WriteRestKeeps, LinkLastKeeps, UnlockKeeps DEF Step
<1>2. CASE StartUpdate
  BY <1>2, StartUpdateKeeps
<1>3. CASE Kill
  BY <1>3, CrashKeeps
<1>4. CASE \E k \in Keys : Add(k)
  BY <1>4, AddKeeps
<1>5. CASE UNCHANGED vars
  BY <1>5 DEF vars, ChainInv, TypeOK, UpdateState, LinksForward, PositionsForward, NextForward,
     EofForward, SomethingRead, Last, Set, EOF
<1> QED BY <1>1, <1>2, <1>3, <1>4, <1>5 DEF Next

\* The variables of UpdateChain have their types, and every key in the index has a
\* record in the file.
THEOREM ChainTypeCorrect == Spec => []TypeOK
<1>1. ChainInv => TypeOK
  BY DEF ChainInv
<1> QED BY InitChain, NextKeeps, <1>1, PTL DEF Spec

\* Whatever is updated, killed and added, no chain of fragments leads back.
THEOREM LinksLeadForward == Spec => []LinksForward
<1>1. ChainInv => LinksForward
  BY DEF ChainInv
<1> QED BY InitChain, NextKeeps, <1>1, PTL DEF Spec
=============================================================================
