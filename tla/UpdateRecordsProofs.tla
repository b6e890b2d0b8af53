------------------------ MODULE UpdateRecordsProofs ------------------------
(***************************************************************************)
(* The updates that the code handles: every record is a chain of whole     *)
(* fragments of its own, short enough for its positions to be known, and   *)
(* UpdateChain implements Records.                                         *)
(***************************************************************************)
EXTENDS UpdateChainProofs

-----------------------------------------------------------------------------
(* The chain of a record as a path through the file *)

FileOK == dat \in Seq(Fragment) /\ LinksForward

LinkAt(d, p) == IF p \in DOMAIN d THEN d[p].link ELSE 0

\* The places c of a record in the file d, from one to the next.
IsPath(d, c) ==
  /\ c \in Seq(Nat \ {0}) /\ Len(c) > 0
  /\ \A i \in 1 .. Len(c) : /\ c[i] <= Len(d) + 1
                            /\ LinkAt(d, c[i]) = IF i < Len(c) THEN c[i + 1] ELSE 0

\* What the definition of ChainFrom says of one place.
Following(p, g) ==
  IF p = 0 THEN <<>> ELSE <<p>> \o IF Item(p).link > p THEN g[Item(p).link] ELSE <<>>

LEMMA LinkFacts ==
  ASSUME FileOK
  PROVE  /\ Len(dat) \in Nat /\ DOMAIN dat = 1 .. Len(dat) /\ EOF = Len(dat) + 1
         /\ \A p \in Nat : /\ Item(p).link = LinkAt(dat, p) /\ LinkAt(dat, p) \in Nat
                           /\ LinkAt(dat, p) <= EOF
                           /\ LinkAt(dat, p) = 0 \/ LinkAt(dat, p) > p
         /\ LinkAt(dat, EOF) = 0
<1>1. Len(dat) \in Nat /\ DOMAIN dat = 1 .. Len(dat) /\ EOF = Len(dat) + 1
  BY LenProperties DEF FileOK, EOF
<1>2. ASSUME NEW p \in Nat
      PROVE  /\ Item(p).link = LinkAt(dat, p) /\ LinkAt(dat, p) \in Nat
             /\ LinkAt(dat, p) <= EOF
             /\ LinkAt(dat, p) = 0 \/ LinkAt(dat, p) > p
  <2>1. CASE p \in DOMAIN dat
    <3>1. dat[p] \in Fragment
      BY <1>1, <2>1, ElementOfSeq DEF FileOK
    <3>2. dat[p].link \in Nat /\ (dat[p].link = 0 \/ dat[p].link \in p + 1 .. EOF)
      BY <2>1, <3>1 DEF FileOK, LinksForward, Fragment
    <3> QED BY <1>1, <2>1, <3>2 DEF Item, LinkAt
  <2>2. CASE p \notin DOMAIN dat
    BY <1>1, <2>2, EmptyType DEF Item, LinkAt
  <2> QED BY <2>1, <2>2
<1>3. LinkAt(dat, EOF) = 0
  BY <1>1 DEF LinkAt
<1> QED BY <1>1, <1>2, <1>3

\* ChainFrom is defined for every file whose links lead forward.
LEMMA ChainUnfolds ==
  ASSUME FileOK PROVE \A p \in 0 .. EOF : ChainFrom[p] = Following(p, ChainFrom)
<1> DEFINE IsFrom(g, m) == g = [p \in m .. EOF |-> Following(p, g)]
           Reached == {n \in 0 .. EOF : \E g : IsFrom(g, EOF - n)}
           Missed == (0 .. EOF) \ Reached
<1> HIDE DEF IsFrom, Reached, Missed
<1>1. EOF \in Nat /\ EOF > 0
  BY LinkFacts
<1>2. ASSUME NEW p \in Nat, NEW g, NEW h, \A q \in p + 1 .. EOF : g[q] = h[q]
      PROVE  Following(p, g) = Following(p, h)
  <2>1. CASE Item(p).link > p
    <3>1. Item(p).link \in p + 1 .. EOF
      <4>1. Item(p).link \in Nat /\ Item(p).link <= EOF
        BY LinkFacts
      <4> QED BY <1>1, <2>1, <4>1
    <3> QED BY <1>2, <3>1 DEF Following
  <2>2. CASE ~ (Item(p).link > p)
    BY <2>2 DEF Following
  <2> QED BY <2>1, <2>2
<1>3. Missed = {}
  <2> SUFFICES ASSUME Missed # {} PROVE FALSE
    OBVIOUS
  <2>1. PICK n \in Missed : \A m \in Missed : n <= m
    <3>1. Missed \in SUBSET Nat
      BY DEF Missed
    <3> QED BY <3>1, Least
  <2>2. n \in 0 .. EOF /\ n \notin Reached
    BY <2>1 DEF Missed
  <2>3. CASE n = 0
    <3> DEFINE g == [p \in EOF .. EOF |-> Following(p, <<>>)]
    <3> HIDE DEF g
    <3>1. ASSUME NEW p \in EOF .. EOF PROVE Following(p, <<>>) = Following(p, g)
      <4>1. p \in Nat /\ p + 1 .. EOF = {}
        BY <1>1
      <4> QED BY <1>2, <4>1
    <3>2. IsFrom(g, EOF - n)
      BY <1>1, <2>3, <3>1 DEF IsFrom, g
    <3> QED BY <2>2, <3>2 DEF Reached
  <2>4. CASE n > 0
    <3> DEFINE m == EOF - n
    <3>1. n - 1 \in 0 .. EOF /\ ~ (n <= n - 1) /\ EOF - (n - 1) = m + 1 /\ m \in Nat
      BY <1>1, <2>2, <2>4
    <3>2. n - 1 \in Reached
      BY <2>1, <3>1 DEF Missed
    <3>3. PICK g : IsFrom(g, m + 1)
      BY <3>1, <3>2 DEF Reached
    <3> DEFINE h == [p \in m .. EOF |-> IF p = m THEN Following(m, g) ELSE g[p]]
    <3> HIDE DEF m, h
    <3>4. \A p \in m + 1 .. EOF : g[p] = Following(p, g)
      BY <3>3 DEF IsFrom
    <3>5. \A q \in m + 1 .. EOF : h[q] = g[q]
      BY <1>1, <3>1 DEF h
    <3>6. ASSUME NEW p \in m .. EOF PROVE h[p] = Following(p, h)
      <4>1. p \in Nat /\ \A q \in p + 1 .. EOF : h[q] = g[q]
        BY <1>1, <3>1, <3>5
      <4>2. Following(p, h) = Following(p, g)
        BY <1>2, <4>1
      <4>3. p = m \/ p \in m + 1 .. EOF
        BY <1>1, <3>1
      <4>4. p = m => h[p] = Following(p, g)
        BY DEF h
      <4> QED BY <3>4, <3>5, <4>2, <4>3, <4>4
    <3>7. IsFrom(h, m)
      <4>1. h = [p \in m .. EOF |-> h[p]]
        BY DEF h
      <4> QED BY <3>6, <4>1 DEF IsFrom
    <3> QED BY <2>2, <3>7 DEF m, Reached
  <2> QED BY <1>1, <2>2, <2>3, <2>4
<1>4. PICK g : g = [p \in 0 .. EOF |-> Following(p, g)]
  <2>1. EOF \in 0 .. EOF /\ EOF - EOF = 0
    BY <1>1
  <2>2. EOF \in Reached
    BY <1>3, <2>1 DEF Missed
  <2> QED BY <2>1, <2>2 DEF Reached, IsFrom
<1>5. ChainFrom = [p \in 0 .. EOF |-> Following(p, ChainFrom)]
  BY <1>4, Zenon DEF ChainFrom, Following
<1> QED BY <1>5

LEMMA SingletonPath ==
  ASSUME NEW d, Len(d) \in Nat, NEW p \in 1 .. Len(d) + 1, LinkAt(d, p) = 0
  PROVE  IsPath(d, <<p>>)
BY DEF IsPath

LEMMA ConsPath ==
  ASSUME NEW d, Len(d) \in Nat, NEW c, IsPath(d, c), NEW p \in 1 .. Len(d) + 1,
         LinkAt(d, p) = c[1]
  PROVE  IsPath(d, <<p>> \o c) /\ (<<p>> \o c)[1] = p
<1> DEFINE e == <<p>> \o c
<1>1. c \in Seq(Nat \ {0}) /\ Len(c) \in Nat /\ Len(c) > 0
  BY LenProperties DEF IsPath
<1>2. /\ e \in Seq(Nat \ {0}) /\ Len(e) = Len(c) + 1
      /\ e[1] = p /\ \A i \in 2 .. Len(c) + 1 : e[i] = c[i - 1]
  <2>1. <<p>> \in Seq(Nat \ {0}) /\ Len(<<p>>) = 1 /\ <<p>>[1] = p
    OBVIOUS
  <2>2. /\ e \in Seq(Nat \ {0}) /\ Len(e) = 1 + Len(c)
        /\ \A i \in 1 .. 1 + Len(c) : e[i] = IF i <= 1 THEN <<p>>[i] ELSE c[i - 1]
    BY <1>1, <2>1, ConcatProperties
  <2> QED BY <1>1, <2>1, <2>2
<1> HIDE DEF e
<1>3. ASSUME NEW i \in 1 .. Len(e)
      PROVE  e[i] <= Len(d) + 1 /\ LinkAt(d, e[i]) = IF i < Len(e) THEN e[i + 1] ELSE 0
  <2>1. CASE i = 1
    <3>1. e[i] = p /\ e[i + 1] = c[1] /\ i < Len(e)
      BY <1>1, <1>2, <2>1
    <3> QED BY <3>1
  <2>2. CASE i > 1
    <3>0. /\ Len(c) \in Nat /\ Len(e) = Len(c) + 1 /\ i - 1 \in 1 .. Len(c)
          /\ i \in 2 .. Len(c) + 1
      BY <1>1, <1>2, <2>2
    <3>1. i - 1 \in 1 .. Len(c) /\ e[i] = c[i - 1]
      BY <1>2, <3>0
    <3>2. c[i - 1] <= Len(d) + 1 /\ LinkAt(d, c[i - 1]) = IF i - 1 < Len(c) THEN c[i - 1 + 1] ELSE 0
      BY <3>1 DEF IsPath
    <3>3. i < Len(e) => i - 1 < Len(c) /\ e[i + 1] = c[i - 1 + 1]
      <4>1. i + 1 - 1 = i /\ i - 1 + 1 = i
        OBVIOUS
      <4>2. i < Len(e) => i + 1 \in 2 .. Len(c) + 1 /\ i - 1 < Len(c)
        BY <3>0
      <4> QED BY <1>2, <4>1, <4>2
    <3>4. ~ (i < Len(e)) => ~ (i - 1 < Len(c))
      BY <3>0
    <3> QED BY <3>1, <3>2, <3>3, <3>4
  <2> QED BY <1>1, <1>2, <2>1, <2>2
<1> QED BY <1>1, <1>2, <1>3 DEF IsPath, e

\* What ChainFrom yields is the path from a place.
LEMMA ChainIsPath ==
  ASSUME FileOK
  PROVE  \A p \in 1 .. EOF : IsPath(dat, ChainFrom[p]) /\ ChainFrom[p][1] = p
<1> DEFINE Follows(p) == IsPath(dat, ChainFrom[p]) /\ ChainFrom[p][1] = p
           Bad == {n \in 0 .. EOF - 1 : ~ Follows(EOF - n)}
<1>1. EOF \in Nat /\ EOF > 0 /\ Len(dat) \in Nat /\ EOF = Len(dat) + 1
  BY LinkFacts
<1>2. Bad = {}
  <2> SUFFICES ASSUME Bad # {} PROVE FALSE
    OBVIOUS
  <2>1. PICK n \in Bad : \A m \in Bad : n <= m
    <3>1. Bad \in SUBSET Nat
      BY <1>1
    <3> QED BY <3>1, Least
  <2> DEFINE p == EOF - n
             q == LinkAt(dat, p)
  <2>2. n \in 0 .. EOF - 1 /\ ~ Follows(p) /\ p \in 1 .. EOF
    BY <1>1, <2>1
  <2> HIDE DEF p
  <2>3. ChainFrom[p] = <<p>> \o IF q > p THEN ChainFrom[q] ELSE <<>>
    <3>1. ChainFrom[p] = Following(p, ChainFrom)
      BY <1>1, <2>2, ChainUnfolds
    <3>2. p # 0 /\ Item(p).link = q
      BY <1>1, <2>2, LinkFacts
    <3> QED BY <3>1, <3>2 DEF Following
  <2>4. CASE q > p
    <3>1. q \in Nat /\ q <= EOF /\ EOF - (EOF - q) = q /\ EOF - q \in 0 .. EOF - 1 /\ ~ (n <= EOF - q)
      <4>1. q \in Nat /\ q <= EOF
        BY <2>2, LinkFacts
      <4> HIDE DEF q
      <4> QED BY <1>1, <2>2, <2>4, <4>1 DEF p
    <3>2. Follows(q)
      BY <2>1, <3>1
    <3>3. ChainFrom[p] = <<p>> \o ChainFrom[q]
      BY <2>3, <2>4
    <3> HIDE DEF q
    <3>4. Follows(p)
      BY <1>1, <2>2, <3>2, <3>3, ConsPath DEF q
    <3> QED BY <2>2, <3>4
  <2>5. CASE ~ (q > p)
    <3>1. q = 0
      BY <2>2, <2>5, LinkFacts
    <3>2. ChainFrom[p] = <<p>>
      BY <2>3, <2>5
    <3> QED BY <1>1, <2>2, <3>1, <3>2, SingletonPath
  <2> QED BY <2>4, <2>5
<1>3. ASSUME NEW p \in 1 .. EOF PROVE Follows(p)
  <2>1. EOF - p \in 0 .. EOF - 1 /\ EOF - (EOF - p) = p
    BY <1>1
  <2> HIDE DEF Follows
  <2> QED BY <1>2, <2>1
<1> QED BY <1>3

LEMMA PathsAgreeOn ==
  ASSUME NEW d, NEW c, NEW e, IsPath(d, c), IsPath(d, e), c[1] = e[1]
  PROVE  \A i \in 1 .. Len(c) : i <= Len(e) /\ c[i] = e[i]
<1> DEFINE Bad == {i \in 1 .. Len(c) : ~ (i <= Len(e) /\ c[i] = e[i])}
<1>1. /\ Len(c) \in Nat /\ Len(e) \in Nat /\ Len(c) > 0 /\ Len(e) > 0
      /\ \A i \in 1 .. Len(c) : c[i] # 0
  BY LenProperties, ElementOfSeq DEF IsPath
<1> SUFFICES ASSUME Bad # {} PROVE FALSE
  OBVIOUS
<1>2. PICK n \in Bad : \A m \in Bad : n <= m
  <2>1. Bad \in SUBSET Nat
    OBVIOUS
  <2> QED BY <2>1, Least
<1>3. n > 1
  BY <1>1, <1>2
<1>4. n - 1 \in 1 .. Len(c) /\ n - 1 \notin Bad /\ n - 1 < Len(c) /\ n - 1 + 1 = n
  BY <1>1, <1>2, <1>3
<1>5. n - 1 <= Len(e) /\ c[n - 1] = e[n - 1]
  BY <1>4
<1>6. LinkAt(d, c[n - 1]) = c[n]
  BY <1>4 DEF IsPath
<1>7. LinkAt(d, e[n - 1]) = IF n - 1 < Len(e) THEN e[n] ELSE 0
  <2>1. n - 1 \in 1 .. Len(e)
    BY <1>1, <1>4, <1>5
  <2> QED BY <1>4, <2>1 DEF IsPath
<1>8. c[n] # 0 /\ n - 1 < Len(e) /\ c[n] = e[n]
  BY <1>1, <1>2, <1>5, <1>6, <1>7
<1> QED BY <1>1, <1>2, <1>8

LEMMA PathsAgree ==
  ASSUME NEW d, NEW c, NEW e, IsPath(d, c), IsPath(d, e), c[1] = e[1] PROVE c = e
<1>1. c \in Seq(Nat \ {0}) /\ e \in Seq(Nat \ {0}) /\ Len(c) \in Nat /\ Len(e) \in Nat
      /\ Len(c) > 0 /\ Len(e) > 0
  BY LenProperties DEF IsPath
<1>2. \A i \in 1 .. Len(c) : i <= Len(e) /\ c[i] = e[i]
  BY PathsAgreeOn
<1>3. \A i \in 1 .. Len(e) : i <= Len(c) /\ e[i] = c[i]
  BY PathsAgreeOn
<1>4. Len(c) = Len(e)
  <2>1. Len(c) \in 1 .. Len(c) /\ Len(e) \in 1 .. Len(e)
    BY <1>1
  <2>2. Len(c) <= Len(e) /\ Len(e) <= Len(c)
    BY <1>2, <1>3, <2>1
  <2> QED BY <1>1, <2>2
<1> QED BY <1>1, <1>2, <1>4, SeqEqual

\* A path from one file to the next.
LEMMA PathStays ==
  ASSUME NEW d, NEW e, NEW c, IsPath(d, c), Len(d) \in Nat, Len(e) \in Nat, Len(d) <= Len(e),
         \A i \in 1 .. Len(c) : LinkAt(e, c[i]) = LinkAt(d, c[i])
  PROVE  IsPath(e, c)
<1>1. \A i \in 1 .. Len(c) : c[i] \in Nat
  BY ElementOfSeq DEF IsPath
<1>2. \A i \in 1 .. Len(c) : c[i] <= Len(e) + 1
  BY <1>1 DEF IsPath
<1> QED BY <1>2 DEF IsPath

LEMMA AppendIs ==
  ASSUME NEW S, NEW c \in Seq(S), NEW q \in S
  PROVE  /\ Append(c, q) \in Seq(S) /\ Len(Append(c, q)) = Len(c) + 1 /\ Len(c) \in Nat
         /\ \A i \in 1 .. Len(c) : Append(c, q)[i] = c[i]
         /\ Append(c, q)[Len(c) + 1] = q
         /\ 1 .. Len(c) + 1 = (1 .. Len(c)) \union {Len(c) + 1}
BY AppendProperties, LenProperties

LEMMA PathGrows ==
  ASSUME NEW d, NEW e, NEW c, IsPath(d, c), Len(d) \in Nat, Len(e) \in Nat, Len(d) <= Len(e),
         \A i \in 1 .. Len(c) : i < Len(c) => LinkAt(e, c[i]) = LinkAt(d, c[i]),
         NEW q \in 1 .. Len(e) + 1, LinkAt(e, c[Len(c)]) = q, LinkAt(e, q) = 0
  PROVE  IsPath(e, Append(c, q)) /\ Append(c, q)[1] = c[1]
<1> DEFINE s == Append(c, q)
<1>1. /\ s \in Seq(Nat \ {0}) /\ Len(s) = Len(c) + 1 /\ Len(c) \in Nat /\ Len(c) > 0
      /\ \A i \in 1 .. Len(c) : s[i] = c[i]
      /\ s[Len(c) + 1] = q
  BY AppendIs DEF IsPath
<1>2. \A i \in 1 .. Len(c) : c[i] \in Nat /\ c[i] <= Len(d) + 1
                             /\ LinkAt(d, c[i]) = IF i < Len(c) THEN c[i + 1] ELSE 0
  BY ElementOfSeq DEF IsPath
<1> HIDE DEF s
<1>3. ASSUME NEW i \in 1 .. Len(s)
      PROVE  s[i] <= Len(e) + 1 /\ LinkAt(e, s[i]) = IF i < Len(s) THEN s[i + 1] ELSE 0
  <2>1. CASE i < Len(c)
    <3>1. i \in 1 .. Len(c) /\ i + 1 \in 1 .. Len(c) /\ i < Len(s)
      BY <1>1, <2>1
    <3>2. s[i] = c[i] /\ s[i + 1] = c[i + 1]
      BY <1>1, <3>1
    <3>3. c[i] <= Len(d) + 1 /\ c[i] \in Nat /\ LinkAt(e, c[i]) = c[i + 1]
      BY <1>2, <2>1, <3>1
    <3> QED BY <3>1, <3>2, <3>3
  <2>2. CASE i = Len(c)
    BY <1>1, <1>2, <2>2
  <2>3. CASE i = Len(c) + 1
    BY <1>1, <2>3
  <2> QED BY <1>1, <2>1, <2>2, <2>3
<1>4. IsPath(e, s)
  BY <1>1, <1>3 DEF IsPath
<1> QED BY <1>1, <1>4 DEF s

-----------------------------------------------------------------------------
(* The invariant *)

Live == {k \in Keys : head[k] > 0}

\* A command that changes the record it has read.
Writing == pc \in {"write", "fragment", "half", "link"}

\* The record is linked to the place where the new fragment goes, or is.
Ahead ==
  \/ pc \in {"fragment", "half"} /\ (Last = 1 \/ u.check = SCHEMA_NW)
  \/ pc = "write" /\ u.next > Last /\ u.check = SCHEMA_NW

Place == IF pc = "half" THEN Len(dat) ELSE EOF

Places(old) == [i \in DOMAIN old |-> old[i].pos]

\* The fragments of a record but for one that is being added.
Body(k) == IF Writing /\ k = u.key THEN Places(u.old) ELSE Chain(k)

\* Whole fragments with fields, none of which has a field of another one, and few
\* enough for their positions to be stored.
Sound(d, c) ==
  /\ Len(c) <= MAX_RECS_OLD_CAP + 1
  /\ \A i \in 1 .. Len(c) : c[i] \in DOMAIN d /\ d[c[i]].whole /\ Set(d[c[i]]) # {}
  /\ \A i, j \in 1 .. Len(c) : i # j => Set(d[c[i]]) \cap Set(d[c[j]]) = {}

RecordsSound ==
  /\ \A k \in Live :
       /\ Chain(k) = IF k = u.key /\ Ahead THEN Append(Body(k), Place) ELSE Body(k)
       /\ Sound(dat, Body(k))
  /\ \A k, l \in Live : k # l =>
       \A i \in 1 .. Len(Body(k)), j \in 1 .. Len(Body(l)) : Body(k)[i] # Body(l)[j]

\* Texts fit into their buffers, and fields are those of the definition.
FragmentsFit ==
  /\ \A p \in DOMAIN dat : Grows(dat[p]) = {} /\ Set(dat[p]) \subseteq 1 .. def
  /\ def \in {Base, Base + 1}

\* What check_data knows of the input, while there is an update.
InputChecked ==
  /\ pc = "idle" <=> ~ lock
  /\ IF pc = "idle" THEN u.old = <<>> /\ u.check = 0 /\ u.result \in {"none", "updated", "failed"}
     ELSE /\ DOMAIN u.in \subseteq 1 .. def /\ DOMAIN u.in # {}
          /\ u.check \in {SCHEMA_EQ, SCHEMA_NW, SCHEMA_CT}
          /\ u.check = SCHEMA_EQ => DOMAIN u.in = 1 .. def
          /\ u.check = SCHEMA_NW => def = Base + 1 /\ Base + 1 \in DOMAIN u.in
          /\ pc = "find" => u.old = <<>>
          /\ pc \in {"find", "collect"} =>
               /\ Handled(u.key, u.in, u.check)
               /\ u.check = SCHEMA_NW => \A p \in DOMAIN dat : Base + 1 \notin Set(dat[p])

\* Recs_old holds the record as far as it has been read.
OldIsRead ==
  pc = "collect" =>
    /\ u.key \in Live /\ Last > 0 /\ Last <= Len(Chain(u.key))
    /\ \A i \in 1 .. Last : /\ u.old[i].pos = Chain(u.key)[i]
                            /\ u.old[i].frag = dat[Chain(u.key)[i]]
    /\ u.next = IF Last < Len(Chain(u.key)) THEN Chain(u.key)[Last + 1] ELSE 0

\* The fragment i of Recs_old is that of the file with the input's values for the
\* fields it has, and written or to be written if this makes a difference.
OldIsUpdated(i) ==
  LET frag == u.old[i].frag
      it == dat[u.old[i].pos]
  IN  /\ Set(frag) = Set(it) /\ frag.whole
      /\ \A f \in Common(frag, u.in) : frag.val[f] = u.in[f]
      /\ \A f \in Fields \ DOMAIN u.in : frag.val[f] = it.val[f]
      /\ Last > 1 => /\ u.old[i].to \in {"y", "n", "e"}
                     /\ u.old[i].to = "n" => Common(frag, u.in) = {}
                     /\ u.old[i].to # "y" \/ pc # "write" \/ i < u.next => frag.val = it.val

\* When fields are added, and where.
FieldsMissing ==
  /\ Last = 1 => u.check = SCHEMA_CT
  /\ pc \in {"write", "link"} => Last > 1
  /\ pc = "link" => u.check = SCHEMA_CT
  /\ Last > 1 /\ u.check # SCHEMA_NW =>
       \/ DOMAIN u.in \subseteq UNION {Set(u.old[i].frag) : i \in 1 .. Last}
       \/ u.check = SCHEMA_CT /\ ~ Some("y")
  /\ u.check = SCHEMA_NW => /\ Last = Base
                            /\ \A i \in 1 .. Last : /\ i \in Set(u.old[i].frag)
                                                    /\ Base + 1 \notin Set(u.old[i].frag)
                            /\ u.old[Last].to = "y" /\ Grows(u.old[Last].frag) = {}
  /\ pc # "write" /\ u.check = SCHEMA_CT => \A i \in 1 .. Last : Common(u.old[i].frag, u.in) = {}
  /\ pc # "write" => u.check # SCHEMA_EQ

\* The fragment that is added, where no record has one yet.
Addition ==
  /\ Last > 1 => /\ pc = "fragment" => u.eof = EOF
                 /\ pc \in {"half", "link"} => u.eof = Len(dat)
  /\ pc \in {"half", "link"} =>
       /\ Len(dat) > 0
       /\ LET new == dat[Len(dat)]
          IN  new.val = Added.val /\ new.link = 0 /\ (new.whole <=> pc = "link")
       /\ \A k \in Live : \A i \in 1 .. Len(Body(k)) : Body(k)[i] # Len(dat)

OldIsWritten ==
  Writing => /\ u.key \in Live /\ Last > 0 /\ Last <= MAX_RECS_OLD_CAP
             /\ \A i \in 1 .. Last : OldIsUpdated(i)
             /\ FieldsMissing /\ Addition

\* What an update says when it ends.
SaysTrue ==
  pc = "unlock" => /\ u.result \in {"updated", "failed"}
                   /\ u.result = "updated" =>
                        /\ u.key \in Live
                        /\ \A f \in DOMAIN u.in : Shown(u.key)[f] = {u.in[f]}

Alive ==
  /\ RecordsSound /\ FragmentsFit /\ InputChecked /\ OldIsRead /\ OldIsWritten /\ SaysTrue
  /\ PositionsAreKnown

\* A killed update keeps the lock, and nothing happens after it.
HandledInv ==
  IF pc = "killed" THEN lock /\ PositionsAreKnown /\ ReaderMeetsWhole ELSE Alive

-----------------------------------------------------------------------------
(* Chains *)

LEMMA ChainFacts ==
  ChainInv => /\ FileOK
              /\ \A k \in Live : IsPath(dat, Chain(k)) /\ Chain(k)[1] = head[k]
<1> SUFFICES ASSUME ChainInv
             PROVE  FileOK /\ \A k \in Live : IsPath(dat, Chain(k)) /\ Chain(k)[1] = head[k]
  OBVIOUS
<1>1. FileOK
  BY DEF ChainInv, TypeOK, FileOK
<1>2. \A k \in Live : head[k] \in 1 .. EOF
  <2>1. Len(dat) \in Nat /\ EOF = Len(dat) + 1
    BY <1>1, LinkFacts
  <2>2. \A k \in Live : head[k] \in 0 .. Len(dat) /\ head[k] > 0
    BY DEF ChainInv, TypeOK, Live
  <2> QED BY <2>1, <2>2
<1> QED BY <1>1, <1>2, ChainIsPath DEF Chain

LEMMA ChainFactsNext ==
  ChainInv' => /\ FileOK'
               /\ (\A k \in Live : IsPath(dat, Chain(k)) /\ Chain(k)[1] = head[k])'
<1>1. ChainInv => /\ FileOK
                  /\ \A k \in Live : IsPath(dat, Chain(k)) /\ Chain(k)[1] = head[k]
  BY ChainFacts
<1> QED BY <1>1, PTL

LEMMA ChainIsNext ==
  ASSUME ChainInv', NEW k \in Live', NEW c, IsPath(dat', c), c[1] = head'[k]
  PROVE  Chain(k)' = c
<1>1. IsPath(dat', Chain(k)') /\ Chain(k)'[1] = head'[k]
  BY ChainFactsNext DEF IsPath, LinkAt
<1> QED BY <1>1, PathsAgree

\* The places of a path.
LEMMA PathFacts ==
  ASSUME NEW d, NEW c, IsPath(d, c)
  PROVE  /\ c \in Seq(Nat \ {0}) /\ Len(c) \in Nat /\ Len(c) > 0 /\ DOMAIN c = 1 .. Len(c)
         /\ \A i \in 1 .. Len(c) : c[i] \in Nat /\ c[i] # 0
BY LenProperties, ElementOfSeq DEF IsPath

-----------------------------------------------------------------------------
(* What a get shows of a record *)

ShownIn(d, c, f) ==
  {d[c[i]].val[f] : i \in {j \in 1 .. Len(c) : c[j] \in DOMAIN d /\ d[c[j]].whole}} \ {NoValue}

LEMMA ShownIs ==
  ASSUME ChainInv, NEW k \in Live, NEW f \in Fields
  PROVE  Shown(k)[f] = ShownIn(dat, Chain(k), f)
<1> DEFINE c == Chain(k)
<1>1. IsPath(dat, c)
  BY ChainFacts
<1>2. DOMAIN c = 1 .. Len(c) /\ \A i \in 1 .. Len(c) : c[i] \in Nat
  BY <1>1, PathFacts
<1>3. Shown(k)[f] = {Item(p).val[f] : p \in {q \in {c[i] : i \in 1 .. Len(c)} : Item(q).whole}}
                      \ {NoValue}
  BY <1>2 DEF Shown
<1> HIDE DEF c
<1>4. \A p : p \notin DOMAIN dat => Item(p).val[f] = NoValue
  BY DEF Item, Empty, NewFragment
<1>5. \A p : p \in DOMAIN dat => Item(p) = dat[p]
  BY DEF Item
<1>6. ASSUME NEW v \in Shown(k)[f] PROVE v \in ShownIn(dat, c, f)
  <2>1. PICK i \in 1 .. Len(c) : Item(c[i]).whole /\ v = Item(c[i]).val[f] /\ v # NoValue
    BY <1>3, <1>6
  <2>2. c[i] \in DOMAIN dat
    BY <1>4, <2>1
  <2> QED BY <1>5, <2>1, <2>2 DEF ShownIn
<1>7. ASSUME NEW v \in ShownIn(dat, c, f) PROVE v \in Shown(k)[f]
  <2>1. PICK i \in 1 .. Len(c) : c[i] \in DOMAIN dat /\ dat[c[i]].whole /\ v = dat[c[i]].val[f]
                                 /\ v # NoValue
    BY <1>7 DEF ShownIn
  <2> QED BY <1>3, <1>5, <2>1
<1>8. Shown(k)[f] = ShownIn(dat, c, f)
  BY <1>6, <1>7
<1> QED BY <1>8 DEF c

LEMMA ShownOnce ==
  ASSUME NEW d, NEW c, Sound(d, c), NEW i \in 1 .. Len(c), NEW f \in Set(d[c[i]])
  PROVE  ShownIn(d, c, f) = {d[c[i]].val[f]}
<1>1. f \in Fields /\ d[c[i]].val[f] # NoValue /\ c[i] \in DOMAIN d /\ d[c[i]].whole
  BY DEF Sound, Set
<1>2. ASSUME NEW j \in 1 .. Len(c), j # i PROVE d[c[j]].val[f] = NoValue
  <2>1. f \notin Set(d[c[j]])
    BY <1>2 DEF Sound
  <2> QED BY <1>1, <2>1 DEF Set
<1>3. d[c[i]].val[f] \in ShownIn(d, c, f)
  BY <1>1 DEF ShownIn
<1>4. ASSUME NEW v \in ShownIn(d, c, f) PROVE v = d[c[i]].val[f]
  <2>1. PICK j \in 1 .. Len(c) : v = d[c[j]].val[f] /\ v # NoValue
    BY <1>4 DEF ShownIn
  <2> QED BY <1>2, <2>1
<1> QED BY <1>3, <1>4

LEMMA ShownNever ==
  ASSUME NEW d, NEW c, NEW f \in Fields, \A i \in 1 .. Len(c) : f \notin Set(d[c[i]])
  PROVE  ShownIn(d, c, f) = {}
BY DEF ShownIn, Set

\* A record may go on behind the end of the file, or with half a fragment.
LEMMA ShownAhead ==
  ASSUME NEW d, NEW c \in Seq(Nat), NEW q \in Nat, q \in DOMAIN d => ~ d[q].whole, NEW f
  PROVE  ShownIn(d, Append(c, q), f) = ShownIn(d, c, f)
<1> DEFINE e == Append(c, q)
           In(s) == {j \in 1 .. Len(s) : s[j] \in DOMAIN d /\ d[s[j]].whole}
<1>1. /\ Len(c) \in Nat /\ \A i \in 1 .. Len(c) : e[i] = c[i]
      /\ e[Len(c) + 1] = q /\ Len(e) = Len(c) + 1
      /\ 1 .. Len(c) + 1 = (1 .. Len(c)) \union {Len(c) + 1}
  BY AppendIs
<1> HIDE DEF e
<1>2. In(e) = In(c)
  BY <1>1
<1>3. {d[e[i]].val[f] : i \in In(e)} = {d[c[i]].val[f] : i \in In(c)}
  <2>1. \A i \in In(c) : e[i] = c[i]
    BY <1>1
  <2> HIDE DEF In
  <2> QED BY <1>2, <2>1
<1> QED BY <1>3 DEF ShownIn, e

-----------------------------------------------------------------------------
(* Records and their bodies *)

\* The places of Recs_old.
LEMMA PlacesFacts ==
  ASSUME TypeOK
  PROVE  /\ Places(u.old) \in Seq(Nat) /\ Len(Places(u.old)) = Last /\ Last \in Nat
         /\ DOMAIN u.old = 1 .. Last
         /\ \A i \in 1 .. Last : Places(u.old)[i] = u.old[i].pos
<1>1. Last \in Nat /\ DOMAIN u.old = 1 .. Last /\ \A i \in 1 .. Last : u.old[i].pos \in Nat
  BY OldFacts
<1>2. Places(u.old) = [i \in 1 .. Last |-> u.old[i].pos]
  BY <1>1 DEF Places
<1>3. Places(u.old) \in [1 .. Last -> Nat]
  BY <1>1, <1>2
<1>4. Places(u.old) \in Seq(Nat)
  BY <1>1, <1>3, SeqDef
<1>5. DOMAIN Places(u.old) = 1 .. Last
  BY <1>2
<1>6. Len(Places(u.old)) = Last
  BY <1>1, <1>4, <1>5, LenProperties
<1> QED BY <1>1, <1>2, <1>4, <1>6

LEMMA BodyFacts ==
  ChainInv /\ RecordsSound =>
    \A k \in Live :
       /\ Body(k) \in Seq(Nat) /\ Len(Body(k)) \in Nat
       /\ \A i \in 1 .. Len(Body(k)) : Body(k)[i] \in 1 .. Len(dat)
       /\ Sound(dat, Body(k))
<1> SUFFICES ASSUME ChainInv, RecordsSound, NEW k \in Live
             PROVE  /\ Body(k) \in Seq(Nat) /\ Len(Body(k)) \in Nat
                    /\ \A i \in 1 .. Len(Body(k)) : Body(k)[i] \in 1 .. Len(dat)
                    /\ Sound(dat, Body(k))
  OBVIOUS
<1>1. Body(k) \in Seq(Nat)
  <2>1. Places(u.old) \in Seq(Nat)
    BY PlacesFacts DEF ChainInv
  <2>2. Chain(k) \in Seq(Nat \ {0})
    BY ChainFacts, PathFacts
  <2> QED BY <2>1, <2>2 DEF Body
<1>2. Sound(dat, Body(k))
  BY DEF RecordsSound
<1>3. DOMAIN dat = 1 .. Len(dat)
  BY OldFacts DEF ChainInv
<1> QED BY <1>1, <1>2, <1>3, LenProperties DEF Sound

\* What a get shows of a record is in its body.
LEMMA ShownOfBody ==
  ChainInv /\ RecordsSound /\ OldIsWritten =>
    \A k \in Live, f \in Fields : Shown(k)[f] = ShownIn(dat, Body(k), f)
<1> SUFFICES ASSUME ChainInv, RecordsSound, OldIsWritten, NEW k \in Live, NEW f \in Fields
             PROVE  Shown(k)[f] = ShownIn(dat, Body(k), f)
  OBVIOUS
<1>1. Shown(k)[f] = ShownIn(dat, Chain(k), f)
  BY ShownIs
<1>2. CASE ~ (k = u.key /\ Ahead)
  BY <1>1, <1>2 DEF RecordsSound
<1>3. CASE k = u.key /\ Ahead
  <2>1. Chain(k) = Append(Body(k), Place)
    BY <1>3 DEF RecordsSound
  <2>2. DOMAIN dat = 1 .. Len(dat) /\ Len(dat) \in Nat /\ EOF = Len(dat) + 1
    BY OldFacts DEF ChainInv, EOF
  <2>3. Place \in Nat /\ (Place \in DOMAIN dat => ~ dat[Place].whole)
    <3>1. CASE pc = "half"
      BY <2>2, <3>1 DEF OldIsWritten, Writing, Addition, Place
    <3>2. CASE pc # "half"
      BY <2>2, <3>2 DEF Place
    <3> QED BY <3>1, <3>2
  <2>4. Body(k) \in Seq(Nat)
    BY BodyFacts
  <2> QED BY <1>1, <2>1, <2>3, <2>4, ShownAhead
<1> QED BY <1>2, <1>3

-----------------------------------------------------------------------------
(* Steps that leave the file and the index alone *)

LEMMA Untouched ==
  ASSUME ChainInv, ChainInv', UNCHANGED <<dat, head>>
  PROVE  /\ Live' = Live
         /\ \A k \in Live : Chain(k)' = Chain(k) /\ Shown(k)' = Shown(k)
         /\ \A p : Item(p)' = Item(p)
<1>1. Live' = Live
  BY DEF Live
<1>2. \A p : Item(p)' = Item(p)
  BY DEF Item
<1>3. ASSUME NEW k \in Live PROVE Chain(k)' = Chain(k)
  <2>1. IsPath(dat', Chain(k)) /\ Chain(k)[1] = head'[k]
    BY ChainFacts DEF IsPath, LinkAt
  <2> QED BY <1>1, <2>1, ChainIsNext
<1>4. ASSUME NEW k \in Live PROVE Shown(k)' = Shown(k)
  BY <1>2, <1>3 DEF Shown
<1> QED BY <1>1, <1>2, <1>3, <1>4

LEMMA QuietSound ==
  ASSUME ChainInv, ChainInv', RecordsSound, UNCHANGED <<dat, head>>,
         \A k \in Live : Body(k)' = Body(k),
         \A k \in Live : (k = u.key /\ Ahead)' <=> (k = u.key /\ Ahead),
         Ahead => Place' = Place
  PROVE  RecordsSound'
<1>1. Live' = Live /\ \A k \in Live : Chain(k)' = Chain(k)
  BY Untouched
<1>2. \A k \in Live :
        /\ Chain(k) = IF k = u.key /\ Ahead THEN Append(Body(k), Place) ELSE Body(k)
        /\ Sound(dat, Body(k))
  BY DEF RecordsSound
<1>3. ASSUME NEW k \in Live
      PROVE  /\ Chain(k)' = IF (k = u.key /\ Ahead)' THEN Append(Body(k)', Place') ELSE Body(k)'
             /\ Sound(dat', Body(k)')
  <2>1. Chain(k)' = Chain(k) /\ Body(k)' = Body(k) /\ dat' = dat
    BY <1>1
  <2>2. Sound(dat', Body(k)')
    BY <1>2, <2>1
  <2>3. CASE k = u.key /\ Ahead
    BY <1>2, <2>1, <2>3
  <2>4. CASE ~ (k = u.key /\ Ahead)
    BY <1>2, <2>1, <2>4
  <2> QED BY <2>2, <2>3, <2>4
<1>4. ASSUME NEW k \in Live, NEW l \in Live, k # l
      PROVE  \A i \in 1 .. Len(Body(k)'), j \in 1 .. Len(Body(l)') : Body(k)'[i] # Body(l)'[j]
  BY <1>4 DEF RecordsSound
<1> QED BY <1>1, <1>3, <1>4 DEF RecordsSound

-----------------------------------------------------------------------------
(* Steps that write one item *)

\* The write at p leaves what was there besides, and adds items without links.
OnlyAt(p) ==
  /\ Len(dat) <= Len(dat')
  /\ \A q \in 1 .. Len(dat) : q # p => dat'[q] = dat[q]
  /\ \A q \in 1 .. Len(dat') : q > Len(dat) /\ q # p => dat'[q].link = 0

LEMMA LinksStay ==
  ASSUME ChainInv, ChainInv', NEW p, OnlyAt(p), NEW q \in Nat, q # p
  PROVE  LinkAt(dat', q) = LinkAt(dat, q)
<1>1. /\ DOMAIN dat = 1 .. Len(dat) /\ Len(dat) \in Nat
      /\ DOMAIN dat' = 1 .. Len(dat') /\ Len(dat') \in Nat
  <2>1. dat \in Seq(Fragment) /\ dat' \in Seq(Fragment)
    BY DEF ChainInv, TypeOK
  <2> QED BY <2>1, LenProperties
<1> QED BY <1>1 DEF OnlyAt, LinkAt

\* The records that are not being updated.
LEMMA OthersStay ==
  ASSUME ChainInv, ChainInv', RecordsSound, NEW p, OnlyAt(p),
         NEW k \in Live, head'[k] = head[k], k # u.key \/ ~ Writing,
         \A i \in 1 .. Len(Body(k)) : Body(k)[i] # p
  PROVE  /\ Chain(k)' = Chain(k) /\ Body(k) = Chain(k) /\ Shown(k)' = Shown(k)
         /\ Sound(dat', Body(k))
<1> DEFINE c == Chain(k)
<1>1. Body(k) = c /\ Sound(dat, c) /\ IsPath(dat, c) /\ c[1] = head[k]
  BY ChainFacts DEF Body, RecordsSound
<1>2. /\ DOMAIN dat = 1 .. Len(dat) /\ Len(dat) \in Nat
      /\ DOMAIN dat' = 1 .. Len(dat') /\ Len(dat') \in Nat
  <2>1. dat \in Seq(Fragment) /\ dat' \in Seq(Fragment)
    BY DEF ChainInv, TypeOK
  <2> QED BY <2>1, LenProperties
<1>3. DOMAIN c = 1 .. Len(c) /\ \A i \in 1 .. Len(c) : c[i] \in 1 .. Len(dat) /\ c[i] # p
  BY <1>1, <1>2, PathFacts DEF Sound
<1> HIDE DEF c
<1>4. \A i \in 1 .. Len(c) : dat'[c[i]] = dat[c[i]] /\ c[i] \in 1 .. Len(dat')
  BY <1>2, <1>3 DEF OnlyAt
<1>5. IsPath(dat', c)
  <2>1. \A i \in 1 .. Len(c) : LinkAt(dat', c[i]) = LinkAt(dat, c[i])
    BY <1>3, LinksStay
  <2>2. Len(dat) <= Len(dat')
    BY DEF OnlyAt
  <2> QED BY <1>1, <1>2, <2>1, <2>2, PathStays
<1>6. Chain(k)' = c
  <2>1. k \in Live' /\ c[1] = head'[k]
    BY <1>1 DEF Live
  <2> QED BY <1>5, <2>1, ChainIsNext
<1>7. Sound(dat', c)
  BY <1>1, <1>2, <1>4 DEF Sound
<1>8. Shown(k)' = Shown(k)
  <2> DEFINE C == {c[i] : i \in DOMAIN c}
  <2>1. \A q \in C : Item(q)' = Item(q)
    BY <1>2, <1>3, <1>4 DEF Item
  <2>2. Shown(k) = [f \in Fields |-> {Item(q).val[f] : q \in {r \in C : Item(r).whole}}
                                       \ {NoValue}]
    BY DEF Shown, c
  <2>3. Shown(k)' = [f \in Fields |-> {Item(q)'.val[f] : q \in {r \in C : Item(r)'.whole}}
                                        \ {NoValue}]
    BY <1>6 DEF Shown
  <2> HIDE DEF C
  <2>4. {r \in C : Item(r)'.whole} = {r \in C : Item(r).whole}
    BY <2>1
  <2>5. \A f \in Fields : {Item(q)'.val[f] : q \in {r \in C : Item(r).whole}}
                            = {Item(q).val[f] : q \in {r \in C : Item(r).whole}}
    BY <2>1
  <2> QED BY <2>2, <2>3, <2>4, <2>5
<1> QED BY <1>1, <1>6, <1>7, <1>8 DEF c

LEMMA WriteSoundAt ==
  ASSUME ChainInv, ChainInv', RecordsSound, head' = head, u'.key = u.key, u.key \in Live,
         NEW p, OnlyAt(p),
         \A k \in Live : k # u.key => \A i \in 1 .. Len(Body(k)) : Body(k)[i] # p,
         Chain(u.key)' = IF Ahead' THEN Append(Body(u.key)', Place') ELSE Body(u.key)',
         Sound(dat', Body(u.key)'),
         \A i \in 1 .. Len(Body(u.key)') : \A k \in Live :
            k # u.key => \A j \in 1 .. Len(Body(k)) : Body(u.key)'[i] # Body(k)[j]
  PROVE  /\ RecordsSound'
         /\ \A k \in Live : k # u.key => Shown(k)' = Shown(k)
<1>1. Live' = Live
  BY DEF Live
<1>2. ASSUME NEW k \in Live, k # u.key
      PROVE  /\ Body(k)' = Body(k) /\ Chain(k)' = Body(k)' /\ Sound(dat', Body(k)')
             /\ Shown(k)' = Shown(k)
  <2>1. /\ Chain(k)' = Chain(k) /\ Body(k) = Chain(k) /\ Sound(dat', Body(k))
        /\ Shown(k)' = Shown(k)
    BY <1>2, OthersStay
  <2>2. Body(k)' = Chain(k)'
    BY <1>2 DEF Body
  <2> QED BY <2>1, <2>2
<1> DEFINE key == u.key
<1>3. ASSUME NEW k \in Live
      PROVE  /\ Chain(k)' = IF k = key /\ Ahead' THEN Append(Body(k)', Place') ELSE Body(k)'
             /\ Sound(dat', Body(k)')
  <2>1. CASE k = key
    BY <2>1
  <2>2. CASE k # key
    BY <1>2, <2>2
  <2> QED BY <2>1, <2>2
<1>4. ASSUME NEW k \in Live, k # key
      PROVE  \A i \in 1 .. Len(Body(key)'), j \in 1 .. Len(Body(k)') :
                Body(key)'[i] # Body(k)'[j]
  BY <1>2, <1>4
<1>5. ASSUME NEW k \in Live, NEW l \in Live, k # l
      PROVE  \A i \in 1 .. Len(Body(k)'), j \in 1 .. Len(Body(l)') : Body(k)'[i] # Body(l)'[j]
  <2>1. CASE k = key
    BY <1>4, <1>5, <2>1
  <2>2. CASE l = key
    BY <1>4, <1>5, <2>2
  <2>3. CASE k # key /\ l # key
    BY <1>2, <1>5, <2>3 DEF RecordsSound
  <2> QED BY <2>1, <2>2, <2>3
<1>6. RecordsSound'
  BY <1>1, <1>3, <1>5 DEF RecordsSound
<1> QED BY <1>2, <1>6

LEMMA WriteSound ==
  ASSUME ChainInv, ChainInv', RecordsSound, head' = head, u'.key = u.key, u.key \in Live,
         NEW p, OnlyAt(p),
         \A k \in Live : k # u.key => \A i \in 1 .. Len(Body(k)) : Body(k)[i] # p,
         Chain(u.key)' = IF Ahead' THEN Append(Body(u.key)', Place') ELSE Body(u.key)',
         Sound(dat', Body(u.key)'),
         \A i \in 1 .. Len(Body(u.key)') :
            \/ Body(u.key)'[i] = p
            \/ \E j \in 1 .. Len(Body(u.key)) : Body(u.key)'[i] = Body(u.key)[j]
  PROVE  /\ RecordsSound'
         /\ \A k \in Live : k # u.key => Shown(k)' = Shown(k)
<1> DEFINE key == u.key
<1>1. ASSUME NEW i \in 1 .. Len(Body(key)'), NEW k \in Live, k # key,
             NEW j \in 1 .. Len(Body(k))
      PROVE  Body(key)'[i] # Body(k)[j]
  <2>1. Body(k)[j] # p
    BY <1>1
  <2>2. CASE Body(key)'[i] = p
    BY <2>1, <2>2
  <2>3. CASE \E m \in 1 .. Len(Body(key)) : Body(key)'[i] = Body(key)[m]
    BY <1>1, <2>3 DEF RecordsSound
  <2> QED BY <2>2, <2>3
<1> QED BY <1>1, WriteSoundAt

LEMMA NewFragmentFits ==
  ASSUME NEW in, \A f \in DOMAIN in : in[f] \in Values, DOMAIN in \subseteq Fields
  PROVE  /\ Grows(NewFragment(in)) = {} /\ Set(NewFragment(in)) = DOMAIN in
         /\ \A f \in DOMAIN in : NewFragment(in).val[f] = in[f]
         /\ NewFragment(in).whole = TRUE /\ NewFragment(in).link = 0
<1> DEFINE new == NewFragment(in)
<1>1. /\ \A f \in Fields : new.val[f] = (IF f \in DOMAIN in THEN in[f] ELSE NoValue)
                           /\ new.room[f] = new.val[f]
      /\ new.whole = TRUE /\ new.link = 0
  BY DEF NewFragment
<1> HIDE DEF new
<1>2. Grows(new) = {}
  <2>1. \A f \in Strings : f \in Fields /\ new.val[f] \in Nat
    BY <1>1, ConstantTypes DEF Value0
  <2>2. \A f \in Strings : ~ (new.val[f] > new.room[f])
    BY <1>1, <2>1
  <2> QED BY <2>2 DEF Grows
<1>3. Set(new) = DOMAIN in
  <2>1. \A f \in Fields : f \in Set(new) <=> f \in DOMAIN in
    BY <1>1, ConstantTypes DEF Set
  <2> QED BY <2>1 DEF Set
<1>4. \A f \in DOMAIN in : new.val[f] = in[f]
  BY <1>1
<1> QED BY <1>1, <1>2, <1>3, <1>4 DEF new

LEMMA EmptyFits == Set(Empty) = {} /\ Grows(Empty) = {} /\ Empty.link = 0
<1>1. DOMAIN <<>> = {}
  OBVIOUS
<1> QED BY <1>1, NewFragmentFits DEF Empty

\* What a step leaves that writes a fragment in its place.
InPlaceResult(p, frag, link) ==
  /\ Len(dat') \in Nat /\ DOMAIN dat' = 1 .. Len(dat') /\ Len(dat) <= Len(dat')
  /\ Grows(frag) = {} => Len(dat') = Len(dat)
  /\ p \in 1 .. Len(dat) => /\ dat'[p].val = frag.val /\ dat'[p].whole = frag.whole
                           /\ dat'[p].link = link /\ Grows(dat'[p]) = {}
  /\ \A q \in 1 .. Len(dat) : q # p => dat'[q] = dat[q]
  /\ \A q \in 1 .. Len(dat') : q > Len(dat) => dat'[q] = Empty

LEMMA InPlaceNext ==
  ASSUME dat \in Seq(Fragment), NEW p \in Nat, NEW frag \in Fragment, NEW link \in Nat,
         Set(frag) # {}, dat' = InPlace(p, frag, link)
  PROVE  InPlaceResult(p, frag, link)
<1>1. PICK e : e = dat'
  OBVIOUS
<1>2. e = InPlace(p, frag, link)
  BY <1>1
<1>3. /\ Len(e) \in Nat /\ DOMAIN e = 1 .. Len(e) /\ Len(dat) <= Len(e)
      /\ Grows(frag) = {} => Len(e) = Len(dat)
      /\ p \in 1 .. Len(dat) => /\ e[p].val = frag.val /\ e[p].whole = frag.whole
                               /\ e[p].link = link /\ Grows(e[p]) = {}
      /\ \A q \in 1 .. Len(dat) : q # p => e[q] = dat[q]
      /\ \A q \in 1 .. Len(e) : q > Len(dat) => e[q] = Empty
  BY <1>2, InPlaceIs
<1> QED BY <1>1, <1>3 DEF InPlaceResult

\* The same fields in the same places.
LEMMA SoundStays ==
  ASSUME NEW d, NEW e, NEW c, Sound(d, c),
         \A j \in 1 .. Len(c) : c[j] \in DOMAIN e /\ e[c[j]].whole /\ Set(e[c[j]]) = Set(d[c[j]])
  PROVE  Sound(e, c)
<1>1. \A j \in 1 .. Len(c) : Set(e[c[j]]) # {}
  BY DEF Sound
<1>2. ASSUME NEW j \in 1 .. Len(c), NEW m \in 1 .. Len(c), j # m
      PROVE  Set(e[c[j]]) \cap Set(e[c[m]]) = {}
  <2>1. Set(d[c[j]]) \cap Set(d[c[m]]) = {}
    BY <1>2 DEF Sound
  <2>2. Set(e[c[j]]) = Set(d[c[j]]) /\ Set(e[c[m]]) = Set(d[c[m]])
    OBVIOUS
  <2> QED BY <2>1, <2>2
<1> QED BY <1>1, <1>2 DEF Sound

\* A fragment of the record that is updated is written again, with the same fields: the
\* one at p, the place i of its places c.
Rewritten(c, i, p, frag, link) ==
  /\ p \in 1 .. Len(dat) /\ OnlyAt(p) /\ Len(dat') \in Nat
  /\ dat'[p].val = frag.val /\ dat'[p].link = link /\ dat'[p].whole
  /\ \A k \in Live : k # u.key => \A j \in 1 .. Len(Body(k)) : Body(k)[j] # p
  /\ \A j \in 1 .. Len(c) : j # i => c[j] # p
  /\ Sound(dat', c)
  /\ \A q \in DOMAIN dat' : Grows(dat'[q]) = {} /\ Set(dat'[q]) \subseteq 1 .. def
  /\ Grows(frag) = {} => Len(dat') = Len(dat)
  /\ \A f \in Fields : ShownIn(dat', c, f) = IF f \in Set(frag) THEN {frag.val[f]}
                                             ELSE ShownIn(dat, c, f)

LEMMA InPlaceStep ==
  ASSUME ChainInv, RecordsSound, FragmentsFit, u.key \in Live,
         NEW c, c = Body(u.key), NEW i \in 1 .. Len(c), NEW p \in Nat, p = c[i],
         NEW frag \in Fragment, NEW link \in Nat, dat' = InPlace(p, frag, link),
         Set(frag) = Set(dat[p]), frag.whole
  PROVE  Rewritten(c, i, p, frag, link)
<1>1. /\ dat \in Seq(Fragment) /\ DOMAIN dat = 1 .. Len(dat) /\ Len(dat) \in Nat
      /\ Sound(dat, c) /\ \A j \in 1 .. Len(c) : c[j] \in 1 .. Len(dat)
  BY BodyFacts, OldFacts DEF ChainInv
<1>2. p \in 1 .. Len(dat) /\ Set(frag) # {}
  BY <1>1 DEF Sound
<1>3. /\ Len(dat') \in Nat /\ DOMAIN dat' = 1 .. Len(dat') /\ Len(dat) <= Len(dat')
      /\ Grows(frag) = {} => Len(dat') = Len(dat)
      /\ dat'[p].val = frag.val /\ dat'[p].whole = frag.whole
      /\ dat'[p].link = link /\ Grows(dat'[p]) = {}
      /\ \A q \in 1 .. Len(dat) : q # p => dat'[q] = dat[q]
      /\ \A q \in 1 .. Len(dat') : q > Len(dat) => dat'[q] = Empty
  <2>1. dat \in Seq(Fragment) /\ p \in Nat /\ Set(frag) # {}
    BY <1>1, <1>2
  <2>2. InPlaceResult(p, frag, link)
    BY <2>1, InPlaceNext
  <2> QED BY <1>2, <2>2 DEF InPlaceResult
<1>4. OnlyAt(p)
  BY <1>3, EmptyFits DEF OnlyAt
<1>5. \A j \in 1 .. Len(c) : j # i => c[j] # p
  <2> SUFFICES ASSUME NEW j \in 1 .. Len(c), j # i, c[j] = p PROVE FALSE
    OBVIOUS
  <2>1. Set(dat[c[j]]) \cap Set(dat[c[i]]) = {}
    BY <1>1 DEF Sound
  <2> QED BY <1>2, <2>1
<1>6. \A k \in Live : k # u.key => \A j \in 1 .. Len(Body(k)) : Body(k)[j] # p
  BY DEF RecordsSound
<1>7. Set(dat'[p]) = Set(frag)
  BY <1>3 DEF Set
<1>8. \A j \in 1 .. Len(c) : /\ c[j] \in DOMAIN dat' /\ dat'[c[j]].whole
                             /\ Set(dat'[c[j]]) = Set(dat[c[j]])
                             /\ j # i => dat'[c[j]] = dat[c[j]]
  <2> TAKE j \in 1 .. Len(c)
  <2>1. c[j] \in DOMAIN dat' /\ dat[c[j]].whole
    BY <1>1, <1>3 DEF Sound
  <2>2. CASE j = i
    BY <1>3, <1>7, <2>1, <2>2
  <2>3. CASE j # i
    BY <1>1, <1>3, <1>5, <2>1, <2>3
  <2> QED BY <2>2, <2>3
<1>9. Sound(dat', c)
  BY <1>1, <1>8, SoundStays
<1>10. \A q \in DOMAIN dat' : Grows(dat'[q]) = {} /\ Set(dat'[q]) \subseteq 1 .. def
  <2> TAKE q \in DOMAIN dat'
  <2>1. CASE q = p
    <3>1. Set(dat[p]) \subseteq 1 .. def
      BY <1>1, <1>2 DEF FragmentsFit
    <3>2. Grows(dat'[p]) = {} /\ Set(dat'[p]) = Set(dat[p])
      BY <1>3, <1>7
    <3> QED BY <2>1, <3>1, <3>2
  <2>2. CASE q # p /\ q <= Len(dat)
    BY <1>1, <1>3, <2>2 DEF FragmentsFit
  <2>3. CASE q # p /\ q > Len(dat)
    BY <1>3, <2>3, EmptyFits
  <2>4. q = p \/ (q # p /\ q <= Len(dat)) \/ (q # p /\ q > Len(dat))
    <3>1. q \in Nat
      BY <1>3
    <3> QED BY <1>1, <3>1
  <2> QED BY <2>1, <2>2, <2>3, <2>4
<1>11. ASSUME NEW f \in Fields
       PROVE  ShownIn(dat', c, f) = IF f \in Set(frag) THEN {frag.val[f]} ELSE ShownIn(dat, c, f)
  <2>1. CASE f \in Set(frag)
    <3>1. f \in Set(dat'[c[i]])
      BY <1>7, <2>1
    <3>2. ShownIn(dat', c, f) = {dat'[c[i]].val[f]}
      BY <1>9, <3>1, ShownOnce
    <3> QED BY <1>3, <2>1, <3>2
  <2>2. CASE f \notin Set(frag) /\ \E j \in 1 .. Len(c) : f \in Set(dat[c[j]])
    <3>1. PICK j \in 1 .. Len(c) : f \in Set(dat[c[j]])
      BY <2>2
    <3>2. j # i
      BY <2>2, <3>1
    <3>3. dat'[c[j]] = dat[c[j]]
      BY <1>8, <3>2
    <3>4. ShownIn(dat, c, f) = {dat[c[j]].val[f]}
      BY <1>1, <3>1, ShownOnce
    <3>5. ShownIn(dat', c, f) = {dat'[c[j]].val[f]}
      BY <1>9, <3>1, <3>3, ShownOnce
    <3> QED BY <2>2, <3>3, <3>4, <3>5
  <2>3. CASE \A j \in 1 .. Len(c) : f \notin Set(dat[c[j]])
    <3>1. \A j \in 1 .. Len(c) : f \notin Set(dat'[c[j]])
      BY <1>8, <2>3
    <3>2. ShownIn(dat, c, f) = {} /\ ShownIn(dat', c, f) = {}
      BY <2>3, <3>1, ShownNever
    <3>3. f \notin Set(frag)
      BY <2>3
    <3> QED BY <3>2, <3>3
  <2> QED BY <2>1, <2>2, <2>3
<1> QED BY <1>2, <1>3, <1>4, <1>5, <1>6, <1>9, <1>10, <1>11 DEF Rewritten

-----------------------------------------------------------------------------
(* Steps of Records *)

Refined == [Promise!Next]_(Promise!vars)

Busy == pc \notin {"idle", "killed"}

\* A step that changes nothing a get shows, while a command goes on.
LEMMA StutterRefines ==
  ASSUME ChainInv, ChainInv', UNCHANGED <<dat, head>>, u'.key = u.key, u'.in = u.in, Busy, Busy'
  PROVE  Refined
<1>1. Live' = Live /\ \A k \in Live : Shown(k)' = Shown(k)
  BY Untouched
<1>2. head \in [Keys -> Nat]
  BY OldFacts DEF ChainInv, TypeOK
<1>3. \A k \in Keys : k \in Live \/ head[k] = 0
  BY <1>2 DEF Live
<1> QED BY <1>1, <1>3 DEF Refined, Busy, Promise!vars

\* The killed command has failed.
LEMMA FailRefines ==
  ASSUME ChainInv, ChainInv', UNCHANGED <<dat, head>>, u'.key = u.key, u'.in = u.in, Busy,
         pc' = "killed" \/ (pc' = "idle" /\ u'.result = "failed")
  PROVE  Refined
<1>1. Live' = Live /\ \A k \in Live : Shown(k)' = Shown(k)
  BY Untouched
<1>2. head \in [Keys -> Nat]
  BY OldFacts DEF ChainInv, TypeOK
<1>3. \A k \in Keys : k \in Live \/ head[k] = 0
  BY <1>2 DEF Live
<1>4. Promise!Fail
  BY <1>1, <1>3 DEF Busy, Promise!Fail
<1> QED BY <1>4 DEF Refined, Promise!Next

\* The command that has updated all it was given ends.
LEMMA DoneRefines ==
  ASSUME ChainInv, ChainInv', UNCHANGED <<dat, head>>, u'.key = u.key, u'.in = u.in, Busy,
         pc' = "idle", u'.result = "updated", u.key \in Live,
         \A f \in DOMAIN u.in : Shown(u.key)[f] = {u.in[f]}
  PROVE  Refined
<1>1. Live' = Live /\ \A k \in Live : Shown(k)' = Shown(k)
  BY Untouched
<1>2. head \in [Keys -> Nat]
  BY OldFacts DEF ChainInv, TypeOK
<1>3. \A k \in Keys : k \in Live \/ head[k] = 0
  BY <1>2 DEF Live
<1>4. u.key \in Keys /\ head[u.key] # 0
  BY <1>2 DEF Live
<1>5. Promise!Done
  BY <1>1, <1>3, <1>4 DEF Busy, Promise!Done
<1> QED BY <1>5 DEF Refined, Promise!Next

\* The command sets fields it was given, of its own record.
LEMMA ApplyRefines ==
  ASSUME ChainInv, ChainInv', head' = head, u'.key = u.key, u'.in = u.in, Busy, Busy',
         u.key \in Live,
         \A k \in Live : k # u.key => Shown(k)' = Shown(k),
         \A f \in Fields : \/ Shown(u.key)'[f] = Shown(u.key)[f]
                           \/ f \in DOMAIN u.in /\ Shown(u.key)'[f] = {u.in[f]}
  PROVE  Refined
<1> DEFINE rec == [k \in Keys |-> IF head[k] = 0 THEN [f \in Fields |-> {}] ELSE Shown(k)]
<1>1. head \in [Keys -> Nat]
  BY OldFacts DEF ChainInv, TypeOK
<1>2. u.key \in Keys /\ head[u.key] # 0 /\ \A k \in Keys : k \in Live \/ head[k] = 0
  BY <1>1 DEF Live
<1>3. rec' = [rec EXCEPT ![u.key] = rec'[u.key]]
  BY <1>2
<1>4. rec[u.key] = Shown(u.key) /\ rec'[u.key] = Shown(u.key)'
  BY <1>2
<1>5. Promise!Apply
  <2>1. \A f \in Fields : \/ rec'[u.key][f] = rec[u.key][f]
                          \/ f \in DOMAIN u.in /\ rec'[u.key][f] = {u.in[f]}
    BY <1>4
  <2> QED BY <1>3, <2>1 DEF Busy, Promise!Apply
<1> QED BY <1>5 DEF Refined, Promise!Next

-----------------------------------------------------------------------------
(* What follows from the invariant *)

LEMMA Whole ==
  ChainInv /\ HandledInv => ReaderMeetsWhole /\ PositionsAreKnown
<1> SUFFICES ASSUME ChainInv, Alive, u.check = SCHEMA_CT, Len(u.old) > 1,
                    NEW k \in Keys, head[k] > 0, NEW i \in DOMAIN Chain(k)
             PROVE  Item(Chain(k)[i]).whole
  BY DEF HandledInv, Alive, ReaderMeetsWhole
<1>1. ~ Ahead
  BY OldFacts DEF ChainInv, Ahead, Last, SCHEMA_CT, SCHEMA_NW
<1>2. k \in Live
  BY DEF Live
<1>3. Chain(k) = Body(k) /\ Sound(dat, Chain(k))
  BY <1>1, <1>2 DEF Alive, RecordsSound
<1>4. DOMAIN Chain(k) = 1 .. Len(Chain(k))
  BY <1>2, ChainFacts, PathFacts
<1> QED BY <1>3, <1>4 DEF Sound, Item

\* What is known of the input of an update that goes on.
LEMMA InputFacts ==
  ASSUME ChainInv, FragmentsFit, InputChecked
  PROVE  /\ u.in \in AnyInput /\ \A f \in DOMAIN u.in : u.in[f] \in Values /\ u.in[f] # NoValue
         /\ pc # "idle" => DOMAIN u.in \subseteq Fields
         /\ def \in Nat /\ 1 .. def \subseteq Fields
<1>1. u.in \in AnyInput
  BY DEF ChainInv, TypeOK, UpdateState
<1>2. \A f \in DOMAIN u.in : u.in[f] \in Values
  BY <1>1, InputValues
<1>3. def \in Nat /\ 1 .. def \subseteq Fields
  BY ConstantTypes DEF FragmentsFit, Fields
<1>4. pc # "idle" => DOMAIN u.in \subseteq Fields
  BY <1>3 DEF InputChecked
<1> QED BY <1>1, <1>2, <1>3, <1>4, ConstantTypes

\* What the code handles depends on the file and the index.
LEMMA HandledStays ==
  ASSUME ChainInv, ChainInv', UNCHANGED <<dat, head>>, u'.key \in Keys,
         Handled(u'.key, u'.in, u'.check)
  PROVE  Handled(u.key, u.in, u.check)'
<1>1. \A k \in Live : Chain(k)' = Chain(k)
  BY Untouched
<1>2. \A p : Item(p)' = Item(p)
  BY Untouched
<1>3. head'[u'.key] > 0 => Chain(u.key)' = Chain(u'.key)
  <2> SUFFICES ASSUME head'[u'.key] > 0 PROVE Chain(u.key)' = Chain(u'.key)
    OBVIOUS
  <2>1. u'.key \in Live
    BY DEF Live
  <2> QED BY <1>1, <2>1 DEF Chain
<1> QED BY <1>2, <1>3 DEF Handled

-----------------------------------------------------------------------------
(* The actions: each keeps the invariant, and is a step of Records *)

LEMMA HandledInit == Init => HandledInv /\ Promise!Init
<1> SUFFICES ASSUME Init PROVE HandledInv /\ Promise!Init
  OBVIOUS
<1>1. /\ pc = "idle" /\ lock = FALSE /\ dat = <<>> /\ def = Base /\ u = Idle
      /\ \A k \in Keys : head[k] = 0
  BY DEF Init
<1>2. /\ u.old = <<>> /\ u.check = 0 /\ u.result = "none" /\ u.in = <<>> /\ u.key \in Keys
      /\ u.next = 0
  BY <1>1, ConstantsAreFit DEF Idle
<1>3. Live = {}
  BY <1>1 DEF Live
<1>4. DOMAIN dat = {} /\ DOMAIN u.old = {}
  BY <1>1, <1>2
<1>5. RecordsSound /\ FragmentsFit /\ PositionsAreKnown
  BY <1>1, <1>3, <1>4 DEF RecordsSound, FragmentsFit, PositionsAreKnown
<1>6. InputChecked /\ OldIsRead /\ OldIsWritten /\ SaysTrue
  BY <1>1, <1>2 DEF InputChecked, OldIsRead, OldIsWritten, Writing, SaysTrue
<1>7. Promise!Init
  BY <1>1, <1>2 DEF Promise!Init, Promise!Absent
<1> QED BY <1>1, <1>5, <1>6, <1>7 DEF HandledInv, Alive

LEMMA KillHandled ==
  ASSUME ChainInv, ChainInv', Alive, Kill \/ Crash PROVE HandledInv' /\ Refined
<1>1. /\ pc' = "killed" /\ pc \notin {"idle", "killed"} /\ UNCHANGED <<dat, head, def, lock, u>>
  BY DEF Kill, Crash, Unchanged, OnlyFragment
<1>2. lock /\ lock \in BOOLEAN
  BY <1>1 DEF Alive, InputChecked, ChainInv, TypeOK
<1>3. ReaderMeetsWhole /\ PositionsAreKnown
  BY <1>1, Whole DEF HandledInv
<1>4. \A k \in Live : Chain(k)' = Chain(k)
  BY <1>1, Untouched
<1>5. \A p : Item(p)' = Item(p)
  BY <1>1, Untouched
<1>6. ReaderMeetsWhole'
  BY <1>1, <1>3, <1>4, <1>5 DEF ReaderMeetsWhole, Live
<1>7. PositionsAreKnown'
  BY <1>1, <1>3 DEF PositionsAreKnown
<1>8. Refined
  BY <1>1, FailRefines DEF Busy
<1> QED BY <1>1, <1>2, <1>6, <1>7, <1>8 DEF HandledInv

LEMMA StartUpdateHandled ==
  ASSUME ~ AnyUpdate, ChainInv, ChainInv', Alive, StartUpdate PROVE HandledInv' /\ Refined
<1>1. PICK k \in Updated, in \in Inputs \union IF def = Base THEN WithNewField ELSE {} :
        /\ Handled(k, in, Check(in))
        /\ u' = [Idle EXCEPT !.key = k, !.in = in, !.check = Check(in)]
        /\ def' = IF Check(in) = SCHEMA_NW THEN def + 1 ELSE def
  BY DEF StartUpdate
<1>2. pc = "idle" /\ pc' = "find" /\ lock' = TRUE /\ UNCHANGED <<dat, head>>
  BY DEF StartUpdate
<1>3. /\ u'.key = k /\ u'.in = in /\ u'.check = Check(in) /\ u'.old = <<>> /\ u'.eof = 0
      /\ u'.result = "none"
  BY <1>1 DEF Idle
<1>4. /\ Base \in Nat \ {0} /\ def \in {Base, Base + 1} /\ k \in Keys
      /\ \A p \in DOMAIN dat : Grows(dat[p]) = {} /\ Set(dat[p]) \subseteq 1 .. def
  BY ConstantTypes, ConstantsAreFit DEF Alive, FragmentsFit
<1>5. \/ in \in Inputs /\ DOMAIN in \subseteq 1 .. Base /\ DOMAIN in # {}
      \/ def = Base /\ DOMAIN in = Fields
  <2>1. CASE in \in Inputs
    <3>1. PICK S \in (SUBSET (1 .. Base)) \ {{}} : in \in [S -> Values]
      BY <2>1, ConstantsAreFit
    <3> QED BY <2>1, <3>1
  <2>2. CASE def = Base /\ in \in WithNewField
    BY <2>2 DEF WithNewField
  <2> QED BY <2>1, <2>2
<1>6. /\ Check(in) = SCHEMA_NW => def = Base /\ Base + 1 \in DOMAIN in
      /\ Check(in) # SCHEMA_NW => DOMAIN in \subseteq 1 .. def
      /\ Check(in) = SCHEMA_EQ => DOMAIN in = 1 .. def
      /\ Check(in) \in {SCHEMA_EQ, SCHEMA_NW, SCHEMA_CT}
  <2>1. CASE DOMAIN in \subseteq 1 .. Base
    BY <1>4, <2>1 DEF Check, SCHEMA_NW, SCHEMA_EQ, SCHEMA_CT
  <2>2. CASE def = Base /\ DOMAIN in = Fields
    BY <1>4, <2>2 DEF Check, SCHEMA_NW, SCHEMA_EQ, SCHEMA_CT, Fields
  <2> QED BY <1>5, <2>1, <2>2
<1>7. DOMAIN in \subseteq 1 .. def' /\ def' \in {Base, Base + 1} /\ 1 .. def \subseteq 1 .. def'
  <2>1. CASE Check(in) = SCHEMA_NW
    BY <1>1, <1>4, <1>5, <1>6, <2>1 DEF Fields
  <2>2. CASE Check(in) # SCHEMA_NW
    BY <1>1, <1>4, <1>6, <2>2
  <2> QED BY <2>1, <2>2
<1>8. RecordsSound'
  <2>1. \A l \in Live : Body(l)' = Body(l)
    <3>1. ~ Writing /\ ~ Writing'
      BY <1>2 DEF Writing
    <3> QED BY <1>2, <3>1, Untouched DEF Body
  <2>2. ~ Ahead /\ ~ Ahead'
    BY <1>2 DEF Ahead
  <2> QED BY <1>2, <2>1, <2>2, QuietSound DEF Alive
<1>9. FragmentsFit'
  <2>1. \A p \in DOMAIN dat : Grows(dat[p]) = {} /\ Set(dat[p]) \subseteq 1 .. def'
    BY <1>4, <1>7
  <2> QED BY <1>2, <1>7, <2>1 DEF FragmentsFit
<1>10. InputChecked'
  <2>1. Handled(u.key, u.in, u.check)'
    BY <1>1, <1>2, <1>3, <1>4, HandledStays
  <2>2. u'.check = SCHEMA_NW => def' = Base + 1 /\ \A p \in DOMAIN dat' : Base + 1 \notin Set(dat'[p])
    <3> SUFFICES ASSUME u'.check = SCHEMA_NW
                 PROVE  def' = Base + 1 /\ \A p \in DOMAIN dat' : Base + 1 \notin Set(dat'[p])
      OBVIOUS
    <3>1. def = Base /\ def' = Base + 1
      BY <1>1, <1>3, <1>6
    <3>2. Base + 1 \notin 1 .. def
      BY <1>4, <3>1
    <3> QED BY <1>2, <1>4, <3>1, <3>2
  <2>3. u'.check = SCHEMA_EQ => DOMAIN u'.in = 1 .. def'
    BY <1>1, <1>3, <1>6 DEF SCHEMA_EQ, SCHEMA_NW
  <2>4. DOMAIN in # {}
    <3>1. 1 \in Fields
      BY <1>4 DEF Fields
    <3> QED BY <1>5, <3>1
  <2> QED BY <1>2, <1>3, <1>6, <1>7, <2>1, <2>2, <2>3, <2>4 DEF InputChecked
<1>11. OldIsRead' /\ OldIsWritten' /\ SaysTrue' /\ PositionsAreKnown'
  BY <1>2, <1>3 DEF OldIsRead, OldIsWritten, Writing, SaysTrue, PositionsAreKnown
<1>12. Refined
  <2>1. Live' = Live /\ \A l \in Live : Shown(l)' = Shown(l)
    BY <1>2, Untouched
  <2>2. head \in [Keys -> Nat]
    BY OldFacts DEF ChainInv, TypeOK
  <2>3. \A l \in Keys : l \in Live \/ head[l] = 0
    BY <2>2 DEF Live
  <2>4. DOMAIN in \subseteq Fields /\ \A f \in DOMAIN in : in[f] \in Values
    <3>1. in \in AnyInput
      BY DEF AnyInput
    <3>2. DOMAIN in \subseteq Fields
      BY <1>4, <1>5 DEF Fields
    <3> QED BY <3>1, <3>2, InputValues
  <2>5. u.result # "busy"
    BY <1>2 DEF Alive, InputChecked
  <2>6. Promise!Begin
    BY <1>2, <1>3, <1>4, <2>1, <2>3, <2>4, <2>5 DEF Promise!Begin, Promise!IsInput
  <2> QED BY <2>6 DEF Refined, Promise!Next
<1> QED BY <1>2, <1>8, <1>9, <1>10, <1>11, <1>12 DEF HandledInv, Alive

\* Steps that leave the file alone and do not begin to write.
LEMMA ReadingSound ==
  ASSUME ChainInv, ChainInv', Alive, UNCHANGED <<dat, head, def>>, ~ Writing, ~ Writing'
  PROVE  RecordsSound' /\ FragmentsFit' /\ OldIsWritten'
<1>1. \A l \in Live : Body(l)' = Body(l)
  BY Untouched DEF Body
<1>2. ~ Ahead /\ ~ Ahead'
  BY DEF Ahead, Writing
<1>3. RecordsSound'
  BY <1>1, <1>2, QuietSound DEF Alive
<1>4. FragmentsFit'
  BY DEF Alive, FragmentsFit
<1> QED BY <1>3, <1>4 DEF OldIsWritten

LEMMA UnlockHandled ==
  ASSUME ChainInv, ChainInv', Alive, Unlock PROVE HandledInv' /\ Refined
<1>1. /\ pc = "unlock" /\ pc' = "idle" /\ lock' = FALSE /\ UNCHANGED <<dat, head, def>>
      /\ u' = [Idle EXCEPT !.key = u.key, !.in = u.in, !.result = u.result]
  BY DEF Unlock
<1>2. /\ u'.key = u.key /\ u'.in = u.in /\ u'.old = <<>> /\ u'.check = 0
      /\ u'.result = u.result
  BY <1>1 DEF Idle
<1>3. /\ u.result \in {"updated", "failed"}
      /\ u.result = "updated" => /\ u.key \in Live
                                 /\ \A f \in DOMAIN u.in : Shown(u.key)[f] = {u.in[f]}
  BY <1>1 DEF Alive, SaysTrue
<1>4. RecordsSound' /\ FragmentsFit' /\ OldIsWritten'
  BY <1>1, ReadingSound DEF Writing
<1>5. InputChecked' /\ OldIsRead' /\ SaysTrue' /\ PositionsAreKnown'
  BY <1>1, <1>2, <1>3 DEF InputChecked, OldIsRead, SaysTrue, PositionsAreKnown
<1>6. Refined
  BY <1>1, <1>2, <1>3, FailRefines, DoneRefines DEF Busy
<1> QED BY <1>1, <1>4, <1>5, <1>6 DEF HandledInv, Alive

\* A command that ends, having read.
LEMMA EndHandled ==
  ASSUME ChainInv, ChainInv', Alive, UNCHANGED <<dat, head, def, lock>>, End("failed"),
         pc \in {"find", "collect"}
  PROVE  HandledInv' /\ Refined
<1>1. /\ pc' = "unlock" /\ u' = [u EXCEPT !.result = "failed"]
  BY DEF End
<1>2. /\ u'.key = u.key /\ u'.in = u.in /\ u'.old = u.old /\ u'.check = u.check
      /\ u'.result = "failed"
  BY <1>1 DEF ChainInv, TypeOK, UpdateState
<1>3. RecordsSound' /\ FragmentsFit' /\ OldIsWritten'
  BY <1>1, ReadingSound DEF Writing
<1>4. InputChecked'
  BY <1>1, <1>2 DEF Alive, InputChecked
<1>5. OldIsRead' /\ SaysTrue' /\ PositionsAreKnown'
  BY <1>1, <1>2 DEF OldIsRead, SaysTrue, Alive, PositionsAreKnown
<1>6. Refined
  BY <1>1, <1>2, StutterRefines DEF Busy
<1> QED BY <1>1, <1>3, <1>4, <1>5, <1>6 DEF HandledInv, Alive

\* The next fragment of the record is read.
LEMMA ReadHandled ==
  ASSUME ChainInv, ChainInv', Alive, UNCHANGED <<dat, head, def, lock>>, pc' = "collect",
         pc \in {"find", "collect"}, u.key \in Live,
         NEW n \in Nat, n < Len(Chain(u.key)), n = Len(u.old), NEW p, p = Chain(u.key)[n + 1],
         \A i \in 1 .. n : /\ u.old[i].pos = Chain(u.key)[i]
                           /\ u.old[i].frag = dat[Chain(u.key)[i]],
         u' = [u EXCEPT !.old = InsertRec(u.old, p), !.next = Item(p).link]
  PROVE  HandledInv' /\ Refined
<1> DEFINE c == Chain(u.key)
           r == [pos |-> IF Len(u.old) > MAX_RECS_OLD_CAP THEN 0 ELSE p, frag |-> Item(p)]
<1>1. /\ u'.key = u.key /\ u'.in = u.in /\ u'.check = u.check
      /\ u'.old = Append(u.old, r) /\ u'.next = Item(p).link
  BY DEF ChainInv, TypeOK, UpdateState, InsertRec
<1>2. IsPath(dat, c) /\ Sound(dat, c)
  <2>1. ~ Writing
    BY DEF Writing
  <2> QED BY <2>1, ChainFacts DEF Alive, RecordsSound, Body
<1>3. Len(c) \in Nat /\ Len(c) <= MAX_RECS_OLD_CAP + 1 /\ n + 1 \in 1 .. Len(c)
  BY <1>2, PathFacts DEF Sound
<1>4. p \in Nat \ {0} /\ p \in DOMAIN dat /\ Item(p) = dat[p]
  BY <1>2, <1>3, PathFacts DEF Sound, Item
<1>5. Item(p).link = IF n + 1 < Len(c) THEN c[n + 1 + 1] ELSE 0
  BY <1>2, <1>3, <1>4 DEF IsPath, LinkAt
<1>6. r.pos = p /\ r.frag = dat[p]
  BY <1>3, <1>4, ConstantTypes
<1>7. u.key \in Live' /\ Chain(u.key)' = c
  <2>1. \A k \in Live : Chain(k)' = Chain(k)
    BY Untouched
  <2>2. Chain(u.key)' = ChainFrom'[head'[u'.key]]
    BY DEF Chain
  <2>3. Chain(u.key)' = c
    BY <1>1, <2>1, <2>2, Zenon DEF Chain
  <2> QED BY <1>1, <2>3 DEF Live
<1> HIDE DEF c, r
<1>8. u.old \in Seq(OldRecord) /\ u'.old \in Seq(OldRecord)
  BY DEF ChainInv, TypeOK, UpdateState
<1>9. /\ Len(u'.old) = n + 1 /\ \A i \in 1 .. n : u'.old[i] = u.old[i]
      /\ u'.old[n + 1] = r /\ 1 .. n + 1 = (1 .. n) \union {n + 1}
      /\ DOMAIN u'.old = 1 .. n + 1
  <2>1. DOMAIN u'.old = 1 .. Len(u'.old)
    BY <1>8, LenProperties
  <2>2. /\ Len(u'.old) = n + 1 /\ \A i \in 1 .. n : u'.old[i] = u.old[i]
        /\ u'.old[n + 1] = r
    <3>1. PICK S : S = OldRecord \union {r}
      OBVIOUS
    <3>2. u.old \in Seq(S)
      BY <1>8, <3>1
    <3> QED BY <1>1, <3>1, <3>2, AppendIs
  <2> QED BY <2>1, <2>2
<1>10. \A i \in 1 .. n + 1 : u'.old[i].pos = c[i] /\ u'.old[i].frag = dat[c[i]]
  <2>1. \A i \in 1 .. n : u'.old[i].pos = c[i] /\ u'.old[i].frag = dat[c[i]]
    BY <1>9 DEF c
  <2>2. c[n + 1] = p
    BY DEF c
  <2> QED BY <1>6, <1>9, <2>1, <2>2
<1>11. OldIsRead'
  <2>1. Last' = n + 1 /\ n + 1 > 0 /\ n + 1 <= Len(c)
    BY <1>3, <1>9 DEF Last
  <2>2. u'.key \in Live'
    BY <1>1, <1>7
  <2>3. Chain(u.key)' = c
    BY <1>7
  <2>4. dat' = dat /\ pc' = "collect"
    OBVIOUS
  <2>5. u'.next = IF n + 1 < Len(c) THEN c[n + 1 + 1] ELSE 0
    BY <1>1, <1>5
  <2>6. \A i \in 1 .. n + 1 : u'.old[i].pos = c[i] /\ u'.old[i].frag = dat'[c[i]]
    BY <1>10, <2>4
  <2> QED BY <2>1, <2>2, <2>3, <2>4, <2>5, <2>6 DEF OldIsRead
<1>12. PositionsAreKnown'
  <2>1. \A i \in 1 .. n + 1 : c[i] > 0
    <3>1. \A i \in 1 .. Len(c) : c[i] \in Nat /\ c[i] # 0
      BY <1>2, PathFacts
    <3> QED BY <1>3, <3>1
  <2> QED BY <1>9, <1>10, <2>1 DEF PositionsAreKnown
<1>13. RecordsSound' /\ FragmentsFit' /\ OldIsWritten'
  BY ReadingSound DEF Writing
<1>14. InputChecked'
  <2>1. u.key \in Keys
    BY DEF Live
  <2>2. Handled(u'.key, u'.in, u'.check)
    BY <1>1 DEF Alive, InputChecked
  <2>3. Handled(u.key, u.in, u.check)'
    BY <1>1, <2>1, <2>2, HandledStays
  <2> QED BY <1>1, <2>3 DEF Alive, InputChecked
<1>15. Refined
  BY <1>1, StutterRefines DEF Busy
<1>16. SaysTrue'
  BY DEF SaysTrue
<1> QED BY <1>11, <1>12, <1>13, <1>14, <1>15, <1>16 DEF HandledInv, Alive

LEMMA FindRecordHandled ==
  ASSUME ChainInv, ChainInv', Alive, FindRecord PROVE HandledInv' /\ Refined
<1>1. pc = "find" /\ UNCHANGED <<dat, head, def, lock>>
  BY DEF FindRecord, Unchanged
<1>2. CASE End("failed")
  BY <1>1, <1>2, EndHandled
<1>3. CASE /\ head[u.key] > 0 /\ pc' = "collect"
           /\ u' = [u EXCEPT !.old = InsertRec(<<>>, head[u.key]), !.next = Item(head[u.key]).link]
  <2> DEFINE p == head[u.key]
  <2>1. u.old = <<>> /\ Len(u.old) = 0
    BY <1>1 DEF Alive, InputChecked
  <2>2. u.key \in Live
    BY <1>3, ConstantsAreFit DEF Live, ChainInv, TypeOK, UpdateState
  <2>3. PICK n \in Nat : n = 0
    OBVIOUS
  <2>4. n < Len(Chain(u.key)) /\ p = Chain(u.key)[n + 1] /\ n = Len(u.old)
    BY <2>1, <2>2, <2>3, ChainFacts, PathFacts
  <2>5. u' = [u EXCEPT !.old = InsertRec(u.old, p), !.next = Item(p).link]
    BY <1>3, <2>1
  <2> HIDE DEF p
  <2>6. \A i \in 1 .. n : /\ u.old[i].pos = Chain(u.key)[i]
                          /\ u.old[i].frag = dat[Chain(u.key)[i]]
    BY <2>3
  <2>7. pc' = "collect" /\ pc \in {"find", "collect"}
    BY <1>1, <1>3
  <2> QED BY <1>1, <2>2, <2>4, <2>5, <2>6, <2>7, ReadHandled
<1> QED BY <1>2, <1>3 DEF FindRecord

LEMMA CollectHandled ==
  ASSUME ChainInv, ChainInv', Alive, Collect PROVE HandledInv' /\ Refined
<1>1. pc = "collect" /\ u.next > 0 /\ UNCHANGED <<dat, head, def, lock>>
  BY DEF Collect, Unchanged
<1>2. CASE End("failed")
  BY <1>1, <1>2, EndHandled
<1>3. CASE u' = [u EXCEPT !.old = InsertRec(u.old, u.next), !.next = Item(u.next).link]
           /\ UNCHANGED pc
  <2> DEFINE n == Len(u.old)
             p == u.next
  <2>1. /\ u.key \in Live /\ n \in Nat /\ n <= Len(Chain(u.key))
        /\ \A i \in 1 .. n : /\ u.old[i].pos = Chain(u.key)[i]
                             /\ u.old[i].frag = dat[Chain(u.key)[i]]
        /\ u.next = IF n < Len(Chain(u.key)) THEN Chain(u.key)[n + 1] ELSE 0
    BY <1>1, OldFacts DEF ChainInv, Alive, OldIsRead, Last
  <2>2. n < Len(Chain(u.key)) /\ p = Chain(u.key)[n + 1]
    BY <1>1, <2>1
  <2>3. u' = [u EXCEPT !.old = InsertRec(u.old, p), !.next = Item(p).link]
    BY <1>3
  <2>4. pc' = "collect" /\ pc \in {"find", "collect"} /\ n = Len(u.old)
    BY <1>1, <1>3
  <2> HIDE DEF n, p
  <2> QED BY <1>1, <2>1, <2>2, <2>3, <2>4, ReadHandled
<1> QED BY <1>2, <1>3 DEF Collect

-----------------------------------------------------------------------------
(* A record of one fragment *)

LEMMA ShownIsNext ==
  ChainInv' => (\A k \in Live, f \in Fields : Shown(k)[f] = ShownIn(dat, Chain(k), f))'
<1>1. ChainInv => \A k \in Live, f \in Fields : Shown(k)[f] = ShownIn(dat, Chain(k), f)
  BY ShownIs
<1> QED BY <1>1, PTL

\* What has been read when all of the record has.
LEMMA ReadAll ==
  ASSUME ChainInv, Alive, pc = "collect", u.next = 0
  PROVE  /\ u.key \in Live /\ Body(u.key) = Chain(u.key) /\ Last = Len(Chain(u.key))
         /\ Last \in Nat /\ Last > 0 /\ Last <= MAX_RECS_OLD_CAP + 1
         /\ Places(u.old) = Chain(u.key)
         /\ \A i \in 1 .. Last : /\ u.old[i].pos = Chain(u.key)[i] /\ u.old[i].pos \in DOMAIN dat
                                 /\ u.old[i].frag = dat[u.old[i].pos]
                                 /\ u.old[i].frag.whole /\ Set(u.old[i].frag) # {}
<1> DEFINE c == Chain(u.key)
<1>1. /\ u.key \in Live /\ Last > 0 /\ Last <= Len(c)
      /\ \A i \in 1 .. Last : u.old[i].pos = c[i] /\ u.old[i].frag = dat[c[i]]
      /\ 0 = IF Last < Len(c) THEN c[Last + 1] ELSE 0
  BY DEF Alive, OldIsRead
<1>2. IsPath(dat, c) /\ Body(u.key) = c /\ Sound(dat, c)
  <2>1. ~ Writing
    BY DEF Writing
  <2> QED BY <1>1, <2>1, ChainFacts DEF Alive, RecordsSound, Body
<1>3. /\ c \in Seq(Nat \ {0}) /\ Len(c) \in Nat /\ DOMAIN c = 1 .. Len(c)
      /\ \A i \in 1 .. Len(c) : c[i] \in Nat /\ c[i] # 0
  BY <1>2, PathFacts
<1>4. /\ Places(u.old) \in Seq(Nat) /\ Len(Places(u.old)) = Last /\ Last \in Nat
      /\ \A i \in 1 .. Last : Places(u.old)[i] = u.old[i].pos
  BY PlacesFacts DEF ChainInv
<1> HIDE DEF c
<1>5. Last = Len(c)
  <2>1. Last \in Nat /\ Len(c) \in Nat /\ Last <= Len(c)
    BY <1>1, <1>3, <1>4
  <2>2. ASSUME Last < Len(c) PROVE FALSE
    <3>1. Last + 1 \in 1 .. Len(c)
      BY <2>1, <2>2
    <3>2. c[Last + 1] = 0
      BY <1>1, <2>2
    <3> QED BY <1>3, <3>1, <3>2
  <2> QED BY <2>1, <2>2
<1>6. Places(u.old) = c
  <2>1. c \in Seq(Nat)
    BY <1>3
  <2> QED BY <1>1, <1>4, <1>5, <2>1, SeqEqual
<1>7. \A i \in 1 .. Last : /\ c[i] \in DOMAIN dat /\ dat[c[i]].whole
                           /\ Set(dat[c[i]]) # {}
  BY <1>2, <1>5 DEF Sound
<1> QED BY <1>1, <1>2, <1>4, <1>5, <1>6, <1>7 DEF Sound, c

LEMMA OnlyFacts ==
  ASSUME ChainInv, Alive, OnlyFragment, NEW p, p = u.old[1].pos, NEW frag, frag = u.old[1].frag
  PROVE  /\ u.key \in Live /\ Body(u.key) = Chain(u.key) /\ Len(Chain(u.key)) = 1
         /\ Chain(u.key)[1] = p /\ p \in DOMAIN dat /\ p \in Nat
         /\ frag = dat[p] /\ frag \in Fragment
         /\ frag.whole /\ Set(frag) # {} /\ u.check # SCHEMA_NW
         /\ DOMAIN u.in \subseteq Set(frag) \/ DOMAIN u.in \cap Set(frag) = {}
<1>1. Last = 1 /\ 1 \in 1 .. Last /\ pc = "collect" /\ u.next = 0
  BY DEF OnlyFragment, Last
<1>2. /\ u.key \in Live /\ Body(u.key) = Chain(u.key) /\ Len(Chain(u.key)) = 1
      /\ Chain(u.key)[1] = p /\ p \in DOMAIN dat /\ frag = dat[p]
      /\ frag.whole /\ Set(frag) # {}
  BY <1>1, ReadAll
<1>3. frag \in Fragment /\ p \in Nat
  BY <1>1, OldFacts DEF ChainInv
<1>4. DOMAIN Chain(u.key) = {1}
  <2>1. DOMAIN Chain(u.key) = 1 .. 1
    BY <1>2, ChainFacts, PathFacts
  <2> QED BY <2>1
<1>5. UNION {Set(Item(Chain(u.key)[i])) : i \in DOMAIN Chain(u.key)} = Set(frag)
  BY <1>2, <1>4 DEF Item
<1>6. Handled(u.key, u.in, u.check) /\ head[u.key] > 0
  BY <1>1, <1>2 DEF Alive, InputChecked, Live
<1>7. u.check # SCHEMA_NW /\ (DOMAIN u.in \subseteq Set(frag) \/ DOMAIN u.in \cap Set(frag) = {})
  BY <1>2, <1>5, <1>6 DEF Handled
<1> QED BY <1>2, <1>3, <1>7

\* The fragment with the input's values in the place of its own.
LEMMA OneRewritten ==
  ASSUME ChainInv, Alive, OnlyFragment, UpdateInPlace, NEW p, p = u.old[1].pos
  PROVE  \E frag \in Fragment :
            /\ dat' = InPlace(p, frag, 0) /\ Set(frag) = Set(dat[p]) /\ frag.whole
            /\ DOMAIN u.in \subseteq Set(frag)
            /\ \A f \in DOMAIN u.in : frag.val[f] = u.in[f]
            /\ \A f \in Fields \ DOMAIN u.in : frag.val[f] = dat[p].val[f]
<1> DEFINE was == u.old[1].frag
<1>1. /\ was = dat[p] /\ was \in Fragment /\ was.whole /\ Set(was) # {} /\ u.check # SCHEMA_NW
      /\ DOMAIN u.in \subseteq Set(was) \/ DOMAIN u.in \cap Set(was) = {}
      /\ p \in DOMAIN dat
  BY OnlyFacts
<1> HIDE DEF was
<1>2. /\ u.in \in AnyInput /\ \A f \in DOMAIN u.in : u.in[f] # NoValue
      /\ DOMAIN u.in \subseteq Fields
  BY InputFacts DEF Alive, OnlyFragment
<1>3. \/ Common(was, u.in) # {} /\ dat' = InPlace(p, UpdateCommon(was, u.in), 0)
      \/ u.check # SCHEMA_CT /\ dat' = InPlace(p, UpdateAll(was, u.in), 0)
  BY DEF UpdateInPlace, was
<1>4. CASE Common(was, u.in) # {} /\ dat' = InPlace(p, UpdateCommon(was, u.in), 0)
  <2> DEFINE frag == UpdateCommon(was, u.in)
  <2>1. frag \in Fragment
    BY <1>1, <1>2, UpdateTypes
  <2>2. DOMAIN u.in \subseteq Set(was)
    BY <1>1, <1>4 DEF Common
  <2>3. \A f \in Fields : frag.val[f] = IF f \in DOMAIN u.in THEN u.in[f] ELSE was.val[f]
    <3>1. Common(was, u.in) = DOMAIN u.in
      BY <2>2 DEF Common
    <3> QED BY <1>1, <3>1 DEF UpdateCommon, Fragment
  <2>4. frag.whole
    BY <1>1 DEF UpdateCommon, Fragment
  <2> HIDE DEF frag
  <2>5. Set(frag) = Set(was)
    BY <1>2, <2>2, <2>3 DEF Set
  <2>6. /\ DOMAIN u.in \subseteq Set(frag)
        /\ \A f \in DOMAIN u.in : frag.val[f] = u.in[f]
        /\ \A f \in Fields \ DOMAIN u.in : frag.val[f] = dat[p].val[f]
    BY <1>1, <1>2, <2>2, <2>3, <2>5
  <2> QED BY <1>1, <1>4, <2>1, <2>4, <2>5, <2>6 DEF frag
<1>5. CASE u.check # SCHEMA_CT /\ dat' = InPlace(p, UpdateAll(was, u.in), 0)
  <2> DEFINE frag == UpdateAll(was, u.in)
  <2>1. frag \in Fragment
    BY <1>1, <1>2, UpdateAllTypes
  <2>2. DOMAIN u.in = Set(was)
    <3>1. DOMAIN u.in = 1 .. def
      BY <1>1, <1>5 DEF Alive, InputChecked, OnlyFragment
    <3>2. Set(was) \subseteq 1 .. def
      BY <1>1 DEF Alive, FragmentsFit
    <3> QED BY <1>1, <3>1, <3>2
  <2>3. \A f \in Fields : frag.val[f] = IF f \in DOMAIN u.in THEN u.in[f] ELSE NoValue
    <3>1. Common(was, u.in) = DOMAIN u.in
      BY <2>2 DEF Common
    <3> QED BY <1>1, <3>1 DEF UpdateAll, Fragment
  <2>4. frag.whole
    BY <1>1 DEF UpdateAll, Fragment
  <2> HIDE DEF frag
  <2>5. Set(frag) = Set(was)
    BY <1>2, <2>2, <2>3 DEF Set
  <2>6. /\ DOMAIN u.in \subseteq Set(frag)
        /\ \A f \in DOMAIN u.in : frag.val[f] = u.in[f]
    BY <1>2, <2>2, <2>3, <2>5
  <2>7. \A f \in Fields \ DOMAIN u.in : frag.val[f] = dat[p].val[f]
    BY <1>1, <2>2, <2>3 DEF Set
  <2> QED BY <1>1, <1>5, <2>1, <2>4, <2>5, <2>6, <2>7 DEF frag
<1> QED BY <1>3, <1>4, <1>5

LEMMA UpdateInPlaceHandled ==
  ASSUME ChainInv, ChainInv', Alive, UpdateInPlace PROVE HandledInv' /\ Refined
<1> DEFINE c == Chain(u.key)
           p == u.old[1].pos
<1>1. /\ OnlyFragment /\ pc = "collect" /\ pc' = "unlock" /\ UNCHANGED <<head, def, lock>>
      /\ u' = [u EXCEPT !.result = "updated"]
  BY DEF UpdateInPlace, OnlyFragment, End, Unchanged
<1>2. /\ u'.key = u.key /\ u'.in = u.in /\ u'.old = u.old /\ u'.check = u.check
      /\ u'.result = "updated"
  BY <1>1 DEF ChainInv, TypeOK, UpdateState
<1>3. /\ u.key \in Live /\ Body(u.key) = c /\ Len(c) = 1 /\ c[1] = p /\ p \in DOMAIN dat
      /\ p \in Nat
  BY <1>1, OnlyFacts
<1>4. PICK frag \in Fragment :
            /\ dat' = InPlace(p, frag, 0) /\ Set(frag) = Set(dat[p]) /\ frag.whole
            /\ DOMAIN u.in \subseteq Set(frag)
            /\ \A f \in DOMAIN u.in : frag.val[f] = u.in[f]
            /\ \A f \in Fields \ DOMAIN u.in : frag.val[f] = dat[p].val[f]
  BY <1>1, OneRewritten
<1> HIDE DEF p, c
<1>5. /\ p \in 1 .. Len(dat) /\ OnlyAt(p) /\ Len(dat') \in Nat
      /\ dat'[p].link = 0
      /\ \A k \in Live : k # u.key => \A j \in 1 .. Len(Body(k)) : Body(k)[j] # p
      /\ Sound(dat', c)
      /\ \A q \in DOMAIN dat' : Grows(dat'[q]) = {} /\ Set(dat'[q]) \subseteq 1 .. def
      /\ \A f \in Fields : ShownIn(dat', c, f) = IF f \in Set(frag) THEN {frag.val[f]}
                                                 ELSE ShownIn(dat, c, f)
  <2>1. PICK i \in 1 .. Len(c) : i = 1
    BY <1>3
  <2>2. p = c[i]
    BY <1>3, <2>1
  <2>3. PICK link \in Nat : link = 0
    OBVIOUS
  <2>4. dat' = InPlace(p, frag, link)
    BY <1>4, <2>3
  <2>5. RecordsSound /\ FragmentsFit
    BY DEF Alive
  <2>6. c = Body(u.key)
    BY <1>3
  <2>7. Rewritten(c, i, p, frag, link)
    BY <1>3, <1>4, <2>2, <2>4, <2>5, <2>6, InPlaceStep
  <2> QED BY <2>3, <2>7 DEF Rewritten
<1>6. IsPath(dat, c) /\ c[1] = head[u.key]
  BY <1>3, ChainFacts DEF c
<1>7. u.key \in Live'
  BY <1>1, <1>3 DEF Live
<1>8. Chain(u.key)' = c
  <2>1. LinkAt(dat, p) = 0
    BY <1>3, <1>6 DEF IsPath
  <2>2. LinkAt(dat', p) = 0
    BY <1>5 DEF LinkAt
  <2>3. \A i \in 1 .. Len(c) : LinkAt(dat', c[i]) = LinkAt(dat, c[i])
    BY <1>3, <2>1, <2>2
  <2>4. Len(dat) \in Nat /\ Len(dat) <= Len(dat')
    BY <1>5, OldFacts DEF OnlyAt, ChainInv
  <2>5. IsPath(dat', c)
    BY <1>5, <1>6, <2>3, <2>4, PathStays
  <2>6. c[1] = head'[u.key]
    BY <1>1, <1>6
  <2>7. \A k \in Live' : c[1] = head'[k] => Chain(k)' = c
    BY <2>5, ChainIsNext
  <2> QED BY <1>2, <1>7, <2>6, <2>7 DEF Chain
<1>9. Body(u.key)' = c /\ ~ Ahead'
  BY <1>1, <1>8 DEF Body, Writing, Ahead
<1>10. RecordsSound' /\ \A k \in Live : k # u.key => Shown(k)' = Shown(k)
  <2>1. Sound(dat', Body(u.key)')
    BY <1>5, <1>9
  <2>2. Chain(u.key)' = IF Ahead' THEN Append(Body(u.key)', Place') ELSE Body(u.key)'
    BY <1>8, <1>9
  <2>3. \A i \in 1 .. Len(Body(u.key)') :
            \/ Body(u.key)'[i] = p
            \/ \E j \in 1 .. Len(Body(u.key)) : Body(u.key)'[i] = Body(u.key)[j]
    BY <1>3, <1>9
  <2>4. RecordsSound
    BY DEF Alive
  <2> QED BY <1>1, <1>2, <1>3, <1>5, <2>1, <2>2, <2>3, <2>4, WriteSound
<1>11. FragmentsFit'
  BY <1>1, <1>5 DEF Alive, FragmentsFit
<1>12. InputChecked'
  BY <1>1, <1>2 DEF Alive, InputChecked
<1>13. OldIsRead' /\ OldIsWritten' /\ PositionsAreKnown'
  BY <1>1, <1>2 DEF OldIsRead, OldIsWritten, Writing, Alive, PositionsAreKnown
<1>14. \A f \in Fields : Shown(u.key)'[f] = ShownIn(dat', c, f)
  <2>1. \A k \in Live' : \A f \in Fields : Shown(k)'[f] = ShownIn(dat', Chain(k)', f)
    BY ShownIsNext
  <2> QED BY <1>2, <1>7, <1>8, <2>1 DEF Shown, Chain
<1>15. \A f \in Fields : Shown(u.key)[f] = ShownIn(dat, c, f)
  BY <1>3, ShownIs DEF c
<1>16. \A f \in DOMAIN u.in : f \in Fields /\ Shown(u.key)'[f] = {u.in[f]}
  BY <1>4, <1>5, <1>14 DEF Set
<1>17. SaysTrue'
  BY <1>2, <1>7, <1>16 DEF SaysTrue
<1>18. Refined
  <2>1. \A f \in Fields : \/ Shown(u.key)'[f] = Shown(u.key)[f]
                          \/ f \in DOMAIN u.in /\ Shown(u.key)'[f] = {u.in[f]}
    <3> TAKE f \in Fields
    <3>1. CASE f \in DOMAIN u.in
      BY <1>16, <3>1
    <3>2. CASE f \notin DOMAIN u.in /\ f \in Set(frag)
      <4>1. f \in Set(dat[c[1]]) /\ 1 \in 1 .. Len(c)
        BY <1>3, <1>4, <3>2
      <4>2. Sound(dat, c)
        BY <1>3 DEF Alive, RecordsSound
      <4>3. ShownIn(dat, c, f) = {dat[c[1]].val[f]}
        BY <4>1, <4>2, ShownOnce
      <4>4. dat[c[1]].val[f] = frag.val[f]
        BY <1>3, <1>4, <3>2
      <4>5. Shown(u.key)'[f] = {frag.val[f]}
        BY <1>5, <1>14, <3>2
      <4>6. Shown(u.key)[f] = {frag.val[f]}
        BY <1>15, <4>3, <4>4
      <4> QED BY <4>5, <4>6
    <3>3. CASE f \notin Set(frag)
      BY <1>5, <1>14, <1>15, <3>3
    <3> QED BY <3>1, <3>2, <3>3
  <2> QED BY <1>1, <1>2, <1>3, <1>10, <2>1, ApplyRefines DEF Busy
<1> QED BY <1>1, <1>10, <1>11, <1>12, <1>13, <1>17, <1>18 DEF HandledInv, Alive

\* Fields whose values stay are shown as before.
LEMMA RewrittenShows ==
  ASSUME NEW c, Sound(dat, c), NEW i \in 1 .. Len(c), NEW p, p = c[i],
         NEW frag, NEW link, Rewritten(c, i, p, frag, link), Set(frag) = Set(dat[p]),
         NEW f \in Fields, frag.val[f] = dat[p].val[f]
  PROVE  ShownIn(dat', c, f) = ShownIn(dat, c, f)
<1>1. CASE f \in Set(frag)
  <2>1. ShownIn(dat, c, f) = {dat[c[i]].val[f]}
    BY <1>1, ShownOnce
  <2>2. ShownIn(dat', c, f) = {frag.val[f]}
    BY <1>1 DEF Rewritten
  <2> QED BY <2>1, <2>2
<1>2. CASE f \notin Set(frag)
  BY <1>2 DEF Rewritten
<1> QED BY <1>1, <1>2

LEMMA ShownOfBodyNext ==
  ChainInv' /\ RecordsSound' /\ OldIsWritten' =>
    (\A k \in Live, f \in Fields : Shown(k)[f] = ShownIn(dat, Body(k), f))'
<1>1. ChainInv /\ RecordsSound /\ OldIsWritten =>
        \A k \in Live, f \in Fields : Shown(k)[f] = ShownIn(dat, Body(k), f)
  BY ShownOfBody
<1> QED BY <1>1, PTL

LEMMA LinkFirstHandled ==
  ASSUME ChainInv, ChainInv', Alive, LinkFirst PROVE HandledInv' /\ Refined
<1> DEFINE c == Chain(u.key)
           p == u.old[1].pos
           frag == u.old[1].frag
<1>1. /\ OnlyFragment /\ pc = "collect" /\ pc' = "fragment" /\ UNCHANGED <<head, def, lock, u>>
      /\ u.check = SCHEMA_CT /\ Common(frag, u.in) = {} /\ dat' = InPlace(p, frag, EOF)
      /\ Last = 1
  BY DEF LinkFirst, OnlyFragment, Unchanged, Last
<1>2. /\ u.key \in Live /\ Body(u.key) = c /\ Len(c) = 1 /\ c[1] = p /\ p \in DOMAIN dat
      /\ p \in Nat /\ frag = dat[p] /\ frag \in Fragment /\ frag.whole /\ Set(frag) # {}
  BY <1>1, OnlyFacts
<1>3. Places(u.old) = c
  BY <1>1, ReadAll DEF OnlyFragment
<1>4. RecordsSound /\ FragmentsFit /\ InputChecked
  BY DEF Alive
<1>5. EOF \in Nat /\ EOF = Len(dat) + 1 /\ Len(dat) \in Nat
  BY OldFacts DEF ChainInv, EOF
<1>6. \A q : (u.key \in Live /\ q = u.key) => q \in Live
  OBVIOUS
<1> HIDE DEF p, c, frag
<1>7. Rewritten(c, 1, p, frag, EOF)
  <2>1. PICK i \in 1 .. Len(c) : i = 1
    BY <1>2
  <2>2. p = c[i] /\ c = Body(u.key) /\ Set(frag) = Set(dat[p])
    BY <1>2, <2>1
  <2>3. PICK link \in Nat : link = EOF
    BY <1>5
  <2>4. dat' = InPlace(p, frag, link)
    BY <1>1, <2>3
  <2>5. Rewritten(c, i, p, frag, link)
    BY <1>2, <1>4, <2>2, <2>4, InPlaceStep
  <2> QED BY <2>1, <2>3, <2>5
<1>8. Len(dat') = Len(dat) /\ EOF' = EOF
  <2>1. Grows(frag) = {}
    BY <1>2, <1>4 DEF FragmentsFit
  <2> QED BY <1>7, <2>1 DEF Rewritten, EOF
<1>9. Chain(u.key)' = Append(c, EOF)
  <2>1. IsPath(dat, c) /\ c[1] = head[u.key]
    BY <1>2, ChainFacts DEF c
  <2>2. \A i \in 1 .. Len(c) : i < Len(c) => LinkAt(dat', c[i]) = LinkAt(dat, c[i])
    BY <1>2
  <2>3. DOMAIN dat' = 1 .. Len(dat')
    BY <1>8, LenProperties DEF ChainInv, TypeOK
  <2>4. LinkAt(dat', c[Len(c)]) = EOF /\ LinkAt(dat', EOF) = 0
    BY <1>2, <1>5, <1>7, <1>8, <2>3 DEF Rewritten, LinkAt
  <2>5. Len(dat') \in Nat /\ Len(dat) <= Len(dat') /\ EOF \in 1 .. Len(dat') + 1
    BY <1>5, <1>8
  <2>6. IsPath(dat', Append(c, EOF)) /\ Append(c, EOF)[1] = c[1]
    BY <1>5, <2>1, <2>2, <2>4, <2>5, PathGrows
  <2>7. u.key \in Live'
    BY <1>1, <1>2 DEF Live
  <2>8. \A k \in Live' : c[1] = head'[k] => Chain(k)' = Append(c, EOF)
    BY <2>6, ChainIsNext
  <2> QED BY <1>1, <2>1, <2>7, <2>8 DEF Chain
<1>10. Writing' /\ Ahead' /\ Place' = EOF /\ Body(u.key)' = c
  BY <1>1, <1>3, <1>8 DEF Writing, Ahead, Place, Body, Places, Last
<1>11. RecordsSound' /\ \A k \in Live : k # u.key => Shown(k)' = Shown(k)
  <2>1. Sound(dat', Body(u.key)')
    BY <1>7, <1>10 DEF Rewritten
  <2>2. Chain(u.key)' = IF Ahead' THEN Append(Body(u.key)', Place') ELSE Body(u.key)'
    BY <1>9, <1>10
  <2>3. \A i \in 1 .. Len(Body(u.key)') :
            \/ Body(u.key)'[i] = p
            \/ \E j \in 1 .. Len(Body(u.key)) : Body(u.key)'[i] = Body(u.key)[j]
    BY <1>2, <1>10
  <2>4. OnlyAt(p) /\ \A k \in Live : k # u.key => \A j \in 1 .. Len(Body(k)) : Body(k)[j] # p
    BY <1>7 DEF Rewritten
  <2> QED BY <1>1, <1>2, <1>4, <2>1, <2>2, <2>3, <2>4, WriteSound
<1>12. FragmentsFit'
  BY <1>1, <1>4, <1>7 DEF Rewritten, FragmentsFit
<1>13. InputChecked'
  BY <1>1, <1>4 DEF InputChecked
<1>14. OldIsWritten'
  <2>1. u.key \in Live' /\ Last' = 1 /\ 1 <= MAX_RECS_OLD_CAP
    BY <1>1, <1>2, ConstantTypes DEF Live, Last
  <2>2. dat'[p].val = frag.val
    BY <1>7 DEF Rewritten
  <2>3. \A f \in Common(frag, u.in) : frag.val[f] = u.in[f]
    BY <1>1
  <2>4. \A i \in 1 .. Last' : OldIsUpdated(i)'
    <3> TAKE i \in 1 .. Last'
    <3>1. i = 1
      BY <2>1
    <3>2. u'.old[i].frag = frag /\ dat'[u'.old[i].pos].val = frag.val /\ u'.in = u.in
      BY <1>1, <2>2, <3>1 DEF p, frag
    <3>3. Set(frag) = Set(dat'[u'.old[i].pos])
      BY <3>2 DEF Set
    <3>4. ~ (Last' > 1)
      BY <2>1
    <3> QED BY <1>2, <2>3, <3>2, <3>3, <3>4 DEF OldIsUpdated
  <2>5. FieldsMissing'
    <3>1. \A i \in 1 .. Last' : Common(u'.old[i].frag, u'.in) = {}
      <4> TAKE i \in 1 .. Last'
      <4>1. i = 1
        BY <2>1
      <4> QED BY <1>1, <4>1 DEF frag
    <3> QED BY <1>1, <2>1, <3>1 DEF FieldsMissing, SCHEMA_CT, SCHEMA_NW, SCHEMA_EQ
  <2>6. Addition'
    BY <1>1, <2>1 DEF Addition
  <2>7. u'.key \in Live' /\ Last' > 0 /\ Last' <= MAX_RECS_OLD_CAP
    BY <1>1, <2>1
  <2> QED BY <2>4, <2>5, <2>6, <2>7 DEF OldIsWritten
<1>15. OldIsRead' /\ SaysTrue' /\ PositionsAreKnown'
  BY <1>1 DEF OldIsRead, SaysTrue, Alive, PositionsAreKnown
<1>16. Refined
  <2>1. \A f \in Fields : Shown(u.key)[f] = ShownIn(dat, c, f)
    BY <1>2, ShownIs DEF c
  <2>2. \A k \in Live' : \A f \in Fields : Shown(k)'[f] = ShownIn(dat', Body(k)', f)
    BY <1>11, <1>14, ShownOfBodyNext
  <2>3. u.key \in Live' /\ Sound(dat, c)
    BY <1>1, <1>2, <1>4 DEF Live, RecordsSound
  <2>4. \A f \in Fields : Shown(u.key)'[f] = ShownIn(dat', c, f)
    <3>1. \A k \in Live' : k = u.key => Body(k)' = c
      BY <1>1, <1>10 DEF Body
    <3>2. \A k \in Live' : k = u.key => \A f \in Fields : Shown(k)'[f] = ShownIn(dat', c, f)
      BY <2>2, <3>1
    <3> QED BY <1>1, <2>3, <3>2 DEF Shown, Chain
  <2>5. \A f \in Fields : ShownIn(dat', c, f) = ShownIn(dat, c, f)
    <3> TAKE f \in Fields
    <3>1. PICK i \in 1 .. Len(c) : i = 1
      BY <1>2
    <3>2. Rewritten(c, i, p, frag, EOF) /\ p = c[i] /\ Set(frag) = Set(dat[p])
          /\ frag.val[f] = dat[p].val[f]
      BY <1>2, <1>7, <3>1
    <3> QED BY <2>3, <3>2, RewrittenShows
  <2>6. \A f \in Fields : Shown(u.key)'[f] = Shown(u.key)[f]
    BY <2>1, <2>4, <2>5
  <2> QED BY <1>1, <1>2, <1>11, <2>6, ApplyRefines DEF Busy
<1> QED BY <1>1, <1>11, <1>12, <1>13, <1>14, <1>15, <1>16 DEF HandledInv, Alive

-----------------------------------------------------------------------------
(* A record of several fragments *)

\* Of a fragment in which at most one field differs all fields are updated.
LEMMA MarkedFacts ==
  ASSUME NEW frag \in Fragment, NEW in, \A f \in DOMAIN in : in[f] \in Values,
         Cardinality(Differ(frag, in)) <= 1,
         \A f \in Common(frag, in) \cap Strings : frag.val[f] <= in[f],
         NEW new,
         new = IF CompareRec(frag, in) > 0 THEN Assigned(frag, CompareRec(frag, in), in) ELSE frag
  PROVE  /\ new.room = frag.room /\ new.whole = frag.whole /\ Set(new) = Set(frag)
         /\ \A f \in Fields : new.val[f] = IF f \in Differ(frag, in) THEN in[f] ELSE frag.val[f]
         /\ \A f \in Common(frag, in) : new.val[f] = in[f]
         /\ \A f \in Fields \ DOMAIN in : new.val[f] = frag.val[f]
         /\ Position(frag, in) \in {"y", "n", "e"}
         /\ Position(frag, in) = "n" => Common(frag, in) = {}
         /\ Position(frag, in) = "y" <=> Differ(frag, in) # {}
         /\ Position(frag, in) # "y" => new = frag
<1> DEFINE differ == Differ(frag, in)
           f0 == CompareRec(frag, in)
<1>1. /\ Fields \subseteq Nat /\ Values \subseteq Nat \ {0} /\ NoValue = 0 /\ 0 \notin Fields
      /\ \A f \in Fields : frag.val[f] \in Nat
  <2>1. Fields \subseteq Nat /\ Values \subseteq Nat \ {0} /\ NoValue = 0
    <3>1. Fields \subseteq Nat
      BY ConstantTypes
    <3>2. Values \subseteq Nat \ {0}
      BY ConstantsAreFit
    <3> QED BY <3>1, <3>2 DEF NoValue
  <2>2. 0 \notin Fields
    BY DEF Fields
  <2>3. \A f \in Fields : frag.val[f] \in Values \union {NoValue}
    BY DEF Fragment
  <2>4. \A v \in Values \union {NoValue} : v \in Nat
    BY <2>1
  <2>5. \A f \in Fields : frag.val[f] \in Nat
    BY <2>3, <2>4
  <2> QED BY <2>1, <2>2, <2>5
<1>2. /\ differ \subseteq Common(frag, in) /\ Common(frag, in) \subseteq Fields
      /\ Common(frag, in) \subseteq DOMAIN in /\ Common(frag, in) \subseteq Set(frag)
  BY DEF Differ, Common, Set
<1>3. \A f \in Common(frag, in) \ differ : frag.val[f] = in[f]
  <2> TAKE f \in Common(frag, in) \ differ
  <2>1. frag.val[f] \in Nat /\ in[f] \in Nat
    BY <1>1, <1>2
  <2>2. CASE f \in Strings
    BY <2>1, <2>2 DEF Differ
  <2>3. CASE f \notin Strings
    BY <2>3 DEF Differ
  <2> QED BY <2>2, <2>3
<1>4. IsFiniteSet(differ)
  <2>1. IsFiniteSet(Fields)
    BY ConstantTypes, FS_Interval DEF Fields
  <2> QED BY <1>2, <2>1, FS_Subset
<1>5. Cardinality(differ) = 0 \/ Cardinality(differ) = 1
  <2>1. Cardinality(differ) \in Nat /\ Cardinality(differ) <= 1
    BY <1>4, FS_CardinalityType
  <2> HIDE DEF differ
  <2> QED BY <2>1
<1>6. CASE differ = {}
  <2>1. f0 \in {0, -1} /\ (f0 = -1 <=> Common(frag, in) = {})
    BY <1>6 DEF CompareRec
  <2>2. new = frag
    BY <2>1
  <2>3. Position(frag, in) = IF Common(frag, in) = {} THEN "n" ELSE "e"
    BY <2>1 DEF Position
  <2> QED BY <1>2, <1>3, <1>6, <2>2, <2>3
<1>7. CASE differ # {}
  <2>1. PICK f \in differ : differ = {f}
    <3>1. Cardinality(differ) = 1
      BY <1>4, <1>5, <1>7, FS_EmptySet
    <3> QED BY <1>4, <3>1, FS_Singleton
  <2>2. f \in Fields /\ f \in Nat /\ f > 0 /\ f \in DOMAIN in /\ f \in Set(frag)
    <3>1. f \in Fields /\ f \in DOMAIN in /\ f \in Set(frag)
      BY <1>2, <2>1
    <3>2. f \in Nat /\ f # 0
      BY <1>1, <3>1
    <3> QED BY <3>1, <3>2
  <2>3. f0 = f
    BY <2>1, <2>2 DEF CompareRec
  <2>4. new = [frag EXCEPT !.val[f] = in[f]]
    BY <2>2, <2>3 DEF Assigned
  <2>5. new.room = frag.room /\ new.whole = frag.whole
    BY <2>4 DEF Fragment
  <2>6. \A g \in Fields : new.val[g] = IF g \in differ THEN in[g] ELSE frag.val[g]
    BY <2>1, <2>2, <2>4 DEF Fragment
  <2>7. Set(new) = Set(frag)
    <3>1. in[f] # NoValue
      BY <1>1, <2>2
    <3> HIDE DEF differ
    <3> QED BY <2>1, <2>2, <2>6, <3>1 DEF Set
  <2>8. Position(frag, in) = "y"
    BY <2>2, <2>3 DEF Position
  <2> HIDE DEF differ
  <2>9. /\ \A g \in Common(frag, in) : new.val[g] = in[g]
        /\ \A g \in Fields \ DOMAIN in : new.val[g] = frag.val[g]
    BY <1>2, <1>3, <2>6
  <2> QED BY <1>7, <2>5, <2>6, <2>7, <2>8, <2>9 DEF differ
<1> QED BY <1>6, <1>7

\* Recs_old, marked: what the input makes of each fragment.
LEMMA FindFacts ==
  ASSUME ChainInv, ChainInv', Alive, FindFields, ~ Recs(u.old)
  PROVE  /\ u'.key = u.key /\ u'.in = u.in /\ u'.check = u.check /\ u'.next = 1
         /\ pc = "collect" /\ pc' = "write" /\ UNCHANGED <<dat, head, def, lock>>
         /\ u.key \in Live /\ Last > 1 /\ Last' = Last /\ Last <= MAX_RECS_OLD_CAP
         /\ Last = Len(Chain(u.key)) /\ Places(u.old) = Chain(u.key)
         /\ \A i \in 1 .. Last :
              LET was == u.old[i].frag
                  frag == u'.old[i].frag
              IN  /\ u'.old[i].pos = u.old[i].pos /\ u.old[i].pos = Chain(u.key)[i]
                  /\ u.old[i].pos \in DOMAIN dat /\ was = dat[u.old[i].pos] /\ was.whole
                  /\ u'.old[i].to = Position(was, u.in)
                  /\ Cardinality(Differ(was, u.in)) <= 1
                  /\ \A f \in Common(was, u.in) \cap Strings : was.val[f] <= u.in[f]
                  /\ frag = IF CompareRec(was, u.in) > 0
                            THEN Assigned(was, CompareRec(was, u.in), u.in) ELSE was
<1> DEFINE c == Chain(u.key)
<1>1. /\ pc = "collect" /\ u.next = 0 /\ Last > 1 /\ UNCHANGED <<dat, head, def, lock>>
  BY DEF FindFields, Unchanged, Last
<1>2. Last \in Nat /\ MAX_RECS_OLD_CAP \in Nat /\ DOMAIN u.old = 1 .. Last
  BY OldFacts, ConstantTypes DEF ChainInv
<1>3. Last <= MAX_RECS_OLD_CAP
  BY <1>2 DEF Recs, Last
<1>4. pc' = "write" /\ u' = [u EXCEPT !.old = FindFieldsToUpdate(u.old, u.in), !.next = 1]
  BY DEF FindFields
<1>5. /\ u'.key = u.key /\ u'.in = u.in /\ u'.check = u.check /\ u'.next = 1
      /\ u'.old = FindFieldsToUpdate(u.old, u.in)
  BY <1>4 DEF ChainInv, TypeOK, UpdateState
<1>6. Last' = Last
  BY <1>5, FindKeeps DEF Last
<1>7. /\ u.key \in Live /\ Last = Len(c) /\ Places(u.old) = c
      /\ \A i \in 1 .. Last : /\ u.old[i].pos = c[i] /\ u.old[i].pos \in DOMAIN dat
                              /\ u.old[i].frag = dat[u.old[i].pos] /\ u.old[i].frag.whole
  BY <1>1, ReadAll
<1>8. \A i \in 1 .. Last :
        /\ u'.old[i].pos = u.old[i].pos
        /\ u'.old[i].to = Position(u.old[i].frag, u.in)
        /\ u'.old[i].frag = IF CompareRec(u.old[i].frag, u.in) > 0
                            THEN Assigned(u.old[i].frag, CompareRec(u.old[i].frag, u.in), u.in)
                            ELSE u.old[i].frag
  BY <1>2, <1>5 DEF FindFieldsToUpdate
<1>9. \A i \in 1 .. Last :
        /\ Cardinality(Differ(u.old[i].frag, u.in)) <= 1
        /\ \A f \in Common(u.old[i].frag, u.in) \cap Strings : u.old[i].frag.val[f] <= u.in[f]
  <2>1. Handled(u.key, u.in, u.check) /\ head[u.key] > 0
    BY <1>1, <1>7 DEF Alive, InputChecked, Live
  <2>2. DOMAIN c = 1 .. Last
    BY <1>7, ChainFacts, PathFacts
  <2>3. \A i \in 1 .. Last : Item(c[i]) = u.old[i].frag
    BY <1>7 DEF Item
  <2>4. \A i \in DOMAIN c : /\ Cardinality(Differ(Item(c[i]), u.in)) <= 1
                            /\ \A f \in Common(Item(c[i]), u.in) \cap Strings :
                                 Item(c[i]).val[f] <= u.in[f]
    BY <1>1, <1>7, <2>1 DEF Handled
  <2> QED BY <2>2, <2>3, <2>4
<1> QED BY <1>1, <1>3, <1>4, <1>5, <1>6, <1>7, <1>8, <1>9

LEMMA FindFieldsHandled ==
  ASSUME ChainInv, ChainInv', Alive, FindFields PROVE HandledInv' /\ Refined
<1> DEFINE was(i) == u.old[i].frag
           frag(i) == u'.old[i].frag
<1>1. CASE Recs(u.old)
  <2>1. /\ End("failed") /\ UNCHANGED <<dat, head, def, lock>> /\ pc \in {"find", "collect"}
    BY <1>1 DEF FindFields, Unchanged
  <2> QED BY <2>1, EndHandled
<1>2. CASE ~ Recs(u.old)
  <2>1. /\ u'.key = u.key /\ u'.in = u.in /\ u'.check = u.check /\ u'.next = 1
        /\ pc = "collect" /\ pc' = "write" /\ UNCHANGED <<dat, head, def, lock>>
        /\ u.key \in Live /\ Last > 1 /\ Last' = Last /\ Last <= MAX_RECS_OLD_CAP
        /\ Last = Len(Chain(u.key)) /\ Places(u.old) = Chain(u.key)
    BY <1>2, FindFacts
  <2>2. \A i \in 1 .. Last :
          /\ u'.old[i].pos = u.old[i].pos /\ u.old[i].pos = Chain(u.key)[i]
          /\ u.old[i].pos \in DOMAIN dat /\ was(i) = dat[u.old[i].pos] /\ was(i).whole
          /\ u'.old[i].to = Position(was(i), u.in)
    BY <1>2, FindFacts
  <2>3. DOMAIN u.old = 1 .. Last /\ DOMAIN u'.old = 1 .. Last /\ Last \in Nat
        /\ \A i \in 1 .. Last : was(i) \in Fragment
    <3>1. u'.old \in Seq(OldRecord)
      BY DEF ChainInv, TypeOK, UpdateState
    <3>2. DOMAIN u'.old = 1 .. Last'
      BY <3>1, LenProperties DEF Last
    <3> QED BY <2>1, <3>2, OldFacts DEF ChainInv
  <2>4. ASSUME NEW i \in 1 .. Last
        PROVE  /\ frag(i).room = was(i).room /\ frag(i).whole = was(i).whole
               /\ Set(frag(i)) = Set(was(i))
               /\ \A f \in Fields : frag(i).val[f] = IF f \in Differ(was(i), u.in) THEN u.in[f]
                                                     ELSE was(i).val[f]
               /\ \A f \in Common(was(i), u.in) : frag(i).val[f] = u.in[f]
               /\ \A f \in Fields \ DOMAIN u.in : frag(i).val[f] = was(i).val[f]
               /\ Position(was(i), u.in) \in {"y", "n", "e"}
               /\ Position(was(i), u.in) = "n" => Common(was(i), u.in) = {}
               /\ Position(was(i), u.in) = "y" <=> Differ(was(i), u.in) # {}
               /\ Position(was(i), u.in) # "y" => frag(i) = was(i)
    <3>1. /\ Cardinality(Differ(was(i), u.in)) <= 1
          /\ \A f \in Common(was(i), u.in) \cap Strings : was(i).val[f] <= u.in[f]
          /\ frag(i) = IF CompareRec(was(i), u.in) > 0
                       THEN Assigned(was(i), CompareRec(was(i), u.in), u.in) ELSE was(i)
      BY <1>2, FindFacts
    <3>2. was(i) \in Fragment /\ \A f \in DOMAIN u.in : u.in[f] \in Values
      BY <2>3, InputFacts DEF Alive
    <3> HIDE DEF was, frag
    <3> QED BY <3>1, <3>2, MarkedFacts
  <2>5. \A i \in 1 .. Last : Common(frag(i), u.in) = Common(was(i), u.in)
    <3> HIDE DEF was, frag
    <3> QED BY <2>4 DEF Common
  <2>6. \A i \in 1 .. Last : OldIsUpdated(i)'
    <3> TAKE i \in 1 .. Last
    <3> DEFINE w == was(i)
               g == frag(i)
    <3>1. /\ dat'[u'.old[i].pos] = w /\ u'.old[i].frag = g /\ u'.in = u.in /\ w.whole
          /\ u'.old[i].to = Position(w, u.in)
      BY <2>1, <2>2
    <3>2. /\ g.whole = w.whole /\ Set(g) = Set(w) /\ Common(g, u.in) = Common(w, u.in)
          /\ \A f \in Common(w, u.in) : g.val[f] = u.in[f]
          /\ \A f \in Fields \ DOMAIN u.in : g.val[f] = w.val[f]
          /\ Position(w, u.in) \in {"y", "n", "e"}
          /\ Position(w, u.in) = "n" => Common(w, u.in) = {}
          /\ Position(w, u.in) # "y" => g = w
      BY <2>4, <2>5
    <3>3. pc' = "write" /\ ~ (i < u'.next)
      BY <2>1, <2>3
    <3> HIDE DEF w, g
    <3> QED BY <3>1, <3>2, <3>3 DEF OldIsUpdated
  <2>7. FieldsMissing'
    <3>1. Handled(u.key, u.in, u.check) /\ head[u.key] > 0
      BY <2>1 DEF Alive, InputChecked, Live
    <3>2. DOMAIN Chain(u.key) = 1 .. Last /\ \A i \in 1 .. Last : Item(Chain(u.key)[i]) = was(i)
      BY <2>1, <2>2, ChainFacts, PathFacts DEF Item
    <3>3. Len(Chain(u.key)) > 1 /\ Last \in 1 .. Last
      BY <2>1, <2>3
    <3>4. u.check # SCHEMA_NW =>
            \/ DOMAIN u.in \subseteq UNION {Set(was(i)) : i \in 1 .. Last}
            \/ u.check = SCHEMA_CT /\ UNION {Differ(was(i), u.in) : i \in 1 .. Last} = {}
      <4>1. u.check # SCHEMA_NW =>
              \/ DOMAIN u.in \subseteq UNION {Set(Item(Chain(u.key)[i])) : i \in DOMAIN Chain(u.key)}
              \/ /\ u.check = SCHEMA_CT
                 /\ UNION {Differ(Item(Chain(u.key)[i]), u.in) : i \in DOMAIN Chain(u.key)} = {}
        BY <3>1, <3>3 DEF Handled
      <4>2. {Set(Item(Chain(u.key)[i])) : i \in DOMAIN Chain(u.key)} = {Set(was(i)) : i \in 1 .. Last}
        BY <3>2
      <4>3. {Differ(Item(Chain(u.key)[i]), u.in) : i \in DOMAIN Chain(u.key)}
              = {Differ(was(i), u.in) : i \in 1 .. Last}
        BY <3>2
      <4> HIDE DEF was
      <4> QED BY <4>1, <4>2, <4>3
    <3>5. u.check # SCHEMA_NW =>
            \/ DOMAIN u.in \subseteq UNION {Set(frag(i)) : i \in 1 .. Last}
            \/ u.check = SCHEMA_CT /\ \A i \in 1 .. Last : u'.old[i].to # "y"
      <4>1. UNION {Set(was(i)) : i \in 1 .. Last} = UNION {Set(frag(i)) : i \in 1 .. Last}
        <5>1. \A i \in 1 .. Last : Set(frag(i)) = Set(was(i))
          BY <2>4
        <5> HIDE DEF was, frag
        <5> QED BY <5>1
      <4>2. UNION {Differ(was(i), u.in) : i \in 1 .. Last} = {} =>
              \A i \in 1 .. Last : u'.old[i].to # "y"
        BY <2>2, <2>4
      <4> HIDE DEF was, frag
      <4> QED BY <3>4, <4>1, <4>2
    <3>6. ASSUME u.check = SCHEMA_NW
          PROVE  /\ Last = Base
                 /\ \A i \in 1 .. Last : i \in Set(frag(i)) /\ Base + 1 \notin Set(frag(i))
                 /\ u'.old[Last].to = "y" /\ Grows(frag(Last)) = {}
      <4>1. /\ Last = Base /\ \A i \in 1 .. Base : i \in Set(was(i))
            /\ Differ(was(Last), u.in) # {}
            /\ \A f \in Differ(was(Last), u.in) \cap Strings : u.in[f] <= was(Last).room[f]
        BY <2>1, <3>1, <3>2, <3>3, <3>6 DEF Handled
      <4>2. \A i \in 1 .. Last : Base + 1 \notin Set(was(i))
        BY <2>1, <2>2, <3>6 DEF Alive, InputChecked
      <4>3. u'.old[Last].to = "y"
        <5>1. Last \in 1 .. Last
          BY <3>3
        <5>2. Position(was(Last), u.in) = "y" /\ u'.old[Last].to = Position(was(Last), u.in)
          <6> HIDE DEF was
          <6> QED BY <2>2, <2>4, <4>1, <5>1
        <5> QED BY <5>2
      <4>4. Grows(frag(Last)) = {}
        <5> DEFINE w == was(Last)
                   g == frag(Last)
        <5>1. /\ Grows(w) = {} /\ g.room = w.room
              /\ \A f \in Fields : g.val[f] = IF f \in Differ(w, u.in) THEN u.in[f] ELSE w.val[f]
          BY <2>2, <2>4, <3>3 DEF Alive, FragmentsFit
        <5>2. \A f \in Differ(w, u.in) \cap Strings : u.in[f] <= w.room[f]
          BY <4>1
        <5>3. /\ \A f \in Fields : w.room[f] \in Nat /\ w.val[f] \in Nat
              /\ \A f \in DOMAIN u.in : u.in[f] \in Nat
          <6>1. w \in Fragment
            BY <2>3, <3>3
          <6>2. \A v \in Values \union {NoValue} : v \in Nat
            BY ConstantTypes DEF Value0
          <6>3. \A f \in DOMAIN u.in : u.in[f] \in Values
            BY InputFacts DEF Alive
          <6> HIDE DEF w
          <6> QED BY <6>1, <6>2, <6>3 DEF Fragment
        <5>4. Differ(w, u.in) \subseteq DOMAIN u.in /\ Strings \subseteq Fields
          BY ConstantTypes DEF Differ, Common
        <5> HIDE DEF w, g
        <5>5. \A f \in Strings : ~ (g.val[f] > g.room[f])
          <6> TAKE f \in Strings
          <6>1. CASE f \in Differ(w, u.in)
            BY <5>1, <5>2, <5>3, <5>4, <6>1
          <6>2. CASE f \notin Differ(w, u.in)
            BY <5>1, <5>3, <5>4, <6>2 DEF Grows
          <6> QED BY <6>1, <6>2
        <5>6. Grows(g) = {}
          BY <5>5 DEF Grows
        <5> QED BY <5>6 DEF g
      <4> QED BY <2>4, <4>1, <4>2, <4>3, <4>4
    <3>7. u'.check = u.check /\ Last' = Last /\ pc' = "write" /\ Last > 1 /\ u'.in = u.in
      BY <2>1
    <3>8. Some("y")' <=> \E i \in 1 .. Last : u'.old[i].to = "y"
      BY <3>7 DEF Some
    <3> QED BY <3>5, <3>6, <3>7, <3>8 DEF FieldsMissing
  <2>8. Addition'
    BY <2>1 DEF Addition
  <2>9. OldIsWritten'
    <3>1. u'.key \in Live' /\ Last' > 0 /\ Last' <= MAX_RECS_OLD_CAP
      BY <2>1, <2>3 DEF Live
    <3> QED BY <2>1, <2>6, <2>7, <2>8, <3>1 DEF OldIsWritten
  <2>10. RecordsSound'
    <3>1. ~ Ahead /\ ~ Ahead'
      BY <2>1, <2>3 DEF Ahead
    <3>2. Places(u'.old) = Places(u.old)
      BY <2>2, <2>3 DEF Places
    <3>3. \A l \in Live : Body(l)' = Body(l)
      BY <2>1, <3>2, Untouched DEF Body, Writing
    <3> QED BY <2>1, <3>1, <3>3, QuietSound DEF Alive
  <2>11. FragmentsFit' /\ InputChecked' /\ OldIsRead' /\ SaysTrue'
    BY <2>1 DEF Alive, FragmentsFit, InputChecked, OldIsRead, SaysTrue
  <2>12. PositionsAreKnown'
    BY <2>2, <2>3 DEF Alive, PositionsAreKnown
  <2>13. Refined
    BY <2>1, StutterRefines DEF Busy
  <2> QED BY <2>1, <2>9, <2>10, <2>11, <2>12, <2>13 DEF HandledInv, Alive
<1> QED BY <1>1, <1>2

\* What has been said of a fragment of Recs_old stays true while neither changes.
LEMMA UpdatedStays ==
  ASSUME NEW i, OldIsUpdated(i), u'.old[i] = u.old[i], u'.in = u.in, Last' = Last,
         dat'[u'.old[i].pos] = dat[u.old[i].pos],
         pc' # "write" \/ i < u'.next => pc # "write" \/ i < u.next
  PROVE  OldIsUpdated(i)'
<1> DEFINE frag == u.old[i].frag
           it == dat[u.old[i].pos]
<1>1. /\ Set(frag) = Set(it) /\ frag.whole
      /\ \A f \in Common(frag, u.in) : frag.val[f] = u.in[f]
      /\ \A f \in Fields \ DOMAIN u.in : frag.val[f] = it.val[f]
  BY DEF OldIsUpdated
<1>2. Last > 1 => /\ u.old[i].to \in {"y", "n", "e"}
                  /\ u.old[i].to = "n" => Common(frag, u.in) = {}
                  /\ u.old[i].to # "y" \/ pc # "write" \/ i < u.next => frag.val = it.val
  BY DEF OldIsUpdated
<1>3. u'.old[i].frag = frag /\ dat'[u'.old[i].pos] = it /\ u'.old[i].to = u.old[i].to
  OBVIOUS
<1> HIDE DEF frag, it
<1> QED BY <1>1, <1>2, <1>3 DEF OldIsUpdated

\* The fragments of a record that is being written.
LEMMA WritingFacts ==
  ASSUME ChainInv, Alive, Writing
  PROVE  /\ u.key \in Live /\ Body(u.key) = Places(u.old) /\ Last \in Nat /\ Last > 0
         /\ Len(Places(u.old)) = Last /\ Sound(dat, Places(u.old)) /\ Last <= MAX_RECS_OLD_CAP
         /\ DOMAIN u.old = 1 .. Last /\ FieldsMissing /\ Addition
         /\ \A i \in 1 .. Last :
              /\ Places(u.old)[i] = u.old[i].pos /\ u.old[i].pos \in DOMAIN dat
              /\ u.old[i].pos \in Nat /\ u.old[i].frag \in Fragment /\ u.old[i].frag.whole
              /\ Set(u.old[i].frag) = Set(dat[u.old[i].pos]) /\ Set(u.old[i].frag) # {}
              /\ OldIsUpdated(i)
         /\ IsPath(dat, Chain(u.key)) /\ Chain(u.key)[1] = head[u.key]
         /\ Chain(u.key) = IF Ahead THEN Append(Places(u.old), Place) ELSE Places(u.old)
<1>1. /\ u.key \in Live /\ Last > 0 /\ Last <= MAX_RECS_OLD_CAP /\ FieldsMissing /\ Addition
      /\ \A i \in 1 .. Last : OldIsUpdated(i)
  BY DEF Alive, OldIsWritten
<1>2. Body(u.key) = Places(u.old)
  BY DEF Body
<1>3. /\ Sound(dat, Places(u.old))
      /\ Chain(u.key) = IF Ahead THEN Append(Places(u.old), Place) ELSE Places(u.old)
  BY <1>1, <1>2 DEF Alive, RecordsSound
<1>4. /\ Len(Places(u.old)) = Last /\ Last \in Nat /\ DOMAIN u.old = 1 .. Last
      /\ \A i \in 1 .. Last : Places(u.old)[i] = u.old[i].pos
  BY PlacesFacts DEF ChainInv
<1>5. \A i \in 1 .. Last : u.old[i].pos \in Nat /\ u.old[i].frag \in Fragment
  BY OldFacts DEF ChainInv
<1>6. \A i \in 1 .. Last : /\ u.old[i].pos \in DOMAIN dat /\ Set(dat[u.old[i].pos]) # {}
                           /\ Set(u.old[i].frag) = Set(dat[u.old[i].pos])
                           /\ u.old[i].frag.whole
  <2> TAKE i \in 1 .. Last
  <2>1. Places(u.old)[i] \in DOMAIN dat /\ Set(dat[Places(u.old)[i]]) # {}
    BY <1>3, <1>4 DEF Sound
  <2>2. Set(u.old[i].frag) = Set(dat[u.old[i].pos]) /\ u.old[i].frag.whole
    BY <1>1 DEF OldIsUpdated
  <2> QED BY <1>4, <2>1, <2>2
<1>7. IsPath(dat, Chain(u.key)) /\ Chain(u.key)[1] = head[u.key]
  BY <1>1, ChainFacts
<1> QED BY <1>1, <1>2, <1>3, <1>4, <1>5, <1>6, <1>7

\* One of them is written: of the record, a get shows what it did or what the input sets.
LEMMA WriteStep ==
  ASSUME ChainInv, Alive, Writing, NEW i \in 1 .. Last, NEW link \in Nat,
         dat' = InPlace(u.old[i].pos, u.old[i].frag, link)
  PROVE  /\ Rewritten(Places(u.old), i, u.old[i].pos, u.old[i].frag, link)
         /\ \A f \in Fields :
              \/ ShownIn(dat', Places(u.old), f) = ShownIn(dat, Places(u.old), f)
              \/ f \in DOMAIN u.in /\ ShownIn(dat', Places(u.old), f) = {u.in[f]}
<1> DEFINE c == Places(u.old)
           p == u.old[i].pos
           frag == u.old[i].frag
<1>1. /\ u.key \in Live /\ c = Body(u.key) /\ i \in 1 .. Len(c) /\ p = c[i] /\ p \in Nat
      /\ frag \in Fragment /\ Set(frag) = Set(dat[p]) /\ frag.whole /\ Sound(dat, c)
      /\ OldIsUpdated(i)
  BY WritingFacts
<1>2. /\ \A f \in Common(frag, u.in) : frag.val[f] = u.in[f]
      /\ \A f \in Fields \ DOMAIN u.in : frag.val[f] = dat[p].val[f]
  BY <1>1 DEF OldIsUpdated
<1>3. dat' = InPlace(p, frag, link)
  OBVIOUS
<1> HIDE DEF c, p, frag
<1>4. Rewritten(c, i, p, frag, link)
  <2>1. RecordsSound /\ FragmentsFit
    BY DEF Alive
  <2> QED BY <1>1, <1>3, <2>1, InPlaceStep
<1>5. ASSUME NEW f \in Fields
      PROVE  \/ ShownIn(dat', c, f) = ShownIn(dat, c, f)
             \/ f \in DOMAIN u.in /\ ShownIn(dat', c, f) = {u.in[f]}
  <2>1. CASE f \in Set(frag) /\ f \in DOMAIN u.in
    <3>1. f \in Common(frag, u.in)
      BY <2>1 DEF Common
    <3>2. ShownIn(dat', c, f) = {frag.val[f]}
      BY <1>4, <2>1 DEF Rewritten
    <3> QED BY <1>2, <2>1, <3>1, <3>2
  <2>2. CASE f \notin Set(frag)
    BY <1>4, <2>2 DEF Rewritten
  <2>3. CASE f \notin DOMAIN u.in
    <3>1. frag.val[f] = dat[p].val[f]
      BY <1>2, <2>3
    <3>2. /\ Sound(dat, c) /\ i \in 1 .. Len(c) /\ p = c[i] /\ Set(frag) = Set(dat[p])
          /\ Rewritten(c, i, p, frag, link)
      BY <1>1, <1>4
    <3>3. ShownIn(dat', c, f) = ShownIn(dat, c, f)
      BY <3>1, <3>2, RewrittenShows
    <3> QED BY <3>3
  <2> QED BY <2>1, <2>2, <2>3
<1> QED BY <1>4, <1>5 DEF c, p, frag

\* The chain of a record that is written, where the link leads on as before.
LEMMA SameLink ==
  ASSUME ChainInv, ChainInv', Alive, Writing, NEW i \in 1 .. Last, NEW link \in Nat,
         Rewritten(Places(u.old), i, u.old[i].pos, u.old[i].frag, link),
         head' = head, u'.key = u.key, ~ Ahead,
         link = IF i < Last THEN u.old[i + 1].pos ELSE 0
  PROVE  Chain(u.key)' = Places(u.old)
<1> DEFINE c == Places(u.old)
           p == u.old[i].pos
<1>1. /\ u.key \in Live /\ IsPath(dat, c) /\ c[1] = head[u.key] /\ Len(c) = Last /\ Last \in Nat
      /\ \A j \in 1 .. Last : c[j] = u.old[j].pos /\ c[j] \in Nat
  BY WritingFacts
<1>2. /\ p \in 1 .. Len(dat) /\ OnlyAt(p) /\ Len(dat') \in Nat /\ dat'[p].link = link
      /\ \A j \in 1 .. Len(c) : j # i => c[j] # p
  BY DEF Rewritten
<1>3. Len(dat) \in Nat /\ DOMAIN dat' = 1 .. Len(dat') /\ Len(dat) <= Len(dat')
  <2>1. DOMAIN dat' = 1 .. Len(dat')
    BY LenProperties DEF ChainInv, TypeOK
  <2> QED BY <1>2, <2>1, OldFacts DEF ChainInv, OnlyAt
<1>4. c[i] = p
  BY <1>1
<1>5. link = LinkAt(dat, c[i])
  <2>1. i < Last => i + 1 \in 1 .. Last
    BY <1>1
  <2>2. LinkAt(dat, c[i]) = IF i < Last THEN c[i + 1] ELSE 0
    BY <1>1 DEF IsPath
  <2> QED BY <1>1, <2>1, <2>2
<1> HIDE DEF c, p
<1>6. LinkAt(dat', p) = link
  BY <1>2, <1>3 DEF LinkAt
<1>7. \A j \in 1 .. Len(c) : LinkAt(dat', c[j]) = LinkAt(dat, c[j])
  <2> TAKE j \in 1 .. Len(c)
  <2>1. CASE j = i
    BY <1>4, <1>5, <1>6, <2>1
  <2>2. CASE j # i
    <3>1. c[j] \in Nat /\ c[j] # p
      BY <1>1, <1>2, <2>2
    <3> QED BY <1>2, <3>1, LinksStay
  <2> QED BY <2>1, <2>2
<1>8. IsPath(dat', c)
  BY <1>1, <1>2, <1>3, <1>7, PathStays
<1>9. \A k \in Live' : c[1] = head'[k] => Chain(k)' = c
  BY <1>8, ChainIsNext
<1>10. u.key \in Live' /\ c[1] = head'[u.key]
  BY <1>1 DEF Live
<1> QED BY <1>9, <1>10 DEF Chain, c

\* The chain of a record whose last fragment is linked to the place q.
LEMMA NewLink ==
  ASSUME ChainInv, ChainInv', Alive, Writing, NEW q \in Nat,
         Rewritten(Places(u.old), Last, u.old[Last].pos, u.old[Last].frag, q),
         head' = head, u'.key = u.key, ~ Ahead, q \in 1 .. Len(dat') + 1, q # u.old[Last].pos,
         q \in DOMAIN dat' => dat'[q].link = 0
  PROVE  Chain(u.key)' = Append(Places(u.old), q)
<1> DEFINE c == Places(u.old)
           p == u.old[Last].pos
<1>1. /\ u.key \in Live /\ IsPath(dat, c) /\ c[1] = head[u.key] /\ Len(c) = Last /\ Last \in Nat
      /\ Last > 0 /\ \A j \in 1 .. Last : c[j] = u.old[j].pos /\ c[j] \in Nat
  BY WritingFacts
<1>2. /\ p \in 1 .. Len(dat) /\ OnlyAt(p) /\ Len(dat') \in Nat /\ dat'[p].link = q
      /\ \A j \in 1 .. Len(c) : j # Last => c[j] # p
  BY DEF Rewritten
<1>3. Len(dat) \in Nat /\ DOMAIN dat' = 1 .. Len(dat') /\ Len(dat) <= Len(dat')
  <2>1. DOMAIN dat' = 1 .. Len(dat')
    BY LenProperties DEF ChainInv, TypeOK
  <2> QED BY <1>2, <2>1, OldFacts DEF ChainInv, OnlyAt
<1>4. c[Last] = p
  BY <1>1
<1> HIDE DEF c, p
<1>5. LinkAt(dat', c[Len(c)]) = q
  BY <1>1, <1>2, <1>3, <1>4 DEF LinkAt
<1>6. LinkAt(dat', q) = 0
  BY DEF LinkAt
<1>7. \A j \in 1 .. Len(c) : j < Len(c) => LinkAt(dat', c[j]) = LinkAt(dat, c[j])
  <2> TAKE j \in 1 .. Len(c)
  <2> SUFFICES ASSUME j < Len(c) PROVE LinkAt(dat', c[j]) = LinkAt(dat, c[j])
    OBVIOUS
  <2>1. c[j] \in Nat /\ c[j] # p
    BY <1>1, <1>2
  <2> QED BY <1>2, <2>1, LinksStay
<1>8. IsPath(dat', Append(c, q)) /\ Append(c, q)[1] = c[1]
  BY <1>1, <1>2, <1>3, <1>5, <1>6, <1>7, PathGrows
<1>9. \A k \in Live' : c[1] = head'[k] => Chain(k)' = Append(c, q)
  BY <1>8, ChainIsNext
<1>10. u.key \in Live' /\ c[1] = head'[u.key]
  BY <1>1 DEF Live
<1> QED BY <1>9, <1>10 DEF Chain, c

\* Recs_old after a step of the loop that writes it: fragment i is as in the file.
LEMMA LoopFacts ==
  ASSUME ChainInv, Alive, WriteFragment
  PROVE  /\ pc = "write" /\ pc' = "write" /\ UNCHANGED <<head, def, lock>>
         /\ u.next \in 1 .. Last /\ u'.next = u.next + 1
         /\ u'.key = u.key /\ u'.in = u.in /\ u'.old = u.old /\ u'.check = u.check
         /\ Last' = Last /\ Writing /\ Writing' /\ ~ Ahead
         /\ Body(u.key)' = Places(u.old)
         /\ Ahead' <=> u.next = Last /\ u.check = SCHEMA_NW
         /\ FieldsMissing' /\ Addition' /\ FieldsMissing
<1>1. /\ pc = "write" /\ pc' = "write" /\ UNCHANGED <<head, def, lock>> /\ u.next <= Last
      /\ u' = [u EXCEPT !.next = u.next + 1]
  BY DEF WriteFragment, Unchanged
<1>2. /\ u'.next = u.next + 1
      /\ u'.key = u.key /\ u'.in = u.in /\ u'.old = u.old /\ u'.check = u.check
  BY <1>1 DEF ChainInv, TypeOK, UpdateState
<1>3. u.next \in Nat /\ u.next > 0 /\ Last \in Nat
  BY <1>1, OldFacts DEF ChainInv, TypeOK, UpdateState, SomethingRead
<1>4. Last' = Last /\ Writing /\ Writing' /\ FieldsMissing
  BY <1>1, <1>2 DEF Last, Writing, Alive, OldIsWritten
<1>5. ~ Ahead /\ (Ahead' <=> u.next = Last /\ u.check = SCHEMA_NW)
  BY <1>1, <1>2, <1>3, <1>4 DEF Ahead
<1>6. FieldsMissing' /\ Addition'
  BY <1>1, <1>2, <1>4 DEF FieldsMissing, Addition, Some
<1>7. Body(u.key)' = Places(u.old)
  BY <1>2, <1>4 DEF Body, Places
<1>8. u.next \in 1 .. Last
  BY <1>1, <1>3
<1> QED BY <1>1, <1>2, <1>4, <1>5, <1>6, <1>7, <1>8

LEMMA WriteFragmentHandled ==
  ASSUME ChainInv, ChainInv', Alive, WriteFragment PROVE HandledInv' /\ Refined
<1> DEFINE i == u.next
           c == Places(u.old)
           p == u.old[i].pos
           frag == u.old[i].frag
           link == LinkOf(i)
<1>1. /\ pc = "write" /\ pc' = "write" /\ UNCHANGED <<head, def, lock>>
      /\ i \in 1 .. Last /\ u'.next = i + 1
      /\ u'.key = u.key /\ u'.in = u.in /\ u'.old = u.old /\ u'.check = u.check
      /\ Last' = Last /\ Writing /\ Writing' /\ ~ Ahead /\ Body(u.key)' = c
      /\ Ahead' <=> i = Last /\ u.check = SCHEMA_NW
      /\ FieldsMissing' /\ Addition' /\ FieldsMissing
  BY LoopFacts
<1>2. /\ u.key \in Live /\ Body(u.key) = c /\ Last \in Nat /\ Last > 0
      /\ Len(c) = Last /\ Last <= MAX_RECS_OLD_CAP /\ DOMAIN u.old = 1 .. Last
      /\ \A j \in 1 .. Last :
           /\ c[j] = u.old[j].pos /\ u.old[j].pos \in DOMAIN dat
           /\ Set(u.old[j].frag) = Set(dat[u.old[j].pos]) /\ OldIsUpdated(j)
  BY <1>1, WritingFacts
<1>0. i = u.next /\ p = u.old[i].pos /\ frag = u.old[i].frag
  OBVIOUS
<1> HIDE DEF i, c, p, frag, link
<1>3. u.key \in Live'
  BY <1>1, <1>2 DEF Live
<1>4. RecordsSound /\ FragmentsFit /\ InputChecked /\ OldIsWritten /\ PositionsAreKnown
  BY DEF Alive
<1>5. InputChecked' /\ OldIsRead' /\ SaysTrue' /\ PositionsAreKnown'
  BY <1>1, <1>4 DEF InputChecked, OldIsRead, SaysTrue, PositionsAreKnown
<1>6. (\A j \in 1 .. Last : OldIsUpdated(j)') => OldIsWritten'
  BY <1>1, <1>2, <1>3 DEF OldIsWritten
<1>7. CASE u.old[i].to # "y"
  <2>1. dat' = dat
    BY <1>7 DEF WriteFragment, i
  <2>2. ASSUME NEW j \in 1 .. Last PROVE OldIsUpdated(j)'
    <3>1. j < u'.next /\ u.old[j].to = "y" => j < u.next
      BY <1>0, <1>1, <1>2, <1>7
    <3>2. OldIsUpdated(j)
      BY <1>2
    <3> QED BY <1>1, <2>1, <3>1, <3>2 DEF OldIsUpdated
  <2>3. ~ Ahead'
    BY <1>1, <1>7 DEF FieldsMissing
  <2>4. \A k \in Live : Body(k)' = Body(k)
    <3>1. \A k \in Live : Chain(k)' = Chain(k)
      BY <1>1, <2>1, Untouched
    <3> QED BY <1>1, <3>1 DEF Body
  <2>5. RecordsSound' /\ FragmentsFit'
    <3>1. RecordsSound'
      BY <1>1, <1>4, <2>1, <2>3, <2>4, QuietSound
    <3> QED BY <1>1, <1>4, <2>1, <3>1 DEF FragmentsFit
  <2>6. Refined
    BY <1>1, <2>1, StutterRefines DEF Busy
  <2> QED BY <1>1, <1>5, <1>6, <2>2, <2>5, <2>6 DEF HandledInv, Alive
<1>8. CASE u.old[i].to = "y"
  <2>1. dat' = InPlace(p, frag, link) /\ link \in Nat
    BY <1>1, <1>8, LinkOfForward DEF WriteFragment, i, p, frag, link
  <2>2. /\ Rewritten(c, i, p, frag, link)
        /\ \A f \in Fields : \/ ShownIn(dat', c, f) = ShownIn(dat, c, f)
                             \/ f \in DOMAIN u.in /\ ShownIn(dat', c, f) = {u.in[f]}
    BY <1>0, <1>1, <2>1, WriteStep DEF c
  <2>3. OnlyAt(p) /\ dat'[p].val = frag.val /\ DOMAIN dat = 1 .. Len(dat)
        /\ \A j \in 1 .. Last : j # i => c[j] # p
    BY <1>2, <2>2, OldFacts DEF Rewritten, ChainInv
  <2>4. ASSUME NEW j \in 1 .. Last PROVE OldIsUpdated(j)'
    <3>1. OldIsUpdated(j) /\ u'.old[j] = u.old[j] /\ u'.in = u.in /\ Last' = Last
      BY <1>1, <1>2
    <3>2. CASE j = i
      <4>1. dat'[u'.old[j].pos].val = u'.old[j].frag.val
        BY <1>0, <2>3, <3>1, <3>2
      <4>2. Set(u'.old[j].frag) = Set(dat'[u'.old[j].pos])
        BY <4>1 DEF Set
      <4> QED BY <3>1, <4>1, <4>2 DEF OldIsUpdated
    <3>3. CASE j # i
      <4>1. dat'[u'.old[j].pos] = dat[u.old[j].pos]
        BY <1>2, <2>3, <3>1, <3>3 DEF OnlyAt
      <4>2. j < u'.next => j < u.next
        BY <1>0, <1>1, <1>2, <3>3
      <4>3. pc = "write" /\ pc' = "write"
        BY <1>1
      <4> QED BY <3>1, <4>1, <4>2, <4>3, UpdatedStays
    <3> QED BY <3>2, <3>3
  <2>5. OldIsWritten'
    BY <1>6, <2>4
  <2>6. Chain(u.key)' = IF Ahead' THEN Append(c, Place') ELSE c
    <3>1. CASE i < Last \/ u.check # SCHEMA_NW
      <4>1. link = IF i < Last THEN u.old[i + 1].pos ELSE 0
        BY <3>1 DEF LinkOf, link
      <4>2. ~ Ahead'
        BY <1>1, <1>2, <3>1
      <4>3. Chain(u.key)' = c
        BY <1>0, <1>1, <2>1, <2>2, <4>1, SameLink DEF c
      <4> QED BY <4>2, <4>3
    <3>2. CASE i = Last /\ u.check = SCHEMA_NW
      <4>1. link = EOF /\ Ahead'
        BY <1>1, <3>2 DEF LinkOf, link
      <4>2. Grows(frag) = {}
        BY <1>0, <1>1, <3>2 DEF FieldsMissing
      <4>3. Len(dat') = Len(dat) /\ EOF = Len(dat) + 1 /\ Len(dat) \in Nat
        BY <2>2, <4>2, OldFacts DEF Rewritten, EOF, ChainInv
      <4>4. DOMAIN dat' = 1 .. Len(dat')
        BY LenProperties DEF ChainInv, TypeOK
      <4>5. Place' = EOF
        BY <1>1, <4>3 DEF Place, EOF
      <4>6. p \in 1 .. Len(dat)
        BY <2>2 DEF Rewritten
      <4>7. link \in 1 .. Len(dat') + 1 /\ link # p /\ link \notin DOMAIN dat'
        BY <4>1, <4>3, <4>4, <4>6
      <4>8. Chain(u.key)' = Append(c, link)
        BY <1>0, <1>1, <2>1, <2>2, <3>2, <4>7, NewLink DEF c
      <4> QED BY <4>1, <4>5, <4>8
    <3> QED BY <1>1, <1>2, <3>1, <3>2
  <2>7. RecordsSound' /\ \A k \in Live : k # u.key => Shown(k)' = Shown(k)
    <3>1. Sound(dat', Body(u.key)')
      BY <1>1, <2>2 DEF Rewritten
    <3>2. \A k \in Live : k # u.key => \A j \in 1 .. Len(Body(k)) : Body(k)[j] # p
      BY <2>2 DEF Rewritten
    <3>3. Chain(u.key)' = IF Ahead' THEN Append(Body(u.key)', Place') ELSE Body(u.key)'
      BY <1>1, <2>6
    <3>4. \A j \in 1 .. Len(Body(u.key)') :
            \/ Body(u.key)'[j] = p
            \/ \E m \in 1 .. Len(Body(u.key)) : Body(u.key)'[j] = Body(u.key)[m]
      BY <1>1, <1>2
    <3> QED BY <1>1, <1>2, <1>4, <2>3, <3>1, <3>2, <3>3, <3>4, WriteSound
  <2>8. FragmentsFit'
    BY <1>1, <1>4, <2>2 DEF Rewritten, FragmentsFit
  <2>9. Refined
    <3>1. \A f \in Fields : Shown(u.key)[f] = ShownIn(dat, c, f)
      BY <1>2, <1>4, ShownOfBody
    <3>2. \A k \in Live' : \A f \in Fields : Shown(k)'[f] = ShownIn(dat', Body(k)', f)
      BY <2>5, <2>7, ShownOfBodyNext
    <3>3. \A k \in Live' : k = u.key => Body(k)' = c
      BY <1>1 DEF Body
    <3>4. \A k \in Live' : k = u.key => \A f \in Fields : Shown(k)'[f] = ShownIn(dat', c, f)
      BY <3>2, <3>3
    <3>5. \A f \in Fields : Shown(u.key)'[f] = ShownIn(dat', c, f)
      BY <1>1, <1>3, <3>4 DEF Shown, Chain
    <3>6. \A f \in Fields : \/ Shown(u.key)'[f] = Shown(u.key)[f]
                            \/ f \in DOMAIN u.in /\ Shown(u.key)'[f] = {u.in[f]}
      BY <2>2, <3>1, <3>5
    <3> QED BY <1>1, <1>2, <2>7, <3>6, ApplyRefines DEF Busy
  <2> QED BY <1>1, <1>5, <2>5, <2>7, <2>8, <2>9 DEF HandledInv, Alive
<1> QED BY <1>7, <1>8

\* When all of Recs_old is written, the file has what it has.
LEMMA AllWritten ==
  ASSUME ChainInv, Alive, Written
  PROVE  /\ Writing /\ Last > 1
         /\ \A i \in 1 .. Last :
              /\ u.old[i].frag.val = dat[u.old[i].pos].val
              /\ \A f \in Common(u.old[i].frag, u.in) :
                   ShownIn(dat, Places(u.old), f) = {u.in[f]}
<1> DEFINE c == Places(u.old)
<1>1. Writing /\ pc = "write" /\ u.next > Last /\ u.next \in Nat
  BY DEF Written, Writing, ChainInv, TypeOK, UpdateState
<1>2. /\ Last \in Nat /\ Last > 1 /\ Sound(dat, c) /\ Len(c) = Last
      /\ \A i \in 1 .. Last : c[i] = u.old[i].pos /\ OldIsUpdated(i)
  <2>1. FieldsMissing
    BY <1>1, WritingFacts
  <2>2. Last > 1
    BY <1>1, <2>1 DEF FieldsMissing
  <2> QED BY <1>1, <2>2, WritingFacts
<1>3. ASSUME NEW i \in 1 .. Last
      PROVE  /\ u.old[i].frag.val = dat[u.old[i].pos].val
             /\ \A f \in Common(u.old[i].frag, u.in) : ShownIn(dat, c, f) = {u.in[f]}
  <2> DEFINE frag == u.old[i].frag
             p == u.old[i].pos
  <2>1. i < u.next
    BY <1>1, <1>2
  <2>2. /\ Set(frag) = Set(dat[p]) /\ frag.val = dat[p].val
        /\ \A f \in Common(frag, u.in) : frag.val[f] = u.in[f]
    BY <1>2, <2>1 DEF OldIsUpdated
  <2>3. i \in 1 .. Len(c) /\ c[i] = p
    BY <1>2
  <2> HIDE DEF frag, p, c
  <2>4. ASSUME NEW f \in Common(frag, u.in) PROVE ShownIn(dat, c, f) = {u.in[f]}
    <3>1. f \in Set(dat[c[i]])
      BY <2>2, <2>3 DEF Common
    <3>2. ShownIn(dat, c, f) = {dat[c[i]].val[f]}
      BY <1>2, <2>3, <3>1, ShownOnce
    <3> QED BY <2>2, <2>3, <3>2
  <2> QED BY <2>2, <2>4 DEF frag, p
<1> QED BY <1>1, <1>2, <1>3

LEMMA NothingNewHandled ==
  ASSUME ChainInv, ChainInv', Alive, NothingNew PROVE HandledInv' /\ Refined
<1> DEFINE r == IF u.check = SCHEMA_CT /\ ~ Some("y") THEN "failed" ELSE "updated"
<1>1. /\ Written /\ pc = "write" /\ u.check # SCHEMA_NW /\ UNCHANGED <<dat, head, def, lock>>
      /\ pc' = "unlock" /\ u' = [u EXCEPT !.result = r] /\ r \in {"updated", "failed"}
  BY DEF NothingNew, Written, Unchanged, End
<1>2. /\ u'.key = u.key /\ u'.in = u.in /\ u'.old = u.old /\ u'.check = u.check /\ u'.result = r
  BY <1>1 DEF ChainInv, TypeOK, UpdateState
<1>3. /\ Writing /\ Last > 1 /\ FieldsMissing /\ u.key \in Live
      /\ Body(u.key) = Places(u.old) /\ Sound(dat, Places(u.old))
      /\ Chain(u.key) = IF Ahead THEN Append(Places(u.old), Place) ELSE Places(u.old)
  BY <1>1, WritingFacts, AllWritten
<1>4. ~ Ahead /\ ~ Ahead' /\ ~ Writing'
  BY <1>1 DEF Ahead, Writing
<1>5. Live' = Live /\ \A k \in Live : Chain(k)' = Chain(k) /\ Shown(k)' = Shown(k)
  BY <1>1, Untouched
<1>6. RecordsSound' /\ FragmentsFit'
  <2>1. \A k \in Live : Body(k)' = Body(k)
    BY <1>1, <1>3, <1>4, <1>5 DEF Body
  <2> QED BY <1>1, <1>2, <1>4, <2>1, QuietSound DEF Alive, FragmentsFit
<1>7. SaysTrue'
  <2> SUFFICES ASSUME r = "updated", NEW f \in DOMAIN u.in PROVE Shown(u.key)[f] = {u.in[f]}
    <3>1. u'.key = u.key /\ u'.in = u.in /\ u'.result = r /\ r \in {"updated", "failed"}
      BY <1>1, <1>2
    <3>2. u'.key \in Live'
      BY <1>3, <1>5, <3>1
    <3>3. \A k \in Live' : k = u.key => Shown(k)' = Shown(k)
      BY <1>5
    <3>4. Shown(u.key)' = Shown(u.key)
      BY <3>1, <3>2, <3>3 DEF Shown, Chain
    <3> HIDE DEF r
    <3> QED BY <3>1, <3>2, <3>4 DEF SaysTrue
  <2>1. DOMAIN u.in \subseteq UNION {Set(u.old[i].frag) : i \in 1 .. Last}
    BY <1>1, <1>3 DEF FieldsMissing
  <2>2. PICK i \in 1 .. Last : f \in Common(u.old[i].frag, u.in)
    BY <2>1 DEF Common
  <2>3. ShownIn(dat, Places(u.old), f) = {u.in[f]}
    BY <1>1, <2>2, AllWritten
  <2>4. f \in Fields
    BY <2>2 DEF Common, Set
  <2> QED BY <1>3, <2>3, <2>4, ShownOfBody DEF Alive
<1>8. InputChecked' /\ OldIsRead' /\ OldIsWritten' /\ PositionsAreKnown'
  BY <1>1, <1>2, <1>4 DEF Alive, InputChecked, OldIsRead, OldIsWritten, PositionsAreKnown
<1>9. Refined
  BY <1>1, <1>2, StutterRefines DEF Busy
<1> QED BY <1>1, <1>6, <1>7, <1>8, <1>9 DEF HandledInv, Alive

LEMMA NewFragmentDueHandled ==
  ASSUME ChainInv, ChainInv', Alive, NewFragmentDue PROVE HandledInv' /\ Refined
<1>1. /\ Written /\ pc = "write" /\ u.next > Last /\ UNCHANGED <<dat, head, def, lock>>
      /\ pc' = "fragment" /\ u' = [u EXCEPT !.eof = EOF]
      /\ \/ u.check = SCHEMA_CT /\ ~ Some("y") /\ ~ Some("e")
         \/ u.check = SCHEMA_NW
  BY DEF NewFragmentDue, Written, Unchanged
<1>2. /\ u'.key = u.key /\ u'.in = u.in /\ u'.old = u.old /\ u'.check = u.check /\ u'.eof = EOF
      /\ Last' = Last
  BY <1>1 DEF ChainInv, TypeOK, UpdateState, Last
<1>3. /\ Writing /\ Last > 1 /\ Last \in Nat /\ FieldsMissing /\ u.key \in Live
      /\ Last <= MAX_RECS_OLD_CAP
      /\ \A i \in 1 .. Last : OldIsUpdated(i) /\ u.old[i].frag.val = dat[u.old[i].pos].val
  BY <1>1, WritingFacts, AllWritten
<1>4. Writing' /\ (Ahead' <=> Ahead) /\ Place' = Place /\ EOF' = EOF
  BY <1>1, <1>2, <1>3 DEF Ahead, Writing, Place, EOF
<1>5. RecordsSound' /\ FragmentsFit'
  <2>1. \A k \in Live : Chain(k)' = Chain(k)
    BY <1>1, Untouched
  <2>2. \A k \in Live : Body(k)' = Body(k)
    BY <1>2, <1>3, <1>4, <2>1 DEF Body
  <2> QED BY <1>1, <1>2, <1>4, <2>2, QuietSound DEF Alive, FragmentsFit
<1>6. ASSUME NEW i \in 1 .. Last PROVE OldIsUpdated(i)'
  <2>1. OldIsUpdated(i) /\ u.old[i].frag.val = dat[u.old[i].pos].val
    BY <1>3
  <2>2. dat' = dat /\ u'.old = u.old /\ u'.in = u.in /\ Last' = Last
    BY <1>1, <1>2
  <2> QED BY <2>1, <2>2 DEF OldIsUpdated
<1>7. FieldsMissing'
  <2>1. u.check = SCHEMA_CT => \A i \in 1 .. Last : Common(u.old[i].frag, u.in) = {}
    <3> SUFFICES ASSUME u.check = SCHEMA_CT, NEW i \in 1 .. Last
                 PROVE  Common(u.old[i].frag, u.in) = {}
      OBVIOUS
    <3>1. u.old[i].to # "y" /\ u.old[i].to # "e"
      BY <1>1 DEF Some, SCHEMA_CT, SCHEMA_NW
    <3> QED BY <1>3, <3>1 DEF OldIsUpdated
  <2>2. u.check # SCHEMA_EQ
    BY <1>1 DEF SCHEMA_CT, SCHEMA_NW, SCHEMA_EQ
  <2>3. pc' # "write" /\ pc' # "link"
    BY <1>1
  <2>4. Some("y")' <=> Some("y")
    BY <1>2 DEF Some
  <2> QED BY <1>2, <1>3, <2>1, <2>2, <2>3, <2>4 DEF FieldsMissing
<1>8. Addition'
  BY <1>1, <1>2, <1>4 DEF Addition
<1>9. OldIsWritten'
  <2>1. u'.key \in Live' /\ Last' > 0 /\ Last' <= MAX_RECS_OLD_CAP
    BY <1>1, <1>2, <1>3 DEF Live
  <2> QED BY <1>2, <1>6, <1>7, <1>8, <2>1 DEF OldIsWritten
<1>10. InputChecked' /\ OldIsRead' /\ SaysTrue' /\ PositionsAreKnown'
  BY <1>1, <1>2 DEF Alive, InputChecked, OldIsRead, SaysTrue, PositionsAreKnown
<1>11. Refined
  BY <1>1, <1>2, StutterRefines DEF Busy
<1> QED BY <1>1, <1>5, <1>9, <1>10, <1>11 DEF HandledInv, Alive

\* With a field new to the definition the last fragment has changed.
LEMMA SomethingLinked == ASSUME ChainInv, Alive PROVE ~ LinkNothing
<1> SUFFICES ASSUME LinkNothing PROVE FALSE
  OBVIOUS
<1>1. Written /\ u.check = SCHEMA_NW /\ ~ Some("y")
  BY DEF LinkNothing
<1>2. Writing /\ FieldsMissing /\ Last \in 1 .. Last
  BY <1>1, WritingFacts DEF Written, Writing
<1>3. u.old[Last].to = "y"
  BY <1>1, <1>2 DEF FieldsMissing
<1> QED BY <1>1, <1>2, <1>3 DEF Some

-----------------------------------------------------------------------------
(* A new fragment *)

\* The fields that the record does not have, with the values of the input.
LEMMA AddedFacts ==
  ASSUME ChainInv, Alive, Writing, pc # "write"
  PROVE  /\ Added \in Fragment /\ Added.link = 0 /\ Grows(Added) = {} /\ Set(Added) # {}
         /\ Set(Added) \subseteq DOMAIN u.in
         /\ \A f \in Set(Added) : Added.val[f] = u.in[f]
         /\ \A i \in 1 .. Last : Set(u.old[i].frag) \cap Set(Added) = {}
         /\ \A f \in DOMAIN u.in : \/ f \in Set(Added)
                                   \/ \E i \in 1 .. Last : f \in Set(u.old[i].frag)
<1>1. /\ FieldsMissing /\ Last \in Nat /\ DOMAIN u.old = 1 .. Last /\ Last <= MAX_RECS_OLD_CAP
  BY WritingFacts
<1>2. /\ \A f \in DOMAIN u.in : u.in[f] \in Values
      /\ DOMAIN u.in \subseteq Fields
  BY InputFacts DEF Alive, Writing
<1>3. u.check = SCHEMA_CT \/ u.check = SCHEMA_NW
  BY <1>1 DEF FieldsMissing, Alive, InputChecked, Writing
<1>4. CASE u.check = SCHEMA_CT
  <2>1. Added = NewFragment(u.in)
    BY <1>4 DEF Added, SCHEMA_CT, SCHEMA_NW
  <2>2. /\ Grows(Added) = {} /\ Set(Added) = DOMAIN u.in
        /\ \A f \in DOMAIN u.in : Added.val[f] = u.in[f]
    BY <1>2, <2>1, NewFragmentFits
  <2>3. Added \in Fragment /\ Added.link = 0
    BY <1>2, <2>1, NewFragmentType
  <2>4. DOMAIN u.in # {}
    BY DEF Alive, InputChecked, Writing
  <2>5. \A i \in 1 .. Last : Set(u.old[i].frag) \cap DOMAIN u.in = {}
    BY <1>1, <1>4 DEF FieldsMissing, Common
  <2> QED BY <2>2, <2>3, <2>4, <2>5
<1>5. CASE u.check = SCHEMA_NW
  <2> DEFINE S == NewFields(u.old, u.in)
             new == [f \in S |-> u.in[f]]
  <2>1. Added = NewFragment(new)
    BY <1>5 DEF Added, OnlyNew
  <2>2. /\ Last = Base
        /\ \A i \in 1 .. Last : i \in Set(u.old[i].frag) /\ Base + 1 \notin Set(u.old[i].frag)
    BY <1>1, <1>5 DEF FieldsMissing
  <2>3. Base \in Nat /\ Base + 1 \in DOMAIN u.in /\ \A j \in Fields : j \in 1 .. Base \/ j = Base + 1
    BY <1>5, ConstantTypes DEF Alive, InputChecked, Writing, Fields
  <2>4. S = {Base + 1}
    <3>1. \A j \in 1 .. Base : IsOld(u.old, j)
      BY <1>1, <2>2, <2>3, ConstantTypes DEF IsOld
    <3>2. ~ IsOld(u.old, Base + 1)
      BY <1>1, <2>2, <2>3 DEF IsOld
    <3> QED BY <1>2, <2>3, <3>1, <3>2 DEF NewFields
  <2>5. DOMAIN new = {Base + 1} /\ new[Base + 1] = u.in[Base + 1]
    BY <2>4
  <2>6. (\A f \in DOMAIN new : new[f] \in Values) /\ DOMAIN new \subseteq Fields
    BY <1>2, <2>3, <2>5
  <2> HIDE DEF new, S
  <2>7. /\ Grows(Added) = {} /\ Set(Added) = {Base + 1}
        /\ \A f \in Set(Added) : Added.val[f] = u.in[f]
    <3>1. /\ Grows(Added) = {} /\ Set(Added) = DOMAIN new
          /\ \A f \in DOMAIN new : Added.val[f] = new[f]
      BY <2>1, <2>6, NewFragmentFits
    <3> QED BY <2>5, <3>1
  <2>8. Added \in Fragment /\ Added.link = 0
    BY <2>1, <2>6, NewFragmentType
  <2>9. \A i \in 1 .. Last : Set(u.old[i].frag) \cap Set(Added) = {}
    BY <2>2, <2>7
  <2>10. \A f \in DOMAIN u.in : \/ f \in Set(Added)
                                \/ \E i \in 1 .. Last : f \in Set(u.old[i].frag)
    <3> TAKE f \in DOMAIN u.in
    <3>1. CASE f = Base + 1
      BY <2>7, <3>1
    <3>2. CASE f \in 1 .. Base
      BY <2>2, <3>2
    <3> QED BY <1>2, <2>3, <3>1, <3>2
  <2> QED BY <2>3, <2>7, <2>8, <2>9, <2>10
<1> QED BY <1>3, <1>4, <1>5

LEMMA ShownSame ==
  ASSUME NEW d, NEW e, NEW c, NEW f,
         \A i \in 1 .. Len(c) : c[i] \in DOMAIN d /\ c[i] \in DOMAIN e /\ e[c[i]] = d[c[i]]
  PROVE  ShownIn(e, c, f) = ShownIn(d, c, f)
<1> DEFINE In(s) == {j \in 1 .. Len(c) : c[j] \in DOMAIN s /\ s[c[j]].whole}
<1>1. In(d) = In(e)
  OBVIOUS
<1>2. \A i \in In(d) : e[c[i]].val[f] = d[c[i]].val[f]
  OBVIOUS
<1> HIDE DEF In
<1>3. {e[c[i]].val[f] : i \in In(e)} = {d[c[i]].val[f] : i \in In(d)}
  BY <1>1, <1>2
<1> QED BY <1>3 DEF ShownIn, In

\* What a get shows of a record with one more fragment.
ShowsMore(d, c, q) ==
  \A f \in Fields : ShownIn(d, Append(c, q), f) =
                       IF f \in Set(d[q]) THEN {d[q].val[f]} ELSE ShownIn(d, c, f)

LEMMA SoundGrows ==
  ASSUME NEW d, NEW c \in Seq(Nat), Sound(d, c), Len(c) <= MAX_RECS_OLD_CAP,
         NEW q \in Nat, q \in DOMAIN d, d[q].whole, Set(d[q]) # {},
         \A i \in 1 .. Len(c) : Set(d[c[i]]) \cap Set(d[q]) = {}
  PROVE  Sound(d, Append(c, q)) /\ ShowsMore(d, c, q)
<1> DEFINE e == Append(c, q)
           n == Len(c)
<1>1. /\ n \in Nat /\ Len(e) = n + 1 /\ e[n + 1] = q
      /\ \A i \in 1 .. n : e[i] = c[i]
      /\ 1 .. n + 1 = (1 .. n) \union {n + 1} /\ MAX_RECS_OLD_CAP \in Nat
  BY AppendIs, ConstantTypes
<1>2. n + 1 <= MAX_RECS_OLD_CAP + 1
  BY <1>1
<1>3. /\ \A i \in 1 .. n : c[i] \in DOMAIN d /\ d[c[i]].whole /\ Set(d[c[i]]) # {}
      /\ \A i, j \in 1 .. n : i # j => Set(d[c[i]]) \cap Set(d[c[j]]) = {}
  BY DEF Sound
<1> HIDE DEF e, n
<1>4. \A i \in 1 .. Len(e) : e[i] \in DOMAIN d /\ d[e[i]].whole /\ Set(d[e[i]]) # {}
  BY <1>1, <1>3
<1>5. \A i, j \in 1 .. Len(e) : i # j => Set(d[e[i]]) \cap Set(d[e[j]]) = {}
  <2> TAKE i, j \in 1 .. Len(e)
  <2>0. \A m \in 1 .. n : Set(d[c[m]]) \cap Set(d[q]) = {}
    BY DEF n
  <2>1. CASE i \in 1 .. n /\ j \in 1 .. n
    BY <1>1, <1>3, <2>1
  <2>2. CASE i = n + 1 /\ j \in 1 .. n
    BY <1>1, <2>0, <2>2
  <2>3. CASE i \in 1 .. n /\ j = n + 1
    BY <1>1, <2>0, <2>3
  <2>4. CASE i = n + 1 /\ j = n + 1
    BY <2>4
  <2> QED BY <1>1, <2>1, <2>2, <2>3, <2>4
<1>6. Sound(d, e)
  BY <1>1, <1>2, <1>4, <1>5 DEF Sound
<1>7. ASSUME NEW f \in Fields
      PROVE  ShownIn(d, e, f) = IF f \in Set(d[q]) THEN {d[q].val[f]} ELSE ShownIn(d, c, f)
  <2>1. CASE f \in Set(d[q])
    <3>1. n + 1 \in 1 .. Len(e) /\ f \in Set(d[e[n + 1]])
      BY <1>1, <2>1
    <3>2. PICK m \in 1 .. Len(e) : m = n + 1
      BY <3>1
    <3>3. ShownIn(d, e, f) = {d[e[m]].val[f]}
      BY <1>6, <3>1, <3>2, ShownOnce
    <3> QED BY <1>1, <2>1, <3>2, <3>3
  <2>2. CASE f \notin Set(d[q]) /\ \E i \in 1 .. n : f \in Set(d[c[i]])
    <3>1. PICK i \in 1 .. n : f \in Set(d[c[i]])
      BY <2>2
    <3>2. i \in 1 .. Len(e) /\ e[i] = c[i] /\ i \in 1 .. Len(c)
      BY <1>1 DEF n
    <3>3. ShownIn(d, c, f) = {d[c[i]].val[f]}
      BY <3>1, <3>2, ShownOnce
    <3>4. ShownIn(d, e, f) = {d[e[i]].val[f]}
      <4>1. f \in Set(d[e[i]])
        BY <3>1, <3>2
      <4> QED BY <1>6, <3>2, <4>1, ShownOnce
    <3> QED BY <2>2, <3>2, <3>3, <3>4
  <2>3. CASE f \notin Set(d[q]) /\ \A i \in 1 .. n : f \notin Set(d[c[i]])
    <3>1. \A i \in 1 .. Len(e) : f \notin Set(d[e[i]])
      BY <1>1, <2>3
    <3>2. ShownIn(d, e, f) = {}
      BY <3>1, ShownNever
    <3>3. ShownIn(d, c, f) = {}
      BY <2>3, ShownNever DEF n
    <3> QED BY <2>3, <3>2, <3>3
  <2> QED BY <2>1, <2>2, <2>3
<1> QED BY <1>6, <1>7 DEF e, ShowsMore

\* The chain of the record when no link changes.
LEMMA LinksKeepChain ==
  ASSUME ChainInv, ChainInv', head' = head, u'.key = u.key, u.key \in Live,
         Len(dat) <= Len(dat'), \A q \in Nat : LinkAt(dat', q) = LinkAt(dat, q)
  PROVE  Chain(u.key)' = Chain(u.key)
<1> DEFINE c == Chain(u.key)
<1>1. IsPath(dat, c) /\ c[1] = head[u.key]
  BY ChainFacts
<1> HIDE DEF c
<1>2. \A i \in 1 .. Len(c) : c[i] \in Nat
  BY <1>1, PathFacts
<1>3. Len(dat) \in Nat /\ Len(dat') \in Nat
  BY LenProperties DEF ChainInv, TypeOK
<1>4. IsPath(dat', c)
  BY <1>1, <1>2, <1>3, PathStays
<1>5. \A k \in Live' : c[1] = head'[k] => Chain(k)' = c
  BY <1>4, ChainIsNext
<1>6. u.key \in Live' /\ c[1] = head'[u.key]
  BY <1>1 DEF Live
<1> QED BY <1>5, <1>6 DEF Chain, c

LEMMA HalfFacts ==
  ASSUME ChainInv, Alive, WriteHalf
  PROVE  /\ pc = "fragment" /\ pc' = "half" /\ UNCHANGED <<head, def, lock, u>> /\ Writing
         /\ Len(dat) \in Nat /\ Len(dat') = Len(dat) + 1 /\ EOF = Len(dat) + 1
         /\ DOMAIN dat = 1 .. Len(dat) /\ DOMAIN dat' = 1 .. Len(dat) + 1
         /\ \A q \in 1 .. Len(dat) : dat'[q] = dat[q]
         /\ dat'[EOF].val = Added.val /\ dat'[EOF].link = 0 /\ dat'[EOF].whole = FALSE
         /\ Grows(dat'[EOF]) = {} /\ Set(dat'[EOF]) \subseteq DOMAIN u.in
<1> DEFINE half == [Added EXCEPT !.whole = FALSE]
<1>1. /\ pc = "fragment" /\ pc' = "half" /\ UNCHANGED <<head, def, lock, u>> /\ Writing
      /\ dat' = Append(dat, half)
  BY DEF WriteHalf, Writing, Unchanged
<1>2. Added \in Fragment /\ Added.link = 0 /\ Grows(Added) = {} /\ Set(Added) \subseteq DOMAIN u.in
  BY <1>1, AddedFacts
<1>3. half \in Fragment /\ half.val = Added.val /\ half.room = Added.room /\ half.link = 0
      /\ half.whole = FALSE
  BY <1>2 DEF Fragment
<1> HIDE DEF half
<1>4. Grows(half) = {} /\ Set(half) \subseteq DOMAIN u.in
  BY <1>2, <1>3 DEF Grows, Set
<1>5. /\ dat \in Seq(Fragment) /\ Len(dat) \in Nat /\ DOMAIN dat = 1 .. Len(dat)
      /\ EOF = Len(dat) + 1
  BY OldFacts DEF ChainInv, EOF
<1>6. /\ dat' \in Seq(Fragment) /\ Len(dat') = Len(dat) + 1
      /\ \A q \in 1 .. Len(dat) : dat'[q] = dat[q]
      /\ dat'[Len(dat) + 1] = half
  BY <1>1, <1>3, <1>5, AppendIs
<1>7. DOMAIN dat' = 1 .. Len(dat) + 1
  BY <1>6, LenProperties
<1> QED BY <1>1, <1>3, <1>4, <1>5, <1>6, <1>7

LEMMA WriteHalfHandled ==
  ASSUME ChainInv, ChainInv', Alive, WriteHalf PROVE HandledInv' /\ Refined
<1> DEFINE c == Places(u.old)
           p == EOF
<1>1. /\ pc = "fragment" /\ pc' = "half" /\ UNCHANGED <<head, def, lock, u>> /\ Writing
      /\ Len(dat) \in Nat /\ Len(dat') = Len(dat) + 1 /\ p = Len(dat) + 1
      /\ DOMAIN dat = 1 .. Len(dat) /\ DOMAIN dat' = 1 .. Len(dat) + 1
      /\ \A q \in 1 .. Len(dat) : dat'[q] = dat[q]
      /\ dat'[p].val = Added.val /\ dat'[p].link = 0 /\ dat'[p].whole = FALSE
      /\ Grows(dat'[p]) = {} /\ Set(dat'[p]) \subseteq DOMAIN u.in
  BY HalfFacts
<1>2. /\ u.key \in Live /\ Body(u.key) = c /\ Last \in Nat /\ Last > 0
      /\ Len(c) = Last /\ Sound(dat, c) /\ Last <= MAX_RECS_OLD_CAP
      /\ FieldsMissing /\ Addition
      /\ \A i \in 1 .. Last : c[i] = u.old[i].pos /\ u.old[i].pos \in DOMAIN dat /\ OldIsUpdated(i)
      /\ Chain(u.key) = IF Ahead THEN Append(c, Place) ELSE c
  BY <1>1, WritingFacts
<1>3. u'.old = u.old /\ u'.key = u.key /\ u'.in = u.in /\ u'.check = u.check /\ u'.eof = u.eof
      /\ Last' = Last /\ Writing' /\ Body(u.key)' = c /\ Added' = Added
  BY <1>1 DEF Last, Writing, Body, Places, Added
<1>4. (Ahead' <=> Ahead) /\ Place' = p /\ Place = p
  BY <1>1, <1>3 DEF Ahead, Place
<1>5. OnlyAt(p)
  BY <1>1 DEF OnlyAt
<1>6. Chain(u.key)' = IF Ahead' THEN Append(Body(u.key)', Place') ELSE Body(u.key)'
  <2>1. \A q \in Nat : LinkAt(dat', q) = LinkAt(dat, q)
    <3> TAKE q \in Nat
    <3>1. CASE q = p
      BY <1>1, <3>1 DEF LinkAt
    <3>2. CASE q # p
      BY <1>5, <3>2, LinksStay
    <3> QED BY <3>1, <3>2
  <2>2. Chain(u.key)' = Chain(u.key)
    BY <1>1, <1>2, <1>3, <2>1, LinksKeepChain
  <2> QED BY <1>2, <1>3, <1>4, <2>2
<1> HIDE DEF c, p
<1>7. \A i \in 1 .. Len(c) : c[i] \in DOMAIN dat /\ c[i] \in DOMAIN dat' /\ dat'[c[i]] = dat[c[i]]
  BY <1>1, <1>2
<1>8. Sound(dat', c)
  <2>1. \A i \in 1 .. Len(c) : dat[c[i]].whole
    BY <1>2 DEF Sound
  <2> QED BY <1>2, <1>7, <2>1, SoundStays
<1>9. RecordsSound' /\ \A k \in Live : k # u.key => Shown(k)' = Shown(k)
  <2>1. RecordsSound
    BY DEF Alive
  <2>2. \A k \in Live : k # u.key => \A i \in 1 .. Len(Body(k)) : Body(k)[i] # p
    BY <1>1, <2>1, BodyFacts
  <2>3. Sound(dat', Body(u.key)')
    BY <1>3, <1>8
  <2>4. \A i \in 1 .. Len(Body(u.key)') :
            \/ Body(u.key)'[i] = p
            \/ \E j \in 1 .. Len(Body(u.key)) : Body(u.key)'[i] = Body(u.key)[j]
    BY <1>2, <1>3
  <2> QED BY <1>1, <1>2, <1>3, <1>5, <1>6, <2>1, <2>2, <2>3, <2>4, WriteSound
<1>10. FragmentsFit'
  <2>1. Set(dat'[p]) \subseteq 1 .. def
    BY <1>1 DEF Alive, InputChecked
  <2>2. \A q \in DOMAIN dat' : q \in DOMAIN dat \/ q = p
    BY <1>1
  <2> QED BY <1>1, <2>1, <2>2 DEF Alive, FragmentsFit
<1>11. InputChecked' /\ OldIsRead' /\ SaysTrue' /\ PositionsAreKnown'
  BY <1>1 DEF Alive, InputChecked, OldIsRead, SaysTrue, PositionsAreKnown
<1>12. OldIsWritten'
  <2>1. ASSUME NEW i \in 1 .. Last PROVE OldIsUpdated(i)'
    <3>1. dat'[u'.old[i].pos] = dat[u.old[i].pos] /\ u'.old[i] = u.old[i]
      BY <1>1, <1>2, <1>3
    <3>2. OldIsUpdated(i)
      BY <1>2
    <3> QED BY <1>1, <1>3, <3>1, <3>2 DEF OldIsUpdated
  <2>2. FieldsMissing'
    <3>1. Some("y")' <=> Some("y")
      BY <1>3 DEF Some
    <3>2. pc # "write" /\ pc' # "write" /\ pc' # "link"
      BY <1>1
    <3>3. u' = u /\ Last' = Last /\ FieldsMissing
      BY <1>1, <1>2, <1>3
    <3> QED BY <3>1, <3>2, <3>3 DEF FieldsMissing
  <2>3. Addition'
    <3>1. Last > 1 => u'.eof = Len(dat')
      BY <1>1, <1>2, <1>3 DEF Addition, p
    <3>2. dat'[Len(dat')].val = Added'.val /\ dat'[Len(dat')].link = 0
          /\ dat'[Len(dat')].whole = FALSE
      BY <1>1, <1>3
    <3>3. ASSUME NEW k \in Live', NEW i \in 1 .. Len(Body(k)') PROVE Body(k)'[i] # Len(dat')
      <4>1. Sound(dat', Body(k)') /\ k \in Live
        BY <1>1, <1>9 DEF RecordsSound, Live
      <4>2. CASE k = u.key
        <5>1. Body(k)' = c
          BY <1>3, <4>2
        <5> QED BY <1>1, <1>7, <5>1
      <4>3. CASE k # u.key
        <5>1. Body(k)' = Chain(k)' /\ Body(k) = Chain(k)
          BY <1>3, <4>3 DEF Body
        <5>2. Chain(k)' = Chain(k)
          <6>1. RecordsSound
            BY DEF Alive
          <6>2. \A j \in 1 .. Len(Body(k)) : Body(k)[j] # p
            BY <1>1, <4>1, <6>1, BodyFacts
          <6> QED BY <1>1, <1>5, <4>1, <4>3, <6>1, <6>2, OthersStay
        <5>3. Body(k)'[i] \in 1 .. Len(dat)
          <6>1. RecordsSound
            BY DEF Alive
          <6> QED BY <4>1, <5>1, <5>2, <6>1, BodyFacts
        <5> QED BY <1>1, <5>3
      <4> QED BY <4>2, <4>3
    <3> QED BY <1>1, <1>3, <3>1, <3>2, <3>3 DEF Addition
  <2>4. u'.key \in Live' /\ Last' > 0 /\ Last' <= MAX_RECS_OLD_CAP
    BY <1>1, <1>2, <1>3 DEF Live
  <2> QED BY <1>3, <2>1, <2>2, <2>3, <2>4 DEF OldIsWritten
<1>13. Refined
  <2>1. \A f \in Fields : Shown(u.key)[f] = ShownIn(dat, c, f)
    BY <1>2, ShownOfBody DEF Alive
  <2>2. \A k \in Live' : \A f \in Fields : Shown(k)'[f] = ShownIn(dat', Body(k)', f)
    BY <1>9, <1>12, ShownOfBodyNext
  <2>3. u.key \in Live' /\ Body(u.key)' = c
    BY <1>1, <1>2, <1>3 DEF Live
  <2>4. \A f \in Fields : Shown(u.key)'[f] = ShownIn(dat', c, f)
    <3>1. \A k \in Live' : k = u.key => Body(k)' = c
      BY <1>1, <2>3 DEF Body
    <3>2. \A k \in Live' : k = u.key => \A f \in Fields : Shown(k)'[f] = ShownIn(dat', c, f)
      BY <2>2, <3>1
    <3> QED BY <1>3, <2>3, <3>2 DEF Shown, Chain
  <2>5. \A f \in Fields : ShownIn(dat', c, f) = ShownIn(dat, c, f)
    BY <1>7, ShownSame
  <2>6. \A f \in Fields : Shown(u.key)'[f] = Shown(u.key)[f]
    BY <2>1, <2>4, <2>5
  <2> QED BY <1>1, <1>2, <1>3, <1>9, <2>6, ApplyRefines DEF Busy
<1> QED BY <1>1, <1>9, <1>10, <1>11, <1>12, <1>13 DEF HandledInv, Alive

LEMMA ShownNext ==
  ChainInv' /\ (u.key \in Live)' =>
    (\A f \in Fields : Shown(u.key)[f] = ShownIn(dat, Chain(u.key), f))'
<1>1. ChainInv /\ u.key \in Live =>
        \A f \in Fields : Shown(u.key)[f] = ShownIn(dat, Chain(u.key), f)
  BY ShownIs
<1> QED BY <1>1, PTL

\* The command ends when the new fragment is whole and linked.
LEMMA FragmentAdded ==
  ASSUME ChainInv, ChainInv', Alive, pc \in {"half", "link"}, UNCHANGED <<head, def, lock>>,
         End("updated"),
         NEW p, OnlyAt(p), NEW c, c = Places(u.old), NEW q, q = Len(dat),
         Chain(u.key)' = Append(c, q), Sound(dat', c),
         q \in DOMAIN dat', dat'[q].whole, dat'[q].val = Added.val,
         \A i \in 1 .. Last : Set(dat'[c[i]]) = Set(u.old[i].frag),
         \A k \in Live : k # u.key => \A j \in 1 .. Len(Body(k)) : Body(k)[j] # p,
         \A f \in Fields : ShownIn(dat', c, f) = ShownIn(dat, c, f),
         FragmentsFit'
  PROVE  HandledInv' /\ Refined
<1>1. pc' = "unlock" /\ u' = [u EXCEPT !.result = "updated"] /\ Writing /\ pc # "write"
  BY DEF End, Writing
<1>2. /\ u'.key = u.key /\ u'.in = u.in /\ u'.old = u.old /\ u'.check = u.check
      /\ u'.result = "updated"
  BY <1>1 DEF ChainInv, TypeOK, UpdateState
<1>3. /\ u.key \in Live /\ Body(u.key) = c /\ Last \in Nat /\ Len(c) = Last /\ Sound(dat, c)
      /\ Last <= MAX_RECS_OLD_CAP /\ Addition
      /\ \A i \in 1 .. Last : c[i] = u.old[i].pos /\ OldIsUpdated(i)
      /\ \A i \in 1 .. Last : Set(u.old[i].frag) = Set(dat[c[i]])
  BY <1>1, WritingFacts
<1>4. /\ Set(Added) # {} /\ Set(Added) \subseteq DOMAIN u.in
      /\ \A f \in Set(Added) : Added.val[f] = u.in[f]
      /\ \A i \in 1 .. Last : Set(u.old[i].frag) \cap Set(Added) = {}
      /\ \A f \in DOMAIN u.in : \/ f \in Set(Added)
                                \/ \E i \in 1 .. Last : f \in Set(u.old[i].frag)
  BY <1>1, AddedFacts
<1>5. Set(dat'[q]) = Set(Added) /\ q \in Nat /\ c \in Seq(Nat)
  <2>1. Set(dat'[q]) = Set(Added)
    BY DEF Set
  <2>2. q \in Nat /\ c \in Seq(Nat)
    BY PlacesFacts, OldFacts DEF ChainInv
  <2> QED BY <2>1, <2>2
<1>6. /\ Sound(dat', Append(c, q))
      /\ \A f \in Fields : ShownIn(dat', Append(c, q), f) =
                             IF f \in Set(dat'[q]) THEN {dat'[q].val[f]} ELSE ShownIn(dat', c, f)
  <2>1. \A i \in 1 .. Len(c) : Set(dat'[c[i]]) \cap Set(dat'[q]) = {}
    BY <1>3, <1>4, <1>5
  <2>2. Set(dat'[q]) # {} /\ Len(c) <= MAX_RECS_OLD_CAP
    BY <1>3, <1>4, <1>5
  <2>3. PICK d : d = dat'
    OBVIOUS
  <2>4. /\ Sound(d, c) /\ q \in DOMAIN d /\ d[q].whole /\ Set(d[q]) # {}
        /\ \A i \in 1 .. Len(c) : Set(d[c[i]]) \cap Set(d[q]) = {}
    BY <2>1, <2>2, <2>3
  <2>5. Sound(d, Append(c, q))
    BY <1>5, <2>2, <2>4, SoundGrows
  <2>6. ShowsMore(d, c, q)
    BY <1>5, <2>2, <2>4, SoundGrows
  <2> QED BY <2>3, <2>5, <2>6 DEF ShowsMore
<1>7. ~ Writing' /\ ~ Ahead' /\ Body(u.key)' = Append(c, q)
  BY <1>1 DEF Writing, Ahead, Body
<1>8. RecordsSound /\ OldIsWritten
  BY DEF Alive
<1>9. RecordsSound' /\ \A k \in Live : k # u.key => Shown(k)' = Shown(k)
  <2>1. \A i \in 1 .. Len(Body(u.key)') : \A k \in Live :
            k # u.key => \A j \in 1 .. Len(Body(k)) : Body(u.key)'[i] # Body(k)[j]
    <3> TAKE i \in 1 .. Len(Body(u.key)')
    <3> TAKE k \in Live
    <3> SUFFICES ASSUME k # u.key, NEW j \in 1 .. Len(Body(k)) PROVE Body(u.key)'[i] # Body(k)[j]
      OBVIOUS
    <3>1. /\ Len(Append(c, q)) = Len(c) + 1 /\ Append(c, q)[Len(c) + 1] = q
          /\ \A m \in 1 .. Len(c) : Append(c, q)[m] = c[m]
          /\ 1 .. Len(c) + 1 = (1 .. Len(c)) \union {Len(c) + 1}
      BY <1>5, AppendIs
    <3>2. i \in 1 .. Len(c) \/ i = Len(c) + 1
      BY <1>7, <3>1
    <3>3. CASE i \in 1 .. Len(c)
      <4>1. Body(u.key)'[i] = Body(u.key)[i] /\ i \in 1 .. Len(Body(u.key))
        BY <1>3, <1>7, <3>1, <3>3
      <4>2. Body(u.key)[i] # Body(k)[j]
        BY <1>3, <1>8, <4>1 DEF RecordsSound
      <4> QED BY <4>1, <4>2
    <3>4. CASE i = Len(c) + 1
      <4>1. Body(u.key)'[i] = q
        BY <1>7, <3>1, <3>4
      <4>2. Body(k)[j] # Len(dat)
        BY <1>3 DEF Addition
      <4> QED BY <4>1, <4>2
    <3> QED BY <3>2, <3>3, <3>4
  <2>2. Chain(u.key)' = IF Ahead' THEN Append(Body(u.key)', Place') ELSE Body(u.key)'
    BY <1>7
  <2>3. Sound(dat', Body(u.key)')
    BY <1>6, <1>7
  <2> QED BY <1>2, <1>3, <1>8, <2>1, <2>2, <2>3, WriteSoundAt
<1>10. u'.key \in Live' /\ \A f \in Fields : Shown(u.key)'[f] = ShownIn(dat', Append(c, q), f)
  <2>1. u'.key \in Live'
    BY <1>2, <1>3 DEF Live
  <2>2. \A f \in Fields : Shown(u.key)'[f] = ShownIn(dat', Chain(u.key)', f)
    BY <2>1, ShownNext
  <2> QED BY <2>1, <2>2
<1>11. \A f \in Fields : Shown(u.key)'[f] = IF f \in Set(Added) THEN {u.in[f]}
                                            ELSE Shown(u.key)[f]
  <2> TAKE f \in Fields
  <2>1. Shown(u.key)[f] = ShownIn(dat, c, f)
    BY <1>3, <1>8, ShownOfBody
  <2>2. Shown(u.key)'[f] = IF f \in Set(dat'[q]) THEN {dat'[q].val[f]} ELSE ShownIn(dat', c, f)
    BY <1>6, <1>10
  <2>3. ShownIn(dat', c, f) = Shown(u.key)[f]
    BY <2>1
  <2>4. f \in Set(Added) => dat'[q].val[f] = u.in[f]
    BY <1>4
  <2> QED BY <1>5, <2>2, <2>3, <2>4
<1>12. SaysTrue'
  <2>1. ASSUME NEW f \in DOMAIN u.in PROVE Shown(u.key)'[f] = {u.in[f]}
    <3>1. f \in Fields
      BY <1>1, InputFacts DEF Alive, Writing
    <3>2. CASE f \in Set(Added)
      BY <1>11, <3>1, <3>2
    <3>3. CASE f \notin Set(Added)
      <4>1. PICK i \in 1 .. Last : f \in Set(u.old[i].frag)
        BY <1>4, <3>3
      <4>2. /\ dat[c[i]].val[f] = u.in[f] /\ f \in Set(dat[c[i]]) /\ i \in 1 .. Len(c)
        <5>1. OldIsUpdated(i) /\ c[i] = u.old[i].pos /\ i \in 1 .. Len(c)
          BY <1>3
        <5>2. Last > 1 => u.old[i].frag.val = dat[c[i]].val
          BY <1>1, <5>1 DEF OldIsUpdated
        <5>3. u.old[i].frag.val[f] = u.in[f]
          BY <4>1, <5>1 DEF OldIsUpdated, Common
        <5>4. Last = 1 => FALSE
          <6> SUFFICES ASSUME Last = 1 PROVE FALSE
            OBVIOUS
          <6>1. FieldsMissing
            BY <1>1, WritingFacts
          <6>2. Common(u.old[i].frag, u.in) = {}
            BY <1>1, <6>1 DEF FieldsMissing
          <6> QED BY <4>1, <6>2 DEF Common
        <5>5. Last > 1
          BY <1>3, <5>4
        <5>6. Set(u.old[i].frag) = Set(dat[c[i]])
          BY <1>3
        <5> QED BY <4>1, <5>1, <5>2, <5>3, <5>5, <5>6
      <4>3. ShownIn(dat, c, f) = {dat[c[i]].val[f]}
        <5>1. Sound(dat, c)
          BY <1>3
        <5> QED BY <4>2, <5>1, ShownOnce
      <4>4. Shown(u.key)[f] = ShownIn(dat, c, f)
        BY <1>3, <1>8, <3>1, ShownOfBody
      <4> QED BY <1>11, <3>1, <3>3, <4>2, <4>3, <4>4
    <3> QED BY <3>2, <3>3
  <2> QED BY <1>2, <1>10, <2>1 DEF SaysTrue, Shown, Chain
<1>13. InputChecked' /\ OldIsRead' /\ OldIsWritten' /\ PositionsAreKnown'
  BY <1>1, <1>2, <1>7 DEF Alive, InputChecked, OldIsRead, OldIsWritten, PositionsAreKnown
<1>14. Refined
  <2>1. \A f \in Fields : \/ Shown(u.key)'[f] = Shown(u.key)[f]
                          \/ f \in DOMAIN u.in /\ Shown(u.key)'[f] = {u.in[f]}
    BY <1>4, <1>11
  <2>2. Busy /\ Busy'
    BY <1>1 DEF Busy
  <2> QED BY <1>2, <1>3, <1>9, <2>1, <2>2, ApplyRefines
<1> QED BY <1>1, <1>9, <1>12, <1>13, <1>14 DEF HandledInv, Alive

LEMMA RestFacts ==
  ASSUME ChainInv, ChainInv', Alive, WriteRest
  PROVE  /\ pc = "half" /\ UNCHANGED <<head, def, lock>> /\ Writing
         /\ u'.key = u.key /\ u'.in = u.in /\ u'.old = u.old /\ u'.check = u.check
         /\ Len(dat) \in DOMAIN dat /\ Len(dat') = Len(dat) /\ DOMAIN dat' = DOMAIN dat
         /\ DOMAIN dat = 1 .. Len(dat) /\ Len(dat) \in Nat
         /\ \A q \in DOMAIN dat : q # Len(dat) => dat'[q] = dat[q]
         /\ dat'[Len(dat)].val = Added.val /\ dat'[Len(dat)].link = 0 /\ dat'[Len(dat)].whole
         /\ OnlyAt(Len(dat)) /\ FragmentsFit' /\ Chain(u.key)' = Chain(u.key)
<1>1. /\ pc = "half" /\ UNCHANGED <<head, def, lock>> /\ Writing
      /\ dat' = [dat EXCEPT ![Len(dat)] = [dat[Len(dat)] EXCEPT !.whole = TRUE]]
  BY DEF WriteRest, Unchanged, Writing
<1>2. u'.key = u.key /\ u'.in = u.in /\ u'.old = u.old /\ u'.check = u.check
  <2>1. u' = u \/ u' = [u EXCEPT !.result = "updated"]
    BY DEF WriteRest, End
  <2> QED BY <2>1 DEF ChainInv, TypeOK, UpdateState
<1> DEFINE n == Len(dat)
<1>3. /\ dat \in Seq(Fragment) /\ n \in Nat /\ DOMAIN dat = 1 .. n /\ dat' \in Seq(Fragment)
  BY OldFacts DEF ChainInv, TypeOK
<1>4. n > 0 /\ dat[n].val = Added.val /\ dat[n].link = 0 /\ u.key \in Live
  BY <1>1, WritingFacts DEF Addition
<1>5. n \in DOMAIN dat /\ dat[n] \in Fragment
  <2>1. n \in DOMAIN dat
    BY <1>3, <1>4
  <2> QED BY <1>3, <2>1, ElementOfSeq
<1>6. /\ DOMAIN dat' = DOMAIN dat /\ \A q \in DOMAIN dat : q # n => dat'[q] = dat[q]
      /\ dat'[n] = [dat[n] EXCEPT !.whole = TRUE]
  BY <1>1, <1>5
<1>7. Len(dat') = n
  BY <1>3, <1>6, LenProperties
<1>8. /\ dat'[n].val = dat[n].val /\ dat'[n].room = dat[n].room
      /\ dat'[n].link = dat[n].link /\ dat'[n].whole
  BY <1>5, <1>6 DEF Fragment
<1> HIDE DEF n
<1>9. OnlyAt(Len(dat))
  BY <1>3, <1>6, <1>7 DEF OnlyAt, n
<1>10. FragmentsFit'
  <2>1. Grows(dat'[n]) = Grows(dat[n]) /\ Set(dat'[n]) = Set(dat[n])
    BY <1>8 DEF Grows, Set
  <2>2. \A q \in DOMAIN dat : Grows(dat[q]) = {} /\ Set(dat[q]) \subseteq 1 .. def
    BY DEF Alive, FragmentsFit
  <2>3. \A q \in DOMAIN dat' : Grows(dat'[q]) = {} /\ Set(dat'[q]) \subseteq 1 .. def
    BY <1>5, <1>6, <2>1, <2>2
  <2> QED BY <1>1, <2>3 DEF Alive, FragmentsFit
<1>11. \A q \in Nat : LinkAt(dat', q) = LinkAt(dat, q)
  BY <1>6, <1>8 DEF LinkAt
<1>12. Chain(u.key)' = Chain(u.key)
  <2>1. Len(dat) <= Len(dat')
    BY <1>3, <1>7 DEF n
  <2> QED BY <1>1, <1>2, <1>4, <1>11, <2>1, LinksKeepChain
<1> QED BY <1>1, <1>2, <1>3, <1>4, <1>5, <1>6, <1>7, <1>8, <1>9, <1>10, <1>12 DEF n

\* The rest of the fragment is written: the record is linked to it, or is to be.
LEMMA WriteRestHandled ==
  ASSUME ChainInv, ChainInv', Alive, WriteRest PROVE HandledInv' /\ Refined
<1> DEFINE c == Places(u.old)
           q == Len(dat)
<1>1. /\ pc = "half" /\ UNCHANGED <<head, def, lock>> /\ Writing
      /\ u'.key = u.key /\ u'.in = u.in /\ u'.old = u.old /\ u'.check = u.check
      /\ q \in DOMAIN dat /\ Len(dat') = q /\ DOMAIN dat' = DOMAIN dat
      /\ DOMAIN dat = 1 .. q /\ q \in Nat
      /\ \A p \in DOMAIN dat : p # q => dat'[p] = dat[p]
      /\ dat'[q].val = Added.val /\ dat'[q].link = 0 /\ dat'[q].whole
      /\ OnlyAt(q) /\ FragmentsFit' /\ Chain(u.key)' = Chain(u.key)
  BY RestFacts
<1>2. /\ u.key \in Live /\ Body(u.key) = c /\ Last \in Nat /\ Last > 0
      /\ Len(c) = Last /\ Sound(dat, c) /\ Last <= MAX_RECS_OLD_CAP
      /\ FieldsMissing /\ Addition
      /\ \A i \in 1 .. Last : c[i] = u.old[i].pos /\ u.old[i].pos \in DOMAIN dat /\ OldIsUpdated(i)
      /\ \A i \in 1 .. Last : Set(u.old[i].frag) = Set(dat[u.old[i].pos])
      /\ Chain(u.key) = IF Ahead THEN Append(c, Place) ELSE c
  BY <1>1, WritingFacts
<1>3. \A k \in Live : \A i \in 1 .. Len(Body(k)) : Body(k)[i] # q
  BY <1>1, <1>2 DEF Addition
<1>4. \A i \in 1 .. Len(c) : c[i] # q /\ c[i] \in DOMAIN dat' /\ dat'[c[i]] = dat[c[i]]
  BY <1>1, <1>2, <1>3
<1>5. Place = q
  BY <1>1 DEF Place
<1> HIDE DEF c, q
<1>6. Sound(dat', c)
  <2>1. \A i \in 1 .. Len(c) : dat[c[i]].whole
    BY <1>2 DEF Sound
  <2> QED BY <1>2, <1>4, <2>1, SoundStays
<1>7. \A f \in Fields : ShownIn(dat', c, f) = ShownIn(dat, c, f)
  <2>1. \A i \in 1 .. Len(c) : c[i] \in DOMAIN dat /\ c[i] \in DOMAIN dat' /\ dat'[c[i]] = dat[c[i]]
    BY <1>1, <1>4
  <2> QED BY <2>1, ShownSame
<1>8. CASE u.check = SCHEMA_CT /\ Last > 1
  <2>1. pc' = "link" /\ u' = u
    BY <1>8 DEF WriteRest
  <2>2. ~ Ahead /\ ~ Ahead' /\ Writing' /\ Last' = Last /\ Body(u.key)' = c /\ Added' = Added
    <3>1. Last' = Last /\ Writing' /\ Added' = Added /\ Places(u.old)' = Places(u.old)
      BY <2>1 DEF Last, Writing, Added, Places
    <3>2. ~ Ahead /\ ~ Ahead'
      BY <1>1, <1>2, <1>8, <2>1, <3>1 DEF Ahead, SCHEMA_CT, SCHEMA_NW
    <3> QED BY <2>1, <3>1, <3>2 DEF Body, c
  <2>3. RecordsSound' /\ \A k \in Live : k # u.key => Shown(k)' = Shown(k)
    <3>1. RecordsSound
      BY DEF Alive
    <3>2. Chain(u.key)' = IF Ahead' THEN Append(Body(u.key)', Place') ELSE Body(u.key)'
      BY <1>1, <1>2, <2>2
    <3>3. Sound(dat', Body(u.key)')
      BY <1>6, <2>2
    <3>4. \A i \in 1 .. Len(Body(u.key)') :
            \/ Body(u.key)'[i] = q
            \/ \E j \in 1 .. Len(Body(u.key)) : Body(u.key)'[i] = Body(u.key)[j]
      BY <1>2, <2>2
    <3> QED BY <1>1, <1>2, <1>3, <3>1, <3>2, <3>3, <3>4, WriteSound
  <2>4. InputChecked' /\ OldIsRead' /\ SaysTrue' /\ PositionsAreKnown'
    BY <1>1, <2>1 DEF Alive, InputChecked, OldIsRead, SaysTrue, PositionsAreKnown
  <2>5. ASSUME NEW i \in 1 .. Last PROVE OldIsUpdated(i)'
    <3>1. dat'[u'.old[i].pos] = dat[u.old[i].pos] /\ u'.old[i] = u.old[i]
      BY <1>1, <1>2, <1>4
    <3>2. OldIsUpdated(i)
      BY <1>2
    <3>3. u'.in = u.in /\ Last' = Last
      BY <1>1, <2>2
    <3>4. pc = "half" /\ pc' = "link"
      BY <1>1, <2>1
    <3> QED BY <3>1, <3>2, <3>3, <3>4, UpdatedStays
  <2>6. FieldsMissing'
    <3>1. Some("y")' <=> Some("y")
      BY <1>1, <2>2 DEF Some
    <3>2. pc # "write" /\ pc' # "write" /\ u.check = SCHEMA_CT /\ Last > 1
      BY <1>1, <1>8, <2>1
    <3>3. u' = u /\ Last' = Last /\ FieldsMissing
      BY <1>2, <2>1, <2>2
    <3> QED BY <3>1, <3>2, <3>3 DEF FieldsMissing
  <2>7. Addition'
    <3>1. u'.eof = Len(dat')
      BY <1>1, <1>2, <1>8, <2>1 DEF Addition, q
    <3>2. /\ dat'[Len(dat')].val = Added'.val /\ dat'[Len(dat')].link = 0
          /\ dat'[Len(dat')].whole /\ Len(dat') > 0
      BY <1>1, <2>2
    <3>3. ASSUME NEW k \in Live', NEW i \in 1 .. Len(Body(k)') PROVE Body(k)'[i] # Len(dat')
      <4>1. k \in Live
        BY <1>1 DEF Live
      <4>2. CASE k = u.key
        <5>1. Body(k)' = c
          BY <1>1, <2>2, <4>2 DEF Body, Places, c
        <5> QED BY <1>1, <1>4, <5>1
      <4>3. CASE k # u.key
        <5>1. Body(k)' = Chain(k)' /\ Body(k) = Chain(k)
          BY <1>1, <4>3 DEF Body
        <5>2. Chain(k)' = Chain(k)
          <6>1. RecordsSound
            BY DEF Alive
          <6> QED BY <1>1, <1>3, <4>1, <4>3, <6>1, OthersStay
        <5> QED BY <1>1, <1>3, <4>1, <5>1, <5>2
      <4> QED BY <4>2, <4>3
    <3> QED BY <1>8, <2>1, <2>2, <3>1, <3>2, <3>3 DEF Addition
  <2>8. OldIsWritten'
    <3>1. u'.key \in Live' /\ Last' > 0 /\ Last' <= MAX_RECS_OLD_CAP
      BY <1>1, <1>2, <2>2 DEF Live
    <3> QED BY <2>2, <2>5, <2>6, <2>7, <3>1 DEF OldIsWritten
  <2>9. Refined
    <3>1. \A f \in Fields : Shown(u.key)[f] = ShownIn(dat, c, f)
      BY <1>2, ShownOfBody DEF Alive
    <3>2. u'.key \in Live'
      BY <1>1, <1>2 DEF Live
    <3>3. \A f \in Fields : Shown(u.key)'[f] = ShownIn(dat', Chain(u.key)', f)
      BY <3>2, ShownNext
    <3>4. Chain(u.key)' = c
      BY <1>1, <1>2, <2>2
    <3>5. \A f \in Fields : Shown(u.key)'[f] = Shown(u.key)[f]
      BY <1>7, <3>1, <3>3, <3>4
    <3>6. Busy /\ Busy'
      BY <1>1, <2>1 DEF Busy
    <3> QED BY <1>1, <1>2, <2>3, <3>5, <3>6, ApplyRefines
  <2>10. pc' # "killed"
    BY <2>1
  <2> QED BY <1>1, <2>3, <2>4, <2>8, <2>9, <2>10 DEF HandledInv, Alive
<1>9. CASE ~ (u.check = SCHEMA_CT /\ Last > 1)
  <2>1. End("updated")
    BY <1>9 DEF WriteRest
  <2>2. Ahead
    <3>1. u.check = SCHEMA_NW \/ Last = 1
      BY <1>1, <1>2, <1>9 DEF FieldsMissing, Alive, InputChecked
    <3> QED BY <1>1, <3>1 DEF Ahead
  <2>3. Chain(u.key)' = Append(c, q)
    BY <1>1, <1>2, <1>5, <2>2
  <2>4. \A i \in 1 .. Last : Set(dat'[c[i]]) = Set(u.old[i].frag)
    BY <1>2, <1>4
  <2>5. q \in DOMAIN dat' /\ pc \in {"half", "link"} /\ c = Places(u.old) /\ q = Len(dat)
    BY <1>1 DEF c, q
  <2> QED BY <1>1, <1>3, <1>6, <1>7, <2>1, <2>3, <2>4, <2>5, FragmentAdded
<1> QED BY <1>8, <1>9

\* The last fragment of the record is linked to the one that has been written.
LEMMA LinkLastHandled ==
  ASSUME ChainInv, ChainInv', Alive, LinkLast PROVE HandledInv' /\ Refined
<1> DEFINE c == Places(u.old)
           i == Last
           p == u.old[i].pos
           frag == u.old[i].frag
           q == u.eof
<1>1. /\ pc = "link" /\ UNCHANGED <<head, def, lock>> /\ Writing /\ End("updated")
      /\ dat' = InPlace(p, frag, q)
  BY DEF LinkLast, Unchanged, Writing
<1>2. u'.key = u.key
  BY <1>1 DEF End, ChainInv, TypeOK, UpdateState
<1>3. /\ u.key \in Live /\ Body(u.key) = c /\ Last \in Nat /\ Last > 0 /\ i \in 1 .. Last
      /\ Len(c) = Last /\ Sound(dat, c) /\ FieldsMissing /\ Addition
      /\ \A j \in 1 .. Last : /\ c[j] = u.old[j].pos /\ u.old[j].pos \in DOMAIN dat
                              /\ OldIsUpdated(j)
                              /\ Set(u.old[j].frag) = Set(dat[u.old[j].pos])
  BY <1>1, WritingFacts
<1>4. Last > 1 /\ u.check = SCHEMA_CT /\ ~ Ahead
  BY <1>1, <1>3 DEF FieldsMissing, Ahead
<1>5. /\ Len(dat) \in Nat /\ DOMAIN dat = 1 .. Len(dat)
      /\ DOMAIN dat' = 1 .. Len(dat') /\ Len(dat') \in Nat
  <2>1. dat \in Seq(Fragment) /\ dat' \in Seq(Fragment)
    BY DEF ChainInv, TypeOK
  <2> QED BY <2>1, LenProperties
<1>6. /\ q = Len(dat) /\ q > 0 /\ dat[q].val = Added.val /\ dat[q].link = 0 /\ dat[q].whole
      /\ \A k \in Live : \A j \in 1 .. Len(Body(k)) : Body(k)[j] # q
  BY <1>1, <1>3, <1>4 DEF Addition
<1>7. Rewritten(c, i, p, frag, q)
  <2>1. q \in Nat
    BY <1>5, <1>6
  <2> QED BY <1>1, <1>3, <2>1, WriteStep
<1>8. /\ OnlyAt(p) /\ p \in 1 .. Len(dat) /\ Sound(dat', c) /\ dat'[p].val = frag.val
      /\ \A k \in Live : k # u.key => \A j \in 1 .. Len(Body(k)) : Body(k)[j] # p
      /\ \A j \in 1 .. Len(c) : j # i => c[j] # p
  BY <1>7 DEF Rewritten
<1> HIDE DEF i, p, frag, q, c
<1>9. q # p
  BY <1>3, <1>6 DEF p, i
<1>10. q \in 1 .. Len(dat) /\ dat'[q] = dat[q] /\ Len(dat) <= Len(dat')
  <2>1. q \in 1 .. Len(dat)
    BY <1>5, <1>6
  <2>2. Len(dat) <= Len(dat') /\ \A r \in 1 .. Len(dat) : r # p => dat'[r] = dat[r]
    BY <1>8 DEF OnlyAt
  <2> QED BY <1>9, <2>1, <2>2
<1>11. q \in DOMAIN dat' /\ dat'[q].whole /\ dat'[q].val = Added.val /\ dat'[q].link = 0
  BY <1>5, <1>6, <1>10
<1>12. Chain(u.key)' = Append(c, q)
  <2>1. q \in Nat /\ q \in 1 .. Len(dat') + 1
    BY <1>5, <1>10
  <2>2. Rewritten(Places(u.old), Last, u.old[Last].pos, u.old[Last].frag, q)
    BY <1>7 DEF c, p, frag, i
  <2>3. q # u.old[Last].pos
    BY <1>9 DEF p, i
  <2>4. Chain(u.key)' = Append(Places(u.old), q)
    BY <1>1, <1>2, <1>4, <1>11, <2>1, <2>2, <2>3, NewLink
  <2> QED BY <2>4 DEF c
<1>13. frag.val = dat[p].val /\ p = c[i] /\ Set(frag) = Set(dat[p]) /\ i \in 1 .. Len(c)
  <2>1. OldIsUpdated(i)
    BY <1>3
  <2>2. u.old[i].frag.val = dat[u.old[i].pos].val
    <3>1. u.old[i].to # "y" \/ pc # "write" \/ i < u.next
      BY <1>1
    <3>2. (u.old[i].to # "y" \/ pc # "write" \/ i < u.next) => u.old[i].frag.val = dat[u.old[i].pos].val
      BY <1>4, <2>1 DEF OldIsUpdated
    <3> QED BY <3>1, <3>2
  <2> QED BY <1>3, <2>2 DEF p, frag
<1>14. \A f \in Fields : ShownIn(dat', c, f) = ShownIn(dat, c, f)
  <2> TAKE f \in Fields
  <2>1. Sound(dat, c) /\ frag.val[f] = dat[p].val[f]
    BY <1>3, <1>13
  <2> QED BY <1>7, <1>13, <2>1, RewrittenShows
<1>15. \A j \in 1 .. Last : Set(dat'[c[j]]) = Set(u.old[j].frag)
  <2> TAKE j \in 1 .. Last
  <2>1. CASE j = i
    BY <1>8, <1>13, <2>1 DEF Set, frag
  <2>2. CASE j # i
    <3>1. dat'[c[j]] = dat[c[j]]
      BY <1>3, <1>5, <1>8, <2>2 DEF OnlyAt
    <3> QED BY <1>3, <3>1
  <2> QED BY <2>1, <2>2
<1>16. FragmentsFit'
  BY <1>1, <1>7 DEF Rewritten, FragmentsFit, Alive
<1>17. pc \in {"half", "link"} /\ c = Places(u.old)
  BY <1>1 DEF c
<1> QED BY <1>1, <1>6, <1>8, <1>11, <1>12, <1>14, <1>15, <1>16, <1>17, FragmentAdded

-----------------------------------------------------------------------------
(* -a *)

LEMMA AddFacts ==
  ASSUME ChainInv, ChainInv', Alive, NEW k \in Keys, Add(k)
  PROVE  /\ pc = "idle" /\ UNCHANGED <<def, lock, pc, u>>
         /\ head[k] = 0 /\ head' = [head EXCEPT ![k] = EOF]
         /\ Len(dat) \in Nat /\ EOF = Len(dat) + 1 /\ DOMAIN dat = 1 .. Len(dat)
         /\ Len(dat') = Len(dat) + 1 /\ DOMAIN dat' = 1 .. Len(dat) + 1
         /\ \A q \in 1 .. Len(dat) : dat'[q] = dat[q]
         /\ OnlyAt(EOF) /\ dat'[EOF].whole /\ dat'[EOF].link = 0
         /\ Grows(dat'[EOF]) = {} /\ Set(dat'[EOF]) # {} /\ Set(dat'[EOF]) \subseteq 1 .. def
         /\ Live' = Live \union {k} /\ k \notin Live /\ head'[k] = EOF
         /\ \A l \in Live : head'[l] = head[l]
         /\ \A l \in Keys : head[l] \in Nat /\ (l # k => head'[l] = head[l])
<1>1. PICK in \in IF k \in Updated THEN Inputs ELSE Complete \cap Inputs :
        dat' = Append(dat, NewFragment(in))
  BY DEF Add
<1>2. in \in Inputs /\ \A f \in DOMAIN in : in[f] \in Values
  <2>1. in \in Inputs
    BY <1>1
  <2> QED BY <2>1, InputValues DEF AnyInput
<1>3. DOMAIN in \subseteq 1 .. Base /\ DOMAIN in # {}
  <2>1. PICK S \in (SUBSET (1 .. Base)) \ {{}} : in \in [S -> Values]
    BY <1>2, ConstantsAreFit
  <2> QED BY <2>1
<1>4. 1 .. Base \subseteq 1 .. def /\ 1 .. Base \subseteq Fields
  BY ConstantTypes, ConstantsAreFit DEF Alive, FragmentsFit, Fields
<1> DEFINE new == NewFragment(in)
<1>5. new \in Fragment /\ new.link = 0
  BY <1>2, NewFragmentType
<1>6. Grows(new) = {} /\ Set(new) = DOMAIN in /\ new.whole
  BY <1>2, <1>3, <1>4, NewFragmentFits
<1>7. /\ dat \in Seq(Fragment) /\ Len(dat) \in Nat /\ EOF = Len(dat) + 1
      /\ DOMAIN dat = 1 .. Len(dat)
  BY OldFacts DEF ChainInv, EOF
<1> HIDE DEF new
<1>8. /\ dat' \in Seq(Fragment) /\ Len(dat') = Len(dat) + 1 /\ dat'[Len(dat) + 1] = new
      /\ \A q \in 1 .. Len(dat) : dat'[q] = dat[q]
  <2>1. dat' = Append(dat, new)
    BY <1>1 DEF new
  <2> QED BY <1>5, <1>7, <2>1, AppendIs
<1>9. DOMAIN dat' = 1 .. Len(dat) + 1
  BY <1>8, LenProperties
<1>10. OnlyAt(EOF)
  BY <1>7, <1>8 DEF OnlyAt
<1>11. /\ pc = "idle" /\ UNCHANGED <<def, lock, pc, u>> /\ head[k] = 0
       /\ head' = [head EXCEPT ![k] = EOF]
  BY DEF Add, Alive, InputChecked
<1>12. head \in [Keys -> Nat]
  BY <1>7 DEF ChainInv, TypeOK
<1>13. /\ head'[k] = EOF /\ \A l \in Keys : head[l] \in Nat /\ (l # k => head'[l] = head[l])
  BY <1>11, <1>12
<1>14. Live' = Live \union {k} /\ k \notin Live /\ \A l \in Live : head'[l] = head[l]
  BY <1>7, <1>11, <1>13 DEF Live
<1> QED BY <1>3, <1>4, <1>5, <1>6, <1>7, <1>8, <1>9, <1>10, <1>11, <1>13, <1>14

\* A record that is added has one fragment, behind those of the others.
LEMMA AddHandled ==
  ASSUME ChainInv, ChainInv', Alive, NEW k \in Keys, Add(k) PROVE HandledInv' /\ Refined
<1> DEFINE p == EOF
           c == <<p>>
<1>1. /\ pc = "idle" /\ UNCHANGED <<def, lock, pc, u>>
      /\ head[k] = 0 /\ Len(dat) \in Nat /\ p = Len(dat) + 1 /\ DOMAIN dat = 1 .. Len(dat)
      /\ Len(dat') = Len(dat) + 1 /\ DOMAIN dat' = 1 .. Len(dat) + 1
      /\ \A q \in 1 .. Len(dat) : dat'[q] = dat[q]
      /\ OnlyAt(p) /\ dat'[p].whole /\ dat'[p].link = 0
      /\ Grows(dat'[p]) = {} /\ Set(dat'[p]) # {} /\ Set(dat'[p]) \subseteq 1 .. def
      /\ Live' = Live \union {k} /\ k \notin Live /\ head'[k] = p
      /\ \A l \in Live : head'[l] = head[l]
      /\ \A l \in Keys : head[l] \in Nat /\ (l # k => head'[l] = head[l])
  BY AddFacts
<1>2. ~ Writing /\ ~ Writing' /\ ~ Ahead /\ ~ Ahead' /\ RecordsSound
  BY <1>1 DEF Writing, Ahead, Alive
<1>3. Len(c) = 1 /\ c[1] = p /\ 1 .. Len(c) = {1}
  OBVIOUS
<1> HIDE DEF c, p
<1>4. Chain(k)' = c
  <2>1. IsPath(dat', c)
    <3>1. LinkAt(dat', p) = 0 /\ p \in 1 .. Len(dat') + 1 /\ Len(dat') \in Nat
      BY <1>1 DEF LinkAt
    <3>2. PICK d : d = dat'
      OBVIOUS
    <3>3. LinkAt(d, p) = 0 /\ p \in 1 .. Len(d) + 1 /\ Len(d) \in Nat
      BY <3>1, <3>2
    <3>4. IsPath(d, <<p>>)
      BY <3>3, SingletonPath
    <3> QED BY <3>2, <3>4 DEF c
  <2>2. k \in Live' /\ c[1] = head'[k]
    BY <1>1, <1>3
  <2> QED BY <2>1, <2>2, ChainIsNext
<1>5. Sound(dat', c)
  <2>1. Len(c) <= MAX_RECS_OLD_CAP + 1
    BY <1>3, ConstantsAreFit
  <2>2. \A i \in 1 .. Len(c) : c[i] \in DOMAIN dat' /\ dat'[c[i]].whole /\ Set(dat'[c[i]]) # {}
    BY <1>1, <1>3
  <2>3. \A i, j \in 1 .. Len(c) : i = j
    BY <1>3
  <2> QED BY <2>1, <2>2, <2>3 DEF Sound
<1>6. ASSUME NEW l \in Live
      PROVE  /\ Chain(l)' = Chain(l) /\ Body(l) = Chain(l) /\ Shown(l)' = Shown(l)
             /\ Sound(dat', Body(l)) /\ \A i \in 1 .. Len(Body(l)) : Body(l)[i] \in 1 .. Len(dat)
  <2>1. \A i \in 1 .. Len(Body(l)) : Body(l)[i] \in 1 .. Len(dat)
    BY <1>2, BodyFacts
  <2>2. \A i \in 1 .. Len(Body(l)) : Body(l)[i] # p
    BY <1>1, <2>1
  <2> QED BY <1>1, <1>2, <2>1, <2>2, OthersStay
<1>7. \A l \in Live' : Body(l)' = Chain(l)'
  BY <1>2 DEF Body
<1>8. RecordsSound'
  <2>1. ASSUME NEW l \in Live'
        PROVE  /\ Chain(l)' = Body(l)' /\ Sound(dat', Body(l)')
               /\ l \in Live => Body(l)' = Body(l)
               /\ l = k => Body(l)' = c
    <3>1. CASE l = k
      BY <1>1, <1>4, <1>5, <1>7, <3>1
    <3>2. CASE l # k
      <4>1. l \in Live
        BY <1>1, <3>2
      <4> QED BY <1>6, <1>7, <3>2, <4>1
    <3> QED BY <3>1, <3>2
  <2>2. ASSUME NEW l \in Live', NEW m \in Live', l # m,
               NEW i \in 1 .. Len(Body(l)'), NEW j \in 1 .. Len(Body(m)')
        PROVE  Body(l)'[i] # Body(m)'[j]
    <3>1. (l = k \/ l \in Live) /\ (m = k \/ m \in Live)
      BY <1>1
    <3>2. CASE l = k
      <4>1. m \in Live /\ Body(m)'[j] \in 1 .. Len(dat) /\ Body(l)'[i] = p
        BY <1>3, <1>6, <2>1, <2>2, <3>1, <3>2
      <4> QED BY <1>1, <4>1
    <3>3. CASE m = k
      <4>1. l \in Live /\ Body(l)'[i] \in 1 .. Len(dat) /\ Body(m)'[j] = p
        BY <1>3, <1>6, <2>1, <2>2, <3>1, <3>3
      <4> QED BY <1>1, <4>1
    <3>4. CASE l \in Live /\ m \in Live
      BY <1>2, <2>1, <2>2, <3>4 DEF RecordsSound
    <3> QED BY <3>1, <3>2, <3>3, <3>4
  <2> QED BY <1>2, <2>1, <2>2 DEF RecordsSound
<1>9. FragmentsFit'
  <2>1. \A q \in DOMAIN dat : Grows(dat[q]) = {} /\ Set(dat[q]) \subseteq 1 .. def
    BY DEF Alive, FragmentsFit
  <2>2. \A q \in DOMAIN dat' : q = p \/ (q \in DOMAIN dat /\ dat'[q] = dat[q])
    BY <1>1
  <2>3. \A q \in DOMAIN dat' : Grows(dat'[q]) = {} /\ Set(dat'[q]) \subseteq 1 .. def
    BY <1>1, <2>1, <2>2
  <2> QED BY <1>1, <2>3 DEF Alive, FragmentsFit
<1>10. InputChecked' /\ OldIsRead' /\ OldIsWritten' /\ SaysTrue' /\ PositionsAreKnown'
  BY <1>1, <1>2 DEF Alive, InputChecked, OldIsRead, OldIsWritten, SaysTrue, PositionsAreKnown
<1>11. Refined
  <2>1. ASSUME NEW f \in Fields PROVE \A v, w \in Shown(k)'[f] : v = w
    <3>1. \A l \in Live' : \A g \in Fields : Shown(l)'[g] = ShownIn(dat', Body(l)', g)
      BY <1>8, <1>10, ShownOfBodyNext
    <3>2. k \in Live' /\ Body(k)' = c
      BY <1>1, <1>4, <1>7
    <3>3. Shown(k)'[f] = ShownIn(dat', c, f)
      BY <3>1, <3>2
    <3>4. CASE f \in Set(dat'[p])
      <4>1. ShownIn(dat', c, f) = {dat'[p].val[f]}
        <5>1. PICK d : d = dat'
          OBVIOUS
        <5>2. Sound(d, c) /\ 1 \in 1 .. Len(c) /\ f \in Set(d[c[1]])
          BY <1>3, <1>5, <3>4, <5>1
        <5>3. ShownIn(d, c, f) = {d[c[1]].val[f]}
          BY <5>2, ShownOnce
        <5> QED BY <1>3, <5>1, <5>3
      <4> QED BY <3>3, <4>1
    <3>5. CASE f \notin Set(dat'[p])
      <4>1. ShownIn(dat', c, f) = {}
        BY <1>3, <3>5, ShownNever
      <4> QED BY <3>3, <4>1
    <3> QED BY <3>4, <3>5
  <2> DEFINE rec == [l \in Keys |-> IF head[l] = 0 THEN [f \in Fields |-> {}] ELSE Shown(l)]
  <2>2. rec[k] = Promise!Absent /\ rec'[k] = Shown(k)'
    BY <1>1 DEF Promise!Absent
  <2>3. rec' = [rec EXCEPT ![k] = rec'[k]]
    <3>1. ASSUME NEW l \in Keys, l # k PROVE rec'[l] = rec[l]
      <4>1. CASE head[l] = 0
        BY <1>1, <3>1, <4>1
      <4>2. CASE head[l] # 0
        <5>1. l \in Live
          BY <1>1, <4>2 DEF Live
        <5> QED BY <1>1, <1>6, <3>1, <4>2, <5>1
      <4> QED BY <4>1, <4>2
    <3>2. DOMAIN rec' = Keys /\ DOMAIN rec = Keys
      OBVIOUS
    <3> QED BY <3>1, <3>2
  <2>4. Shown(k)' # Promise!Absent
    <3>1. PICK f \in Set(dat'[p]) : TRUE
      BY <1>1
    <3>2. f \in Fields
      BY DEF Set
    <3>3. Shown(k)'[f] = {dat'[p].val[f]}
      <4>1. \A l \in Live' : \A g \in Fields : Shown(l)'[g] = ShownIn(dat', Body(l)', g)
        BY <1>8, <1>10, ShownOfBodyNext
      <4>2. ShownIn(dat', c, f) = {dat'[p].val[f]}
        BY <1>3, <1>5, ShownOnce
      <4> QED BY <1>1, <1>4, <1>7, <3>2, <4>1, <4>2
    <3> QED BY <3>2, <3>3 DEF Promise!Absent
  <2>5. Promise!Add(k)
    BY <1>1, <2>1, <2>2, <2>3, <2>4 DEF Promise!Add
  <2> QED BY <2>5 DEF Refined, Promise!Next
<1>12. pc' # "killed"
  BY <1>1
<1> QED BY <1>8, <1>9, <1>10, <1>11, <1>12 DEF HandledInv, Alive

-----------------------------------------------------------------------------
(* The theorems *)

LEMMA StutterHandled ==
  ASSUME ChainInv, ChainInv', HandledInv, UNCHANGED vars PROVE HandledInv' /\ Refined
<1>1. UNCHANGED <<dat, head, def, lock, pc, u>>
  BY DEF vars
<1>2. /\ Live' = Live /\ \A k \in Live : Chain(k)' = Chain(k) /\ Shown(k)' = Shown(k)
      /\ \A p : Item(p)' = Item(p)
  BY <1>1, Untouched
<1>3. Refined
  <2>1. head \in [Keys -> Nat]
    BY OldFacts DEF ChainInv, TypeOK
  <2>2. \A k \in Keys : k \in Live \/ head[k] = 0
    BY <2>1 DEF Live
  <2> QED BY <1>1, <1>2, <2>2 DEF Refined, Promise!vars
<1>4. PositionsAreKnown' <=> PositionsAreKnown
  BY <1>1 DEF PositionsAreKnown
<1>5. CASE pc = "killed"
  <2>1. ReaderMeetsWhole'
    BY <1>1, <1>2, <1>5 DEF HandledInv, ReaderMeetsWhole, Live
  <2> QED BY <1>1, <1>3, <1>4, <1>5, <2>1 DEF HandledInv
<1>6. CASE Alive /\ pc # "killed"
  <2>1. /\ Last' = Last /\ (Writing' <=> Writing) /\ (Ahead' <=> Ahead) /\ Place' = Place
        /\ Places(u.old)' = Places(u.old) /\ EOF' = EOF
    BY <1>1 DEF Last, Writing, Ahead, Place, Places, EOF
  <2>2. \A k \in Live : Body(k)' = Body(k)
    BY <1>1, <1>2, <2>1 DEF Body
  <2>3. RecordsSound'
    BY <1>1, <1>6, <2>1, <2>2, QuietSound DEF Alive
  <2>4. FragmentsFit'
    BY <1>1, <1>6 DEF Alive, FragmentsFit
  <2>5. InputChecked'
    <3>1. Handled(u.key, u.in, u.check) => Handled(u.key, u.in, u.check)'
      <4>1. u'.key \in Keys
        BY <1>1, ConstantsAreFit DEF ChainInv, TypeOK, UpdateState
      <4> QED BY <1>1, <4>1, HandledStays
    <3> QED BY <1>1, <1>6, <3>1 DEF Alive, InputChecked
  <2>6. OldIsRead'
    <3>1. u.key \in Live => Chain(u.key)' = Chain(u.key)
      BY <1>1, <1>2 DEF Chain
    <3> QED BY <1>1, <1>2, <1>6, <2>1, <3>1 DEF Alive, OldIsRead
  <2>7. OldIsWritten'
    <3> SUFFICES ASSUME Writing PROVE OldIsWritten'
      BY <2>1 DEF OldIsWritten
    <3>1. /\ u.key \in Live /\ Last > 0 /\ Last <= MAX_RECS_OLD_CAP
          /\ FieldsMissing /\ Addition /\ \A i \in 1 .. Last : OldIsUpdated(i)
      BY <1>6 DEF Alive, OldIsWritten
    <3>2. ASSUME NEW i \in 1 .. Last PROVE OldIsUpdated(i)'
      <4>1. OldIsUpdated(i)
        BY <3>1
      <4> QED BY <1>1, <2>1, <4>1 DEF OldIsUpdated
    <3>3. FieldsMissing'
      <4>1. Some("y")' <=> Some("y")
        BY <1>1, <2>1 DEF Some
      <4> QED BY <1>1, <2>1, <3>1, <4>1 DEF FieldsMissing
    <3>4. Addition'
      <4>1. Added' = Added
        BY <1>1 DEF Added
      <4> QED BY <1>1, <1>2, <2>1, <2>2, <3>1, <4>1 DEF Addition
    <3> QED BY <1>1, <1>2, <2>1, <3>1, <3>2, <3>3, <3>4 DEF OldIsWritten
  <2>8. SaysTrue'
    <3>1. u.key \in Live => Shown(u.key)' = Shown(u.key)
      BY <1>1, <1>2 DEF Shown, Chain
    <3> QED BY <1>1, <1>2, <1>6, <3>1 DEF Alive, SaysTrue
  <2>9. PositionsAreKnown'
    BY <1>4, <1>6 DEF Alive
  <2> QED BY <1>1, <1>3, <1>6, <2>3, <2>4, <2>5, <2>6, <2>7, <2>8, <2>9 DEF HandledInv, Alive
<1> QED BY <1>5, <1>6 DEF HandledInv

\* Nothing happens after the update has been killed: it keeps the lock.
LEMMA KilledStays ==
  ASSUME HandledInv, pc = "killed" PROVE ~ Next
<1>1. lock
  BY DEF HandledInv
<1>2. ~ Step
  BY DEF Step, FindRecord, Collect, UpdateInPlace, Crash, LinkFirst, OnlyFragment, FindFields,
     WriteFragment, NothingNew, NewFragmentDue, LinkNothing, Written, WriteHalf, WriteRest,
     LinkLast, Unlock
<1>3. ~ StartUpdate /\ ~ Kill
  BY DEF StartUpdate, Kill
<1>4. \A k \in Keys : ~ Add(k)
  BY <1>1 DEF Add
<1> QED BY <1>2, <1>3, <1>4 DEF Next

LEMMA NextHandled ==
  ~ AnyUpdate /\ ChainInv /\ HandledInv /\ [Next]_vars => HandledInv' /\ Refined
<1> SUFFICES ASSUME ~ AnyUpdate, ChainInv, HandledInv, [Next]_vars PROVE HandledInv' /\ Refined
  OBVIOUS
<1>1. ChainInv'
  BY NextKeeps
<1>2. CASE UNCHANGED vars
  BY <1>1, <1>2, StutterHandled
<1>3. CASE Next
  <2>1. Alive
    BY <1>3, KilledStays DEF HandledInv
  <2>2. CASE FindRecord
    BY <1>1, <2>1, <2>2, FindRecordHandled
  <2>3. CASE Collect
    BY <1>1, <2>1, <2>3, CollectHandled
  <2>4. CASE UpdateInPlace
    BY <1>1, <2>1, <2>4, UpdateInPlaceHandled
  <2>5. CASE Crash \/ Kill
    BY <1>1, <2>1, <2>5, KillHandled
  <2>6. CASE LinkFirst
    BY <1>1, <2>1, <2>6, LinkFirstHandled
  <2>7. CASE FindFields
    BY <1>1, <2>1, <2>7, FindFieldsHandled
  <2>8. CASE WriteFragment
    BY <1>1, <2>1, <2>8, WriteFragmentHandled
  <2>9. CASE NothingNew
    BY <1>1, <2>1, <2>9, NothingNewHandled
  <2>10. CASE NewFragmentDue
    BY <1>1, <2>1, <2>10, NewFragmentDueHandled
  <2>11. CASE LinkNothing
    BY <2>1, <2>11, SomethingLinked
  <2>12. CASE WriteHalf
    BY <1>1, <2>1, <2>12, WriteHalfHandled
  <2>13. CASE WriteRest
    BY <1>1, <2>1, <2>13, WriteRestHandled
  <2>14. CASE LinkLast
    BY <1>1, <2>1, <2>14, LinkLastHandled
  <2>15. CASE Unlock
    BY <1>1, <2>1, <2>15, UnlockHandled
  <2>16. CASE StartUpdate
    BY <1>1, <2>1, <2>16, StartUpdateHandled
  <2>17. CASE \E k \in Keys : Add(k)
    BY <1>1, <2>1, <2>17, AddHandled
  <2> QED BY <1>3, <2>2, <2>3, <2>4, <2>5, <2>6, <2>7, <2>8, <2>9, <2>10, <2>11, <2>12, <2>13,
             <2>14, <2>15, <2>16, <2>17 DEF Next, Step
<1> QED BY <1>2, <1>3

\* Of the updates that the code handles, every one knows the position of each
\* fragment it has read: MAX_RECS_OLD_CAP and one more is all that a record ever has.
THEOREM PositionsStayKnown == ~ AnyUpdate /\ Spec => []PositionsAreKnown
<1> SUFFICES ASSUME ~ AnyUpdate PROVE Spec => []PositionsAreKnown
  OBVIOUS
<1>1. ChainInv /\ HandledInv /\ [Next]_vars => HandledInv'
  BY NextHandled
<1>2. Init => HandledInv
  BY HandledInit
<1>3. ChainInv /\ HandledInv => PositionsAreKnown
  BY Whole
<1> QED BY InitChain, NextKeeps, <1>1, <1>2, <1>3, PTL DEF Spec

\* Whoever reads while a fragment is added to a record of several, or after the command
\* that adds it has been killed, meets whole fragments only.
THEOREM ReaderAlwaysMeetsWhole == ~ AnyUpdate /\ Spec => []ReaderMeetsWhole
<1> SUFFICES ASSUME ~ AnyUpdate PROVE Spec => []ReaderMeetsWhole
  OBVIOUS
<1>1. ChainInv /\ HandledInv /\ [Next]_vars => HandledInv'
  BY NextHandled
<1>2. Init => HandledInv
  BY HandledInit
<1>3. ChainInv /\ HandledInv => ReaderMeetsWhole
  BY Whole
<1> QED BY InitChain, NextKeeps, <1>1, <1>2, <1>3, PTL DEF Spec

\* The updates that the code handles, with the fragments they write again and add, the kills
\* in between and the records that -a adds, keep what Records promises: a field of a
\* record changes to what an update was given or not at all, and "updated" is said when all
\* have.
THEOREM ChainImplementsRecords == ~ AnyUpdate /\ Spec => ImplementsRecords
<1> SUFFICES ASSUME ~ AnyUpdate PROVE Spec => ImplementsRecords
  OBVIOUS
<1>1. ChainInv /\ HandledInv /\ [Next]_vars => HandledInv' /\ [Promise!Next]_(Promise!vars)
  BY NextHandled DEF Refined
<1>2. Init => HandledInv /\ Promise!Init
  BY HandledInit
<1> QED BY InitChain, NextKeeps, <1>1, <1>2, PTL DEF Spec, ImplementsRecords, Promise!Spec
=============================================================================
