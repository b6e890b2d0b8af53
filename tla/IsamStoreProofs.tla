-------------------------- MODULE IsamStoreProofs ---------------------------
(* What IsamStore guarantees for every set of commands, keys and tables:     *)
(* first of the index file alone, then of what it says of the records.  A    *)
(* command that gets the pid of a killed one may load half of a file and     *)
(* write zeros for positions, so the theorems on records assume ~PidReuse.   *)
EXTENDS IsamStore, HashTblProofs

\* A command holds the lock in all of its protected section, and what it
\* writes to the index file are the tables it has in memory.
Protected == {"load", "data", "rest", "trunc", "head", "body", "unlock"}
Owns == \A p \in Proc : pc[p] \in Protected => owner = p /\ live
BodyNum == \A p \in Proc : pc[p] = "body" => inx.num = Len(mem[p])

GoodTables(s) == s \in Seq(Table) /\ \A i \in DOMAIN s : WellPlaced(s[i])

LEMMA GoodTableAt ==
  ASSUME NEW s, GoodTables(s), NEW i \in DOMAIN s PROVE GoodTable(s[i])
BY LenProperties DEF GoodTables, GoodTable

LEMMA FunctionIsGood ==
  ASSUME NEW n \in Nat, NEW s, s = [i \in 1..n |-> s[i]], \A i \in 1..n : GoodTable(s[i])
  PROVE  GoodTables(s) /\ Len(s) = n
<1>1. s \in [1..n -> Table] /\ DOMAIN s = 1..n
  BY DEF GoodTable
<1>2. s \in Seq(Table)
  BY <1>1, SeqDef
<1>3. Len(s) = n
  BY <1>1, <1>2, LenProperties
<1> QED BY <1>1, <1>2, <1>3 DEF GoodTables, GoodTable

LEMMA AppendIsGood ==
  ASSUME NEW s, GoodTables(s), NEW t, GoodTable(t)
  PROVE  GoodTables(Append(s, t))
<1>1. s \in Seq(Table) /\ t \in Table /\ WellPlaced(t)
  BY DEF GoodTables, GoodTable
<1>2. /\ Append(s, t) \in Seq(Table)
      /\ Len(Append(s, t)) = Len(s) + 1
      /\ \A i \in 1..Len(s) : Append(s, t)[i] = s[i]
      /\ Append(s, t)[Len(s) + 1] = t
  BY <1>1, AppendProperties
<1>3. DOMAIN Append(s, t) = 1..Len(s) + 1 /\ DOMAIN s = 1..Len(s) /\ Len(s) \in Nat
  BY <1>1, <1>2, LenProperties
<1> QED BY <1>1, <1>2, <1>3 DEF GoodTables

LEMMA ExceptIsGood ==
  ASSUME NEW s, GoodTables(s), NEW i, NEW t, i \in DOMAIN s => GoodTable(t)
  PROVE  GoodTables([s EXCEPT ![i] = t])
<1>1. s \in [1..Len(s) -> Table] /\ Len(s) \in Nat /\ DOMAIN s = 1..Len(s)
  BY LenProperties DEF GoodTables
<1>2. [s EXCEPT ![i] = t] \in [1..Len(s) -> Table]
  BY <1>1 DEF GoodTable
<1>3. [s EXCEPT ![i] = t] \in Seq(Table)
  BY <1>1, <1>2, SeqDef
<1>4. \A j \in 1..Len(s) : WellPlaced([s EXCEPT ![i] = t][j])
  BY <1>1 DEF GoodTables, GoodTable
<1> QED BY <1>1, <1>2, <1>3, <1>4 DEF GoodTables
-----------------------------------------------------------------------------
(* Loading the index file.                                                   *)

\* Whatever part of an index file has been written, what read_index_file makes
\* of each table is a good table.
LEMMA ReadIndexFileIsGood ==
  ASSUME NEW f, GoodTables(f.body), NEW i \in Nat \ {0}
  PROVE  GoodTable(ReadIndexFile(f, i))
<1>1. CASE i > Len(f.body)
  BY <1>1, NewTableIsGood DEF ReadIndexFile
<1>2. CASE ~(i > Len(f.body))
  <2>1. GoodTable(f.body[i])
    <3>1. DOMAIN f.body = 1..Len(f.body) /\ Len(f.body) \in Nat
      BY LenProperties DEF GoodTables
    <3> QED BY <1>2, <3>1, GoodTableAt
  <2>2. GoodTable(Load(f.body[i])) /\ GoodTable(ZeroKeyNode(f.body[i]))
        /\ GoodTable(ZeroValue(f.body[i]))
    BY <2>1, LoadIsGood, ZeroKeyNodeIsGood, ZeroValueIsGood
  <2>3. GoodTable(NewTable(Load(f.body[i]).size))
    <3>1. Load(f.body[i]).size \in Buckets \union {0}
      BY <2>2 DEF GoodTable, Table
    <3> QED BY <3>1, NewTableIsGood
  <2> QED BY <1>2, <2>2, <2>3 DEF ReadIndexFile
<1> QED BY <1>1, <1>2

LEMMA ReadAllIndexFileIsGood ==
  ASSUME NEW f, GoodTables(f.body), f.num \in Nat
  PROVE  /\ GoodTables(ReadAllIndexFile(f))
         /\ DOMAIN ReadAllIndexFile(f) = 1..f.num
<1> DEFINE s == ReadAllIndexFile(f)
<1>1. \A i \in 1..f.num : s[i] = ReadIndexFile(f, i) /\ GoodTable(s[i])
  BY ReadIndexFileIsGood DEF ReadAllIndexFile
<1>2. s = [i \in 1..f.num |-> s[i]]
  BY DEF ReadAllIndexFile
<1>3. DOMAIN s = 1..f.num
  BY DEF ReadAllIndexFile
<1> HIDE DEF s
<1> QED BY <1>1, <1>2, <1>3, FunctionIsGood DEF s

\* The position get() returns for a key it has.
LEMMA GetIsPosition ==
  ASSUME NEW t, GoodTable(t), NEW k \in NodeKey, ~Kills(t, k), Has(t, k)
  PROVE  Get(t, k) \in Nat
<1>1. t.size \in Buckets /\ t.size \in 1..MaxHtBucket
  BY HashTblAssumption DEF Kills, GoodTable, Table
<1>2. Hash[t.size][k] \in Nat /\ Hash[t.size][k] < t.size
  BY <1>1, HashTblAssumption
<1>3. Hash[t.size][k] \in DOMAIN t.map
  BY <1>1, <1>2, HashTblAssumption DEF GoodTable, Table
<1>4. Chain(t, k) \in Seq(Node)
  BY <1>3 DEF Chain, GoodTable, Table
<1>5. Position(Chain(t, k), k) \in DOMAIN Chain(t, k)
  BY DEF Has, Found, Position
<1>6. Chain(t, k)[Position(Chain(t, k), k)] \in Node
  BY <1>4, <1>5, LenProperties
<1> QED BY <1>6 DEF Get, Node
-----------------------------------------------------------------------------
(* The inductive invariant.                                                  *)

\* What the proof of each action refers to: control, tables, and the rest.
Control == /\ Lock!TypeOK
           /\ pc \in [Proc -> Running \union {"idle", "dead"}]
           /\ Owns
Tables == /\ inx.num \in Nat /\ inx.cur \in Progress /\ GoodTables(inx.body)
          /\ inx = [num |-> inx.num, body |-> inx.body, cur |-> inx.cur]
          /\ mem = [p \in Proc |-> mem[p]] /\ \A p \in Proc : GoodTables(mem[p])
          /\ BodyNum
Rest == /\ dat \in Seq([key : NodeKey, whole : BOOLEAN])
        /\ cmd \in [Proc -> Command \union {NoCommand}]
        /\ off \in [Proc -> Nat \union {NoRec}]
        /\ seen \in [Proc -> Nat]
        /\ res \in [Proc -> {"none", "found", "absent", "error", "killed"}]
        /\ calm \in [Proc -> BOOLEAN]

StoreInv == Control /\ Tables /\ Rest

LEMMA StoreInvIsTyped == StoreInv => TypeOK /\ IndexInv
<1> SUFFICES ASSUME Control, Tables, Rest PROVE TypeOK /\ IndexInv
  BY DEF StoreInv
<1>1. mem \in [Proc -> Seq(Table)]
  BY DEF Tables, GoodTables
<1>2. inx \in [num : Nat, body : Seq(Table), cur : Progress]
  BY DEF Tables, GoodTables
<1> QED BY <1>1, <1>2 DEF TypeOK, IndexInv, Control, Tables, Rest, GoodTables

LEMMA InitStore == Init => StoreInv
<1> SUFFICES ASSUME Init PROVE Control /\ Tables /\ Rest
  BY DEF StoreInv
<1>1. Control
  BY DEF Init, Control, Lock!Init, Lock!TypeOK, Owns, Protected
<1>2. Tables
  <2>1. GoodTables(inx.body)
    <3>1. GoodTable(NewTable(Bucket))
      BY IsamStoreAssumption, NewTableIsGood
    <3>2. inx.body = [i \in 1..NrIndexes |-> NewTable(Bucket)]
      BY DEF Init
    <3> QED BY <3>1, <3>2, IsamStoreAssumption, FunctionIsGood
  <2>2. GoodTables(<<>>)
    BY EmptySeq DEF GoodTables
  <2> QED BY <2>1, <2>2, IsamStoreAssumption DEF Init, Tables, BodyNum, Progress
<1>3. Rest
  BY EmptySeq DEF Init, Rest
<1> QED BY <1>1, <1>2, <1>3

\* Steps that leave the tables and the lock as they are.
LEMMA ControlUnchanged ==
  ASSUME Control, UNCHANGED lockvars, NEW p \in Proc,
         NEW l \in Running \union {"idle", "dead"},
         pc' = [pc EXCEPT ![p] = l], l \in Protected => pc[p] \in Protected
  PROVE  Control'
BY DEF Control, Lock!TypeOK, Owns, lockvars

LEMMA OwnerDies ==
  ASSUME Control, NEW p \in Proc, Dies(p) PROVE Control'
<1>1. /\ owner' = owner /\ live' = FALSE /\ owner = p
      /\ pc' = [pc EXCEPT ![p] = "dead"]
  BY DEF Dies, Lock!Die, Goto
<1>2. \A q \in Proc : pc'[q] \notin Protected
  BY <1>1 DEF Control, Owns, Protected
<1> QED BY <1>1, <1>2 DEF Control, Lock!TypeOK, Owns

LEMMA TablesUnchanged ==
  ASSUME Tables, UNCHANGED inx, NEW p \in Proc, NEW s, GoodTables(s), NEW l, l # "body",
         mem' = [mem EXCEPT ![p] = s] \/ mem' = mem,
         pc' = [pc EXCEPT ![p] = l], pc \in [Proc -> Running \union {"idle", "dead"}]
  PROVE  Tables'
<1>1. mem' = [q \in Proc |-> mem'[q]] /\ \A q \in Proc : GoodTables(mem'[q])
  BY DEF Tables
<1>2. \A q \in Proc : pc'[q] = "body" => q # p /\ mem'[q] = mem[q] /\ pc[q] = "body"
  BY DEF Tables
<1>3. BodyNum'
  BY <1>2 DEF Tables, BodyNum
<1>4. GoodTables(inx'.body) /\ inx' = inx
  BY DEF Tables
<1> QED BY <1>1, <1>3, <1>4 DEF Tables

LEMMA EmptyIsGood == GoodTables(<<>>)
BY EmptySeq DEF GoodTables

LEMMA TablesKept ==
  ASSUME Tables, UNCHANGED <<inx, mem>>, NEW p \in Proc, NEW l, l # "body",
         pc' = [pc EXCEPT ![p] = l], pc \in [Proc -> Running \union {"idle", "dead"}]
  PROVE  Tables'
<1>1. PICK s : s = <<>>
  OBVIOUS
<1>2. GoodTables(s)
  BY <1>1, EmptyIsGood
<1> QED BY <1>2, TablesUnchanged
-----------------------------------------------------------------------------
(* One lemma per command or group of steps.                                  *)

LEMMA BeginStep ==
  ASSUME StoreInv, NEW p \in Proc, NEW c \in Command, Begin(p, c) PROVE StoreInv'
<1>0. Control /\ Tables /\ Rest
  BY DEF StoreInv
<1>1. PICK l \in {"find", "lock"} : pc' = [pc EXCEPT ![p] = l]
  BY DEF Begin, Goto
<1>2. Control'
  BY <1>0, <1>1, ControlUnchanged DEF Begin, Running, Protected
<1>3. Tables'
  BY <1>0, <1>1, EmptyIsGood, TablesUnchanged DEF Begin, Control
<1>4. Rest'
  BY <1>0 DEF Begin, Rest
<1> QED BY <1>2, <1>3, <1>4 DEF StoreInv

\* A step that ends a process without the lock, or releases the lock.
LEMMA ExitStep ==
  ASSUME StoreInv, NEW p \in Proc, Exit(p), UNCHANGED <<inx, dat, res, calm>>,
         \/ UNCHANGED lockvars /\ pc[p] \notin Protected
         \/ Lock!Release(p)
         \/ Lock!Jam /\ pc[p] \notin Protected
  PROVE  StoreInv'
<1>0. Control /\ Tables /\ Rest
  BY DEF StoreInv
<1>1. pc' = [pc EXCEPT ![p] = "idle"]
  BY DEF Exit, Goto
<1>2. Control'
  <2>1. CASE UNCHANGED lockvars
    BY <1>0, <1>1, <2>1, ControlUnchanged DEF Protected
  <2>2. CASE Lock!Release(p)
    BY <1>0, <1>1, <2>2 DEF Control, Lock!TypeOK, Owns, Lock!Release, Protected
  <2>3. CASE Lock!Jam
    BY <1>0, <1>1, <2>3, IsamStoreAssumption DEF Control, Lock!TypeOK, Owns, Lock!Jam, Protected
  <2> QED BY <2>1, <2>2, <2>3
<1>3. Tables'
  BY <1>0, <1>1, EmptyIsGood, TablesUnchanged DEF Exit, Control
<1>4. Rest'
  BY <1>0 DEF Exit, Rest
<1> QED BY <1>2, <1>3, <1>4 DEF StoreInv

LEMMA LockIndexStep ==
  ASSUME StoreInv, NEW p \in Proc, LockIndex(p) PROVE StoreInv'
<1>0. Control /\ Tables /\ Rest
  BY DEF StoreInv
<1>1. CASE Exit(p) /\ UNCHANGED lockvars
  BY <1>1, ExitStep DEF LockIndex, Protected
<1>2. CASE (Lock!Acquire(p) \/ Lock!Reclaim(p)) /\ Goto(p, "load")
           /\ UNCHANGED <<cmd, mem, off, seen>>
  <2>1. pc' = [pc EXCEPT ![p] = "load"] /\ owner' = p /\ live' = TRUE
    BY <1>2 DEF Goto, Lock!Acquire, Lock!Reclaim
  <2>2. \A q \in Proc : q # p => pc[q] \notin Protected
    BY <1>0, <1>2, IsamStoreAssumption DEF Control, Owns, Lock!Acquire, Lock!Reclaim
  <2>3. Control'
    BY <1>0, <2>1, <2>2 DEF Control, Lock!TypeOK, Owns, Running
  <2>4. Tables'
    <3>1. inx' = inx /\ mem' = mem
      BY <1>2 DEF LockIndex
    <3>2. Tables /\ pc \in [Proc -> Running \union {"idle", "dead"}]
      BY <1>0 DEF Control
    <3> QED BY <2>1, <3>1, <3>2, TablesKept
  <2>5. Rest'
    BY <1>0, <1>2 DEF LockIndex, Rest
  <2> QED BY <2>3, <2>4, <2>5 DEF StoreInv
<1> QED BY <1>1, <1>2 DEF LockIndex

\* A writing command that has loaded the indexes and goes on, gives up or dies.
LEMMA LoadedStep ==
  ASSUME StoreInv, NEW p \in Proc, pc[p] = "load", NEW s, GoodTables(s),
         \/ Fails(p) /\ UNCHANGED mem
         \/ Dies(p) /\ UNCHANGED mem
         \/ \E l \in {"data", "trunc"} : Changed(p, s, l),
         UNCHANGED <<inx, dat, cmd, seen, res, calm>>,
         off' \in [Proc -> Nat \union {NoRec}]
  PROVE  StoreInv'
<1>0. Control /\ Tables /\ Rest
  BY DEF StoreInv
<1>1. Rest'
  BY <1>0 DEF Rest
<1>2. CASE Dies(p) /\ UNCHANGED mem
  <2>1. pc' = [pc EXCEPT ![p] = "dead"]
    BY <1>2 DEF Dies, Goto
  <2>2. Control'
    BY <1>0, <1>2, OwnerDies
  <2>3. Tables'
    <3>1. Tables /\ pc \in [Proc -> Running \union {"idle", "dead"}]
      BY <1>0 DEF Control
    <3> QED BY <1>2, <2>1, <3>1, TablesKept
  <2> QED BY <1>1, <2>2, <2>3 DEF StoreInv
<1>3. CASE ~(Dies(p) /\ UNCHANGED mem)
  <2>1. PICK l \in {"unlock", "data", "trunc"} :
            /\ pc' = [pc EXCEPT ![p] = l] /\ UNCHANGED lockvars
            /\ mem' = mem \/ mem' = [mem EXCEPT ![p] = s]
    BY <1>3 DEF Fails, Changed, Goto
  <2>2. Control'
    BY <1>0, <2>1, ControlUnchanged DEF Running, Protected
  <2>3. Tables'
    BY <1>0, <2>1, TablesUnchanged DEF Control
  <2> QED BY <1>1, <2>2, <2>3 DEF StoreInv
<1> QED BY <1>2, <1>3

LEMMA AddSetStep ==
  ASSUME StoreInv, NEW p \in Proc, AddSet(p) PROVE StoreInv'
<1> DEFINE k == cmd[p].key
           ht == ReadAllIndexFile(inx)
           s == [ht EXCEPT ![1] = Set(ht[1], k, Len(dat))]
<1>0. Control /\ Tables /\ Rest
  BY DEF StoreInv
<1>1. k \in NodeKey /\ Len(dat) \in Nat
  BY <1>0, LenProperties DEF Rest, Command, NoCommand, NodeKey
<1>2. GoodTables(ht) /\ DOMAIN ht = 1..inx.num
  BY <1>0, ReadAllIndexFileIsGood DEF Tables
<1>3. off' \in [Proc -> Nat \union {NoRec}]
  BY <1>0, <1>1 DEF AddSet, Rest
<1> HIDE DEF ht, k
<1>4. CASE ~Kills(ht[1], k) /\ ~Has(ht[1], k)
  <2>1. ASSUME 1 \in DOMAIN ht PROVE GoodTable(Set(ht[1], k, Len(dat)))
    <3>1. GoodTable(ht[1])
      BY <1>2, <2>1, GoodTableAt
    <3> QED BY <1>1, <1>4, <3>1, NotThere, SetIsGood
  <2>2. GoodTables(s)
    BY <1>2, <2>1, ExceptIsGood
  <2>3. \/ Fails(p) /\ UNCHANGED mem
        \/ Dies(p) /\ UNCHANGED mem
        \/ Changed(p, s, "data")
    BY DEF AddSet, ht, k
  <2> HIDE DEF s
  <2> QED BY <1>3, <2>2, <2>3, LoadedStep DEF AddSet
<1>5. CASE Kills(ht[1], k) \/ Has(ht[1], k)
  <2>1. (Fails(p) \/ Dies(p)) /\ UNCHANGED mem
    BY <1>5 DEF AddSet, ht, k
  <2> QED BY <1>3, <2>1, EmptyIsGood, LoadedStep DEF AddSet
<1> QED BY <1>4, <1>5

LEMMA DelStep ==
  ASSUME StoreInv, NEW p \in Proc, Del(p) PROVE StoreInv'
<1> DEFINE k == cmd[p].key
           i == cmd[p].ix
           ht == ReadAllIndexFile(inx)
           s == [ht EXCEPT ![i] = Delete(ht[i], k)]
<1>0. Control /\ Tables /\ Rest
  BY DEF StoreInv
<1>1. k \in NodeKey
  BY <1>0 DEF Rest, Command, NoCommand, NodeKey
<1>2. GoodTables(ht)
  BY <1>0, ReadAllIndexFileIsGood DEF Tables
<1>3. off' \in [Proc -> Nat \union {NoRec}]
  BY <1>0 DEF Del, Rest
<1> HIDE DEF ht, k, i
<1>4. CASE Has(ht[i], k)
  <2>1. ASSUME i \in DOMAIN ht PROVE GoodTable(Delete(ht[i], k))
    <3>1. GoodTable(ht[i])
      BY <1>2, <2>1, GoodTableAt
    <3> QED BY <1>1, <1>4, <3>1, DeleteIsGood
  <2>2. GoodTables(s)
    BY <1>2, <2>1, ExceptIsGood
  <2>3. \/ Fails(p) /\ UNCHANGED mem
        \/ Dies(p) /\ UNCHANGED mem
        \/ Changed(p, s, "trunc")
    BY DEF Del, ht, k, i
  <2> HIDE DEF s
  <2> QED BY <1>3, <2>2, <2>3, LoadedStep DEF Del
<1>5. CASE ~Has(ht[i], k)
  <2>1. (Fails(p) \/ Dies(p)) /\ UNCHANGED mem
    BY <1>5 DEF Del, ht, k, i
  <2> QED BY <1>3, <2>1, EmptyIsGood, LoadedStep DEF Del
<1> QED BY <1>4, <1>5

LEMMA DelAllStep ==
  ASSUME StoreInv, NEW p \in Proc, DelAll(p) PROVE StoreInv'
<1> DEFINE n == ReadIndexFile(inx, 1).size
           s == [i \in 1..inx.num |-> NewTable(n)]
<1>0. Control /\ Tables /\ Rest
  BY DEF StoreInv
<1>1. n \in Buckets \union {0}
  BY <1>0, ReadIndexFileIsGood DEF Tables, GoodTable, Table
<1> HIDE DEF n
<1>2. GoodTable(NewTable(n))
  BY <1>1, NewTableIsGood
<1>3. GoodTables(s)
  BY <1>0, <1>2, FunctionIsGood DEF Tables
<1>4. \/ Fails(p) /\ UNCHANGED mem
      \/ Changed(p, s, "trunc")
  BY DEF DelAll, n
<1>5. off' \in [Proc -> Nat \union {NoRec}]
  BY <1>0 DEF DelAll, Rest
<1> HIDE DEF s
<1> QED BY <1>3, <1>4, <1>5, LoadedStep DEF DelAll

LEMMA AddIndexStep ==
  ASSUME StoreInv, NEW p \in Proc, AddIndex(p) PROVE StoreInv'
<1> DEFINE s == Append(ReadAllIndexFile(inx), NewTable(Bucket))
<1>0. Control /\ Tables /\ Rest
  BY DEF StoreInv
<1>1. GoodTables(ReadAllIndexFile(inx)) /\ GoodTable(NewTable(Bucket))
  BY <1>0, ReadAllIndexFileIsGood, NewTableIsGood, IsamStoreAssumption DEF Tables
<1>2. GoodTables(s)
  BY <1>1, AppendIsGood
<1>3. \/ Fails(p) /\ UNCHANGED mem
      \/ Changed(p, s, "trunc")
  BY DEF AddIndex
<1>4. off' \in [Proc -> Nat \union {NoRec}]
  BY <1>0 DEF AddIndex, Rest
<1> HIDE DEF s
<1> QED BY <1>2, <1>3, <1>4, LoadedStep DEF AddIndex

LEMMA RecordStep ==
  ASSUME StoreInv, NEW p \in Proc, WriteRecord(p) \/ WriteRest(p) PROVE StoreInv'
<1>0. Control /\ Tables /\ Rest
  BY DEF StoreInv
<1>1. PICK l \in {"rest", "trunc"} : pc' = [pc EXCEPT ![p] = l]
  BY DEF WriteRecord, WriteRest, Goto
<1>2. Control'
  <2>1. pc[p] \in Protected /\ UNCHANGED lockvars
    BY DEF WriteRecord, WriteRest, Protected
  <2> QED BY <1>0, <1>1, <2>1, ControlUnchanged DEF Running
<1>3. Tables'
  <2>1. UNCHANGED <<inx, mem>>
    BY DEF WriteRecord, WriteRest
  <2> QED BY <1>0, <1>1, <2>1, EmptyIsGood, TablesUnchanged DEF Control
<1>4. dat' \in Seq([key : NodeKey, whole : BOOLEAN])
  <2>1. cmd[p].key \in NodeKey
    BY <1>0 DEF Rest, Command, NoCommand, NodeKey
  <2>2. CASE WriteRecord(p)
    <3>1. [key |-> cmd[p].key, whole |-> FALSE] \in [key : NodeKey, whole : BOOLEAN]
      BY <2>1
    <3> QED BY <1>0, <2>2, <3>1, AppendProperties DEF WriteRecord, Rest
  <2>3. CASE WriteRest(p)
    <3> DEFINE R == [key : NodeKey, whole : BOOLEAN]
               r == [key |-> cmd[p].key, whole |-> TRUE]
    <3>1. dat \in Seq(R) /\ r \in R /\ dat' = [dat EXCEPT ![off[p] + 1] = r]
      BY <1>0, <2>1, <2>3 DEF WriteRest, Rest
    <3> HIDE DEF R, r
    <3>2. dat \in [1..Len(dat) -> R] /\ Len(dat) \in Nat
      BY <3>1, LenProperties
    <3>3. dat' \in [1..Len(dat) -> R]
      BY <3>1, <3>2
    <3>4. dat' \in Seq(R)
      BY <3>2, <3>3, SeqDef
    <3> QED BY <3>4 DEF R
  <2> QED BY <2>2, <2>3
<1>5. Rest'
  BY <1>0, <1>4 DEF WriteRecord, WriteRest, Rest
<1> QED BY <1>2, <1>3, <1>5 DEF StoreInv

\* A step of the rewriting of the index file.
LEMMA RewriteSteps ==
  ASSUME StoreInv, NEW p \in Proc, Rewrite(p) PROVE StoreInv'
<1>0. Control /\ Tables /\ Rest
  BY DEF StoreInv
<1>1. pc[p] \in Protected /\ \A q \in Proc : q # p => pc[q] # "body"
  BY <1>0 DEF Rewrite, TruncIndex, WriteHead, NextBody, WriteBody, Control, Owns, Protected
<1>2. PICK l \in {"head", "body"} : pc' = [pc EXCEPT ![p] = l]
  BY <1>0 DEF Rewrite, TruncIndex, WriteHead, NextBody, WriteBody, Goto, Control
<1>3. UNCHANGED <<lockvars, dat, cmd, mem, off, seen, res>>
  BY DEF Rewrite, TruncIndex, WriteHead, NextBody, WriteBody, RewriteStep
<1>4. Control'
  BY <1>0, <1>1, <1>2, <1>3, ControlUnchanged DEF Running
<1>5. Rest'
  BY <1>0, <1>3 DEF Rest, Rewrite, TruncIndex, WriteHead, NextBody, WriteBody, RewriteStep
<1>6. /\ inx'.num \in Nat /\ inx'.cur \in Progress /\ GoodTables(inx'.body)
      /\ inx' = [num |-> inx'.num, body |-> inx'.body, cur |-> inx'.cur]
      /\ pc'[p] = "body" => inx'.num = Len(mem[p])
  <2>1. CASE TruncIndex(p)
    <3>1. inx' = Truncated /\ pc' = [pc EXCEPT ![p] = "head"]
      BY <2>1 DEF TruncIndex, Goto
    <3> QED BY <1>0, <3>1, EmptyIsGood DEF Truncated, Progress, Control
  <2>2. CASE WriteHead(p)
    <3>1. inx' = [inx EXCEPT !.num = Len(mem[p])] /\ Len(mem[p]) \in Nat
      BY <1>0, <2>2, LenProperties DEF WriteHead, Tables, GoodTables
    <3> QED BY <1>0, <3>1 DEF Tables
  <2>3. CASE NextBody(p)
    <3>1. inx' = [inx EXCEPT !.body = Append(@, mem[p][Len(inx.body) + 1]), !.cur = "size"]
      BY <2>3 DEF NextBody
    <3>2. inx.num = Len(mem[p]) /\ Len(inx.body) < inx.num
      BY <1>0, <2>3 DEF NextBody, Tables, BodyNum
    <3>3. Len(inx.body) \in Nat /\ GoodTables(mem[p]) /\ DOMAIN mem[p] = 1..Len(mem[p])
      BY <1>0, LenProperties DEF Tables, GoodTables
    <3>4. GoodTable(mem[p][Len(inx.body) + 1])
      BY <1>0, <3>2, <3>3, GoodTableAt DEF Tables
    <3>5. GoodTables(Append(inx.body, mem[p][Len(inx.body) + 1]))
      BY <1>0, <3>4, AppendIsGood DEF Tables
    <3> QED BY <1>0, <3>1, <3>2, <3>5 DEF Tables, Progress
  <2>4. CASE WriteBody(p)
    <3>1. PICK c \in Progress : inx' = [inx EXCEPT !.cur = c]
      BY <1>0, <2>4 DEF WriteBody, Tables, Progress, Following
    <3> QED BY <1>0, <2>4, <3>1 DEF Tables, BodyNum, WriteBody
  <2> QED BY <2>1, <2>2, <2>3, <2>4 DEF Rewrite
<1>7. BodyNum'
  BY <1>0, <1>1, <1>2, <1>3, <1>6 DEF BodyNum, Control
<1>8. Tables'
  BY <1>0, <1>3, <1>6, <1>7 DEF Tables
<1> QED BY <1>4, <1>5, <1>8 DEF StoreInv

LEMMA GetStep ==
  ASSUME StoreInv, NEW p \in Proc, GetRecord(p) PROVE StoreInv'
<1>0. Control /\ Tables /\ Rest
  BY DEF StoreInv
<1>1. PICK l \in {"idle", "lookup", "fetch"} : pc' = [pc EXCEPT ![p] = l]
  BY DEF GetRecord, Find, Lookup, Fetch, Answer, Goto
<1>2. UNCHANGED <<lockvars, inx, dat, cmd, mem>>
  BY DEF GetRecord, Find, Lookup, Fetch
<1>3. Control'
  BY <1>0, <1>1, <1>2, ControlUnchanged DEF Running, Protected
<1>4. Tables'
  BY <1>0, <1>1, <1>2, EmptyIsGood, TablesUnchanged DEF Control
<1>5. Rest'
  <2>1. CASE Find(p)
    <3>1. CASE Answer(p, "error")
      BY <1>0, <1>2, <3>1 DEF Answer, Rest
    <3>2. CASE ~Answer(p, "error")
      <4>1. /\ seen' = [seen EXCEPT ![p] = inx.num] /\ inx.num \in Nat
            /\ calm' = [calm EXCEPT ![p] = Complete(inx)] /\ UNCHANGED <<off, res>>
        BY <1>0, <2>1, <3>2 DEF Find, Tables
      <4>2. Complete(inx) \in BOOLEAN
        BY DEF Complete
      <4> HIDE DEF Complete
      <4>3. seen' \in [Proc -> Nat]
        BY <1>0, <4>1 DEF Rest
      <4>4. calm' \in [Proc -> BOOLEAN]
        BY <1>0, <4>1, <4>2 DEF Rest
      <4> QED BY <1>0, <1>2, <4>1, <4>3, <4>4 DEF Rest
    <3> QED BY <3>1, <3>2
  <2>2. CASE Lookup(p)
    <3> DEFINE k == cmd[p].key
               t == ReadIndexFile(inx, 1)
    <3>0. k \in NodeKey
      BY <1>0 DEF Rest, Command, NoCommand, NodeKey
    <3>1. GoodTable(t)
      BY <1>0, ReadIndexFileIsGood DEF Tables
    <3>2. ~Kills(t, k) /\ Has(t, k) => Get(t, k) \in Nat
      BY <3>0, <3>1, GetIsPosition
    <3>3. \/ \E r \in {"absent", "killed", "error"} : Answer(p, r)
          \/ /\ ~Kills(t, k) /\ Has(t, k) /\ off' = [off EXCEPT ![p] = Get(t, k)]
             /\ UNCHANGED <<seen, res, calm>>
      BY <2>2 DEF Lookup
    <3> HIDE DEF k, t
    <3>4. CASE \E r \in {"absent", "killed", "error"} : Answer(p, r)
      BY <1>0, <1>2, <3>4 DEF Answer, Rest
    <3>5. CASE /\ ~Kills(t, k) /\ Has(t, k) /\ off' = [off EXCEPT ![p] = Get(t, k)]
               /\ UNCHANGED <<seen, res, calm>>
      <4>1. off' \in [Proc -> Nat \union {NoRec}]
        BY <1>0, <3>2, <3>5 DEF Rest
      <4> QED BY <1>0, <1>2, <3>5, <4>1 DEF Rest
    <3> QED BY <3>3, <3>4, <3>5
  <2>3. CASE Fetch(p)
    BY <1>0, <2>3 DEF Fetch, Answer, Rest
  <2> QED BY <2>1, <2>2, <2>3 DEF GetRecord
<1> QED BY <1>3, <1>4, <1>5 DEF StoreInv

LEMMA KillStep ==
  ASSUME StoreInv, NEW p \in Proc, Kill(p) PROVE StoreInv'
<1>0. Control /\ Tables /\ Rest
  BY DEF StoreInv
<1>1. CASE Dies(p) /\ UNCHANGED <<cmd, mem, off, seen>>
  <2>1. pc' = [pc EXCEPT ![p] = "dead"]
    BY <1>1 DEF Dies, Goto
  <2>2. Control'
    BY <1>0, <1>1, OwnerDies
  <2>3. Tables'
    BY <1>0, <1>1, <2>1, EmptyIsGood, TablesUnchanged DEF Control, Kill
  <2>4. Rest'
    BY <1>0, <1>1 DEF Rest, Kill
  <2> QED BY <2>2, <2>3, <2>4 DEF StoreInv
<1>2. CASE ~(owner = p /\ live) /\ Exit(p)
           /\ (UNCHANGED lockvars \/ (pc[p] = "lock" /\ Lock!Jam))
  <2>1. pc[p] \notin Protected
    BY <1>0, <1>2 DEF Control, Owns
  <2> QED BY <1>2, <2>1, ExitStep DEF Kill
<1> QED BY <1>1, <1>2 DEF Kill

LEMMA StoreInvariant == Spec => []StoreInv
<1>1. StoreInv /\ [Next]_vars => StoreInv'
  <2> SUFFICES ASSUME StoreInv, [Next]_vars PROVE StoreInv'
    OBVIOUS
  <2>1. ASSUME UNCHANGED vars PROVE StoreInv'
    BY <2>1 DEF vars, lockvars, StoreInv, Control, Tables, Rest, Lock!TypeOK, Owns,
                BodyNum, GoodTables
  <2>2. ASSUME NEW p \in Proc, Write(p) PROVE StoreInv'
    BY <2>2, AddSetStep, RecordStep, DelStep, DelAllStep, AddIndexStep DEF Write
  <2>3. ASSUME NEW p \in Proc, Unlock(p) PROVE StoreInv'
    <3>1. Exit(p) /\ UNCHANGED <<inx, dat, res, calm>> /\ Lock!Release(p)
      BY <2>3 DEF Unlock
    <3>2. \/ UNCHANGED lockvars /\ pc[p] \notin Protected
          \/ Lock!Release(p)
          \/ Lock!Jam /\ pc[p] \notin Protected
      BY <3>1
    <3> QED BY <3>1, <3>2, ExitStep
  <2> QED BY <2>1, <2>2, <2>3, BeginStep, LockIndexStep, RewriteSteps, GetStep, KillStep
          DEF Next
<1> QED BY <1>1, InitStore, PTL DEF Spec

\* The variables have their types.
THEOREM StoreTypeCorrect == Spec => []TypeOK
BY StoreInvariant, StoreInvIsTyped, PTL

\* Whatever commands run, in whatever order, and wherever they are killed, also
\* when a command that reuses a killed one's pid loads a half-written index file
\* and writes it back: every table has each key once, in its bucket.
THEOREM IndexesStayWellPlaced == Spec => []IndexInv
BY StoreInvariant, StoreInvIsTyped, PTL
-----------------------------------------------------------------------------
(* A half-written index file is never loaded by a writer.                    *)

\* The index file is complete whenever its owner is not rewriting it, and the
\* owner that was killed has not come back.
TornInv == /\ owner \in Proc /\ ~live => pc[owner] = "dead"
           /\ \A p \in Proc : pc[p] \in Protected \ {"head", "body"} => Complete(inx)
           /\ TornIsOwned

LEMMA TornStep ==
  ASSUME ~PidReuse, StoreInv, TornInv, NEW p \in Proc,
         \/ \E c \in Command : Begin(p, c)
         \/ LockIndex(p) \/ Write(p) \/ Rewrite(p) \/ Unlock(p)
         \/ GetRecord(p)
         \/ Kill(p)
  PROVE  TornInv'
<1> DEFINE C == Complete(inx)
<1>0. Control
  BY DEF StoreInv
<1> USE <1>0 DEF Control, Owns, Protected, TornInv, TornIsOwned
<1>1. CASE Rewrite(p)
  <2>1. owner = p /\ live /\ UNCHANGED lockvars
    BY <1>1 DEF Rewrite, TruncIndex, WriteHead, NextBody, WriteBody, RewriteStep
  <2>2. \A q \in Proc : q # p => pc[q] \notin Protected
    BY <2>1
  <2>3. PICK l \in {"head", "body"} : pc' = [pc EXCEPT ![p] = l]
    BY <1>1 DEF Rewrite, TruncIndex, WriteHead, NextBody, WriteBody, Goto
  <2> QED BY <2>1, <2>2, <2>3 DEF lockvars
<1>2. CASE Unlock(p)
  <2>1. C /\ inx' = inx /\ owner' = Free /\ owner = p
    BY <1>2 DEF Unlock, Lock!Release
  <2>2. pc' = [pc EXCEPT ![p] = "idle"]
    BY <1>2 DEF Unlock, Exit, Goto
  <2>3. Complete(inx)'
    BY <2>1 DEF Complete
  <2> QED BY <2>1, <2>2, <2>3, IsamStoreAssumption
<1>3. CASE ~Rewrite(p) /\ ~Unlock(p)
  <2>1. inx' = inx /\ Complete(inx)' = C
    BY <1>3 DEF Begin, LockIndex, Write, AddSet, WriteRecord, WriteRest, Del, DelAll,
                AddIndex, GetRecord, Find, Lookup, Fetch, Kill, Complete
  <2> HIDE DEF C
  <2>2. CASE Dies(p)
    <3>1. owner = p /\ owner' = p /\ pc' = [pc EXCEPT ![p] = "dead"]
      BY <2>2 DEF Dies, Goto, Lock!Die
    <3> QED BY <2>1, <3>1 DEF C
  <2>3. CASE pc[p] = "lock" /\ ~Dies(p)
    <3>1. \/ owner = Free /\ owner' = p /\ live' = TRUE /\ pc' = [pc EXCEPT ![p] = "load"]
          \/ owner = Free /\ owner' = Jammed /\ pc' = [pc EXCEPT ![p] = "idle"]
          \/ UNCHANGED lockvars /\ pc' = [pc EXCEPT ![p] = "idle"]
      BY <1>3, <2>3 DEF Begin, LockIndex, Write, AddSet, WriteRecord, WriteRest, Del, DelAll,
                AddIndex, GetRecord, Find, Lookup, Fetch, Kill, Lock!Acquire, Lock!Reclaim,
                Lock!Jam, Exit, Goto
    <3> QED BY <2>1, <3>1, <2>3, IsamStoreAssumption DEF C, lockvars
  <2>4. CASE pc[p] # "lock" /\ ~Dies(p)
    <3> DEFINE Moves == /\ UNCHANGED lockvars /\ pc' = [pc EXCEPT ![p] = pc'[p]]
                        /\ pc[p] # "dead"
                        /\ pc'[p] \in Protected => pc[p] \in Protected \ {"head", "body"}
    <3>2. ASSUME \E c \in Command : Begin(p, c) PROVE Moves
      BY <3>2 DEF Begin, Goto
    <3>3. ASSUME Write(p) PROVE Moves
      BY <2>4, <3>3 DEF Write, AddSet, WriteRecord, WriteRest, Del, DelAll, AddIndex, Goto,
                        Fails, Changed
    <3>4. ASSUME GetRecord(p) PROVE Moves
      BY <3>4 DEF GetRecord, Find, Lookup, Fetch, Answer, Goto
    <3>5. ASSUME Kill(p) PROVE Moves
      BY <2>4, <3>5 DEF Kill, Exit, Goto
    <3>6. ~LockIndex(p)
      BY <2>4 DEF LockIndex
    <3>1. Moves
      BY <1>3, <3>2, <3>3, <3>4, <3>5, <3>6
    <3> QED BY <2>1, <3>1 DEF C, lockvars
  <2> QED BY <2>2, <2>3, <2>4
<1> QED BY <1>1, <1>2, <1>3

LEMMA TornInvariant == ~PidReuse /\ Spec => []TornInv
<1> SUFFICES ASSUME ~PidReuse PROVE Spec => []TornInv
  OBVIOUS
<1>1. Init => TornInv
  BY IsamStoreAssumption DEF Init, TornInv, TornIsOwned, Complete, Lock!Init, Protected
<1>2. StoreInv /\ TornInv /\ [Next]_vars => TornInv'
  <2> SUFFICES ASSUME StoreInv, TornInv, [Next]_vars PROVE TornInv'
    OBVIOUS
  <2>1. CASE UNCHANGED vars
    BY <2>1 DEF vars, lockvars, TornInv, TornIsOwned, Complete
  <2>2. CASE Next
    <3>1. PICK p \in Proc : \/ \E c \in Command : Begin(p, c)
                           \/ LockIndex(p) \/ Write(p) \/ Rewrite(p) \/ Unlock(p)
                           \/ GetRecord(p)
                           \/ Kill(p)
      BY <2>2 DEF Next
    <3> QED BY <3>1, TornStep
  <2> QED BY <2>1, <2>2
<1> QED BY <1>1, <1>2, StoreInvariant, PTL DEF Spec

\* As long as no command gets the pid of a killed one, no writing command loads
\* a half-written index file: the lock keeps everyone else out, also after the
\* command that was writing it has been killed.
THEOREM TornIndexKeepsItsOwner == ~PidReuse /\ Spec => []TornIsOwned
<1>1. TornInv => TornIsOwned
  BY DEF TornInv
<1> QED BY <1>1, TornInvariant, PTL

-----------------------------------------------------------------------------
(* What the index file says of the records. *)

\* The nodes that point to a record written whole, for their key.
Pointing == {node \in Node : /\ node.value < Len(dat)
                             /\ dat[node.value + 1] = [key |-> node.key, whole |-> TRUE]}

Writing == {"data", "rest", "trunc", "head", "body"}

\* The node that -a has set in memory points to a record not written yet.
NotYet(p) == IF pc[p] \in {"data", "rest"} THEN {[key |-> cmd[p].key, value |-> off[p]]}
             ELSE {}

IndexPoints == \A i \in DOMAIN inx.body : NodesIn(inx.body[i], Pointing)
WriterPoints(p) ==
    /\ pc[p] \in Writing => \A i \in DOMAIN mem[p] : NodesIn(mem[p][i], Pointing \union NotYet(p))
    /\ pc[p] = "data" => off[p] = Len(dat)
    /\ pc[p] = "rest" => off[p] + 1 = Len(dat) /\ ~dat[Len(dat)].whole

PointsInv == IndexPoints /\ \A p \in Proc : WriterPoints(p)

LEMMA PointsInvIsPointsToRecord == StoreInv /\ PointsInv => PointsToRecord
<1> SUFFICES ASSUME StoreInv, PointsInv, NEW i \in DOMAIN inx.body PROVE PointsTo(inx.body[i])
  BY DEF PointsToRecord
<1> QED BY DEF PointsInv, IndexPoints, NodesIn, Pointing, PointsTo

\* A command in its protected section is the only one.
LEMMA OwnerIsAlone ==
  ASSUME StoreInv, NEW p \in Proc, pc[p] \in Protected, NEW q \in Proc, q # p
  PROVE  pc[q] \notin Protected
BY DEF StoreInv, Control, Owns

\* What a writing command loads of a complete index file.
LEMMA CompleteIsLoaded ==
  ASSUME NEW f, Complete(f), GoodTables(f.body), NEW i \in 1..f.num
  PROVE  /\ ReadIndexFile(f, i) = Load(f.body[i])
         /\ i \in DOMAIN f.body /\ GoodTable(f.body[i])
<1>1. f.num = Len(f.body) /\ f.cur = "placed" /\ Len(f.body) \in Nat
      /\ DOMAIN f.body = 1..Len(f.body)
  BY LenProperties DEF Complete, GoodTables
<1>2. i \in DOMAIN f.body /\ ~(i > Len(f.body))
  BY <1>1
<1> QED BY <1>1, <1>2, GoodTableAt DEF ReadIndexFile

LEMMA LoadedPoints ==
  ASSUME StoreInv, PointsInv, Complete(inx)
  PROVE  /\ inx.num \in Nat \ {0} /\ GoodTables(ReadAllIndexFile(inx))
         /\ DOMAIN ReadAllIndexFile(inx) = 1..inx.num
         /\ \A i \in 1..inx.num : NodesIn(ReadAllIndexFile(inx)[i], Pointing)
<1>1. inx.num \in Nat \ {0} /\ GoodTables(inx.body)
  BY DEF StoreInv, Tables, Complete
<1>2. ASSUME NEW i \in 1..inx.num PROVE NodesIn(ReadAllIndexFile(inx)[i], Pointing)
  <2>1. ReadIndexFile(inx, i) = Load(inx.body[i]) /\ i \in DOMAIN inx.body
        /\ inx.body[i] \in Table
    BY <1>1, CompleteIsLoaded DEF GoodTable
  <2>2. NodesIn(inx.body[i], Pointing)
    BY <2>1 DEF PointsInv, IndexPoints
  <2>3. NodesIn(Load(inx.body[i]), Pointing)
    BY <2>1, <2>2, LoadNodes
  <2> QED BY <2>1, <2>3 DEF ReadAllIndexFile
<1> QED BY <1>1, <1>2, ReadAllIndexFileIsGood

\* A step that writes neither file.
LEMMA PointsUnchanged ==
  ASSUME StoreInv, PointsInv, UNCHANGED <<inx, dat>>, NEW p \in Proc,
         \A q \in Proc \ {p} : /\ pc'[q] = pc[q] /\ cmd'[q] = cmd[q]
                               /\ mem'[q] = mem[q] /\ off'[q] = off[q],
         WriterPoints(p)'
  PROVE  PointsInv'
<1>1. Pointing' = Pointing
  BY DEF Pointing
<1>2. ASSUME NEW q \in Proc, q # p PROVE WriterPoints(q)'
  <2>1. WriterPoints(q)
    BY DEF PointsInv
  <2>2. NotYet(q)' = NotYet(q)
    BY <1>2 DEF NotYet
  <2> QED BY <1>1, <1>2, <2>1, <2>2 DEF WriterPoints
<1> QED BY <1>1, <1>2 DEF PointsInv, IndexPoints

\* -a: the record is new, or the half-written one is made whole.
LEMMA PointingGrows ==
  ASSUME dat' \in Seq([key : NodeKey, whole : BOOLEAN]),
         dat \in Seq([key : NodeKey, whole : BOOLEAN]), Len(dat) <= Len(dat'),
         \A i \in 1..Len(dat) : dat[i].whole => dat'[i] = dat[i]
  PROVE  \A node \in Pointing : node \in Pointing'
<1>1. Len(dat) \in Nat /\ Len(dat') \in Nat
  BY LenProperties
<1> QED BY <1>1 DEF Pointing, Node
LEMMA OthersDoNotWrite ==
  ASSUME StoreInv, NEW p \in Proc, pc[p] \in Protected, NEW q \in Proc, q # p, pc'[q] = pc[q]
  PROVE  WriterPoints(q)'
<1>1. pc[q] \notin Protected
  BY OwnerIsAlone
<1> QED BY <1>1 DEF WriterPoints, Writing, Protected

LEMMA RecordKeepsPointing ==
  ASSUME StoreInv, PointsInv, StoreInv', NEW p \in Proc, WriteRecord(p) \/ WriteRest(p)
  PROVE  \A node \in Pointing : node \in Pointing'
<1> DEFINE R == [key : NodeKey, whole : BOOLEAN]
<1>0. dat \in Seq(R) /\ dat' \in Seq(R) /\ Len(dat) \in Nat /\ DOMAIN dat = 1..Len(dat)
  BY LenProperties DEF StoreInv, Rest
<1>1. \A whole \in BOOLEAN : [key |-> cmd[p].key, whole |-> whole] \in R
  BY DEF StoreInv, Rest, Command, NoCommand, NodeKey
<1> HIDE DEF R
<1>2. CASE WriteRecord(p)
  <2>1. PICK r \in R : dat' = Append(dat, r)
    BY <1>1, <1>2 DEF WriteRecord
  <2>2. Len(dat') = Len(dat) + 1 /\ \A i \in 1..Len(dat) : dat'[i] = dat[i]
    BY <1>0, <2>1, AppendProperties
  <2> QED BY <1>0, <2>2, PointingGrows DEF R
<1>3. CASE WriteRest(p)
  <2>1. PICK r \in R : dat' = [dat EXCEPT ![Len(dat)] = r]
    <3>1. off[p] + 1 = Len(dat)
      BY <1>3 DEF WriteRest, PointsInv, WriterPoints
    <3>2. dat' = [dat EXCEPT ![Len(dat)] = [key |-> cmd[p].key, whole |-> TRUE]]
      BY <1>3, <3>1 DEF WriteRest
    <3> QED BY <1>1, <3>2
  <2>2. ~dat[Len(dat)].whole
    BY <1>3 DEF WriteRest, PointsInv, WriterPoints
  <2>3. Len(dat') = Len(dat) /\ \A i \in 1..Len(dat) : dat[i].whole => dat'[i] = dat[i]
    <3>1. dat \in [1..Len(dat) -> R] /\ DOMAIN dat' = 1..Len(dat') /\ Len(dat') \in Nat
      BY <1>0, LenProperties
    <3>2. DOMAIN dat' = 1..Len(dat)
      BY <2>1, <3>1
    <3>3. Len(dat') = Len(dat)
      BY <1>0, <3>1, <3>2, IntervalLength
    <3> QED BY <1>0, <2>1, <2>2, <3>1, <3>3
  <2> QED BY <1>0, <2>3, PointingGrows DEF R
<1> QED BY <1>2, <1>3

LEMMA WriteRecordPoints ==
  ASSUME StoreInv, PointsInv, StoreInv', NEW p \in Proc, WriteRecord(p) PROVE PointsInv'
<1> DEFINE r == [key |-> cmd[p].key, whole |-> FALSE]
<1>0. Rest /\ Rest' /\ pc \in [Proc -> Running \union {"idle", "dead"}]
  BY DEF StoreInv, Control
<1>1. /\ dat' = Append(dat, r) /\ pc' = [pc EXCEPT ![p] = "rest"] /\ pc[p] = "data"
      /\ UNCHANGED <<inx, cmd, mem, off>>
  BY DEF WriteRecord, Goto
<1>2. /\ Len(dat') = Len(dat) + 1 /\ Len(dat) \in Nat
      /\ \A i \in 1..Len(dat) : dat'[i] = dat[i]
      /\ dat'[Len(dat) + 1] = r
  <2>1. r \in [key : NodeKey, whole : BOOLEAN]
    BY <1>0 DEF Rest, Command, NoCommand, NodeKey
  <2> HIDE DEF r
  <2> QED BY <1>0, <1>1, <2>1, AppendProperties, LenProperties DEF Rest
<1>3. \A node \in Pointing : node \in Pointing'
  BY RecordKeepsPointing
<1>4. WriterPoints(p)'
  <2>1. NotYet(p)' = NotYet(p)
    BY <1>0, <1>1 DEF NotYet
  <2>2. \A i \in DOMAIN mem[p] : NodesIn(mem[p][i], Pointing \union NotYet(p))
    BY <1>1 DEF PointsInv, WriterPoints, Writing
  <2>3. \A i \in DOMAIN mem'[p] : NodesIn(mem'[p][i], Pointing' \union NotYet(p)')
    BY <1>1, <1>3, <2>1, <2>2 DEF NodesIn
  <2>4. off'[p] = Len(dat)
    BY <1>1 DEF PointsInv, WriterPoints
  <2>5. off'[p] + 1 = Len(dat') /\ ~dat'[Len(dat')].whole
    BY <1>2, <2>4
  <2>6. pc'[p] = "rest"
    BY <1>0, <1>1
  <2> QED BY <2>3, <2>5, <2>6 DEF WriterPoints
<1>5. ASSUME NEW q \in Proc, q # p PROVE WriterPoints(q)'
  BY <1>0, <1>1, <1>5, OthersDoNotWrite DEF Protected
<1>6. IndexPoints'
  BY <1>1, <1>3 DEF PointsInv, IndexPoints, NodesIn
<1> QED BY <1>4, <1>5, <1>6 DEF PointsInv

LEMMA WriteRestPoints ==
  ASSUME StoreInv, PointsInv, StoreInv', NEW p \in Proc, WriteRest(p) PROVE PointsInv'
<1> DEFINE r == [key |-> cmd[p].key, whole |-> TRUE]
           n == Len(dat)
<1>0. Rest /\ Rest' /\ pc \in [Proc -> Running \union {"idle", "dead"}]
  BY DEF StoreInv, Control
<1>1. /\ dat' = [dat EXCEPT ![off[p] + 1] = r] /\ pc' = [pc EXCEPT ![p] = "trunc"]
      /\ pc[p] = "rest" /\ UNCHANGED <<inx, cmd, mem, off>>
  BY DEF WriteRest, Goto
<1>2. off[p] + 1 = n /\ ~dat[n].whole
  BY <1>1 DEF PointsInv, WriterPoints
<1>3. n \in Nat /\ DOMAIN dat = 1..n /\ off[p] \in Nat \union {NoRec}
      /\ dat \in [1..n -> [key : NodeKey, whole : BOOLEAN]]
  BY <1>0, LenProperties DEF Rest
<1>4. Len(dat') = n
  <2>1. dat' \in [1..n -> [key : NodeKey, whole : BOOLEAN]]
    <3>1. r \in [key : NodeKey, whole : BOOLEAN]
      BY <1>0 DEF Rest, Command, NoCommand, NodeKey
    <3> QED BY <1>1, <1>3, <3>1
  <2> QED BY <1>0, <1>3, <2>1, LenProperties DEF Rest
<1>5. \A node \in Pointing : node \in Pointing'
  BY RecordKeepsPointing
<1>6. WriterPoints(p)'
  <2> DEFINE new == [key |-> cmd[p].key, value |-> off[p]]
  <2>1. \A i \in DOMAIN mem[p] : NodesIn(mem[p][i], Pointing \union {new})
    BY <1>1 DEF PointsInv, WriterPoints, Writing, NotYet
  <2>2. ASSUME NEW i \in DOMAIN mem[p], NEW b \in DOMAIN mem[p][i].map,
               NEW j \in DOMAIN mem[p][i].map[b]
        PROVE  mem[p][i].map[b][j] \in Pointing'
    <3> DEFINE node == mem[p][i].map[b][j]
    <3>1. node \in Node
      <4>1. GoodTable(mem[p][i])
        BY GoodTableAt DEF StoreInv, Tables
      <4>2. mem[p][i].map[b] \in Seq(Node)
        BY <4>1 DEF GoodTable, Table
      <4> QED BY <4>2, LenProperties
    <3>2. node \in Pointing \/ node = new
      BY <2>1 DEF NodesIn
    <3> HIDE DEF node
    <3>3. CASE node = new
      <4>1. node.key = cmd[p].key /\ node.value = off[p] /\ node.value \in Nat
        BY <3>1, <3>3 DEF Node
      <4>2. dat'[off[p] + 1] = r /\ off[p] < n
        BY <1>1, <1>2, <1>3, <4>1
      <4>3. node \in Pointing'
        BY <1>4, <3>1, <4>1, <4>2 DEF Pointing
      <4> QED BY <4>3 DEF node
    <3> QED BY <1>5, <3>2, <3>3 DEF node
  <2> HIDE DEF new
  <2>3. \A i \in DOMAIN mem'[p] : NodesIn(mem'[p][i], Pointing' \union NotYet(p)')
    BY <1>1, <2>2 DEF NodesIn
  <2> QED BY <1>0, <1>1, <2>3 DEF WriterPoints
<1>7. ASSUME NEW q \in Proc, q # p PROVE WriterPoints(q)'
  BY <1>0, <1>1, <1>7, OthersDoNotWrite DEF Protected
<1>8. IndexPoints'
  BY <1>1, <1>5 DEF PointsInv, IndexPoints, NodesIn
<1> QED BY <1>6, <1>7, <1>8 DEF PointsInv

\* A step after which the process is not about to write.
LEMMA PointsAway ==
  ASSUME StoreInv, PointsInv, UNCHANGED <<inx, dat>>, NEW p \in Proc,
         \A q \in Proc \ {p} : /\ pc'[q] = pc[q] /\ cmd'[q] = cmd[q]
                               /\ mem'[q] = mem[q] /\ off'[q] = off[q],
         pc'[p] \notin Writing
  PROVE  PointsInv'
BY PointsUnchanged DEF WriterPoints, Writing

LEMMA OtherStepsPoint ==
  ASSUME StoreInv, PointsInv, NEW p \in Proc,
         \/ \E c \in Command : Begin(p, c)
         \/ LockIndex(p) \/ Unlock(p) \/ GetRecord(p) \/ Kill(p)
  PROVE  PointsInv'
<1>0. Control /\ Tables /\ Rest
  BY DEF StoreInv
<1>1. UNCHANGED <<inx, dat>>
  BY DEF Begin, LockIndex, Unlock, GetRecord, Find, Lookup, Fetch, Kill
<1>2. /\ \A q \in Proc \ {p} : pc'[q] = pc[q]
      /\ pc'[p] \notin Writing
  <2>1. PICK l \in {"find", "lock", "load", "idle", "lookup", "fetch", "dead"} :
            pc' = [pc EXCEPT ![p] = l]
    BY DEF Begin, LockIndex, Unlock, GetRecord, Find, Lookup, Fetch, Kill, Exit, Dies, Answer, Goto
  <2> QED BY <1>0, <2>1 DEF Control, Writing
<1>3. \A q \in Proc \ {p} : cmd'[q] = cmd[q] /\ mem'[q] = mem[q] /\ off'[q] = off[q]
  <2>1. ASSUME GetRecord(p) PROVE cmd' = cmd /\ mem' = mem /\ (off' = off \/ \E v : off' = [off EXCEPT ![p] = v])
    BY <2>1 DEF GetRecord, Find, Lookup, Fetch, Answer
  <2>2. ASSUME ~GetRecord(p)
        PROVE  /\ cmd' = cmd \/ \E v : cmd' = [cmd EXCEPT ![p] = v]
               /\ mem' = mem \/ \E v : mem' = [mem EXCEPT ![p] = v]
               /\ off' = off \/ \E v : off' = [off EXCEPT ![p] = v]
    BY <2>2 DEF Begin, LockIndex, Unlock, Kill, Exit
  <2> QED BY <1>0, <2>1, <2>2 DEF Tables, Rest
<1> QED BY <1>1, <1>2, <1>3, PointsAway

\* The steps that prepare the tables, from a complete index file.
LEMMA LoadedPointsStep ==
  ASSUME StoreInv, PointsInv, NEW p \in Proc, NEW s, UNCHANGED <<inx, dat, cmd>>,
         \/ (Fails(p) \/ Dies(p)) /\ UNCHANGED <<mem, off>>
         \/ /\ Changed(p, s, "trunc") /\ UNCHANGED off
            /\ \A i \in DOMAIN s : NodesIn(s[i], Pointing)
         \/ /\ Changed(p, s, "data") /\ off' = [off EXCEPT ![p] = Len(dat)]
            /\ \A i \in DOMAIN s :
                   NodesIn(s[i], Pointing \union {[key |-> cmd[p].key, value |-> Len(dat)]})
  PROVE  PointsInv'
<1>0. Control /\ Tables /\ Rest
  BY DEF StoreInv
<1>1. PICK l \in {"unlock", "dead", "trunc", "data"} : pc' = [pc EXCEPT ![p] = l]
  BY DEF Fails, Dies, Changed, Goto
<1>2. \A q \in Proc \ {p} : pc'[q] = pc[q] /\ cmd'[q] = cmd[q] /\ mem'[q] = mem[q] /\ off'[q] = off[q]
  BY <1>0, <1>1 DEF Control, Tables, Rest, Changed
<1>3. Pointing' = Pointing
  BY DEF Pointing
<1>4. CASE (Fails(p) \/ Dies(p)) /\ UNCHANGED <<mem, off>>
  <2>1. pc'[p] \notin Writing
    BY <1>0, <1>4 DEF Fails, Dies, Goto, Control, Writing
  <2> QED BY <1>2, <2>1, PointsAway
<1>5. CASE /\ Changed(p, s, "trunc") /\ UNCHANGED off
           /\ \A i \in DOMAIN s : NodesIn(s[i], Pointing)
  <2>1. pc'[p] = "trunc" /\ mem'[p] = s
    BY <1>0, <1>5 DEF Changed, Goto, Control, Tables
  <2>2. WriterPoints(p)'
    BY <1>3, <1>5, <2>1 DEF WriterPoints, NotYet, NodesIn
  <2> QED BY <1>2, <2>2, PointsUnchanged
<1>6. CASE /\ Changed(p, s, "data") /\ off' = [off EXCEPT ![p] = Len(dat)]
           /\ \A i \in DOMAIN s :
                  NodesIn(s[i], Pointing \union {[key |-> cmd[p].key, value |-> Len(dat)]})
  <2>1. pc'[p] = "data" /\ mem'[p] = s /\ off'[p] = Len(dat)
    BY <1>0, <1>6 DEF Changed, Goto, Control, Tables, Rest
  <2>2. WriterPoints(p)'
    BY <1>3, <1>6, <2>1 DEF WriterPoints, NotYet
  <2> QED BY <1>2, <2>2, PointsUnchanged
<1> QED BY <1>4, <1>5, <1>6

LEMMA AddSetPoints ==
  ASSUME StoreInv, PointsInv, Complete(inx), NEW p \in Proc, AddSet(p) PROVE PointsInv'
<1> DEFINE k == cmd[p].key
           ht == ReadAllIndexFile(inx)
           new == [key |-> k, value |-> Len(dat)]
           s == [ht EXCEPT ![1] = Set(ht[1], k, Len(dat))]
<1>1. /\ inx.num \in Nat \ {0} /\ GoodTables(ht) /\ DOMAIN ht = 1..inx.num
      /\ \A i \in 1..inx.num : NodesIn(ht[i], Pointing)
  BY LoadedPoints
<1>2. k \in NodeKey /\ Len(dat) \in Nat
  BY LenProperties DEF StoreInv, Rest, Command, NoCommand, NodeKey
<1>3. \A i \in DOMAIN s : NodesIn(s[i], Pointing \union {new})
  <2>1. NodesIn(Set(ht[1], k, Len(dat)), Pointing \union {new})
    <3>1. ht[1] \in Table /\ NodesIn(ht[1], Pointing \union {new})
      BY <1>1, GoodTableAt DEF GoodTable, NodesIn
    <3> HIDE DEF ht, k
    <3> QED BY <1>2, <3>1, SetNodes
  <2>2. \A i \in 1..inx.num : NodesIn(ht[i], Pointing \union {new})
    BY <1>1 DEF NodesIn
  <2> HIDE DEF ht, k, new
  <2> QED BY <1>1, <2>1, <2>2
<1>4. \/ (Fails(p) \/ Dies(p)) /\ UNCHANGED <<mem, off>>
      \/ Changed(p, s, "data") /\ off' = [off EXCEPT ![p] = Len(dat)]
  BY DEF AddSet
<1>5. UNCHANGED <<inx, dat, cmd>>
  BY DEF AddSet
<1> HIDE DEF s
<1> QED BY <1>3, <1>4, <1>5, LoadedPointsStep

LEMMA DelPoints ==
  ASSUME StoreInv, PointsInv, Complete(inx), NEW p \in Proc, Del(p) PROVE PointsInv'
<1> DEFINE k == cmd[p].key
           j == cmd[p].ix
           ht == ReadAllIndexFile(inx)
           s == [ht EXCEPT ![j] = Delete(ht[j], k)]
<1>1. /\ inx.num \in Nat \ {0} /\ GoodTables(ht) /\ DOMAIN ht = 1..inx.num
      /\ \A i \in 1..inx.num : NodesIn(ht[i], Pointing)
  BY LoadedPoints
<1>2. UNCHANGED <<inx, dat, cmd, off>>
  BY DEF Del
<1>3. CASE Has(ht[j], k)
  <2>1. \A i \in DOMAIN s : NodesIn(s[i], Pointing)
    <3>1. ASSUME j \in DOMAIN ht PROVE NodesIn(Delete(ht[j], k), Pointing)
      <4>1. ht[j] \in Table /\ NodesIn(ht[j], Pointing)
        BY <1>1, <3>1, GoodTableAt DEF GoodTable
      <4> HIDE DEF ht, k, j
      <4> QED BY <1>3, <4>1, DeleteNodes
    <3> HIDE DEF ht, k, j
    <3> QED BY <1>1, <3>1
  <2>2. \/ (Fails(p) \/ Dies(p)) /\ UNCHANGED mem
        \/ Changed(p, s, "trunc")
    BY DEF Del
  <2> HIDE DEF s
  <2> QED BY <1>2, <2>1, <2>2, LoadedPointsStep
<1>4. CASE ~Has(ht[j], k)
  <2>1. (Fails(p) \/ Dies(p)) /\ UNCHANGED mem
    BY <1>4 DEF Del
  <2> QED BY <1>2, <2>1, LoadedPointsStep
<1> QED BY <1>3, <1>4

LEMMA DelAllPoints ==
  ASSUME StoreInv, PointsInv, NEW p \in Proc, DelAll(p) PROVE PointsInv'
<1> DEFINE n == ReadIndexFile(inx, 1).size
           s == [i \in 1..inx.num |-> NewTable(n)]
<1>1. \A i \in DOMAIN s : NodesIn(s[i], Pointing)
  BY NewTableNodes
<1>2. \/ Fails(p) /\ UNCHANGED <<mem, off>>
      \/ Changed(p, s, "trunc") /\ UNCHANGED off
  BY DEF DelAll
<1>3. UNCHANGED <<inx, dat, cmd>>
  BY DEF DelAll
<1> HIDE DEF s
<1> QED BY <1>1, <1>2, <1>3, LoadedPointsStep

LEMMA AddIndexPoints ==
  ASSUME StoreInv, PointsInv, Complete(inx), NEW p \in Proc, AddIndex(p) PROVE PointsInv'
<1> DEFINE ht == ReadAllIndexFile(inx)
           s == Append(ht, NewTable(Bucket))
<1>1. /\ inx.num \in Nat \ {0} /\ GoodTables(ht) /\ DOMAIN ht = 1..inx.num
      /\ \A i \in 1..inx.num : NodesIn(ht[i], Pointing)
  BY LoadedPoints
<1>2. \A i \in DOMAIN s : NodesIn(s[i], Pointing)
  <2>1. NewTable(Bucket) \in Table /\ NodesIn(NewTable(Bucket), Pointing)
    BY IsamStoreAssumption, NewTableIsGood, NewTableNodes DEF GoodTable
  <2>2. ht \in Seq(Table)
    BY <1>1 DEF GoodTables
  <2> HIDE DEF ht
  <2>3. /\ s \in Seq(Table) /\ Len(s) = Len(ht) + 1
        /\ \A i \in 1..Len(ht) : s[i] = ht[i]
        /\ s[Len(ht) + 1] = NewTable(Bucket)
    BY <2>1, <2>2, AppendProperties
  <2> HIDE DEF s
  <2>4. DOMAIN s = 1..Len(ht)+1 /\ DOMAIN ht = 1..Len(ht) /\ Len(ht) \in Nat
    BY <2>2, <2>3, LenProperties
  <2> QED BY <1>1, <2>1, <2>3, <2>4
<1>3. \/ Fails(p) /\ UNCHANGED <<mem, off>>
      \/ Changed(p, s, "trunc") /\ UNCHANGED off
  BY DEF AddIndex
<1>4. UNCHANGED <<inx, dat, cmd>>
  BY DEF AddIndex
<1> HIDE DEF s
<1> QED BY <1>2, <1>3, <1>4, LoadedPointsStep

LEMMA RewritePoints ==
  ASSUME StoreInv, PointsInv, NEW p \in Proc, Rewrite(p) PROVE PointsInv'
<1>0. Control /\ Tables /\ Rest
  BY DEF StoreInv
<1>1. /\ pc[p] \in {"trunc", "head", "body"} /\ UNCHANGED <<dat, cmd, mem, off>>
      /\ \E l \in {"head", "body"} : pc' = [pc EXCEPT ![p] = l]
  BY <1>0 DEF Rewrite, TruncIndex, WriteHead, NextBody, WriteBody, RewriteStep, Goto, Control
<1>2. Pointing' = Pointing
  BY <1>1 DEF Pointing
<1>3. \A i \in DOMAIN mem[p] : NodesIn(mem[p][i], Pointing)
  BY <1>1 DEF PointsInv, WriterPoints, Writing, NotYet, NodesIn
<1>4. WriterPoints(p)'
  <2>1. pc'[p] \in {"head", "body"}
    BY <1>0, <1>1 DEF Control
  <2> QED BY <1>1, <1>2, <1>3, <2>1 DEF WriterPoints, NotYet, NodesIn
<1>5. ASSUME NEW q \in Proc, q # p PROVE WriterPoints(q)'
  BY <1>0, <1>1, <1>5, OthersDoNotWrite DEF Protected
<1>6. IndexPoints'
  <2>1. CASE TruncIndex(p)
    BY <2>1 DEF TruncIndex, Truncated, IndexPoints
  <2>2. CASE WriteHead(p) \/ WriteBody(p)
    <3>1. inx'.body = inx.body
      BY <1>0, <2>2 DEF WriteHead, WriteBody, Tables
    <3> QED BY <1>2, <3>1 DEF PointsInv, IndexPoints
  <2>3. CASE NextBody(p)
    <3>1. /\ inx'.body = Append(inx.body, mem[p][Len(inx.body) + 1])
          /\ inx.num = Len(mem[p]) /\ Len(inx.body) < inx.num
      BY <1>0, <2>3 DEF NextBody, Tables, BodyNum
    <3>2. PICK n \in Nat : n = Len(inx.body)
      BY <1>0, LenProperties DEF Tables, GoodTables
    <3>3. /\ inx.body \in Seq(Table) /\ mem[p] \in Seq(Table)
          /\ DOMAIN inx.body = 1..n /\ DOMAIN mem[p] = 1..Len(mem[p])
      BY <1>0, <3>2, LenProperties DEF Tables, GoodTables
    <3>4. n + 1 \in DOMAIN mem[p] /\ mem[p][n + 1] \in Table
      BY <1>0, <3>1, <3>2, <3>3, LenProperties DEF Tables
    <3>5. /\ inx'.body \in Seq(Table) /\ Len(inx'.body) = n + 1
          /\ \A i \in 1..n : inx'.body[i] = inx.body[i]
          /\ inx'.body[n + 1] = mem[p][n + 1]
      BY <3>1, <3>2, <3>3, <3>4, AppendProperties
    <3>6. DOMAIN inx'.body = 1..n+1
      BY <3>5, LenProperties
    <3>7. NodesIn(mem[p][n + 1], Pointing)
      BY <1>3, <3>4
    <3>8. ASSUME NEW i \in DOMAIN inx'.body PROVE NodesIn(inx'.body[i], Pointing)
      <4>1. CASE i \in 1..n
        <5>1. inx'.body[i] = inx.body[i] /\ i \in DOMAIN inx.body
          BY <3>3, <3>5, <4>1
        <5> QED BY <5>1 DEF PointsInv, IndexPoints
      <4>2. CASE i = n + 1
        BY <3>5, <3>7, <4>2
      <4> QED BY <3>6, <3>8, <4>1, <4>2
    <3> QED BY <1>2, <3>8 DEF IndexPoints
  <2> QED BY <2>1, <2>2, <2>3 DEF Rewrite
<1> QED BY <1>4, <1>5, <1>6 DEF PointsInv

LEMMA PointsStep ==
  ASSUME StoreInv, TornInv, PointsInv, StoreInv', [Next]_vars PROVE PointsInv'
<1>1. CASE UNCHANGED vars
  <2>1. Pointing' = Pointing /\ \A p \in Proc : NotYet(p)' = NotYet(p)
    BY <1>1 DEF vars, lockvars, Pointing, NotYet
  <2>2. UNCHANGED <<inx, dat, pc, mem, off>>
    BY <1>1 DEF vars
  <2> QED BY <2>1, <2>2 DEF PointsInv, IndexPoints, WriterPoints
<1>2. ASSUME NEW p \in Proc, Write(p) PROVE PointsInv'
  <2>1. pc[p] = "load" => Complete(inx)
    BY DEF TornInv, Protected
  <2>2. CASE WriteRecord(p) \/ WriteRest(p)
    BY <2>2, WriteRecordPoints, WriteRestPoints
  <2>3. CASE AddSet(p) \/ Del(p) \/ DelAll(p) \/ AddIndex(p)
    <3>1. Complete(inx)
      BY <2>1, <2>3 DEF AddSet, Del, DelAll, AddIndex
    <3> QED BY <2>3, <3>1, AddSetPoints, DelPoints, DelAllPoints, AddIndexPoints
  <2> QED BY <1>2, <2>2, <2>3 DEF Write
<1>3. CASE Next
  <2>1. PICK p \in Proc : \/ \E c \in Command : Begin(p, c)
                         \/ LockIndex(p) \/ Write(p) \/ Rewrite(p) \/ Unlock(p)
                         \/ GetRecord(p)
                         \/ Kill(p)
    BY <1>3 DEF Next
  <2> QED BY <1>2, <2>1, OtherStepsPoint, RewritePoints
<1> QED BY <1>1, <1>3

LEMMA PointsInvariant == ~PidReuse /\ Spec => []PointsInv
<1> SUFFICES ASSUME ~PidReuse PROVE Spec => []PointsInv
  OBVIOUS
<1>1. Init => PointsInv
  <2> SUFFICES ASSUME Init PROVE PointsInv
    OBVIOUS
  <2>1. IndexPoints
    BY NewTableNodes DEF Init, IndexPoints
  <2>2. \A p \in Proc : WriterPoints(p)
    BY DEF Init, WriterPoints, Writing
  <2> QED BY <2>1, <2>2 DEF PointsInv
<1>2. StoreInv /\ StoreInv' /\ TornInv /\ PointsInv /\ [Next]_vars => PointsInv'
  BY PointsStep
<1> QED BY <1>1, <1>2, StoreInvariant, TornInvariant, PTL DEF Spec

\* As long as no command gets the pid of a killed one, every key in the index
\* file points to the whole record that was written for it, wherever commands
\* are killed and whatever they add, delete or look up meanwhile.
THEOREM KeysPointToTheirRecords == ~PidReuse /\ Spec => []PointsToRecord
BY PointsInvariant, PointsInvIsPointsToRecord, StoreInvariant, PTL
-----------------------------------------------------------------------------
(* What a get answers.                                                       *)

\* What is known of a get since it began; a command that truncates the index
\* file makes no get calm, and writes to it while it is not complete.
Target(p) == [key |-> cmd[p].key, value |-> off[p]]
GetInv(p) ==
    /\ calm[p] => Complete(inx) /\ pc[p] # "find"
    /\ pc[p] \in {"find", "lookup", "fetch"} => res[p] = "none"
    /\ calm[p] /\ pc[p] = "lookup" => seen[p] = inx.num
    /\ cmd[p].op = "get" /\ calm[p] =>
        /\ pc[p] = "fetch" \/ res[p] = "found" => Target(p) \in Pointing
        /\ res[p] # "error"
        /\ res[p] = "absent" /\ cmd[p].key \in StrKey => ~InIndex0(cmd[p].key)

QuietInv == \A p \in Proc : GetInv(p) /\ (pc[p] = "head" => inx.num = 0)

LEMMA QuietInvIsExact == QuietInv => QuietGetIsExact
BY DEF QuietInv, GetInv, QuietGetIsExact, Pointing, Target

\* No record has the number 0 for its key: -a refuses it before it writes.
KeysAreNamed == /\ \A i \in DOMAIN dat : dat[i].key # ZeroKey
                /\ \A p \in Proc : pc[p] \in {"data", "rest"} => cmd[p].key # ZeroKey

LEMMA NamedStep ==
  ASSUME StoreInv, KeysAreNamed, [Next]_vars PROVE KeysAreNamed'
<1>0. Control /\ Rest /\ Len(dat) \in Nat /\ DOMAIN dat = 1..Len(dat)
  BY LenProperties DEF StoreInv, Rest
<1>1. CASE UNCHANGED <<dat, pc, cmd>>
  BY <1>1 DEF KeysAreNamed
<1>2. ASSUME NEW p \in Proc, NEW l, UNCHANGED <<dat, cmd>>, pc' = [pc EXCEPT ![p] = l],
             l \in {"data", "rest"} => cmd[p].key # ZeroKey
      PROVE  KeysAreNamed'
  BY <1>0, <1>2 DEF KeysAreNamed, Control
<1>3. ASSUME NEW p \in Proc, NEW l, l \notin {"data", "rest"}, UNCHANGED dat,
             pc' = [pc EXCEPT ![p] = l], NEW c, cmd' = [cmd EXCEPT ![p] = c]
      PROVE  KeysAreNamed'
  BY <1>0, <1>3 DEF KeysAreNamed, Control, Rest
<1>4. ASSUME NEW p \in Proc, WriteRecord(p) PROVE KeysAreNamed'
  <2> DEFINE r == [key |-> cmd[p].key, whole |-> FALSE]
  <2>1. dat' = Append(dat, r) /\ r \in [key : NodeKey, whole : BOOLEAN] /\ r.key # ZeroKey
    BY <1>0, <1>4 DEF WriteRecord, KeysAreNamed, Rest, Command, NoCommand, NodeKey
  <2> HIDE DEF r
  <2>2. \A i \in DOMAIN dat' : dat'[i].key # ZeroKey
    <3>1. DOMAIN dat' = 1..Len(dat) + 1 /\ dat'[Len(dat) + 1] = r
          /\ \A i \in 1..Len(dat) : dat'[i] = dat[i]
      BY <1>0, <2>1, AppendProperties, LenProperties DEF Rest
    <3> QED BY <1>0, <2>1, <3>1 DEF KeysAreNamed
  <2>3. \A q \in Proc : pc'[q] \in {"data", "rest"} => cmd'[q].key # ZeroKey
    BY <1>0, <1>4 DEF WriteRecord, Goto, KeysAreNamed, Control
  <2> QED BY <2>2, <2>3 DEF KeysAreNamed
<1>5. ASSUME NEW p \in Proc, WriteRest(p) PROVE KeysAreNamed'
  <2>1. cmd[p].key # ZeroKey /\ UNCHANGED cmd /\ DOMAIN dat' = DOMAIN dat
        /\ dat' = [dat EXCEPT ![off[p] + 1] = [key |-> cmd[p].key, whole |-> TRUE]]
    BY <1>5 DEF WriteRest, KeysAreNamed
  <2>2. \A i \in DOMAIN dat' : dat'[i].key # ZeroKey
    BY <2>1 DEF KeysAreNamed
  <2>3. \A q \in Proc : pc'[q] \in {"data", "rest"} => cmd'[q].key # ZeroKey
    BY <1>0, <1>5, <2>1 DEF WriteRest, Goto, KeysAreNamed, Control
  <2> QED BY <2>2, <2>3 DEF KeysAreNamed
<1>6. ASSUME NEW p \in Proc,
             \/ \E c \in Command : Begin(p, c)
             \/ LockIndex(p) \/ Write(p) \/ Rewrite(p) \/ Unlock(p) \/ GetRecord(p) \/ Kill(p)
      PROVE  KeysAreNamed'
  <2>1. CASE (\E c \in Command : Begin(p, c)) \/ LockIndex(p) \/ Unlock(p) \/ Kill(p)
    <3>1. UNCHANGED dat /\ (UNCHANGED cmd \/ \E c : cmd' = [cmd EXCEPT ![p] = c])
      BY <2>1 DEF Begin, LockIndex, Unlock, Kill, Exit
    <3>2. \E l \in {"find", "lock", "load", "idle", "dead"} : pc' = [pc EXCEPT ![p] = l]
      BY <2>1 DEF Begin, LockIndex, Unlock, Kill, Exit, Dies, Goto
    <3> QED BY <1>2, <1>3, <3>1, <3>2
  <2>2. CASE Rewrite(p) \/ GetRecord(p)
    <3>1. UNCHANGED <<dat, cmd>>
      BY <2>2 DEF Rewrite, TruncIndex, WriteHead, NextBody, WriteBody, RewriteStep,
                  GetRecord, Find, Lookup, Fetch
    <3>2. \/ UNCHANGED pc
          \/ \E l \in {"head", "body", "lookup", "fetch", "idle"} : pc' = [pc EXCEPT ![p] = l]
      BY <2>2 DEF Rewrite, TruncIndex, WriteHead, NextBody, WriteBody, RewriteStep,
                  GetRecord, Find, Lookup, Fetch, Answer, Goto
    <3> QED BY <1>1, <1>2, <3>1, <3>2
  <2>3. CASE AddSet(p)
    BY <1>2, <2>3 DEF AddSet, Fails, Dies, Changed, Goto
  <2>4. CASE Del(p) \/ DelAll(p) \/ AddIndex(p)
    <3>1. UNCHANGED <<dat, cmd>>
          /\ \E l \in {"unlock", "dead", "trunc"} : pc' = [pc EXCEPT ![p] = l]
      BY <2>4 DEF Del, DelAll, AddIndex, Fails, Dies, Changed, Goto
    <3> QED BY <1>2, <3>1
  <2> QED BY <1>4, <1>5, <1>6, <2>1, <2>2, <2>3, <2>4 DEF Write
<1> QED BY <1>1, <1>6 DEF Next, vars

LEMMA NamedInvariant == Spec => []KeysAreNamed
<1>1. Init => KeysAreNamed
  <2>1. DOMAIN <<>> = {}
    OBVIOUS
  <2> QED BY <2>1 DEF Init, KeysAreNamed
<1> QED BY <1>1, NamedStep, StoreInvariant, PTL DEF Spec

LEMMA ZeroKeyPointsNowhere ==
  ASSUME StoreInv, KeysAreNamed, NEW node \in Pointing PROVE node.key # ZeroKey
<1>1. node.value + 1 \in DOMAIN dat /\ dat[node.value + 1].key = node.key
  BY LenProperties DEF StoreInv, Rest, Pointing, Node
<1> QED BY <1>1 DEF KeysAreNamed

\* A get that reads the index file while it is quiet.
LEMMA LookupExact ==
  ASSUME StoreInv, PointsInv, KeysAreNamed, NEW p \in Proc,
         Complete(inx), seen[p] = inx.num, Lookup(p)
  PROVE  LET k == cmd[p].key
             v == Get(ReadIndexFile(inx, 1), k)
         IN \/ Answer(p, "killed")
            \/ Answer(p, "absent") /\ (k \in StrKey => ~InIndex0(k))
            \/ /\ off' = [off EXCEPT ![p] = v] /\ Goto(p, "fetch")
               /\ [key |-> k, value |-> v] \in Pointing
               /\ UNCHANGED <<seen, res, calm>>
<1> DEFINE k == cmd[p].key
           t == ReadIndexFile(inx, 1)
           zero == /\ k \in StrKey /\ t.size > 1
                   /\ Chain(t, k) # <<>> /\ Chain(t, k)[1].key = ZeroKey
<1>0. k \in NodeKey
  BY DEF StoreInv, Rest, Command, NoCommand, NodeKey
<1>1. /\ t = Load(inx.body[1]) /\ 1 \in DOMAIN inx.body
      /\ GoodTable(inx.body[1]) /\ GoodTable(t)
  <2>1. 1 \in 1..inx.num /\ GoodTables(inx.body)
    BY DEF StoreInv, Tables, Complete
  <2> QED BY <2>1, CompleteIsLoaded, LoadIsGood
<1>2. NodesIn(t, Pointing)
  <2>1. NodesIn(inx.body[1], Pointing) /\ inx.body[1] \in Table
    BY <1>1 DEF PointsInv, IndexPoints, GoodTable
  <2> QED BY <1>1, <2>1, LoadNodes
<1>3. ASSUME k \in StrKey, InIndex0(k)
      PROVE  \E j \in DOMAIN Chain(t, k) : Chain(t, k)[j].key = k
  BY <1>1, <1>3, KeyLoads DEF InIndex0
<1>4. ~Unreadable(inx, 1) /\ inx.num \in {0, seen[p]}
  BY DEF Unreadable, Complete
<1> HIDE DEF t
<1>5. CASE k = ZeroKey \/ zero
  <2>1. Answer(p, "absent")
    BY <1>4, <1>5 DEF Lookup, t
  <2>2. ASSUME k \in StrKey PROVE FALSE
    <3>1. k # ZeroKey /\ zero
      BY <1>5, <2>2, HashTblAssumption
    <3>2. Chain(t, k) \in Seq(Node) /\ Hash[t.size][k] \in DOMAIN t.map
      BY <1>0, <1>1, <3>1, ChainInTable
    <3>3. 1 \in DOMAIN Chain(t, k)
      BY <3>1, <3>2, EmptySeq, LenProperties
    <3>4. Chain(t, k)[1] \in Pointing
      BY <1>2, <3>2, <3>3 DEF NodesIn, Chain
    <3> QED BY <3>1, <3>4, ZeroKeyPointsNowhere
  <2> QED BY <2>1, <2>2
<1>6. CASE ~(k = ZeroKey \/ zero) /\ Kills(t, k)
  BY <1>4, <1>6 DEF Lookup, t
<1>7. CASE ~(k = ZeroKey \/ zero) /\ ~Kills(t, k) /\ ~Has(t, k)
  <2>1. Answer(p, "absent")
    BY <1>4, <1>7 DEF Lookup, t
  <2>2. k \in StrKey => \A j \in DOMAIN Chain(t, k) : Chain(t, k)[j].key # k
    BY <1>0, <1>1, <1>7, NotThere, HashTblAssumption
  <2> QED BY <1>3, <2>1, <2>2
<1>8. CASE ~(k = ZeroKey \/ zero) /\ ~Kills(t, k) /\ Has(t, k)
  <2>1. /\ off' = [off EXCEPT ![p] = Get(t, k)] /\ Goto(p, "fetch")
        /\ UNCHANGED <<seen, res, calm>>
    BY <1>4, <1>8 DEF Lookup, t
  <2>2. t.size # 0
    BY <1>8 DEF Kills
  <2>3. [key |-> k, value |-> Get(t, k)] \in Pointing
    BY <1>0, <1>1, <1>2, <1>8, <2>2, GetIsNode
  <2> QED BY <2>1, <2>3 DEF t
<1> QED BY <1>5, <1>6, <1>7, <1>8

\* A process whose command and answer a step leaves alone, while nobody rewrites
\* the index file.
LEMMA GetUnchanged ==
  ASSUME UNCHANGED inx, \A node \in Pointing : node \in Pointing',
         NEW q \in Proc, GetInv(q),
         pc'[q] = pc[q] \/ pc'[q] \notin {"find", "lookup", "fetch"}, cmd'[q] = cmd[q],
         off'[q] = off[q] \/ cmd[q].op # "get",
         seen'[q] = seen[q], res'[q] = res[q], calm'[q] = calm[q]
  PROVE  GetInv(q)'
<1> DEFINE C == Complete(inx)
           I == InIndex0(cmd[q].key)
<1>1. Complete(inx)' = C
  BY DEF Complete
<1>2. InIndex0(cmd[q].key)' = I
  BY DEF InIndex0
<1>3. cmd[q].op = "get" => Target(q)' = Target(q)
  BY DEF Target
<1> HIDE DEF C, I
<1> QED BY <1>1, <1>2, <1>3 DEF GetInv, C, I

\* A process without a get.
LEMMA NoGet ==
  ASSUME NEW q \in Proc, ~calm'[q] \/ (cmd'[q].op # "get" /\ Complete(inx)' /\ pc'[q] \notin {"find", "lookup"}),
         pc'[q] \in {"find", "lookup", "fetch"} => res'[q] = "none"
  PROVE  GetInv(q)'
BY DEF GetInv

LEMMA RewriteQuiet ==
  ASSUME StoreInv, QuietInv, NEW p \in Proc, Rewrite(p) PROVE QuietInv'
<1>0. Control /\ Tables /\ Rest
  BY DEF StoreInv
<1>1. /\ pc[p] \in Protected /\ UNCHANGED res
      /\ \E l \in {"head", "body"} : pc' = [pc EXCEPT ![p] = l]
  BY <1>0 DEF Rewrite, TruncIndex, WriteHead, NextBody, WriteBody, RewriteStep, Goto, Control, Protected
<1>2. \A q \in Proc : ~calm'[q]
  <2>1. CASE TruncIndex(p)
    BY <2>1 DEF TruncIndex
  <2>2. CASE ~TruncIndex(p)
    <3>1. ~Complete(inx) /\ calm' = calm
      BY <1>0, <2>2, LenProperties DEF Rewrite, WriteHead, NextBody, WriteBody, RewriteStep,
                        Complete, QuietInv, Tables, GoodTables
    <3> QED BY <3>1 DEF QuietInv, GetInv
  <2> QED BY <2>1, <2>2
<1>3. ASSUME NEW q \in Proc PROVE GetInv(q)'
  <2>1. pc'[q] \in {"find", "lookup", "fetch"} => pc'[q] = pc[q]
    BY <1>0, <1>1 DEF Control
  <2>2. pc'[q] \in {"find", "lookup", "fetch"} => res'[q] = "none"
    BY <1>1, <2>1 DEF QuietInv, GetInv
  <2> QED BY <1>2, <2>2, NoGet
<1>4. ASSUME NEW q \in Proc, pc'[q] = "head" PROVE inx'.num = 0
  <2>1. CASE TruncIndex(p)
    BY <2>1 DEF TruncIndex, Truncated
  <2>2. CASE ~TruncIndex(p)
    <3>1. pc' = [pc EXCEPT ![p] = "body"]
      BY <1>0, <2>2 DEF Rewrite, WriteHead, NextBody, WriteBody, Goto, Control
    <3>2. pc[q] = "head" /\ q # p
      BY <1>0, <1>4, <3>1 DEF Control
    <3> QED BY <1>1, <3>2, OwnerIsAlone DEF Protected
  <2> QED BY <2>1, <2>2
<1> QED BY <1>3, <1>4 DEF QuietInv

\* What is left to show of a step that does not rewrite the index file.
LEMMA OneProcessQuiet ==
  ASSUME QuietInv, UNCHANGED inx, \A node \in Pointing : node \in Pointing', NEW p \in Proc,
         \A q \in Proc \ {p} : /\ pc'[q] = pc[q] /\ cmd'[q] = cmd[q] /\ off'[q] = off[q]
                               /\ seen'[q] = seen[q] /\ res'[q] = res[q] /\ calm'[q] = calm[q],
         pc'[p] # "head", GetInv(p)'
  PROVE  QuietInv'
<1>1. ASSUME NEW q \in Proc, q # p PROVE GetInv(q)' /\ (pc'[q] = "head" => inx'.num = 0)
  <2>1. GetInv(q) /\ (pc[q] = "head" => inx.num = 0)
    BY DEF QuietInv
  <2> QED BY <1>1, <2>1, GetUnchanged
<1> QED BY <1>1 DEF QuietInv

LEMMA WriteQuiet ==
  ASSUME StoreInv, PointsInv, StoreInv', QuietInv, NEW p \in Proc, Write(p) PROVE QuietInv'
<1>0. Control /\ Tables /\ Rest
  BY DEF StoreInv
<1>1. UNCHANGED <<inx, cmd, seen, res, calm>>
  BY DEF Write, AddSet, WriteRecord, WriteRest, Del, DelAll, AddIndex
<1>2. \A node \in Pointing : node \in Pointing'
  <2>1. CASE WriteRecord(p) \/ WriteRest(p)
    BY <2>1, RecordKeepsPointing
  <2>2. CASE ~(WriteRecord(p) \/ WriteRest(p))
    BY <2>2 DEF Write, AddSet, Del, DelAll, AddIndex, Pointing
  <2> QED BY <2>1, <2>2
<1>3. PICK l \in {"unlock", "dead", "trunc", "data", "rest"} : pc' = [pc EXCEPT ![p] = l]
  BY DEF Write, AddSet, WriteRecord, WriteRest, Del, DelAll, AddIndex, Fails, Dies, Changed, Goto
<1>4. off' = off \/ (cmd[p].op = "add" /\ \E v : off' = [off EXCEPT ![p] = v])
  BY DEF Write, AddSet, WriteRecord, WriteRest, Del, DelAll, AddIndex
<1>5. /\ pc'[p] \notin {"head", "find", "lookup", "fetch"} 
      /\ off'[p] = off[p] \/ cmd[p].op # "get"
      /\ \A q \in Proc \ {p} : pc'[q] = pc[q] /\ off'[q] = off[q]
  BY <1>0, <1>3, <1>4 DEF Control, Rest
<1>6. GetInv(p)'
  <2>1. cmd'[p] = cmd[p] /\ seen'[p] = seen[p] /\ res'[p] = res[p] /\ calm'[p] = calm[p]
    BY <1>1
  <2>2. GetInv(p)
    BY DEF QuietInv
  <2> QED BY <1>1, <1>2, <1>5, <2>1, <2>2, GetUnchanged
<1>7. \A q \in Proc \ {p} : /\ pc'[q] = pc[q] /\ cmd'[q] = cmd[q] /\ off'[q] = off[q]
                            /\ seen'[q] = seen[q] /\ res'[q] = res[q] /\ calm'[q] = calm[q]
  BY <1>1, <1>5
<1> QED BY <1>1, <1>2, <1>5, <1>6, <1>7, OneProcessQuiet

LEMMA OtherStepsQuiet ==
  ASSUME StoreInv, QuietInv, NEW p \in Proc,
         (\E c \in Command : Begin(p, c)) \/ LockIndex(p) \/ Unlock(p) \/ Kill(p)
  PROVE  QuietInv'
<1>0. Control /\ Tables /\ Rest
  BY DEF StoreInv
<1>1. UNCHANGED <<inx, dat>> /\ Pointing' = Pointing
  BY DEF Begin, LockIndex, Unlock, Kill, Pointing
<1>2. PICK l \in {"find", "lock", "load", "idle", "dead"} : pc' = [pc EXCEPT ![p] = l]
  BY DEF Begin, LockIndex, Unlock, Kill, Exit, Dies, Goto
<1>3. \A q \in Proc \ {p} : /\ pc'[q] = pc[q] /\ cmd'[q] = cmd[q] /\ off'[q] = off[q]
                            /\ seen'[q] = seen[q] /\ res'[q] = res[q] /\ calm'[q] = calm[q]
  BY <1>0, <1>2 DEF Begin, LockIndex, Unlock, Kill, Exit, Control, Rest
<1>4. GetInv(p)'
  <2>1. CASE \E c \in Command : Begin(p, c)
    <3>1. ~calm'[p] /\ res'[p] = "none"
      BY <1>0, <2>1 DEF Begin, Rest
    <3> QED BY <3>1, NoGet
  <2>2. CASE Exit(p) /\ UNCHANGED <<res, calm>>
    <3>1. cmd'[p].op # "get" /\ pc'[p] = "idle"
      BY <1>0, <2>2 DEF Exit, Goto, NoCommand, Rest, Control
    <3>2. calm'[p] => Complete(inx)'
      BY <1>1, <2>2 DEF QuietInv, GetInv, Complete
    <3> QED BY <3>1, <3>2, NoGet
  <2>3. CASE UNCHANGED <<cmd, off, seen, res, calm>> /\ pc'[p] \notin {"find", "lookup", "fetch"}
    BY <1>1, <2>3, GetUnchanged DEF QuietInv
  <2>4. CASE UNCHANGED <<cmd, off, seen, res, calm>> /\ ~Exit(p) /\ ~\E c \in Command : Begin(p, c)
    <3>1. pc'[p] \notin {"find", "lookup", "fetch"}
      BY <1>0, <2>4 DEF LockIndex, Unlock, Kill, Dies, Goto, Control
    <3> QED BY <2>3, <2>4, <3>1
  <2> QED BY <2>1, <2>2, <2>4 DEF LockIndex, Unlock, Kill
<1>5. pc'[p] # "head"
  BY <1>0, <1>2 DEF Control
<1> QED BY <1>1, <1>3, <1>4, <1>5, OneProcessQuiet

LEMMA GetQuiet ==
  ASSUME StoreInv, PointsInv, KeysAreNamed, QuietInv, NEW p \in Proc, GetRecord(p)
  PROVE  QuietInv'
<1>0. Control /\ Tables /\ Rest
  BY DEF StoreInv
<1>1. UNCHANGED <<inx, dat, cmd>> /\ Pointing' = Pointing
  BY DEF GetRecord, Find, Lookup, Fetch, Pointing
<1>2. PICK l \in {"idle", "lookup", "fetch"} : pc' = [pc EXCEPT ![p] = l]
  BY DEF GetRecord, Find, Lookup, Fetch, Answer, Goto
<1>3. \A q \in Proc \ {p} : /\ pc'[q] = pc[q] /\ cmd'[q] = cmd[q] /\ off'[q] = off[q]
                            /\ seen'[q] = seen[q] /\ res'[q] = res[q] /\ calm'[q] = calm[q]
  BY <1>0, <1>1, <1>2 DEF GetRecord, Find, Lookup, Fetch, Answer, Control, Rest
<1> DEFINE C == Complete(inx)
           k == cmd[p].key
           I == InIndex0(k)
<1>4. Complete(inx)' = C /\ InIndex0(k)' = I /\ C \in BOOLEAN
  BY <1>1 DEF Complete, InIndex0
<1>5. GetInv(p)
  BY DEF QuietInv
<1>6. GetInv(p)'
  <2>1. CASE Find(p)
    <3>1. ~calm[p] /\ res[p] = "none"
      BY <1>5, <2>1 DEF Find, GetInv
    <3>2. CASE Answer(p, "error")
      <4>1. ~calm'[p] /\ pc'[p] = "idle"
        BY <1>0, <3>1, <3>2 DEF Answer, Goto, Control
      <4> QED BY <4>1, NoGet
    <3>3. CASE ~Answer(p, "error")
      <4> HIDE DEF C
      <4>1. /\ seen' = [seen EXCEPT ![p] = inx.num] /\ calm' = [calm EXCEPT ![p] = C]
            /\ pc' = [pc EXCEPT ![p] = "lookup"] /\ UNCHANGED res
        BY <2>1, <3>3 DEF Find, Goto, C
      <4>2. seen'[p] = inx.num /\ calm'[p] = C /\ pc'[p] = "lookup" /\ res'[p] = "none"
        BY <1>0, <3>1, <4>1 DEF Control, Rest
      <4> QED BY <1>1, <1>4, <4>2 DEF GetInv
    <3> QED BY <3>2, <3>3
  <2>2. CASE Lookup(p) /\ calm[p]
    <3> DEFINE v == Get(ReadIndexFile(inx, 1), k)
    <3>1. Complete(inx) /\ seen[p] = inx.num /\ res[p] = "none"
      BY <1>5, <2>2 DEF GetInv, Lookup
    <3>2. \/ Answer(p, "killed")
          \/ Answer(p, "absent") /\ (k \in StrKey => ~I)
          \/ /\ off' = [off EXCEPT ![p] = v] /\ Goto(p, "fetch")
             /\ [key |-> k, value |-> v] \in Pointing
             /\ UNCHANGED <<seen, res, calm>>
      BY <2>2, <3>1, LookupExact
    <3>3. Complete(inx)'
      BY <1>4, <3>1
    <3> HIDE DEF I, v, C
    <3>4. CASE Answer(p, "killed")
      <4>1. pc'[p] = "idle" /\ res'[p] = "killed"
        BY <1>0, <3>4 DEF Answer, Goto, Control, Rest
      <4> QED BY <3>3, <4>1 DEF GetInv
    <3>5. CASE Answer(p, "absent") /\ (k \in StrKey => ~I)
      <4>1. pc'[p] = "idle" /\ res'[p] = "absent"
        BY <1>0, <3>5 DEF Answer, Goto, Control, Rest
      <4> QED BY <1>1, <1>4, <3>3, <3>5, <4>1 DEF GetInv
    <3>6. CASE /\ off' = [off EXCEPT ![p] = v] /\ Goto(p, "fetch")
               /\ [key |-> k, value |-> v] \in Pointing
               /\ UNCHANGED <<seen, res, calm>>
      <4>1. pc'[p] = "fetch" /\ off'[p] = v /\ res'[p] = "none"
        BY <1>0, <3>1, <3>6 DEF Goto, Control, Rest
      <4>2. Target(p)' \in Pointing'
        BY <1>1, <3>6, <4>1 DEF Target
      <4> QED BY <3>3, <4>1, <4>2 DEF GetInv
    <3> QED BY <3>2, <3>4, <3>5, <3>6
  <2>3. CASE Lookup(p) /\ ~calm[p]
    <3>1. calm' = calm
      BY <2>3 DEF Lookup, Answer
    <3>2. pc'[p] = "idle" \/ (pc'[p] = "fetch" /\ res' = res)
      BY <1>0, <2>3 DEF Lookup, Answer, Goto, Control
    <3>3. res[p] = "none"
      BY <1>5, <2>3 DEF Lookup, GetInv
    <3> QED BY <2>3, <3>1, <3>2, <3>3, NoGet
  <2>4. CASE Fetch(p)
    <3>1. /\ pc[p] = "fetch" /\ pc'[p] = "idle" /\ res'[p] = "found"
          /\ UNCHANGED <<off, calm>>
      BY <1>0, <2>4 DEF Fetch, Answer, Goto, Control, Rest
    <3>2. Target(p)' = Target(p)
      BY <1>1, <3>1 DEF Target
    <3> HIDE DEF C, I, k
    <3> QED BY <1>1, <1>4, <1>5, <3>1, <3>2 DEF GetInv, C
  <2> QED BY <2>1, <2>2, <2>3, <2>4 DEF GetRecord
<1>7. pc'[p] # "head"
  BY <1>0, <1>2 DEF Control
<1> QED BY <1>1, <1>3, <1>6, <1>7, OneProcessQuiet

\* A get during which nobody rewrites the index file finds the record of its
\* key if index 0 has the key, and finds nothing else; it never fails.  (For a
\* number it may answer that the key is not there when it is.)
THEOREM QuietGetsAreExact == ~PidReuse /\ Spec => []QuietGetIsExact
<1> SUFFICES ASSUME ~PidReuse PROVE Spec => []QuietGetIsExact
  OBVIOUS
<1>1. Init => QuietInv
  BY DEF Init, QuietInv, GetInv, NoCommand
<1>2. StoreInv /\ StoreInv' /\ PointsInv /\ KeysAreNamed /\ QuietInv /\ [Next]_vars => QuietInv'
  <2> SUFFICES ASSUME StoreInv, StoreInv', PointsInv, KeysAreNamed, QuietInv, [Next]_vars
               PROVE  QuietInv'
    OBVIOUS
  <2>1. CASE UNCHANGED vars
    <3>1. UNCHANGED <<inx, pc, cmd, off, seen, res, calm>> /\ Pointing' = Pointing
      BY <2>1 DEF vars, Pointing
    <3>2. \A q \in Proc : GetInv(q)'
      BY <3>1, GetUnchanged DEF QuietInv
    <3> QED BY <3>1, <3>2 DEF QuietInv
  <2>2. CASE Next
    <3>1. PICK p \in Proc : \/ \E c \in Command : Begin(p, c)
                           \/ LockIndex(p) \/ Write(p) \/ Rewrite(p) \/ Unlock(p)
                           \/ GetRecord(p)
                           \/ Kill(p)
      BY <2>2 DEF Next
    <3> QED BY <3>1, OtherStepsQuiet, WriteQuiet, RewriteQuiet, GetQuiet
  <2> QED BY <2>1, <2>2
<1> QED BY <1>1, <1>2, QuietInvIsExact, StoreInvariant, PointsInvariant, NamedInvariant,
       PTL DEF Spec

-----------------------------------------------------------------------------
(* The commands on a file whose keys are all strings implement KeyStore: one *)
(* change of the map at a time, each of the map the one before it left.      *)
(* (A table with numeric keys loses nodes when it is loaded, and a command   *)
(* that takes the place of a killed one loads a torn file: neither file is   *)
(* the map of KeyStore, hence the two assumptions.)                          *)

StringFile == StrKey = Key /\ ~PidReuse

\* One change of a table: none, empty, without k, or with k at v.
Follows(old, new, k, v) ==
    \/ new = old
    \/ new = NewTable(new.size)
    \/ k \in StrKey /\ Has(old, k) /\ new = Delete(old, k)
    \/ k \in StrKey /\ ~Has(old, k) /\ v \in Nat /\ new = Set(old, k, v)

\* Index 0 in memory is that of the file after one command.
Successor(p) == Follows(inx.body[1], mem[p][1], cmd[p].key, off[p])

\* What a writing command has in memory, and how much of it is in the file.
RewriterInv(p) ==
    /\ pc[p] \in Writing => mem[p] # <<>> /\ \A i \in DOMAIN mem[p] : StringTable(mem[p][i])
    /\ pc[p] \in {"data", "rest", "trunc"} => Successor(p)
    /\ pc[p] = "head" => inx = Truncated
    /\ pc[p] = "body" => \A i \in DOMAIN inx.body : inx.body[i] = mem[p][i]

IndexStrings == \A i \in DOMAIN inx.body : StringTable(inx.body[i])
BusyOwner == ~Complete(inx) => owner \in Proc /\ pc[owner] \in {"head", "body", "dead"}

RefInv == IndexStrings /\ BusyOwner /\ \A p \in Proc : RewriterInv(p)

NotRewrite(p) == \/ \E c \in Command : Begin(p, c)
                 \/ LockIndex(p) \/ Write(p) \/ Unlock(p) \/ GetRecord(p) \/ Kill(p)

\* While the index file is being rewritten, or after the rewriting command was
\* killed, nobody else touches what it was writing.
LEMMA BusyStays ==
  ASSUME ~PidReuse, StoreInv, TornInv, RefInv, ~Complete(inx), NEW p \in Proc, NotRewrite(p)
  PROVE  /\ owner' = owner /\ owner \in Proc /\ mem'[owner] = mem[owner]
         /\ pc'[owner] \in {"head", "body", "dead"}
<1>0. Control /\ Tables
  BY DEF StoreInv
<1>1. owner \in Proc /\ pc[owner] \in {"head", "body", "dead"}
  BY DEF RefInv, BusyOwner
<1>2. pc[p] \notin Protected \ {"head", "body"}
  BY DEF TornInv
<1>3. ASSUME p # owner, UNCHANGED lockvars, \E v : pc' = [pc EXCEPT ![p] = v],
             mem' = mem \/ \E v : mem' = [mem EXCEPT ![p] = v]
      PROVE  /\ owner' = owner /\ mem'[owner] = mem[owner]
             /\ pc'[owner] \in {"head", "body", "dead"}
  BY <1>0, <1>1, <1>3 DEF Control, Tables, lockvars
<1>4. CASE \E c \in Command : Begin(p, c)
  BY <1>1, <1>3, <1>4 DEF Begin, Goto
<1>5. CASE LockIndex(p)
  <2>1. pc[p] = "lock" /\ p # owner /\ Exit(p) /\ UNCHANGED lockvars
    BY <1>1, <1>5, IsamStoreAssumption DEF LockIndex, Lock!Acquire, Lock!Reclaim
  <2> QED BY <1>1, <1>3, <2>1 DEF Exit, Goto
<1>6. CASE Write(p)
  BY <1>2, <1>6 DEF Write, AddSet, WriteRecord, WriteRest, Del, DelAll, AddIndex, Protected
<1>7. CASE Unlock(p)
  BY <1>2, <1>7 DEF Unlock, Protected
<1>8. CASE GetRecord(p)
  BY <1>1, <1>3, <1>8 DEF GetRecord, Find, Lookup, Fetch, Answer, Goto
<1>9. CASE Kill(p)
  <2>1. CASE Dies(p) /\ UNCHANGED mem
    <3>1. owner = p /\ owner' = owner /\ pc' = [pc EXCEPT ![p] = "dead"]
      BY <2>1 DEF Dies, Lock!Die, Goto
    <3> QED BY <1>0, <1>1, <2>1, <3>1 DEF Control
  <2>2. CASE ~(owner = p /\ live) /\ Exit(p) /\ (UNCHANGED lockvars \/ Lock!Jam)
    <3>1. p # owner
      BY <1>0, <1>1, <1>9, <2>2 DEF Kill, Control, Owns, Protected
    <3>2. UNCHANGED lockvars
      BY <1>1, <2>2, IsamStoreAssumption DEF Lock!Jam
    <3> QED BY <1>1, <1>3, <2>2, <3>1, <3>2 DEF Exit, Goto
  <2> QED BY <1>9, <2>1, <2>2 DEF Kill
<1> QED BY <1>1, <1>4, <1>5, <1>6, <1>7, <1>8, <1>9 DEF NotRewrite

LEMMA NotRewriteKeepsIndex ==
  ASSUME NEW p \in Proc, NotRewrite(p) PROVE inx' = inx
BY DEF NotRewrite, Begin, LockIndex, Write, AddSet, WriteRecord, WriteRest, Del, DelAll,
       AddIndex, Unlock, GetRecord, Find, Lookup, Fetch, Kill

\* What is left to show of a step that does not rewrite the index file.
LEMMA OneProcessRef ==
  ASSUME ~PidReuse, StoreInv, TornInv, RefInv, NEW p \in Proc, NotRewrite(p),
         \A q \in Proc \ {p} : /\ pc'[q] = pc[q] /\ cmd'[q] = cmd[q]
                               /\ mem'[q] = mem[q] /\ off'[q] = off[q],
         RewriterInv(p)'
  PROVE  RefInv'
<1> DEFINE C == Complete(inx)
<1>1. inx' = inx /\ Complete(inx)' = C
  BY NotRewriteKeepsIndex DEF Complete
<1>2. IndexStrings'
  BY <1>1 DEF RefInv, IndexStrings
<1>3. BusyOwner'
  <2>1. CASE C
    BY <1>1, <2>1 DEF BusyOwner
  <2>2. CASE ~C
    BY <2>2, BusyStays DEF BusyOwner
  <2> QED BY <2>1, <2>2
<1>4. ASSUME NEW q \in Proc, q # p PROVE RewriterInv(q)'
  <2>1. RewriterInv(q) /\ (Successor(q) => Successor(q)')
    BY <1>1, <1>4 DEF RefInv, Successor
  <2> HIDE DEF C
  <2> QED BY <1>1, <1>4, <2>1 DEF RewriterInv
<1> QED BY <1>2, <1>3, <1>4 DEF RefInv

LEMMA OtherStepsRef ==
  ASSUME ~PidReuse, StoreInv, TornInv, RefInv, NEW p \in Proc,
         \/ \E c \in Command : Begin(p, c)
         \/ LockIndex(p) \/ Unlock(p) \/ GetRecord(p) \/ Kill(p)
  PROVE  RefInv'
<1>0. Control /\ Tables /\ Rest
  BY DEF StoreInv
<1>1. PICK l \in {"find", "lock", "load", "idle", "lookup", "fetch", "dead"} :
          pc' = [pc EXCEPT ![p] = l]
  BY DEF Begin, LockIndex, Unlock, GetRecord, Find, Lookup, Fetch, Kill, Exit, Dies, Answer, Goto
<1>2. \A q \in Proc \ {p} : /\ pc'[q] = pc[q] /\ cmd'[q] = cmd[q]
                            /\ mem'[q] = mem[q] /\ off'[q] = off[q]
  <2>1. ASSUME GetRecord(p) PROVE cmd' = cmd /\ mem' = mem /\ (off' = off \/ \E v : off' = [off EXCEPT ![p] = v])
    BY <2>1 DEF GetRecord, Find, Lookup, Fetch, Answer
  <2>2. ASSUME ~GetRecord(p)
        PROVE  /\ cmd' = cmd \/ \E v : cmd' = [cmd EXCEPT ![p] = v]
               /\ mem' = mem \/ \E v : mem' = [mem EXCEPT ![p] = v]
               /\ off' = off \/ \E v : off' = [off EXCEPT ![p] = v]
    BY <2>2 DEF Begin, LockIndex, Unlock, Kill, Exit
  <2> QED BY <1>0, <1>1, <2>1, <2>2 DEF Control, Tables, Rest
<1>3. RewriterInv(p)'
  <2>1. pc'[p] \notin Writing
    BY <1>0, <1>1 DEF Control, Writing
  <2> QED BY <2>1 DEF RewriterInv, Writing
<1> QED BY <1>2, <1>3, OneProcessRef DEF NotRewrite

-----------------------------------------------------------------------------
(* The commands that load the tables.                                        *)

\* A complete file of string tables is loaded as it is.
LEMMA LoadedIsBody ==
  ASSUME StoreInv, RefInv, Complete(inx)
  PROVE  /\ inx.num \in Nat \ {0} /\ GoodTables(ReadAllIndexFile(inx))
         /\ DOMAIN ReadAllIndexFile(inx) = 1..inx.num
         /\ \A i \in 1..inx.num : /\ ReadAllIndexFile(inx)[i] = inx.body[i]
                                  /\ ReadIndexFile(inx, i) = inx.body[i]
                                  /\ i \in DOMAIN inx.body
                                  /\ GoodTable(inx.body[i]) /\ StringTable(inx.body[i])
<1>1. inx.num \in Nat \ {0} /\ GoodTables(inx.body)
  BY DEF StoreInv, Tables, Complete
<1>2. ASSUME NEW i \in 1..inx.num
      PROVE  /\ ReadIndexFile(inx, i) = inx.body[i] /\ i \in DOMAIN inx.body
             /\ GoodTable(inx.body[i]) /\ StringTable(inx.body[i])
  <2>1. /\ ReadIndexFile(inx, i) = Load(inx.body[i]) /\ i \in DOMAIN inx.body
        /\ GoodTable(inx.body[i])
    BY <1>1, CompleteIsLoaded
  <2>2. StringTable(inx.body[i])
    BY <2>1 DEF RefInv, IndexStrings
  <2> QED BY <2>1, <2>2, LoadStrings DEF StringTable, GoodTable
<1> QED BY <1>1, <1>2, ReadAllIndexFileIsGood DEF ReadAllIndexFile

LEMMA LoadedRefStep ==
  ASSUME ~PidReuse, StoreInv, TornInv, RefInv, NEW p \in Proc, Write(p), NEW s, UNCHANGED cmd,
         off' = off \/ \E v : off' = [off EXCEPT ![p] = v],
         \/ (Fails(p) \/ Dies(p)) /\ UNCHANGED mem
         \/ /\ Changed(p, s, "data") \/ Changed(p, s, "trunc")
            /\ s # <<>> /\ \A i \in DOMAIN s : StringTable(s[i])
            /\ Follows(inx.body[1], s[1], cmd[p].key, off'[p])
  PROVE  RefInv'
<1>0. Control /\ Tables /\ Rest
  BY DEF StoreInv
<1>1. PICK l \in {"unlock", "dead", "trunc", "data"} : pc' = [pc EXCEPT ![p] = l]
  BY DEF Fails, Dies, Changed, Goto
<1>2. \A q \in Proc \ {p} : /\ pc'[q] = pc[q] /\ cmd'[q] = cmd[q]
                            /\ mem'[q] = mem[q] /\ off'[q] = off[q]
  BY <1>0, <1>1 DEF Control, Tables, Rest, Changed
<1>3. RewriterInv(p)'
  <2>1. CASE (Fails(p) \/ Dies(p)) /\ UNCHANGED mem
    <3>1. pc'[p] \notin Writing
      BY <1>0, <2>1 DEF Fails, Dies, Goto, Control, Writing
    <3> QED BY <3>1 DEF RewriterInv, Writing
  <2>2. CASE /\ Changed(p, s, "data") \/ Changed(p, s, "trunc")
             /\ s # <<>> /\ \A i \in DOMAIN s : StringTable(s[i])
             /\ Follows(inx.body[1], s[1], cmd[p].key, off'[p])
    <3>1. mem'[p] = s /\ pc'[p] \in {"data", "trunc"}
      BY <1>0, <2>2 DEF Changed, Goto, Control, Tables
    <3>2. inx' = inx
      BY NotRewriteKeepsIndex DEF NotRewrite
    <3>3. Successor(p)'
      BY <2>2, <3>1, <3>2 DEF Successor
    <3> QED BY <2>2, <3>1, <3>3 DEF RewriterInv
  <2> QED BY <2>1, <2>2
<1> QED BY <1>2, <1>3, OneProcessRef DEF NotRewrite

LEMMA AddSetRef ==
  ASSUME StringFile, StoreInv, TornInv, RefInv, NEW p \in Proc, AddSet(p) PROVE RefInv'
<1> DEFINE k == cmd[p].key
           ht == ReadAllIndexFile(inx)
           s == [ht EXCEPT ![1] = Set(ht[1], k, Len(dat))]
<1>0. Rest /\ Complete(inx) /\ Len(dat) \in Nat
  BY LenProperties DEF StoreInv, Rest, TornInv, AddSet, Protected
<1>1. /\ inx.num \in Nat \ {0} /\ DOMAIN ht = 1..inx.num
      /\ \A i \in 1..inx.num : ht[i] = inx.body[i] /\ GoodTable(ht[i]) /\ StringTable(ht[i])
  BY <1>0, LoadedIsBody
<1>2. CASE (Fails(p) \/ Dies(p)) /\ UNCHANGED <<mem, off>>
  <2>1. UNCHANGED cmd
    BY DEF AddSet
  <2> QED BY <1>2, <2>1, LoadedRefStep DEF StringFile, Write
<1>3. CASE ~((Fails(p) \/ Dies(p)) /\ UNCHANGED <<mem, off>>)
  <2>1. /\ Changed(p, s, "data") /\ off' = [off EXCEPT ![p] = Len(dat)]
        /\ k # ZeroKey /\ ~Has(ht[1], k) /\ UNCHANGED cmd
    BY <1>3 DEF AddSet
  <2>2. k \in StrKey
    <3>1. k \in Key \union {ZeroKey}
      BY <1>0 DEF Rest, Command, NoCommand
    <3> QED BY <2>1, <3>1 DEF StringFile
  <2>3. off'[p] = Len(dat)
    BY <1>0, <2>1 DEF Rest
  <2> HIDE DEF ht, k
  <2>4. DOMAIN s = 1..inx.num /\ 1 \in DOMAIN s
    BY <1>1
  <2>5. StringTable(Set(ht[1], k, Len(dat)))
    BY <1>0, <1>1, <2>1, <2>2, GetOfSet
  <2>6. \A i \in DOMAIN s : StringTable(s[i])
    BY <1>1, <2>5
  <2>7. s[1] = Set(ht[1], k, Len(dat)) /\ ht[1] = inx.body[1]
    BY <1>1
  <2>8. Follows(inx.body[1], s[1], k, off'[p])
    BY <1>0, <2>1, <2>2, <2>3, <2>7 DEF Follows
  <2> HIDE DEF s
  <2>9. s # <<>>
    <3>1. 1 \in DOMAIN s /\ DOMAIN <<>> = {}
      BY <2>4
    <3> QED BY <3>1
  <2> QED BY <2>1, <2>6, <2>8, <2>9, LoadedRefStep DEF StringFile, Write, k
<1> QED BY <1>2, <1>3

LEMMA DelRef ==
  ASSUME StringFile, StoreInv, TornInv, RefInv, NEW p \in Proc, Del(p) PROVE RefInv'
<1> DEFINE k == cmd[p].key
           j == cmd[p].ix
           ht == ReadAllIndexFile(inx)
           s == [ht EXCEPT ![j] = Delete(ht[j], k)]
<1>0. Rest /\ Complete(inx) /\ UNCHANGED <<cmd, off>>
  BY DEF StoreInv, TornInv, Del, Protected
<1>1. /\ inx.num \in Nat \ {0} /\ DOMAIN ht = 1..inx.num
      /\ \A i \in 1..inx.num : ht[i] = inx.body[i] /\ GoodTable(ht[i]) /\ StringTable(ht[i])
  BY <1>0, LoadedIsBody
<1>2. CASE (Fails(p) \/ Dies(p)) /\ UNCHANGED mem
  BY <1>0, <1>2, LoadedRefStep DEF StringFile, Write
<1>3. CASE ~((Fails(p) \/ Dies(p)) /\ UNCHANGED mem)
  <2>1. Changed(p, s, "trunc") /\ k # ZeroKey /\ Has(ht[j], k) /\ ~(j > inx.num)
    BY <1>3 DEF Del
  <2>2. k \in StrKey
    <3>1. k \in Key \union {ZeroKey}
      BY <1>0 DEF Rest, Command, NoCommand
    <3> QED BY <2>1, <3>1 DEF StringFile
  <2>3. j \in 1..inx.num
    <3>1. j \in Nat \ {0}
      BY <1>0, IsamStoreAssumption DEF Rest, Command, NoCommand
    <3> QED BY <1>1, <2>1, <3>1
  <2> HIDE DEF ht, k, j
  <2>4. DOMAIN s = 1..inx.num /\ 1 \in DOMAIN s
    BY <1>1
  <2>5. StringTable(Delete(ht[j], k))
    BY <1>1, <2>1, <2>2, <2>3, GetOfDelete
  <2>6. \A i \in DOMAIN s : StringTable(s[i])
    BY <1>1, <2>5
  <2>7. s[1] = inx.body[1] \/ (j = 1 /\ s[1] = Delete(inx.body[1], k) /\ ht[1] = inx.body[1])
    BY <1>1
  <2>8. Follows(inx.body[1], s[1], k, off'[p])
    BY <2>1, <2>2, <2>7 DEF Follows
  <2> HIDE DEF s
  <2>9. s # <<>>
    <3>1. 1 \in DOMAIN s /\ DOMAIN <<>> = {}
      BY <2>4
    <3> QED BY <3>1
  <2> QED BY <1>0, <2>1, <2>6, <2>8, <2>9, LoadedRefStep DEF StringFile, Write, k
<1> QED BY <1>2, <1>3

LEMMA DelAllRef ==
  ASSUME StringFile, StoreInv, TornInv, RefInv, NEW p \in Proc, DelAll(p) PROVE RefInv'
<1> DEFINE n == ReadIndexFile(inx, 1).size
           s == [i \in 1..inx.num |-> NewTable(n)]
<1>0. Complete(inx) /\ UNCHANGED <<cmd, off>>
  BY DEF TornInv, DelAll, Protected
<1>1. inx.num \in Nat \ {0} /\ n \in Buckets
  <2>1. /\ inx.num \in Nat \ {0}
        /\ ReadIndexFile(inx, 1) = inx.body[1] /\ GoodTable(inx.body[1])
        /\ StringTable(inx.body[1])
    BY <1>0, LoadedIsBody
  <2> QED BY <2>1 DEF GoodTable, StringTable, Table
<1>2. \A i \in DOMAIN s : StringTable(s[i])
  <2>1. StringTable(NewTable(n))
    <3>1. n # 0
      BY <1>1, HashTblAssumption
    <3> QED BY <3>1, NewTableNodes DEF StringTable, NewTable
  <2> QED BY <2>1
<1>3. Follows(inx.body[1], s[1], cmd[p].key, off'[p]) /\ s # <<>>
  <2> HIDE DEF n
  <2>1. s[1] = NewTable(n) /\ NewTable(n).size = n /\ DOMAIN s = 1..inx.num
    BY <1>1 DEF NewTable
  <2> HIDE DEF s
  <2> QED BY <1>1, <2>1 DEF Follows
<1>4. \/ Fails(p) /\ UNCHANGED mem
      \/ Changed(p, s, "trunc")
  BY DEF DelAll
<1> HIDE DEF s
<1> QED BY <1>0, <1>2, <1>3, <1>4, LoadedRefStep DEF StringFile, Write

LEMMA AddIndexRef ==
  ASSUME StringFile, StoreInv, TornInv, RefInv, NEW p \in Proc, AddIndex(p) PROVE RefInv'
<1> DEFINE ht == ReadAllIndexFile(inx)
           s == Append(ht, NewTable(Bucket))
<1>0. Complete(inx) /\ UNCHANGED <<cmd, off>>
  BY DEF TornInv, AddIndex, Protected
<1>1. /\ inx.num \in Nat \ {0} /\ GoodTables(ht) /\ DOMAIN ht = 1..inx.num
      /\ \A i \in 1..inx.num : ht[i] = inx.body[i] /\ StringTable(ht[i])
  BY <1>0, LoadedIsBody
<1>2. NewTable(Bucket) \in Table /\ StringTable(NewTable(Bucket))
  <2>1. Bucket \in Buckets /\ Bucket # 0
    BY IsamStoreAssumption, HashTblAssumption
  <2> QED BY <2>1, NewTableIsGood, NewTableNodes DEF GoodTable, StringTable, NewTable
<1> HIDE DEF ht
<1>3. /\ ht \in Seq(Table) /\ s \in Seq(Table) /\ Len(s) = Len(ht) + 1
      /\ \A i \in 1..Len(ht) : s[i] = ht[i]
      /\ s[Len(ht) + 1] = NewTable(Bucket)
  BY <1>1, <1>2, AppendProperties DEF GoodTables
<1>4. \/ Fails(p) /\ UNCHANGED mem
      \/ Changed(p, s, "trunc")
  BY DEF AddIndex, ht
<1> HIDE DEF s
<1>5. DOMAIN s = 1..Len(ht)+1 /\ DOMAIN ht = 1..Len(ht) /\ Len(ht) \in Nat
  BY <1>3, LenProperties
<1>6. \A i \in DOMAIN s : StringTable(s[i])
  BY <1>1, <1>2, <1>3, <1>5
<1>7. s[1] = inx.body[1] /\ s # <<>>
  BY <1>1, <1>3, <1>5
<1>8. Follows(inx.body[1], s[1], cmd[p].key, off'[p])
  BY <1>7 DEF Follows
<1> QED BY <1>0, <1>4, <1>6, <1>7, <1>8, LoadedRefStep DEF StringFile, Write
-----------------------------------------------------------------------------
(* Writing the record and the index file.                                    *)

LEMMA RecordRef ==
  ASSUME ~PidReuse, StoreInv, TornInv, RefInv, NEW p \in Proc, WriteRecord(p) \/ WriteRest(p)
  PROVE  RefInv'
<1>0. Control
  BY DEF StoreInv
<1>1. /\ pc[p] \in {"data", "rest"} /\ UNCHANGED <<inx, cmd, mem, off>>
      /\ \E l \in {"rest", "trunc"} : pc' = [pc EXCEPT ![p] = l]
  BY DEF WriteRecord, WriteRest, Goto
<1>2. pc'[p] \in {"rest", "trunc"} /\ \A q \in Proc \ {p} : pc'[q] = pc[q]
  BY <1>0, <1>1 DEF Control
<1>3. RewriterInv(p) /\ Successor(p)' = Successor(p)
  BY <1>1 DEF RefInv, Successor
<1>4. RewriterInv(p)'
  BY <1>1, <1>2, <1>3 DEF RewriterInv, Writing
<1> QED BY <1>1, <1>2, <1>4, OneProcessRef DEF NotRewrite, Write

\* The next table in the file.
LEMMA NextBodyIs ==
  ASSUME StoreInv, RefInv, NEW p \in Proc, NextBody(p)
  PROVE  LET n == Len(inx.body)
         IN /\ n \in Nat /\ DOMAIN inx.body = 1..n /\ inx.num = Len(mem[p]) /\ n < inx.num
            /\ DOMAIN inx'.body = 1..n+1 /\ Len(inx'.body) = n + 1
            /\ inx'.num = inx.num /\ inx'.cur = "size"
            /\ \A i \in 1..n+1 : inx'.body[i] = mem[p][i] /\ i \in DOMAIN mem[p]
<1>0. Control /\ Tables /\ pc[p] = "body"
  BY DEF StoreInv, NextBody
<1>1. /\ inx' = [inx EXCEPT !.body = Append(inx.body, mem[p][Len(inx.body) + 1]), !.cur = "size"]
      /\ inx.num = Len(mem[p]) /\ Len(inx.body) < inx.num
  BY <1>0 DEF NextBody, Tables, BodyNum
<1>2. PICK n \in Nat : n = Len(inx.body)
  BY <1>0, LenProperties DEF Tables, GoodTables
<1>3. /\ inx.body \in Seq(Table) /\ mem[p] \in Seq(Table)
      /\ DOMAIN inx.body = 1..n /\ DOMAIN mem[p] = 1..Len(mem[p]) /\ Len(mem[p]) \in Nat
  BY <1>0, <1>2, LenProperties DEF Tables, GoodTables
<1>4. \A i \in 1..n+1 : i \in DOMAIN mem[p] /\ mem[p][i] \in Table
  BY <1>1, <1>2, <1>3, LenProperties
<1>5. /\ inx'.body = Append(inx.body, mem[p][n + 1]) /\ inx'.num = inx.num /\ inx'.cur = "size"
  BY <1>0, <1>1, <1>2 DEF Tables
<1>6. /\ inx'.body \in Seq(Table) /\ Len(inx'.body) = n + 1
      /\ \A i \in 1..n : inx'.body[i] = inx.body[i]
      /\ inx'.body[n + 1] = mem[p][n + 1]
  BY <1>2, <1>3, <1>4, <1>5, AppendProperties
<1>7. DOMAIN inx'.body = 1..n+1
  BY <1>6, LenProperties
<1>8. \A i \in 1..n : inx.body[i] = mem[p][i]
  BY <1>0, <1>3 DEF RefInv, RewriterInv
<1>9. \A i \in 1..n+1 : inx'.body[i] = mem[p][i]
  <2> TAKE i \in 1..n+1
  <2>1. i \in 1..n \/ i = n + 1
    BY <1>2
  <2> QED BY <1>6, <1>8, <2>1
<1> QED BY <1>1, <1>2, <1>3, <1>4, <1>5, <1>6, <1>7, <1>9

LEMMA RewriteRef ==
  ASSUME StoreInv, RefInv, NEW p \in Proc, Rewrite(p) PROVE RefInv'
<1>0. Control /\ Tables
  BY DEF StoreInv
<1>1. /\ pc[p] \in {"trunc", "head", "body"} /\ UNCHANGED <<mem, lockvars>>
      /\ \E l \in {"head", "body"} : pc' = [pc EXCEPT ![p] = l]
  BY <1>0 DEF Rewrite, TruncIndex, WriteHead, NextBody, WriteBody, RewriteStep, Goto, Control
<1>2. owner' = p /\ pc'[p] \in {"head", "body"}
  BY <1>0, <1>1 DEF Control, Owns, Protected, lockvars
<1>3. BusyOwner'
  BY <1>2 DEF BusyOwner
<1>4. ASSUME NEW q \in Proc, q # p PROVE RewriterInv(q)'
  <2>1. pc[q] \notin Protected /\ pc'[q] = pc[q]
    BY <1>0, <1>1, <1>4, OwnerIsAlone DEF Control, Protected
  <2> QED BY <2>1 DEF RewriterInv, Writing, Protected
<1>5. mem[p] # <<>> /\ \A i \in DOMAIN mem[p] : StringTable(mem[p][i])
  BY <1>1 DEF RefInv, RewriterInv, Writing
<1>6. ASSUME pc'[p] = "head" => inx' = Truncated,
             pc'[p] = "body" => \A i \in DOMAIN inx'.body : inx'.body[i] = mem[p][i]
      PROVE  RewriterInv(p)'
  BY <1>1, <1>2, <1>5, <1>6 DEF RewriterInv
<1>7. CASE TruncIndex(p)
  <2>1. inx' = Truncated /\ inx'.body = <<>> /\ pc'[p] = "head"
    BY <1>0, <1>7 DEF TruncIndex, Truncated, Goto, Control
  <2> QED BY <1>3, <1>4, <1>6, <2>1 DEF RefInv, IndexStrings
<1>8. CASE WriteHead(p) \/ WriteBody(p)
  <2>1. inx'.body = inx.body /\ pc'[p] = "body"
    BY <1>0, <1>8 DEF WriteHead, WriteBody, Tables, Goto, Control
  <2>2. \A i \in DOMAIN inx.body : inx.body[i] = mem[p][i]
    <3>1. CASE WriteHead(p)
      BY <3>1 DEF WriteHead, RefInv, RewriterInv, Truncated
    <3>2. CASE WriteBody(p)
      BY <3>2 DEF WriteBody, RefInv, RewriterInv
    <3> QED BY <1>8, <3>1, <3>2
  <2> QED BY <1>3, <1>4, <1>6, <2>1, <2>2 DEF RefInv, IndexStrings
<1>9. CASE NextBody(p)
  <2>1. PICK n \in Nat : /\ DOMAIN inx'.body = 1..n+1
                         /\ \A i \in 1..n+1 : inx'.body[i] = mem[p][i] /\ i \in DOMAIN mem[p]
    BY <1>9, NextBodyIs
  <2>2. IndexStrings'
    BY <1>5, <2>1 DEF IndexStrings
  <2>3. RewriterInv(p)'
    <3>1. pc'[p] = "body"
      BY <1>9 DEF NextBody
    <3> QED BY <1>6, <2>1, <3>1
  <2> QED BY <1>3, <1>4, <2>2, <2>3 DEF RefInv
<1> QED BY <1>7, <1>8, <1>9 DEF Rewrite

LEMMA RefInvariant == StringFile /\ Spec => []RefInv
<1> SUFFICES ASSUME StringFile PROVE Spec => []RefInv
  OBVIOUS
<1>1. Init => RefInv
  <2> SUFFICES ASSUME Init PROVE RefInv
    OBVIOUS
  <2>1. Bucket \in Buckets /\ Bucket # 0
    BY IsamStoreAssumption, HashTblAssumption
  <2>2. StringTable(NewTable(Bucket))
    BY <2>1, NewTableNodes DEF StringTable, NewTable
  <2>3. IndexStrings
    BY <2>2 DEF Init, IndexStrings
  <2>4. BusyOwner
    <3>1. Len(inx.body) = NrIndexes
      <4>1. GoodTable(NewTable(Bucket))
        BY <2>1, NewTableIsGood
      <4> QED BY <4>1, IsamStoreAssumption, FunctionIsGood DEF Init
    <3> QED BY <3>1, IsamStoreAssumption DEF Init, BusyOwner, Complete
  <2>5. \A p \in Proc : RewriterInv(p)
    BY DEF Init, RewriterInv, Writing
  <2> QED BY <2>3, <2>4, <2>5 DEF RefInv
<1>2. StoreInv /\ TornInv /\ RefInv /\ [Next]_vars => RefInv'
  <2> SUFFICES ASSUME StoreInv, TornInv, RefInv, [Next]_vars PROVE RefInv'
    OBVIOUS
  <2>1. CASE UNCHANGED vars
    <3>1. UNCHANGED <<inx, owner, pc, mem, cmd, off>> /\ (Complete(inx)' = Complete(inx))
      BY <2>1 DEF vars, lockvars, Complete
    <3>2. \A q \in Proc : Successor(q)' = Successor(q)
      BY <3>1 DEF Successor
    <3> QED BY <3>1, <3>2 DEF RefInv, IndexStrings, BusyOwner, RewriterInv
  <2>2. ASSUME NEW p \in Proc, Write(p) PROVE RefInv'
    BY <2>2, AddSetRef, RecordRef, DelRef, DelAllRef, AddIndexRef DEF Write, StringFile
  <2>3. CASE Next
    <3>1. PICK p \in Proc : \/ \E c \in Command : Begin(p, c)
                           \/ LockIndex(p) \/ Write(p) \/ Rewrite(p) \/ Unlock(p)
                           \/ GetRecord(p)
                           \/ Kill(p)
      BY <2>3 DEF Next
    <3> QED BY <2>2, <3>1, OtherStepsRef, RewriteRef DEF StringFile
  <2> QED BY <2>1, <2>3
<1> QED BY <1>1, <1>2, StoreInvariant, TornInvariant, PTL DEF Spec, StringFile
-----------------------------------------------------------------------------
(* The refinement, step by step.                                             *)

MapOf(t) == [k \in Key |-> Get(t, k)]

LEMMA StoreStutters ==
  ASSUME Index0' = Index0, Complete(inx)' = Complete(inx)
  PROVE  UNCHANGED Store!vars
BY DEF Store!vars

LEMMA InitImplements == StringFile /\ Init => Store!Init
<1> SUFFICES ASSUME StringFile, Init PROVE Store!Init
  OBVIOUS
<1>1. Bucket \in Buckets /\ Bucket # 0
  BY IsamStoreAssumption, HashTblAssumption
<1>2. GoodTable(NewTable(Bucket)) /\ StringTable(NewTable(Bucket))
  BY <1>1, NewTableIsGood, NewTableNodes DEF StringTable, NewTable
<1>3. Complete(inx) /\ inx.body[1] = NewTable(Bucket)
  <2>1. Len(inx.body) = NrIndexes
    BY <1>2, IsamStoreAssumption, FunctionIsGood DEF Init
  <2> QED BY <2>1, IsamStoreAssumption DEF Init, Complete
<1>4. Index0 = NewTable(Bucket)
  BY <1>2, <1>3, LoadStrings DEF Index0, StringTable, GoodTable
<1>5. \A k \in Key : Get(NewTable(Bucket), k) = NoRec
  BY <1>1, GetOfNew DEF StringFile
<1> QED BY <1>3, <1>4, <1>5 DEF Store!Init

\* A step that does not rewrite the index file changes nothing of the map.
LEMMA NotRewriteStutters ==
  ASSUME StringFile, StoreInv, TornInv, RefInv, NEW p \in Proc, NotRewrite(p)
  PROVE  UNCHANGED Store!vars
<1> DEFINE C == Complete(inx)
<1>1. inx' = inx /\ Complete(inx)' = C
  BY NotRewriteKeepsIndex DEF Complete
<1>2. CASE C
  <2>1. Index0 = Load(inx.body[1]) /\ Index0' = Load(inx'.body[1])
    BY <1>1, <1>2 DEF Index0
  <2> QED BY <1>1, <2>1, StoreStutters
<1>3. CASE ~C
  <2>1. owner' = owner /\ mem'[owner] = mem[owner]
    BY <1>3, BusyStays DEF StringFile
  <2>2. Index0 = Load(mem[owner][1]) /\ Index0' = Load(mem'[owner'][1])
    BY <1>1, <1>3 DEF Index0
  <2>3. Index0' = Index0
    BY <2>1, <2>2
  <2> QED BY <1>1, <2>3, StoreStutters
<1> QED BY <1>2, <1>3

\* The truncation is where one change of the map is made.
LEMMA FollowsIsChange ==
  ASSUME StringFile, NEW old, NEW new, NEW k, NEW v,
         GoodTable(old), StringTable(old), GoodTable(new), StringTable(new),
         Follows(old, new, k, v), NodesIn(new, Pointing)
  PROVE  LET m == MapOf(old)
             n == MapOf(new)
         IN \/ n = m
            \/ n = [j \in Key |-> NoRec]
            \/ k \in Key /\ m[k] # NoRec /\ n = [m EXCEPT ![k] = NoRec]
            \/ /\ k \in Key /\ m[k] = NoRec /\ n[k] \in Nat /\ \A j \in Key : m[j] # n[k]
               /\ n = [m EXCEPT ![k] = n[k]]
<1> DEFINE m == MapOf(old)
           n == MapOf(new)
<1>0. NoRec \notin Nat /\ Key = StrKey /\ Key \subseteq NodeKey
  BY HashTblAssumption DEF StringFile, NodeKey
<1>1. CASE new = old
  BY <1>1
<1>2. CASE new = NewTable(new.size)
  <2>1. new.size \in Buckets
    BY DEF GoodTable, Table, StringTable
  <2>2. \A j \in Key : Get(new, j) = NoRec
    BY <1>0, <1>2, <2>1, GetOfNew
  <2> QED BY <2>2 DEF MapOf
<1>3. CASE k \in StrKey /\ Has(old, k) /\ new = Delete(old, k)
  <2>1. \A j \in Key : Get(new, j) = IF j = k THEN NoRec ELSE Get(old, j)
    BY <1>0, <1>3, GetOfDelete
  <2>2. Get(old, k) \in Nat
    <3>1. old.size # 0 /\ NodesIn(old, Strings)
      BY DEF StringTable
    <3> QED BY <1>0, <1>3, <3>1, GetIsNode
  <2> QED BY <1>0, <1>3, <2>1, <2>2 DEF MapOf
<1>4. CASE k \in StrKey /\ ~Has(old, k) /\ v \in Nat /\ new = Set(old, k, v)
  <2>1. \A j \in Key : Get(new, j) = IF j = k THEN v ELSE Get(old, j)
    BY <1>0, <1>4, GetOfSet
  <2>2. Get(old, k) = NoRec
    BY <1>4 DEF Get
  <2>3. ASSUME NEW j \in Key, Get(old, j) = v PROVE FALSE
    <3>1. j # k /\ Get(new, j) = v /\ Get(new, k) = v
      BY <1>0, <1>4, <2>1, <2>2, <2>3
    <3>2. Has(new, j) /\ Has(new, k) /\ new.size # 0
      BY <1>0, <1>4, <3>1 DEF Get, StringTable
    <3>3. [key |-> j, value |-> v] \in Pointing /\ [key |-> k, value |-> v] \in Pointing
      BY <1>0, <1>4, <3>1, <3>2, GetIsNode
    <3>4. [key |-> j, whole |-> TRUE] = [key |-> k, whole |-> TRUE]
      BY <3>3 DEF Pointing
    <3> QED BY <3>1, <3>4
  <2> QED BY <1>0, <1>4, <2>1, <2>2, <2>3 DEF MapOf
<1> QED BY <1>1, <1>2, <1>3, <1>4 DEF Follows

LEMMA TruncImplements ==
  ASSUME StringFile, StoreInv, TornInv, PointsInv, RefInv, NEW p \in Proc, TruncIndex(p)
  PROVE  Store!Change
<1> DEFINE old == inx.body[1]
           new == mem[p][1]
           k == cmd[p].key
<1>1. pc[p] = "trunc" /\ inx' = Truncated /\ UNCHANGED <<lockvars, mem>>
  BY DEF TruncIndex
<1>2. Complete(inx) /\ owner = p
  BY <1>1 DEF TornInv, Protected, StoreInv, Control, Owns
<1>3. ~Complete(inx)'
  BY <1>1 DEF Complete, Truncated
<1>4. GoodTable(old) /\ StringTable(old)
  BY <1>2, LoadedIsBody
<1>5. GoodTable(new) /\ StringTable(new) /\ NodesIn(new, Pointing)
  <2>1. mem[p] # <<>> /\ GoodTables(mem[p])
    BY <1>1 DEF RefInv, RewriterInv, Writing, StoreInv, Tables
  <2>2. 1 \in DOMAIN mem[p]
    BY <2>1, EmptySeq, LenProperties DEF GoodTables
  <2>3. NodesIn(mem[p][1], Pointing \union NotYet(p)) /\ NotYet(p) = {}
    BY <1>1, <2>2 DEF PointsInv, WriterPoints, Writing, NotYet
  <2> QED BY <1>1, <2>1, <2>2, <2>3, GoodTableAt DEF RefInv, RewriterInv, Writing
<1>6. Index0 = old /\ Index0' = new
  <2>1. Index0 = Load(old) /\ Index0' = Load(mem'[owner'][1])
    BY <1>2, <1>3 DEF Index0
  <2>2. Load(old) = old /\ Load(new) = new
    BY <1>4, <1>5, LoadStrings DEF StringTable, GoodTable
  <2> QED BY <1>1, <1>2, <2>1, <2>2 DEF lockvars
<1>7. Follows(old, new, k, off[p])
  BY <1>1 DEF RefInv, RewriterInv, Successor
<1> DEFINE m == MapOf(old)
           n == MapOf(new)
<1>8. \/ n = m
      \/ n = [j \in Key |-> NoRec]
      \/ k \in Key /\ m[k] # NoRec /\ n = [m EXCEPT ![k] = NoRec]
      \/ /\ k \in Key /\ m[k] = NoRec /\ n[k] \in Nat /\ \A j \in Key : m[j] # n[k]
         /\ n = [m EXCEPT ![k] = n[k]]
  BY <1>4, <1>5, <1>7, FollowsIsChange
<1>9. [j \in Key |-> Get(Index0, j)] = m /\ [j \in Key |-> Get(Index0, j)]' = n
  BY <1>6 DEF MapOf
<1> HIDE DEF m, n, k
<1> QED BY <1>2, <1>3, <1>8, <1>9
     DEF Store!Change, Store!Remove, Store!Put, Store!Clear, Store!Keep

LEMMA RewriteImplements ==
  ASSUME StringFile, StoreInv, TornInv, PointsInv, RefInv, NEW p \in Proc, Rewrite(p)
  PROVE  Store!Next \/ UNCHANGED Store!vars
<1>0. Control /\ Tables
  BY DEF StoreInv
<1>1. CASE TruncIndex(p)
  BY <1>1, TruncImplements DEF Store!Next
<1>2. CASE ~TruncIndex(p)
  <2>1. pc[p] \in {"head", "body"} /\ owner = p /\ UNCHANGED <<lockvars, mem>>
    BY <1>0, <1>2 DEF Rewrite, WriteHead, NextBody, WriteBody, RewriteStep, Control, Owns, Protected
  <2>2. ~Complete(inx)
    <3>1. CASE WriteHead(p)
      BY <3>1 DEF WriteHead, RefInv, RewriterInv, Truncated, Complete
    <3>2. CASE NextBody(p)
      <4>1. inx.num \in Nat /\ Len(inx.body) \in Nat /\ Len(inx.body) < inx.num
        BY <1>0, <3>2, LenProperties DEF NextBody, Tables, GoodTables
      <4> QED BY <4>1 DEF Complete
    <3>3. CASE WriteBody(p)
      BY <3>3 DEF WriteBody, Complete
    <3> QED BY <1>2, <3>1, <3>2, <3>3 DEF Rewrite
  <2>3. Index0 = Load(mem[p][1])
    BY <2>1, <2>2 DEF Index0
  <2>4. CASE ~Complete(inx)'
    <3>1. Index0' = Load(mem'[owner'][1])
      BY <2>4 DEF Index0
    <3>2. Index0' = Index0
      BY <2>1, <2>3, <3>1 DEF lockvars
    <3>3. Complete(inx)' = FALSE /\ Complete(inx) = FALSE
      BY <2>2, <2>4 DEF Complete
    <3> QED BY <3>2, <3>3, StoreStutters
  <2>5. CASE Complete(inx)'
    <3>1. WriteBody(p)
      <4>1. ASSUME WriteHead(p) PROVE FALSE
        <5>1. inx'.num = Len(mem[p]) /\ inx'.body = <<>>
          BY <1>0, <4>1 DEF WriteHead, RefInv, RewriterInv, Truncated
        <5>2. inx'.num > 0 /\ Len(inx'.body) = inx'.num
          BY <2>5 DEF Complete
        <5> QED BY <5>1, <5>2
      <4>2. ASSUME NextBody(p) PROVE FALSE
        <5>1. inx'.cur = "size"
          BY <4>2, NextBodyIs
        <5> QED BY <2>5, <5>1 DEF Complete
      <4> QED BY <1>2, <4>1, <4>2 DEF Rewrite
    <3>2. inx'.body = inx.body /\ inx'.num = inx.num /\ pc[p] = "body"
      BY <1>0, <3>1 DEF WriteBody, Tables
    <3>3. inx'.body[1] = mem[p][1]
      <4>1. inx.num > 0 /\ Len(inx.body) = inx.num /\ inx.num \in Nat
            /\ DOMAIN inx.body = 1..Len(inx.body)
        BY <1>0, <2>5, <3>2, LenProperties DEF Complete, Tables, GoodTables
      <4>2. 1 \in DOMAIN inx.body
        BY <4>1
      <4> QED BY <3>2, <4>2 DEF RefInv, RewriterInv
    <3>4. Index0' = Load(inx'.body[1])
      BY <2>5 DEF Index0
    <3>5. Index0' = Index0
      BY <2>3, <3>3, <3>4
    <3> QED BY <2>2, <2>5, <3>5 DEF Store!Next, Store!Finish
  <2> QED BY <2>4, <2>5
<1> QED BY <1>1, <1>2

\* On a file of string keys, writing commands that interleave with gets and with
\* each other, and are killed anywhere, make one change of the map of keys at a
\* time: an added key was not there and points to a position of its own, a
\* deleted one was there, nothing else changes, and each command works on the
\* map that the one before it left.
THEOREM StoreImplementsKeyStore == StringFile /\ Spec => ImplementsKeyStore
<1> SUFFICES ASSUME StringFile PROVE Spec => ImplementsKeyStore
  OBVIOUS
<1>1. Init => Store!Init
  BY InitImplements
<1>2. StoreInv /\ TornInv /\ PointsInv /\ RefInv /\ [Next]_vars => [Store!Next]_(Store!vars)
  <2> SUFFICES ASSUME StoreInv, TornInv, PointsInv, RefInv, [Next]_vars
               PROVE  Store!Next \/ UNCHANGED Store!vars
    OBVIOUS
  <2>1. CASE UNCHANGED vars
    <3>1. Index0' = Index0 /\ Complete(inx)' = Complete(inx)
      BY <2>1 DEF vars, lockvars, Index0, Complete
    <3> QED BY <3>1, StoreStutters
  <2>2. CASE Next
    <3>1. PICK p \in Proc : NotRewrite(p) \/ Rewrite(p)
      BY <2>2 DEF Next, NotRewrite
    <3> QED BY <3>1, NotRewriteStutters, RewriteImplements
  <2> QED BY <2>1, <2>2
<1>3. StringFile /\ ~PidReuse
  BY DEF StringFile
<1> QED BY <1>1, <1>2, <1>3, StoreInvariant, TornInvariant, PointsInvariant, RefInvariant, PTL
     DEF Spec, ImplementsKeyStore, Store!Spec
=============================================================================
