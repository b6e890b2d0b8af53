------------------------------ MODULE HashTbl ------------------------------
(***************************************************************************)
(* hash_tbl.c and the reading half of the index file (file.c): what set,   *)
(* get, delete and the load of a table from disk do to a table.  A table   *)
(* is its number of buckets and a chain of nodes per bucket.  hash() is a  *)
(* constant function here.                                                 *)
(***************************************************************************)
EXTENDS Naturals, SequencesExt, Positions

CONSTANTS Key,      \* keys a command can name
          StrKey,   \* those with a letter or punctuation: key_type STR
          ZeroKey,  \* the number 0, which key_converter gives to no command
          EmptyKey, \* the string "", which it takes for the number 0
          Buckets,  \* table sizes in use
          MaxHtBucket,  \* MAX_HT_BUCKET: the buckets a table has memory for
          Hash,     \* Hash[n][k]: bucket of k among n
          NoRec     \* get() found nothing (-1 in the code)

NodeKey == Key \union {ZeroKey, EmptyKey}
IsString(k) == k \in StrKey \union {EmptyKey}

ASSUME HashTblAssumption ==
    /\ StrKey \subseteq Key
    /\ ZeroKey \notin Key /\ EmptyKey \notin Key \union {ZeroKey}
    /\ MaxHtBucket \in Nat /\ Buckets \subseteq 1..MaxHtBucket
    /\ Hash \in [Buckets -> [NodeKey -> Nat]]
    /\ \A k \in NodeKey, n \in Buckets : Hash[n][k] < n
    /\ \A n \in Buckets : Hash[n][EmptyKey] = 0
    /\ NoRec \notin Nat

Node == [key : NodeKey, value : Nat]

Table == [size : Buckets \union {0}, map : [0..MaxHtBucket-1 -> Seq(Node)]]

\* An empty table with n buckets in use; HashTable ht = {0} uses none.
NewTable(n) == [size |-> n, map |-> [b \in 0..MaxHtBucket-1 |-> <<>>]]

Chain(t, k) == t.map[Hash[t.size][k]]

\* A string key is compared with key.s of every node it passes: on a numeric
\* node that is a number used as a pointer.
BadPointer(k, node) == k \in StrKey /\ ~IsString(node.key)

\* Variant: the scan takes the first node without comparing keys.
HitFirst(c, k, i) == i = 1 /\ ~BadPointer(k, c[i])

\* The scan for k along a chain stops at node i, or faults before it stops.
Hit(c, k, i) == /\ c[i].key = k
                /\ \A j \in 1..i-1 : c[j].key # k /\ ~BadPointer(k, c[j])
Found(c, k) == \E i \in DOMAIN c : Hit(c, k, i)
Faults(c, k) == \E i \in DOMAIN c : /\ BadPointer(k, c[i])
                                    /\ \A j \in 1..i-1 : c[j].key # k
Position(c, k) == CHOOSE i \in DOMAIN c : Hit(c, k, i)

\* An operation on k in t ends the process: hash() divides by size, for a
\* string also by size - 1, or the scan follows a bad pointer.
Kills(t, k) == t.size = 0 \/ (t.size = 1 /\ k \in StrKey) \/ Faults(Chain(t, k), k)

Has(t, k) == Found(Chain(t, k), k)

Get(t, k) == IF Has(t, k) THEN Chain(t, k)[Position(Chain(t, k), k)].value ELSE NoRec

\* Variants: the position is not known yet, or is that of the file just opened.
SetEarly(t, k, v) == [t EXCEPT !.map[Hash[t.size][k]] = Append(@, [key |-> k, value |-> NoRec])]
SetAtStart(t, k, v) == [t EXCEPT !.map[Hash[t.size][k]] = Append(@, [key |-> k, value |-> 0])]

\* set() refuses a key that Has; a new node goes to the end of its chain.
Set(t, k, v) == [t EXCEPT !.map[Hash[t.size][k]] = Append(@, [key |-> k, value |-> v])]

Delete(t, k) == [t EXCEPT !.map[Hash[t.size][k]] = RemoveAt(@, Position(@, k))]

Len0(t) == \A b \in DOMAIN t.map : t.map[b] = <<>>         \* len(*ht) == 0

\* write_ht writes the chains one after the other; read_index_file hashes the
\* nodes again in that order.  A string node goes to the end of its chain, a
\* numeric node is kept only if it finds its bucket empty (the loop sets the
\* local variable current, not the next field of the last node).
Kept(c) == {i \in DOMAIN c : i = 1 \/ IsString(c[i].key)}
Keep(c) == AtPositions(c, Kept(c))

Load(t) == [t EXCEPT !.map = [b \in DOMAIN t.map |-> Keep(t.map[b])]]
-----------------------------------------------------------------------------
(* What read_index_file makes of a table whose last node is torn.            *)

\* The bucket of the last node in file order.
LastBucket(t) == CHOOSE b \in DOMAIN t.map :
                     t.map[b] # <<>> /\ \A d \in DOMAIN t.map : d > b => t.map[d] = <<>>

LastNode(t) == t.map[LastBucket(t)][Len(t.map[LastBucket(t)])]

DropLast(t) == [t EXCEPT !.map[LastBucket(t)] = SubSeq(@, 1, Len(@) - 1)]

\* Written up to its key: the value reads as 0.
ZeroValue(t) == LET b == LastBucket(t)
                    n == Len(t.map[b])
                IN Load([t EXCEPT !.map[b][n] = [key |-> t.map[b][n].key, value |-> 0]])

\* Variant: a zero number goes to the end of its bucket, whatever that holds.
ZeroKeyAlways(t) == LET rest == Load(DropLast(t))
                    IN Set(rest, IF IsString(LastNode(t).key) THEN EmptyKey ELSE ZeroKey, 0)

\* Written up to its type, a number reads as 0 and is kept only if it finds its
\* bucket empty; written up to its length, a string reads as "" and goes to the
\* end of bucket 0, whatever is there.
ZeroKeyNode(t) == LET rest == Load(DropLast(t))
                  IN IF IsString(LastNode(t).key) THEN Set(rest, EmptyKey, 0)
                     ELSE IF Chain(rest, ZeroKey) # <<>> THEN rest
                     ELSE Set(rest, ZeroKey, 0)
-----------------------------------------------------------------------------
\* The nodes of a chain belong in its bucket and no two have the same key, but
\* for "", which several torn nodes may have left.
WellChained(c, b, n) ==
    \A i \in DOMAIN c :
        /\ Hash[n][c[i].key] = b
        /\ \A j \in DOMAIN c : c[i].key = c[j].key /\ c[i].key # EmptyKey => i = j

\* Every node is where get, set and delete look for its key.
WellPlaced(t) == \A b \in DOMAIN t.map : WellChained(t.map[b], b, t.size)
=============================================================================
