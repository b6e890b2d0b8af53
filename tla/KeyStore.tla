----------------------------- MODULE KeyStore ------------------------------
(***************************************************************************)
(* What the commands of isam.db promise of one database file: a map from   *)
(* keys to record positions.  A command changes at most one key, or clears *)
(* the map, and the map it leaves is the one every later command works on. *)
(* While the index file is being rewritten no other change is made; if the *)
(* rewriting command is killed, none is made ever after.                   *)
(***************************************************************************)
EXTENDS Naturals

CONSTANTS Key, NoRec

VARIABLES map,   \* position of the record of each key
          busy   \* the index file is being rewritten

vars == <<map, busy>>

TypeOK == map \in [Key -> Nat \union {NoRec}] /\ busy \in BOOLEAN

Init == map = [k \in Key |-> NoRec] /\ busy = FALSE

\* The key of a record cannot be given to a new one (README.md, -k); the
\* position of a new record is that of no other.
Put(k) == /\ map[k] = NoRec
          /\ map'[k] \in Nat
          /\ \A j \in Key : map[j] # map'[k]
          /\ map' = [map EXCEPT ![k] = map'[k]]

Remove(k) == map[k] # NoRec /\ map' = [map EXCEPT ![k] = NoRec]

Clear == map' = [k \in Key |-> NoRec]

Keep == UNCHANGED map                    \* indexes are added, the keys stay

Change == /\ ~busy /\ busy' = TRUE
          /\ \/ \E k \in Key : Remove(k) \/ Put(k)
             \/ Clear
             \/ Keep

Finish == busy /\ busy' = FALSE /\ UNCHANGED map

Next == Change \/ Finish

Spec == Init /\ [][Next]_vars
=============================================================================
