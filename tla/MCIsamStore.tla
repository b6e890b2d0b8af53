---------------------------- MODULE MCIsamStore ----------------------------
(* IsamStore on a few commands and keys, most of them in one bucket. *)
EXTENDS IsamStore, TLC

CONSTANTS s1, s2,  \* keys of letters
          n1, n2   \* keys of digits

\* All keys in the last bucket but "" and the number 0, which hashes to 78 % n.
OneBucket == [n \in Buckets |->
                 [k \in NodeKey |-> IF k \in {ZeroKey, EmptyKey} THEN 0 ELSE n - 1]]

\* The string s2 in the bucket of the number 0.
ZeroBucket == [n \in Buckets |->
                  [k \in NodeKey |-> IF k \in {ZeroKey, EmptyKey, s2} THEN 0 ELSE n - 1]]

Symmetry == Permutations(Proc)
=============================================================================
