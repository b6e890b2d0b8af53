---------------------------- MODULE MCLockFile ----------------------------
(* LockFile on small sets of pids and inodes. *)
EXTENDS LockFile, TLC

CONSTANTS p1, p2, p3

SameWidth == [p \in Proc |-> 5]
MixedWidth == [p \in Proc |-> IF p = p1 THEN 4 ELSE 5]

SymSame == Permutations(Proc) \union Permutations(Inode)
=============================================================================
