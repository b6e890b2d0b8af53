----------------------------- MODULE FileMutex -----------------------------
(***************************************************************************)
(* What the lock of lock.c is meant to give its callers, without the lock  *)
(* file: at most one live owner, an owner that dies keeps the lock, and    *)
(* only a process that carries the dead owner's pid can take it over.      *)
(***************************************************************************)
CONSTANTS Proc,    \* pids of the commands
          Free,    \* nobody owns the lock
          Jammed   \* nobody owns it and nobody will: the creator died too early

VARIABLES owner,  \* the pid that owns the lock, Free or Jammed
          live    \* whether the owner is still running

vars == <<owner, live>>

TypeOK == owner \in Proc \union {Free, Jammed} /\ live \in BOOLEAN

Init == owner = Free /\ live = FALSE

Acquire(p) == owner = Free /\ owner' = p /\ live' = TRUE

\* lock() returns 0 to a process whose pid is already in the file.
Reclaim(p) == owner = p /\ ~live /\ live' = TRUE /\ UNCHANGED owner

Release(p) == owner = p /\ live /\ owner' = Free /\ live' = FALSE

Die(p) == owner = p /\ live /\ live' = FALSE /\ UNCHANGED owner

Jam == owner = Free /\ owner' = Jammed /\ UNCHANGED live

Next == Jam \/ \E p \in Proc : Acquire(p) \/ Reclaim(p) \/ Release(p) \/ Die(p)

Spec == Init /\ [][Next]_vars
=============================================================================
