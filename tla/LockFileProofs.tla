--------------------------- MODULE LockFileProofs ---------------------------
(* What LockFile guarantees for every set of pids and inodes. *)
EXTENDS LockFile, TLAPS

\* The variables have their types, and the stream of fopen("w") is open just
\* while the pid is written.
THEOREM TypeCorrect == Spec => []TypeOK
<1> USE LockFileAssumption
<1>1. Init => TypeOK
  BY DEF Init, TypeOK, Content, Empty, Label
<1>2. TypeOK /\ [Next]_vars => TypeOK'
  <2> SUFFICES ASSUME TypeOK, [Next]_vars PROVE TypeOK'
    OBVIOUS
  <2> USE DEF TypeOK, Content, Empty, Label, Window, Inside, Ended, Goto
  <2>1. ASSUME NEW p \in Proc, IsLocked(p) PROVE TypeOK'
    BY <2>1 DEF IsLocked
  <2>2. ASSUME NEW p \in Proc, LockRead(p) PROVE TypeOK'
    BY <2>2 DEF LockRead
  <2>3. ASSUME NEW p \in Proc, LockCreate(p) PROVE TypeOK'
    BY <2>3 DEF LockCreate
  <2>4. ASSUME NEW p \in Proc, LockWrite(p) PROVE TypeOK'
    <3>1. content' \in [Inode -> Content]
      <4>1. \A i \in Inode : WithPid(content[i], p) \in Content
        BY LockFileAssumption DEF WithPid
      <4> QED BY <2>4, <4>1 DEF LockWrite
    <3> QED BY <2>4, <3>1 DEF LockWrite
  <2>5. ASSUME NEW p \in Proc, UnlockRead(p) PROVE TypeOK'
    BY <2>5 DEF UnlockRead
  <2>6. ASSUME NEW p \in Proc, UnlockUnlink(p) PROVE TypeOK'
    BY <2>6 DEF UnlockUnlink
  <2>7. ASSUME NEW p \in Proc, DelFileUnlink(p) PROVE TypeOK'
    BY <2>7 DEF DelFileUnlink
  <2>8. ASSUME NEW p \in Proc, AddZeroKeepsLock(p) \/ Crash(p) PROVE TypeOK'
    BY <2>8 DEF AddZeroKeepsLock, Crash
  <2>9. ASSUME NEW p \in Proc, Recycle(p) PROVE TypeOK'
    BY <2>9 DEF Recycle
  <2>10. ASSUME UNCHANGED vars PROVE TypeOK'
    BY <2>10 DEF vars
  <2> QED
    BY <2>1, <2>2, <2>3, <2>4, <2>5, <2>6, <2>7, <2>8, <2>9, <2>10 DEF Next, Step
<1> QED BY <1>1, <1>2, PTL DEF Spec
-----------------------------------------------------------------------------
(* Who may leave the lock file behind.                                       *)

\* Between any two steps of any commands, a lock file with the pid of a command
\* means that the command is in its section, was killed there, or ended with an
\* error: lock.c:51-68 removes the file unless the tail of a longer pid follows
\* its own, and only an -a with the key 0 does not come there.
THEOREM LockIsNeverLeaked == Spec => []NoLeakedLock
<1> USE LockFileAssumption
<1>1. Init => NoLeakedLock
  BY DEF Init, NoLeakedLock, Empty, Linked
<1>2. TypeOK /\ NoLeakedLock /\ [Next]_vars => NoLeakedLock'
  <2> SUFFICES ASSUME TypeOK, NoLeakedLock, [Next]_vars PROVE NoLeakedLock'
    OBVIOUS
  <2> USE DEF TypeOK, Content, NoLeakedLock, Linked, LastLineIs, Goto, Inside, Ended
  <2>1. ASSUME NEW p \in Proc, IsLocked(p) PROVE NoLeakedLock'
    BY <2>1 DEF IsLocked
  <2>2. ASSUME NEW p \in Proc, LockRead(p) PROVE NoLeakedLock'
    BY <2>2 DEF LockRead
  <2>3. ASSUME NEW p \in Proc, LockCreate(p) PROVE NoLeakedLock'
    BY <2>3 DEF LockCreate, Empty
  <2>4. ASSUME NEW p \in Proc, LockWrite(p) PROVE NoLeakedLock'
    <3>1. \A i \in Inode : WithPid(content[i], p).pid = p
      BY DEF WithPid
    <3> QED BY <2>4, <3>1 DEF LockWrite
  <2>5. ASSUME NEW p \in Proc, UnlockRead(p) PROVE NoLeakedLock'
    BY <2>5 DEF UnlockRead
  <2>6. ASSUME NEW p \in Proc, UnlockUnlink(p) \/ DelFileUnlink(p) PROVE NoLeakedLock'
    BY <2>6 DEF UnlockUnlink, DelFileUnlink
  <2>7. ASSUME NEW p \in Proc, AddZeroKeepsLock(p) \/ Crash(p) PROVE NoLeakedLock'
    BY <2>7 DEF AddZeroKeepsLock, Crash
  <2>8. ASSUME NEW p \in Proc, Recycle(p) PROVE NoLeakedLock'
    BY <2>8 DEF Recycle
  <2>9. ASSUME UNCHANGED vars PROVE NoLeakedLock'
    BY <2>9 DEF vars
  <2> QED
    BY <2>1, <2>2, <2>3, <2>4, <2>5, <2>6, <2>7, <2>8, <2>9 DEF Next, Step
<1> QED BY <1>1, <1>2, TypeCorrect, PTL DEF Spec
-----------------------------------------------------------------------------
(* Mutual exclusion when acquisitions do not overlap.  It is not inductive:  *)
(* a command that creates the lock file must not find one, and the file must *)
(* stay as it made it until its pid is in.                                   *)

Creating == \A p \in Proc :
    /\ pc[p] = "create" => ~Linked
    /\ pc[p] = "write" => /\ name \in Inode /\ fp[p] = name
                          /\ content[name] = Empty

NamedPidIsWhole == \A p \in Proc : name \in Inode /\ content[name].pid = p =>
                       content[name].len = Digits[p]

DisjointInv == ~WindowsOverlap /\ Creating /\ NamedPidIsWhole /\ HolderOwnsFile

LEMMA DisjointIsSpec == SpecDisjoint => Spec
<1>1. [NextDisjoint]_vars => [Next]_vars
  BY DEF NextDisjoint, Next
<1> QED BY <1>1, PTL DEF SpecDisjoint, Spec

LEMMA DisjointInvariant == SpecDisjoint => []DisjointInv
<1> USE LockFileAssumption
<1>1. Init => DisjointInv
  BY DEF Init, DisjointInv, WindowsOverlap, Window, Creating, NamedPidIsWhole,
         HolderOwnsFile, Inside
<1>2. TypeOK /\ DisjointInv /\ [NextDisjoint]_vars => DisjointInv'
  <2> SUFFICES ASSUME TypeOK, DisjointInv, [NextDisjoint]_vars
               PROVE DisjointInv'
    OBVIOUS
  <2> DEFINE Parts == Creating /\ NamedPidIsWhole /\ HolderOwnsFile
  <2>0. ~WindowsOverlap /\ Parts
    BY DEF DisjointInv
  <2>1. SUFFICES ASSUME Next, ~WindowsOverlap' PROVE Parts'
    <3>1. ASSUME UNCHANGED vars PROVE DisjointInv'
      BY <3>1, <2>0 DEF vars, DisjointInv, WindowsOverlap, Creating, NamedPidIsWhole,
                   HolderOwnsFile, Linked, LastLineIs
    <3>2. ASSUME NEW p \in Proc, Crash(p) \/ Recycle(p) PROVE ~WindowsOverlap'
      <4>1. \A q \in Proc : pc'[q] \in Window => pc[q] \in Window
        BY <3>2 DEF Crash, Recycle, Goto, Window, TypeOK
      <4> QED BY <2>0, <4>1 DEF WindowsOverlap
    <3> QED BY <2>1, <3>1, <3>2 DEF NextDisjoint, Next, DisjointInv
  <2> USE <2>0 DEF TypeOK, Content, Linked, Goto, Creating, NamedPidIsWhole,
                   HolderOwnsFile, LastLineIs
  <2>2. ASSUME NEW p \in Proc, IsLocked(p) PROVE Parts'
    BY <2>2 DEF IsLocked, Inside
  <2>3. ASSUME NEW p \in Proc, LockRead(p) PROVE Parts'
    BY <2>3 DEF LockRead, Inside
  <2>4. ASSUME NEW p \in Proc, LockCreate(p) PROVE Parts'
    <3>1. ~Linked /\ \A q \in Proc : pc[q] \notin Inside
      BY <2>4 DEF LockCreate, Inside
    <3>2. \A q \in Proc : pc[q] \in Window => q = p
      BY <2>4 DEF LockCreate, WindowsOverlap, Window
    <3>3. PICK i \in Inode : /\ name' = i
                             /\ content' = [content EXCEPT ![i] = Empty]
                             /\ fp' = [fp EXCEPT ![p] = i]
      BY <2>4 DEF LockCreate
    <3>4. pc' = [pc EXCEPT ![p] = "write"]
      BY <2>4 DEF LockCreate
    <3>5. Creating'
      BY <3>2, <3>3, <3>4 DEF Window
    <3>6. NamedPidIsWhole'
      BY <3>3 DEF Empty
    <3>7. HolderOwnsFile'
      BY <3>1, <3>4 DEF Inside
    <3> QED BY <3>5, <3>6, <3>7
  <2>5. ASSUME NEW p \in Proc, LockWrite(p) PROVE Parts'
    <3>1. /\ name \in Inode /\ content[name] = Empty /\ fp[p] = name
          /\ UNCHANGED name /\ content' = [content EXCEPT ![name] = WithPid(Empty, p)]
          /\ pc' = [pc EXCEPT ![p] = "cs"] /\ fp' = [fp EXCEPT ![p] = NoFile]
      BY <2>5 DEF LockWrite
    <3>2. WithPid(Empty, p) = [pid |-> p, len |-> Digits[p]]
      BY DEF WithPid, Empty
    <3>3. \A q \in Proc : pc[q] \notin Inside
      BY <3>1 DEF Empty
    <3>4. \A q \in Proc : pc[q] \in Window => q = p
      BY <2>5 DEF LockWrite, WindowsOverlap, Window
    <3>5. Creating'
      BY <3>1, <3>4 DEF Window
    <3>6. NamedPidIsWhole' /\ HolderOwnsFile'
      BY <3>1, <3>2, <3>3 DEF Inside
    <3> QED BY <3>5, <3>6
  <2>6. ASSUME NEW p \in Proc, UnlockRead(p) PROVE Parts'
    BY <2>6 DEF UnlockRead, Inside
  <2>7. ASSUME NEW p \in Proc, UnlockUnlink(p) \/ DelFileUnlink(p) PROVE Parts'
    <3>1. /\ pc[p] \in Inside /\ name' = NoFile
          /\ pc' = [pc EXCEPT ![p] = "done"]
          /\ UNCHANGED <<content, fp>>
      BY <2>7 DEF UnlockUnlink, DelFileUnlink, Inside
    <3>2. \A q \in Proc : pc[q] # "write"
      BY <3>1 DEF Empty
    <3>3. \A q \in Proc : pc[q] \in Inside => q = p
      BY <3>1
    <3> QED BY <3>1, <3>2, <3>3 DEF Inside
  <2>8. ASSUME NEW p \in Proc, AddZeroKeepsLock(p) \/ Crash(p) PROVE Parts'
    BY <2>8 DEF AddZeroKeepsLock, Crash, Inside
  <2>9. ASSUME NEW p \in Proc, Recycle(p) PROVE Parts'
    BY <2>9 DEF Recycle, Ended, Inside
  <2> QED
    BY <2>1, <2>2, <2>3, <2>4, <2>5, <2>6, <2>7, <2>8, <2>9 DEF Next, Step
<1> QED BY <1>1, <1>2, TypeCorrect, DisjointIsSpec, PTL DEF SpecDisjoint

\* If no two commands are between the fopen that finds no lock file and the
\* fclose of the one they create, at most one is in its protected section: with
\* crashes, pids used again and pids of any width.
THEOREM DisjointMutualExclusion == SpecDisjoint => []MutualExclusion
<1>1. DisjointInv => MutualExclusion
  BY DEF DisjointInv, HolderOwnsFile, MutualExclusion, LastLineIs
<1> QED BY <1>1, DisjointInvariant, PTL

\* Under the same condition the lock file is whole and that of the command in
\* its section until it removes it: unlock finds its own pid.
THEOREM DisjointHolderOwnsFile == SpecDisjoint => []HolderOwnsFile
<1>1. DisjointInv => HolderOwnsFile
  BY DEF DisjointInv
<1> QED BY <1>1, DisjointInvariant, PTL
-----------------------------------------------------------------------------
(* The lock file implements FileMutex.                                       *)

owner == IF StuckEmpty THEN NoFile ELSE IF Linked THEN content[name].pid ELSE NoPid
live == \E p \in Proc : pc[p] \in Inside /\ Linked /\ content[name].pid = p

\* Each step of lock.c is a step of the mutex or none: fclose of the new lock
\* file acquires it, unlink releases it, a kill in the section (or the end of an -a
\* with the key 0) leaves it to the pid, and a kill between fopen and fclose
\* jams it.
THEOREM LockFileImplementsMutex == SpecDisjoint => ImplementsMutex
<1> USE LockFileAssumption
<1>1. Init => Mutex!Init
  BY DEF Init, Mutex!Init, StuckEmpty, FileEmpty, Linked
<1>2. TypeOK /\ DisjointInv /\ [NextDisjoint]_vars => [Mutex!Next]_(Mutex!vars)
  <2> SUFFICES ASSUME TypeOK, DisjointInv, [NextDisjoint]_vars
               PROVE [Mutex!Next]_(Mutex!vars)
    OBVIOUS
  <2>0. Creating /\ NamedPidIsWhole /\ HolderOwnsFile
    BY DEF DisjointInv
  <2>1. ASSUME owner' = owner, live' = live PROVE [Mutex!Next]_(Mutex!vars)
    BY <2>1 DEF Mutex!vars, owner, live
  <2> USE <2>0 DEF TypeOK, Content, Goto, Creating, HolderOwnsFile, LastLineIs
  <2>2. ASSUME NEW p \in Proc, IsLocked(p) \/ UnlockRead(p) \/ Recycle(p)
        PROVE owner' = owner /\ live' = live
    <3>1. UNCHANGED <<name, content, fp>>
      BY <2>2 DEF IsLocked, UnlockRead, Recycle
    <3>2. \A q \in Proc : pc'[q] \in Inside <=> pc[q] \in Inside
      BY <2>2 DEF IsLocked, UnlockRead, Recycle, Inside, Ended
    <3> QED BY <3>1, <3>2 DEF owner, live, StuckEmpty, FileEmpty, Linked
  <2>3. ASSUME NEW p \in Proc, LockRead(p)
        PROVE [Mutex!Next]_(Mutex!vars)
    <3>1. UNCHANGED <<name, content, fp>>
      BY <2>3 DEF LockRead
    <3>2. owner' = owner
      BY <3>1 DEF owner, StuckEmpty, FileEmpty, Linked
    <3>3. CASE Linked /\ content[name].pid = p
      <4>1. owner = p /\ ~live /\ live'
        BY <2>3, <3>1, <3>3 DEF LockRead, owner, live, StuckEmpty, FileEmpty, Linked, Empty, Inside
      <4> QED BY <3>2, <4>1 DEF Mutex!Next, Mutex!Reclaim, owner, live
    <3>4. CASE ~(Linked /\ content[name].pid = p)
      <4>1. \A q \in Proc : pc'[q] \in Inside <=> pc[q] \in Inside
        BY <2>3, <3>4 DEF LockRead, Inside
      <4> QED BY <2>1, <3>1, <3>2, <4>1 DEF live, Linked
    <3> QED BY <3>3, <3>4
  <2>4. ASSUME NEW p \in Proc, LockCreate(p)
        PROVE owner' = owner /\ live' = live
    <3>1. ~Linked /\ Linked' /\ content'[name'] = Empty /\ fp'[p] = name'
      BY <2>4 DEF LockCreate, Linked
    <3> QED BY <3>1 DEF owner, live, StuckEmpty, FileEmpty, Linked, Empty
  <2>5. ASSUME NEW p \in Proc, LockWrite(p)
        PROVE [Mutex!Next]_(Mutex!vars)
    <3>1. /\ Linked /\ Linked' /\ content[name] = Empty /\ fp[p] = name
          /\ content'[name'].pid = p /\ pc'[p] \in Inside
      BY <2>5 DEF LockWrite, Linked, WithPid, Inside
    <3>2. owner = NoPid /\ owner' = p /\ live'
      BY <3>1 DEF owner, live, StuckEmpty, FileEmpty, Empty
    <3> QED BY <3>2 DEF Mutex!Next, Mutex!Acquire, owner, live
  <2>6. ASSUME NEW p \in Proc, UnlockUnlink(p) \/ DelFileUnlink(p)
        PROVE [Mutex!Next]_(Mutex!vars)
    <3>1. /\ pc[p] \in Inside /\ ~Linked'
          /\ Linked /\ content[name].pid = p
      BY <2>6 DEF UnlockUnlink, DelFileUnlink, Linked, Inside
    <3>2. owner = p /\ live /\ owner' = NoPid /\ ~live'
      BY <3>1 DEF owner, live, StuckEmpty, FileEmpty, Empty
    <3> QED BY <3>2 DEF Mutex!Next, Mutex!Release, owner, live
  <2>7. ASSUME NEW p \in Proc, Crash(p)
        PROVE [Mutex!Next]_(Mutex!vars)
    <3>1. /\ UNCHANGED <<name, content>>
          /\ fp' = [fp EXCEPT ![p] = NoFile] /\ pc' = [pc EXCEPT ![p] = "dead"]
      BY <2>7 DEF Crash
    <3>2. CASE pc[p] \in Inside
      <4>1. Linked /\ content[name].pid = p
        BY <3>2
      <4>2. owner = p /\ owner' = p /\ live /\ ~live'
        BY <3>1, <3>2, <4>1 DEF owner, live, StuckEmpty, FileEmpty, Empty, Linked, Inside
      <4> QED BY <4>2 DEF Mutex!Next, Mutex!Die, owner, live
    <3>3. CASE pc[p] = "write"
      <4>1. Linked /\ content[name] = Empty /\ fp[p] = name
        BY <3>3 DEF Linked
      <4>2. \A q \in Proc : pc[q] = "write" => q = p
        BY <3>3 DEF DisjointInv, WindowsOverlap, Window
      <4>3. StuckEmpty'
        BY <3>1, <4>1, <4>2 DEF StuckEmpty, FileEmpty, Linked
      <4>4. owner = NoPid /\ owner' = NoFile /\ ~live /\ ~live'
        BY <3>1, <4>1, <4>3 DEF owner, live, StuckEmpty, Empty, Linked
      <4> QED BY <4>4 DEF Mutex!Next, Mutex!Jam, owner, live
    <3>4. CASE pc[p] \notin Inside \union {"write"}
      <4>1. fp' = fp
        BY <3>1, <3>4
      <4>2. \A q \in Proc : pc'[q] \in Inside <=> pc[q] \in Inside
        BY <3>1, <3>4 DEF Inside
      <4> QED BY <2>1, <3>1, <4>1, <4>2 DEF owner, live, StuckEmpty, FileEmpty, Linked
    <3> QED BY <3>2, <3>3, <3>4
  <2>8. ASSUME NEW p \in Proc, AddZeroKeepsLock(p)
        PROVE [Mutex!Next]_(Mutex!vars)
    <3>1. UNCHANGED <<name, content, fp>> /\ pc[p] = "cs" /\ pc' = [pc EXCEPT ![p] = "kept"]
      BY <2>8 DEF AddZeroKeepsLock
    <3>2. Linked /\ content[name].pid = p
      BY <3>1 DEF Inside
    <3>3. owner = p /\ owner' = p /\ live /\ ~live'
      BY <3>1, <3>2 DEF owner, live, StuckEmpty, FileEmpty, Empty, Linked, Inside
    <3> QED BY <3>3 DEF Mutex!Next, Mutex!Die, owner, live
  <2>9. ASSUME UNCHANGED vars PROVE owner' = owner /\ live' = live
    BY <2>9 DEF vars, owner, live, StuckEmpty, FileEmpty, Linked
  <2> QED
    BY <2>1, <2>2, <2>3, <2>4, <2>5, <2>6, <2>7, <2>8, <2>9 DEF NextDisjoint, Next, Step
<1> QED BY <1>1, <1>2, TypeCorrect, DisjointIsSpec, DisjointInvariant, PTL
        DEF SpecDisjoint, ImplementsMutex, Mutex!Spec
=============================================================================
