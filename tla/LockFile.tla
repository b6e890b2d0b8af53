------------------------------ MODULE LockFile ------------------------------
(***************************************************************************)
(* lock.c: the write lock that a command takes on an index file by         *)
(* creating "<inode>.lock" in the working directory with its pid inside.   *)
(* Each fopen, fgets, fclose and unlink on that file is one step, because  *)
(* other commands run between any two of them.                             *)
(*                                                                         *)
(* A command is a process.  Its steps are those of the sequence found in   *)
(* every writing command of main.c (e.g. 999-1003 and 1072-1077):          *)
(*     while(is_locked(...) == LOCKED);                                    *)
(*     while((r = lock(fd,WLOCK)) == WTLK);   if(r == -1) give up          *)
(*     ... the protected section ...                                       *)
(*     while((r = lock(fd,UNLOCK)) == WTLK);                               *)
(* An -a with the key 0 may leave the section without the last line.       *)
(***************************************************************************)
EXTENDS Naturals, FiniteSets

CONSTANTS Proc,      \* pids
          Inode,     \* inodes the lock file may get
          NoPid,     \* an empty lock file holds no pid
          NoFile,    \* the lock file does not exist / no open stream
          Digits,    \* Digits[p]: decimal digits of the pid p
          PidReuse   \* whether the pid of an ended command is given to a new one

ASSUME LockFileAssumption ==
    /\ NoPid \notin Proc
    /\ NoFile \notin Inode \union Proc \union {NoPid}
    /\ Digits \in [Proc -> Nat \ {0}]
    /\ PidReuse \in BOOLEAN

VARIABLES name,     \* inode that "<inode>.lock" names, or NoFile
          content,  \* per inode: the pid on its first line and its length
          fp,       \* inode of the stream a command has open for writing
          pc        \* where each command is

vars == <<name, content, fp, pc>>

Content == [pid : Proc \union {NoPid}, len : Nat]
Empty == [pid |-> NoPid, len |-> 0]

Window == {"create", "write"}                   \* between the check and the pid
Inside == {"cs", "unlink"}                      \* owns the lock, as it believes
Ended == {"done", "failed", "kept", "refused", "dead"}
Label == {"start", "try"} \union Window \union Inside \union Ended

\* The types; a stream is open on the lock file just while its pid is written.
TypeOK == /\ name \in Inode \union {NoFile}
          /\ content \in [Inode -> Content]
          /\ fp \in [Proc -> Inode \union {NoFile}]
          /\ pc \in [Proc -> Label]
          /\ \A p \in Proc : fp[p] # NoFile <=> pc[p] = "write"

\* fputs at fclose: the pid goes over the start of the file, a longer pid
\* that another stream wrote meanwhile leaves its tail as a last line.
WithPid(c, p) == [pid |-> p, len |-> IF c.len > Digits[p] THEN c.len ELSE Digits[p]]

\* The last line of the file reads as the pid p.
LastLineIs(c, p) == c.pid = p /\ c.len = Digits[p]

Linked == name # NoFile
FileEmpty == Linked /\ content[name] = Empty

Goto(p, label) == pc' = [pc EXCEPT ![p] = label]
-----------------------------------------------------------------------------
Init == /\ name = NoFile
        /\ content = [i \in Inode |-> Empty]
        /\ fp = [p \in Proc |-> NoFile]
        /\ pc = [p \in Proc |-> "start"]

\* while(is_locked(...) == LOCKED): only a file without a line is LOCKED; a
\* file with another pid makes is_locked return -1, which ends the loop too.
IsLocked(p) == /\ pc[p] = "start"
               /\ ~FileEmpty
               /\ Goto(p, "try")
               /\ UNCHANGED <<name, content, fp>>

\* Variants of lock(fd,WLOCK) that go wrong: it enters past the owner, breaks
\* the owner's lock as if it were stale, or waits for an owner that may be dead.
LockReadEnters(p) == /\ pc[p] = "try"
                     /\ ~FileEmpty
                     /\ Goto(p, IF Linked THEN "cs" ELSE "create")
                     /\ UNCHANGED <<name, content, fp>>

LockReadBreaks(p) == /\ pc[p] = "try"
                     /\ ~FileEmpty
                     /\ Goto(p, IF Linked /\ content[name].pid = p THEN "cs" ELSE "create")
                     /\ UNCHANGED <<name, content, fp>>

LockReadWaits(p) == /\ pc[p] = "try"
                    /\ \/ ~Linked /\ Goto(p, "create")
                       \/ Linked /\ content[name].pid = p /\ Goto(p, "cs")
                    /\ UNCHANGED <<name, content, fp>>

\* lock(fd,WLOCK) up to its first fopen(file_name,"r").  An empty file gives
\* WTLK and the caller calls again; the action is then not enabled.
LockRead(p) == /\ pc[p] = "try"
               /\ \/ ~Linked /\ Goto(p, "create")
                  \/ Linked /\ content[name].pid = p /\ Goto(p, "cs")
                  \/ Linked /\ content[name].pid \in Proc \ {p} /\ Goto(p, "refused")
               /\ UNCHANGED <<name, content, fp>>

\* fopen(file_name,"w"): makes the file, or truncates one made meanwhile.
LockCreate(p) ==
    /\ pc[p] = "create"
    /\ \E i \in Inode :
          /\ IF Linked THEN i = name ELSE \A q \in Proc : fp[q] # i
          /\ name' = i
          /\ content' = [content EXCEPT ![i] = Empty]
          /\ fp' = [fp EXCEPT ![p] = i]
    /\ Goto(p, "write")

\* Variants: the pid is not written; the stream is flushed and not closed.
LockWriteNothing(p) == /\ pc[p] = "write"
                       /\ fp' = [fp EXCEPT ![p] = NoFile]
                       /\ Goto(p, "cs")
                       /\ UNCHANGED <<name, content>>

LockWriteOpen(p) == /\ pc[p] = "write"
                    /\ content' = [content EXCEPT ![fp[p]] = WithPid(@, p)]
                    /\ Goto(p, "cs")
                    /\ UNCHANGED <<name, fp>>

\* fputs(strpid,fp); fclose(fp): the pid reaches the file at the fclose.
LockWrite(p) == /\ pc[p] = "write"
                /\ content' = [content EXCEPT ![fp[p]] = WithPid(@, p)]
                /\ fp' = [fp EXCEPT ![p] = NoFile]
                /\ Goto(p, "cs")
                /\ UNCHANGED name

\* lock(fd,UNLOCK) up to the comparison of pids; -1 unless the pid is its own.
UnlockRead(p) == /\ pc[p] = "cs"
                 /\ IF Linked /\ LastLineIs(content[name], p)
                    THEN Goto(p, "unlink")
                    ELSE Goto(p, "failed")
                 /\ UNCHANGED <<name, content, fp>>

\* Variant: the file is left behind.
UnlockForgets(p) == pc[p] = "unlink" /\ Goto(p, "done") /\ UNCHANGED <<name, content, fp>>

\* unlink(file_name), whatever file has that name by now.
UnlockUnlink(p) == /\ pc[p] = "unlink"
                   /\ name' = NoFile
                   /\ Goto(p, "done")
                   /\ UNCHANGED <<content, fp>>

\* The -e command removes the lock file by its name without reading it.
DelFileUnlink(p) == /\ pc[p] = "cs"
                    /\ name' = NoFile
                    /\ Goto(p, "done")
                    /\ UNCHANGED <<content, fp>>

\* -a with the key 0 goes to the error label of -u (main.c:1021), whose lock_f
\* was never set: by its value the command unlocks (UnlockRead) or just ends.
AddZeroKeepsLock(p) == pc[p] = "cs" /\ Goto(p, "kept") /\ UNCHANGED <<name, content, fp>>

\* A command is killed; what its stream has not flushed is lost.
Crash(p) == /\ pc[p] \notin Ended
            /\ fp' = [fp EXCEPT ![p] = NoFile]
            /\ Goto(p, "dead")
            /\ UNCHANGED <<name, content>>

\* The system gives the pid of an ended command to a new one.
Recycle(p) == /\ PidReuse
              /\ pc[p] \in Ended
              /\ Goto(p, "start")
              /\ UNCHANGED <<name, content, fp>>

Step(p) == \/ IsLocked(p)
           \/ LockRead(p)
           \/ LockCreate(p)
           \/ LockWrite(p)
           \/ UnlockRead(p)
           \/ UnlockUnlink(p)
           \/ DelFileUnlink(p)
           \/ AddZeroKeepsLock(p)

Next == \E p \in Proc : Step(p) \/ Crash(p) \/ Recycle(p)

Spec == Init /\ [][Next]_vars

\* Commands keep running unless they are killed.
FairSpec == Spec /\ \A p \in Proc : WF_vars(Step(p))

\* The environment in which no two commands are at the same time between the
\* fopen that finds no lock file and the fclose of the one they create.
WindowsOverlap == \E p, q \in Proc : p # q /\ pc[p] \in Window /\ pc[q] \in Window
NextDisjoint == \E p \in Proc : (Step(p) /\ ~WindowsOverlap') \/ Crash(p) \/ Recycle(p)
SpecDisjoint == Init /\ [][NextDisjoint]_vars
-----------------------------------------------------------------------------
\* Two commands are never in the protected section together ("this process is
\* the only one owning locks for both the index and the data file",
\* main.c:678-679).
MutualExclusion == \A p, q \in Proc : pc[p] \in Inside /\ pc[q] \in Inside => p = q

\* A lock file that names a command belongs to one in its protected section, to
\* one killed there, or to one that reported an error: an -a with the key 0, or
\* a command that found the tail of a longer pid after its own and so could not
\* unlock.  No command that reports success leaves the others locked out,
\* whatever the interleaving of check, create, read and unlink.  (With pid reuse
\* the name may be that of a predecessor of a command about to take it over.)
NoLeakedLock ==
    \A p \in Proc : Linked /\ content[name].pid = p =>
        \/ pc[p] \in Inside \union {"dead", "kept"}
        \/ pc[p] = "failed" /\ ~LastLineIs(content[name], p)
        \/ PidReuse /\ pc[p] \in {"start", "try"}

\* No command is reported as failing to release a lock it holds, and none
\* removes the lock file of another: a command in its section owns the file.
HolderOwnsFile == \A p \in Proc : pc[p] \in Inside => Linked /\ LastLineIs(content[name], p)

\* The lock file is empty and no stream is open that would fill it.
StuckEmpty == FileEmpty /\ \A p \in Proc : fp[p] # name

\* Every command ends, unless a creator was killed between its fopen("w") and
\* its fclose: an empty lock file makes is_locked and lock wait for good.
EndsUnlessStuck == \A p \in Proc : pc[p] = "start" ~> (pc[p] \in Ended \/ []StuckEmpty)

Mutex == INSTANCE FileMutex WITH
            Free <- NoPid, Jammed <- NoFile,
            owner <- IF StuckEmpty THEN NoFile
                     ELSE IF Linked THEN content[name].pid ELSE NoPid,
            live <- \E p \in Proc : /\ pc[p] \in Inside
                                    /\ Linked /\ content[name].pid = p

\* When acquisitions do not overlap, the lock file is a mutex whose owner keeps
\* it when it dies.
ImplementsMutex == Mutex!Spec
=============================================================================
