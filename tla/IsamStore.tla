----------------------------- MODULE IsamStore ------------------------------
(***************************************************************************)
(* The commands of main.c on one existing database file: -a (add a         *)
(* record), -D (delete one), -D -o all (delete all), -A (add an index) and *)
(* -k alone (get).  Each command is a process.  The writing ones take the  *)
(* lock of the index file (FileMutex), load every index, change a table    *)
(* and rewrite the index file from nothing; get takes no lock.  A process  *)
(* may be killed between any two writes.                                   *)
(***************************************************************************)
EXTENDS HashTbl

CONSTANTS Proc, Free, Jammed,
          Ops,         \* the commands given
          NrIndexes,   \* indexes of the file when it is created
          MaxIndexes,  \* bound: no -A is given that could go beyond it
          Bucket,      \* buckets of a new table
          MaxRecs,     \* bound: no -a starts with this many records in the file
          PidReuse     \* whether a new command may get the pid of a killed one

ASSUME IsamStoreAssumption ==
    /\ Free \notin Proc /\ Jammed \notin Proc /\ Free # Jammed
    /\ Ops \subseteq {"add", "get", "del", "delall", "addindex"}
    /\ NrIndexes \in Nat \ {0} /\ MaxIndexes \in Nat /\ MaxRecs \in Nat
    /\ Bucket \in Buckets
    /\ PidReuse \in BOOLEAN

VARIABLES owner, live,  \* the lock (FileMutex)
          inx,          \* the .inx file
          dat,          \* the .dat file: its records by position
          pc,           \* where each process is
          cmd,          \* its command
          mem,          \* the tables it has in memory
          off,          \* the position of the record it adds or gets
          seen,         \* the number of indexes by which a get found index 0
          res,          \* the answer of its get
          calm          \* history: .inx not rewritten since its get began

lockvars == <<owner, live>>
vars == <<owner, live, inx, dat, pc, cmd, mem, off, seen, res, calm>>

Lock == INSTANCE FileMutex

\* ix, the index that -D names, counts from 1 here.
Command == {c \in [op : Ops, key : Key \union {ZeroKey}, ix : 1..MaxIndexes + 1] :
               /\ c.op # "del" => c.ix = 1
               /\ c.op \in {"delall", "addindex"} => c.key = ZeroKey}
NoCommand == [op |-> "none", key |-> ZeroKey, ix |-> 1]

\* The .inx file: the number of indexes in its head (0 when truncated), the
\* bodies written so far, and how much of the last one is there: its size, the
\* nodes but the last, that node without its key, without its value, all of it,
\* and also its position in the head.
Progress == {"size", "nodes", "key", "value", "whole", "placed"}
Following == [size |-> "nodes", nodes |-> "key", key |-> "value", value |-> "whole",
              whole |-> "placed"]
Truncated == [num |-> 0, body |-> <<>>, cur |-> "placed"]
Complete(f) == f.num > 0 /\ Len(f.body) = f.num /\ f.cur = "placed"

Goto(p, label) == pc' = [pc EXCEPT ![p] = label]

\* The process is gone, and what it had in memory.
Exit(p) == /\ Goto(p, "idle")
           /\ cmd' = [cmd EXCEPT ![p] = NoCommand]
           /\ mem' = [mem EXCEPT ![p] = <<>>]
           /\ off' = [off EXCEPT ![p] = NoRec]
           /\ seen' = [seen EXCEPT ![p] = 0]
-----------------------------------------------------------------------------
(* Reading the .inx file.  read() at its end returns 0 bytes and no error:   *)
(* the counts and nodes that are not there yet read as zeros.                *)

\* A node of type 0, or a string without a length, makes read_index_file fail;
\* so does one cut off before the last, as the length of the table is in front.
Unreadable(f, i) == i = Len(f.body) /\ f.cur = "nodes"

ReadIndexFile(f, i) ==
    IF i > Len(f.body) THEN NewTable(0)
    ELSE LET t == Load(f.body[i])
         IN IF i < Len(f.body) \/ f.cur \in {"whole", "placed"} THEN t
            ELSE IF f.cur = "size" THEN NewTable(t.size)
            ELSE IF f.cur = "key" THEN ZeroKeyNode(f.body[i])
            ELSE ZeroValue(f.body[i])

\* read_all_index_file ignores the positions in the head.
ReadAllFails(f) == f.num = 0 \/ \E i \in 1..f.num : Unreadable(f, i)
ReadAllIndexFile(f) == [i \in 1..f.num |-> ReadIndexFile(f, i)]

\* read_index_nr(0, ...) needs the position of index 0.
Position0(f) == Len(f.body) > 1 \/ (Len(f.body) = 1 /\ f.cur = "placed")
-----------------------------------------------------------------------------
Init == /\ Lock!Init
        /\ inx = [num |-> NrIndexes, body |-> [i \in 1..NrIndexes |-> NewTable(Bucket)],
                  cur |-> "placed"]
        /\ dat = <<>>
        /\ pc = [p \in Proc |-> "idle"]
        /\ cmd = [p \in Proc |-> NoCommand]
        /\ mem = [p \in Proc |-> <<>>]
        /\ off = [p \in Proc |-> NoRec]
        /\ seen = [p \in Proc |-> 0]
        /\ res = [p \in Proc |-> "none"]
        /\ calm = [p \in Proc |-> FALSE]

\* A new command; it gets a pid no running command has, and that of a killed
\* owner of the lock only with PidReuse.
Begin(p, c) ==
    /\ pc[p] = "idle" \/ (pc[p] = "dead" /\ PidReuse)
    /\ c.op = "add" => Len(dat) < MaxRecs
    /\ c.op = "addindex" => /\ Complete(inx)
                            /\ inx.num + Cardinality({q \in Proc : cmd[q].op = "addindex"}) < MaxIndexes
    /\ cmd' = [cmd EXCEPT ![p] = c]
    /\ mem' = [mem EXCEPT ![p] = <<>>]
    /\ off' = [off EXCEPT ![p] = NoRec]
    /\ res' = [res EXCEPT ![p] = "none"]
    /\ calm' = [calm EXCEPT ![p] = FALSE]
    /\ Goto(p, IF c.op = "get" THEN "find" ELSE "lock")
    /\ UNCHANGED <<lockvars, inx, dat, seen>>

\* A jammed lock file keeps is_locked and lock waiting; another owner makes
\* lock return -1 and the command gives up.
LockIndex(p) ==
    /\ pc[p] = "lock"
    /\ \/ /\ Lock!Acquire(p) \/ Lock!Reclaim(p)
          /\ Goto(p, "load")
          /\ UNCHANGED <<cmd, mem, off, seen>>
       \/ /\ owner \in Proc \ {p}
          /\ Exit(p)
          /\ UNCHANGED lockvars
    /\ UNCHANGED <<inx, dat, res, calm>>

\* A signal ends the owner of the lock; the lock file stays.  (mem is kept to
\* say what was being written.)
Dies(p) == Lock!Die(p) /\ Goto(p, "dead")

\* goto clean_on_error_x with lock_f set.
Fails(p) == Goto(p, "unlock") /\ UNCHANGED lockvars

\* The tables are ready to replace those of the file.
Changed(p, tables, label) == /\ mem' = [mem EXCEPT ![p] = tables]
                             /\ Goto(p, label)
                             /\ UNCHANGED lockvars

\* -a: end of the data file, read_all_index_file, set in index 0.
AddSet(p) ==
    LET k == cmd[p].key
        ht == ReadAllIndexFile(inx)
    IN /\ pc[p] = "load" /\ cmd[p].op = "add"
       /\ IF ReadAllFails(inx) \/ (k # ZeroKey /\ ~Kills(ht[1], k) /\ Has(ht[1], k))
          THEN Fails(p) /\ UNCHANGED <<mem, off>>
          ELSE IF k # ZeroKey /\ Kills(ht[1], k) THEN Dies(p) /\ UNCHANGED <<mem, off>>
          ELSE IF k # ZeroKey
          THEN /\ Changed(p, [ht EXCEPT ![1] = Set(@, k, Len(dat))], "data")
               /\ off' = [off EXCEPT ![p] = Len(dat)]
          \* goto clean_on_error jumps into the block of -u, whose lock_f has
          \* no value: the lock is released or the command ends with it.
          ELSE /\ Fails(p) \/ Dies(p)
               /\ UNCHANGED <<mem, off>>
       /\ UNCHANGED <<inx, dat, cmd, seen, res, calm>>

\* Variant: the record is taken for written after the first write.
WriteRecordShort(p) ==
    /\ pc[p] = "data"
    /\ dat' = Append(dat, [key |-> cmd[p].key, whole |-> FALSE])
    /\ Goto(p, "trunc")
    /\ UNCHANGED <<lockvars, inx, cmd, mem, off, seen, res, calm>>

\* -a: write_file appends the record with many writes.
WriteRecord(p) ==
    /\ pc[p] = "data"
    /\ dat' = Append(dat, [key |-> cmd[p].key, whole |-> FALSE])
    /\ Goto(p, "rest")
    /\ UNCHANGED <<lockvars, inx, cmd, mem, off, seen, res, calm>>

WriteRest(p) ==
    /\ pc[p] = "rest"
    /\ dat' = [dat EXCEPT ![off[p] + 1] = [key |-> cmd[p].key, whole |-> TRUE]]
    /\ Goto(p, "trunc")
    /\ UNCHANGED <<lockvars, inx, cmd, mem, off, seen, res, calm>>

\* -D: delete in the index the option names.
Del(p) ==
    LET k == cmd[p].key
        i == cmd[p].ix
        ht == ReadAllIndexFile(inx)
    IN /\ pc[p] = "load" /\ cmd[p].op = "del"
       /\ IF ReadAllFails(inx) \/ i > inx.num \/ k = ZeroKey
          THEN Fails(p) /\ UNCHANGED mem
          ELSE IF Kills(ht[i], k) THEN Dies(p) /\ UNCHANGED mem
          ELSE IF ~Has(ht[i], k) THEN Fails(p) /\ UNCHANGED mem
          ELSE Changed(p, [ht EXCEPT ![i] = Delete(@, k)], "trunc")
       /\ UNCHANGED <<inx, dat, cmd, off, seen, res, calm>>

\* -D -o all: as many empty tables, all with the buckets of index 0.
DelAll(p) ==
    /\ pc[p] = "load" /\ cmd[p].op = "delall"
    /\ IF inx.num = 0 \/ ~Position0(inx) \/ Unreadable(inx, 1)
       THEN Fails(p) /\ UNCHANGED mem
       ELSE Changed(p, [i \in 1..inx.num |-> NewTable(ReadIndexFile(inx, 1).size)], "trunc")
    /\ UNCHANGED <<inx, dat, cmd, off, seen, res, calm>>

\* -A: add_index.
AddIndex(p) ==
    /\ pc[p] = "load" /\ cmd[p].op = "addindex"
    /\ IF ReadAllFails(inx) THEN Fails(p) /\ UNCHANGED mem
       ELSE Changed(p, Append(ReadAllIndexFile(inx), NewTable(Bucket)), "trunc")
    /\ UNCHANGED <<inx, dat, cmd, off, seen, res, calm>>
-----------------------------------------------------------------------------
(* Every writing command then rewrites the index file.                       *)

\* open_file(files[0], 1): O_TRUNC.
TruncIndex(p) ==
    /\ pc[p] = "trunc"
    /\ inx' = Truncated
    /\ calm' = [q \in Proc |-> FALSE]
    /\ Goto(p, "head")
    /\ UNCHANGED <<lockvars, dat, cmd, mem, off, seen, res>>

RewriteStep(p) ==
    UNCHANGED <<lockvars, dat, cmd, mem, off, seen, res, calm>>

\* write_index_file_head: the count, and zeros for the positions.
WriteHead(p) ==
    /\ pc[p] = "head"
    /\ inx' = [inx EXCEPT !.num = Len(mem[p])]
    /\ Goto(p, "body")
    /\ RewriteStep(p)

\* write_index_body: the index number and the size of the next table ...
NextBody(p) ==
    /\ pc[p] = "body" /\ inx.cur = "placed" /\ Len(inx.body) < inx.num
    /\ inx' = [inx EXCEPT !.body = Append(@, mem[p][Len(inx.body) + 1]), !.cur = "size"]
    /\ UNCHANGED pc
    /\ RewriteStep(p)

\* ... then, for a table with nodes, its length and its nodes, and the position.
WriteBody(p) ==
    /\ pc[p] = "body" /\ inx.cur # "placed"
    /\ inx' = [inx EXCEPT !.cur = IF @ = "size" /\ Len0(inx.body[Len(inx.body)])
                                  THEN "whole" ELSE Following[@]]
    /\ UNCHANGED pc
    /\ RewriteStep(p)

\* Variant: the lock is released when the last index is begun.
UnlockEarly(p) ==
    /\ pc[p] = "unlock" \/ (pc[p] = "body" /\ Len(inx.body) = inx.num)
    /\ Lock!Release(p)
    /\ Exit(p)
    /\ UNCHANGED <<inx, dat, res, calm>>

Unlock(p) ==
    /\ pc[p] = "unlock" \/ (pc[p] = "body" /\ Complete(inx))
    /\ Lock!Release(p)
    /\ Exit(p)
    /\ UNCHANGED <<inx, dat, res, calm>>
-----------------------------------------------------------------------------
(* get takes no lock: it waits only while the lock file is empty.            *)

Answer(p, r) == /\ res' = [res EXCEPT ![p] = r]
                /\ seen' = [seen EXCEPT ![p] = 0]
                /\ Goto(p, "idle")
                /\ UNCHANGED <<off, calm>>

\* read_index_nr up to the position of index 0.
Find(p) ==
    /\ pc[p] = "find" /\ owner # Jammed
    /\ IF Position0(inx)
       THEN /\ seen' = [seen EXCEPT ![p] = inx.num]
            /\ calm' = [calm EXCEPT ![p] = Complete(inx)]
            /\ Goto(p, "lookup")
            /\ UNCHANGED <<off, res>>
       ELSE Answer(p, "error")
    /\ UNCHANGED <<lockvars, inx, dat, cmd, mem>>

\* read_index_file at that position, then get().  Past the end of the file the
\* size reads as 0 and hash() divides by it.  If indexes were added since, the
\* position is one of the head: the size is a part of it, 0 or not, and the
\* table empty.  get() of a string takes a null pointer (the number 0,
\* always the first of its bucket) for the end.
Lookup(p) ==
    LET k == cmd[p].key
        t == ReadIndexFile(inx, 1)
        zero == /\ k \in StrKey /\ t.size > 1
                /\ Chain(t, k) # <<>> /\ Chain(t, k)[1].key = ZeroKey
    IN /\ pc[p] = "lookup"
       /\ IF inx.num \notin {0, seen[p]}
          THEN Answer(p, "absent") \/ Answer(p, "killed")
          ELSE IF Unreadable(inx, 1) THEN Answer(p, "error")
          ELSE IF k = ZeroKey \/ zero THEN Answer(p, "absent")
          ELSE IF Kills(t, k) THEN Answer(p, "killed")
          ELSE IF ~Has(t, k) THEN Answer(p, "absent")
          ELSE /\ off' = [off EXCEPT ![p] = Get(t, k)]
               /\ Goto(p, "fetch")
               /\ UNCHANGED <<seen, res, calm>>
       /\ UNCHANGED <<lockvars, inx, dat, cmd, mem>>

\* read_file at the offset.
Fetch(p) ==
    /\ pc[p] = "fetch"
    /\ Answer(p, "found")
    /\ UNCHANGED <<lockvars, inx, dat, cmd, mem>>
-----------------------------------------------------------------------------
\* kill -9, also between the fopen and the fclose that make the lock file.
Kill(p) ==
    /\ pc[p] \notin {"idle", "dead"}
    /\ \/ /\ owner = p /\ live
          /\ Dies(p)
          /\ UNCHANGED <<cmd, mem, off, seen>>
       \/ /\ ~(owner = p /\ live)
          /\ UNCHANGED lockvars \/ (pc[p] = "lock" /\ Lock!Jam)
          /\ Exit(p)
    /\ UNCHANGED <<inx, dat, res, calm>>

Write(p) == AddSet(p) \/ WriteRecord(p) \/ WriteRest(p) \/ Del(p) \/ DelAll(p) \/ AddIndex(p)

Rewrite(p) == TruncIndex(p) \/ WriteHead(p) \/ NextBody(p) \/ WriteBody(p)

GetRecord(p) == Find(p) \/ Lookup(p) \/ Fetch(p)

Next == \E p \in Proc : \/ \E c \in Command : Begin(p, c)
                        \/ LockIndex(p) \/ Write(p) \/ Rewrite(p) \/ Unlock(p)
                        \/ GetRecord(p)
                        \/ Kill(p)

Spec == Init /\ [][Next]_vars
-----------------------------------------------------------------------------
Running == {"lock", "load", "data", "rest", "trunc", "head", "body", "unlock",
            "find", "lookup", "fetch"}

TypeOK ==
    /\ Lock!TypeOK
    /\ inx \in [num : Nat, body : Seq(Table), cur : Progress]
    /\ dat \in Seq([key : NodeKey, whole : BOOLEAN])
    /\ pc \in [Proc -> Running \union {"idle", "dead"}]
    /\ cmd \in [Proc -> Command \union {NoCommand}]
    /\ mem \in [Proc -> Seq(Table)]
    /\ off \in [Proc -> Nat \union {NoRec}]
    /\ seen \in [Proc -> Nat]
    /\ res \in [Proc -> {"none", "found", "absent", "error", "killed"}]
    /\ calm \in [Proc -> BOOLEAN]

\* Every table, in the file and in memory, has each key that a command can name,
\* and the number 0, at most once, and every node in the bucket where get, set
\* and delete look for its key: after any interleaving of commands and kills, and
\* after a command that took the place of a killed one has loaded what that one
\* left of the file (read_index_file, set, delete).
IndexInv == /\ \A i \in DOMAIN inx.body : WellPlaced(inx.body[i])
            /\ \A p \in Proc : \A i \in DOMAIN mem[p] : WellPlaced(mem[p][i])

\* A half-written index file always has an owner: no writing command can load
\* one and write its losses back (main.c:1035-1077), except under the pid of
\* the killed owner.
TornIsOwned == Complete(inx) \/ owner \in Proc

PointsTo(t) == \A b \in DOMAIN t.map : \A i \in DOMAIN t.map[b] :
                   LET node == t.map[b][i]
                   IN /\ node.value < Len(dat)
                      /\ dat[node.value + 1] = [key |-> node.key, whole |-> TRUE]

\* A key in the index file points to a record written for that key, and to all
\* of it: -a writes the record before the index (main.c:1028-1060), and nobody
\* else's record takes the position it read before.
PointsToRecord == \A i \in DOMAIN inx.body : PointsTo(inx.body[i])

InIndex0(k) == \E b \in DOMAIN inx.body[1].map : \E i \in DOMAIN inx.body[1].map[b] :
                   inx.body[1].map[b][i].key = k

\* A get during which nobody rewrites the index file (crud.c:25-131) does not
\* fail to read it; what it finds is the whole record of its key; and it says
\* that there is no record of a string key only when index 0 has no such key.
\* (It may be killed by a number in the bucket of a string, and may miss a
\* number, which a load drops when its bucket is taken.)
QuietGetIsExact ==
    \A p \in Proc : cmd[p].op = "get" /\ calm[p] /\ res[p] # "none" =>
        /\ res[p] # "error"
        /\ res[p] = "found" => dat[off[p] + 1] = [key |-> cmd[p].key, whole |-> TRUE]
        /\ res[p] = "absent" /\ cmd[p].key \in StrKey => ~InIndex0(cmd[p].key)

\* "Once the record is created you will not able to use that key for new
\* records in the same file" (README.md:107), when nothing is deleted.
KeyIsNotReused ==
    \A i, j \in DOMAIN dat : dat[i].key = dat[j].key /\ dat[i].whole /\ dat[j].whole => i = j

\* The map the commands promise: index 0 as the next command will load it, or
\* the one being written in its place.
Index0 == Load(IF Complete(inx) THEN inx.body[1] ELSE mem[owner][1])

Store == INSTANCE KeyStore WITH
            map <- LET t == Index0 IN [k \in Key |-> Get(t, k)],
            busy <- ~Complete(inx)

\* Writers that interleave with gets and kills make one change of the map at a
\* time, and each works on the map the one before it left.
ImplementsKeyStore == Store!Spec
=============================================================================
