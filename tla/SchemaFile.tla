----------------------------- MODULE SchemaFile -----------------------------
(***************************************************************************)
(* The commands that rewrite the definition (.sch) of a file: -R (add      *)
(* fields) and -a (add a record, which may give types or fields to the     *)
(* definition).  Each reads the .sch file without a lock, works out the    *)
(* new definition, takes a lock, truncates the file and writes it again    *)
(* cell by cell.  -R takes the lock of the .sch file, -a that of the .inx: *)
(* the rewrites of an -R and an -a may overlap, each at its own offset.    *)
(***************************************************************************)
EXTENDS Schema

CONSTANTS Proc, Free, Jammed,
          Base,        \* the definition the file is created with
          Added,       \* the inputs given to -R
          Given,       \* the inputs given to -a
          Modes,       \* how the types of a field are given
          MaxDef,      \* bound: no -R starts with a longer definition anywhere
          MaxRecs,     \* bound: no -a starts with this many records
          PidReuse,    \* whether a new command may get the pid of a killed one
          Overlap,     \* whether a command is given while another one runs
          AfterKill    \* whether -R is given after a killed -a, or the reverse

ASSUME SchemaFileAssumption ==
    /\ Free \notin Proc /\ Jammed \notin Proc /\ Free # Jammed
    /\ Base \in Seq(Field)
    /\ Added \subseteq Seq(Field) /\ Given \subseteq Seq(Field)
    /\ Modes \subseteq {"TYPE_WR", "NO_TYPE_WR", "HYB_WR"}
    /\ MaxDef \in Nat /\ MaxRecs \in Nat
    /\ PidReuse \in BOOLEAN /\ Overlap \in BOOLEAN /\ AfterKill \in BOOLEAN

VARIABLES inxowner, inxlive,  \* the lock on the .inx file (FileMutex)
          schowner, schlive,  \* the lock on the .sch file (FileMutex)
          sch,                \* the .sch file: its cells
          dat,                \* the records added
          pc,                 \* where each process is
          cmd,                \* its command
          at,                 \* the offset of its descriptor of the .sch file
          hd,                 \* the definition it has in memory
          chk                 \* what perform_checks_on_schema gave it

lockvars == <<inxowner, inxlive, schowner, schlive>>
vars == <<inxowner, inxlive, schowner, schlive, sch, dat, pc, cmd, at, hd, chk>>

InxLock == INSTANCE FileMutex WITH owner <- inxowner, live <- inxlive
SchLock == INSTANCE FileMutex WITH owner <- schowner, live <- schlive

NoCommand == [op |-> "none", mode |-> "none", in |-> <<>>]
Command == [op : {"def"}, mode : Modes, in : Added]
           \union [op : {"put"}, mode : Modes, in : Given]

\* The .sch file is a row of cells, each the 4 bytes of one write (2 for the
\* version and the count): id, version, count, for each field the length of its
\* name and the name, for each field its type.  (Bound: names have three
\* characters, so that a name fills a cell.)
NameCell(n) == [is |-> "name", of |-> n]
TypeCell(t) == [is |-> "type", of |-> t]
Id == [is |-> "id", of |-> 0]
Version == [is |-> "version", of |-> 1]
Count(n) == [is |-> "count", of |-> n]
Length == [is |-> "length", of |-> 4]
Zeros == TypeCell(TypeInt)     \* 4 bytes nobody has written

NamesEnd(n) == 3 + 2 * n
Size(def) == 3 + 3 * Len(def)

\* The cell k of the file that holds def, its first n cells, and all of them.
Cell(def, k) ==
    IF k = 1 THEN Id
    ELSE IF k = 2 THEN Version
    ELSE IF k = 3 THEN Count(Len(def))
    ELSE IF k > NamesEnd(Len(def)) THEN TypeCell(def[k - NamesEnd(Len(def))].type)
    ELSE IF k % 2 = 0 THEN Length
    ELSE NameCell(def[(k - 3) \div 2].name)
Begun(def, n) == [k \in 1..n |-> Cell(def, k)]
SavedAs(def) == Begun(def, Size(def))

\* The definition in a whole file.
DefOf(f) == [i \in 1..f[3].of |-> [name |-> f[NamesEnd(i)].of,
                                   type |-> f[NamesEnd(f[3].of) + i].of]]
Whole(f) == Len(f) >= 3 /\ Len(f) = 3 + 3 * f[3].of /\ f = SavedAs(DefOf(f))

\* write() at offset k, beyond the end or not.
Put(f, k, cell) == [i \in 1..Max({k + 1, Len(f)}) |->
                        IF i = k + 1 THEN cell ELSE IF i <= Len(f) THEN f[i] ELSE Zeros]

\* What read_header makes of it.  read() at the end of the file returns 0 bytes
\* and no error: what is not there yet reads as zeros.
IsHeader(f) == Len(f) >= 2 /\ f[1] = Id /\ f[2] = Version
CountIn(f) == IF Len(f) >= 3 /\ f[3].is = "count" THEN f[3].of ELSE 0

InPlace(f, k, what) == k <= Len(f) => f[k].is = what
NamesInPlace(f) == \A i \in 1..CountIn(f) : /\ InPlace(f, NamesEnd(i) - 1, "length")
                                            /\ InPlace(f, NamesEnd(i), "name")
NameAt(f, k) == IF k <= Len(f) THEN f[k].of ELSE NoName

\* Variant: at the end of the file the type is a number that no type has.
TypesAtUnset(f, k) == IF k > Len(f) THEN {MaxFields}
                      ELSE IF f[k].is = "type" THEN {f[k].of} ELSE Type \union {TypeInt, NoType}

\* Where the file holds another cell than a type, the type is any number.
TypesAt(f, k) == IF k > Len(f) THEN {TypeInt}
                 ELSE IF f[k].is = "type" THEN {f[k].of} ELSE Type \union {TypeInt, NoType}

Goto(p, label) == pc' = [pc EXCEPT ![p] = label]

Exit(p) == /\ Goto(p, "idle")
           /\ cmd' = [cmd EXCEPT ![p] = NoCommand]
           /\ at' = [at EXCEPT ![p] = 0]
           /\ hd' = [hd EXCEPT ![p] = <<>>]
           /\ chk' = [chk EXCEPT ![p] = Refused]
-----------------------------------------------------------------------------
Init == /\ InxLock!Init /\ SchLock!Init
        /\ sch = SavedAs(Base)
        /\ dat = <<>>
        /\ pc = [p \in Proc |-> "idle"]
        /\ cmd = [p \in Proc |-> NoCommand]
        /\ at = [p \in Proc |-> 0]
        /\ hd = [p \in Proc |-> <<>>]
        /\ chk = [p \in Proc |-> Refused]

Running(p) == pc[p] \notin {"idle", "dead"}

Begin(p, c) ==
    /\ pc[p] = "idle" \/ (pc[p] = "dead" /\ PidReuse)
    /\ Overlap \/ \A q \in Proc : ~Running(q)
    /\ AfterKill \/ \A q \in Proc : pc[q] = "dead" => cmd[q].op = c.op
    /\ c.op = "def" => /\ Len(sch) <= 3 + 3 * MaxDef
                       /\ \A q \in Proc : Len(hd[q]) <= MaxDef
    /\ c.op = "put" => Len(dat) < MaxRecs
    /\ cmd' = [cmd EXCEPT ![p] = c]
    /\ at' = [at EXCEPT ![p] = 0]
    /\ hd' = [hd EXCEPT ![p] = <<>>]
    /\ chk' = [chk EXCEPT ![p] = Refused]
    /\ Goto(p, "read")
    /\ UNCHANGED <<lockvars, sch, dat>>

\* read_header up to the names; only a jammed lock file keeps is_locked waiting.
\* A count that is not there reads as 0: no schema, and no error.  If there is
\* something else where a length or a name should be, the process dies of the
\* length or reads anything.
ReadNames(p) ==
    LET n == CountIn(sch)
    IN /\ pc[p] = "read" /\ inxowner # Jammed /\ schowner # Jammed
       /\ \/ /\ ~IsHeader(sch) \/ ~NamesInPlace(sch)
             /\ Exit(p)
          \/ /\ IsHeader(sch)
             /\ \E names \in IF NamesInPlace(sch)
                             THEN {[i \in 1..n |-> NameAt(sch, NamesEnd(i))]}
                             ELSE [1..n -> Name \union {NoName}] :
                   hd' = [hd EXCEPT ![p] = [i \in 1..n |-> [name |-> names[i], type |-> NoType]]]
             /\ \E k \in IF NamesInPlace(sch) THEN {Min({NamesEnd(n), Len(sch)})}
                         ELSE 3..Len(sch) :
                   at' = [at EXCEPT ![p] = k]
             /\ Goto(p, "types")
             /\ UNCHANGED <<cmd, chk>>
       /\ UNCHANGED <<lockvars, sch, dat>>

\* The types are where it stopped, in what is in the file by now.
ReadTypes(p) ==
    LET n == Len(hd[p])
    IN /\ pc[p] = "types"
       /\ \E types \in [1..n -> UNION {TypesAt(sch, at[p] + i) : i \in 1..n}] :
             /\ \A i \in 1..n : types[i] \in TypesAt(sch, at[p] + i)
             /\ hd' = [hd EXCEPT ![p] = [i \in 1..n |-> [hd[p][i] EXCEPT !.type = types[i]]]]
       /\ Goto(p, "check")
       /\ UNCHANGED <<lockvars, sch, dat, cmd, at, chk>>

\* -R: only the mode TYPE_WR looks at the limit.
CheckAdded(p) ==
    LET in == cmd[p].in
        tooMany == cmd[p].mode = "TYPE_WR" /\ Len(hd[p]) + Len(in) > MaxFields
    IN /\ pc[p] = "check" /\ cmd[p].op = "def"
       /\ IF tooMany THEN Exit(p)
          ELSE \E stale \in StaleSets(in) :
                  LET new == AddFields(hd[p], in, stale)
                  IN IF new = <<>> /\ hd[p] # <<>> THEN Exit(p)
                     ELSE /\ hd' = [hd EXCEPT ![p] = new]
                          /\ Goto(p, "lock")
                          /\ UNCHANGED <<cmd, at, chk>>
       /\ UNCHANGED <<lockvars, sch, dat>>

\* -a: perform_checks_on_schema changes the header in memory.
CheckGiven(p) ==
    LET result == PerformChecks(cmd[p].mode, hd[p], cmd[p].in)
    IN /\ pc[p] = "check" /\ cmd[p].op = "put"
       /\ IF ~Accepted(result.code) THEN Exit(p)
          ELSE /\ hd' = [hd EXCEPT ![p] = result.hd]
               /\ chk' = [chk EXCEPT ![p] = result]
               /\ Goto(p, "lock")
               /\ UNCHANGED <<cmd, at>>
       /\ UNCHANGED <<lockvars, sch, dat>>

\* Variant: whoever owns the lock, the command goes on.
LockAnyway(p) ==
    /\ pc[p] = "lock"
    /\ SchLock!Acquire(p) \/ (schowner # Free /\ UNCHANGED <<schowner, schlive>>)
    /\ Goto(p, "trunc")
    /\ UNCHANGED <<inxowner, inxlive, sch, dat, cmd, at, hd, chk>>

\* lock(fds[0],WLOCK) in check_data and for the record, lock(fd_schema,WLOCK)
\* in -R.  Another owner makes lock return -1 and the command gives up.
Lock(p) ==
    /\ pc[p] = "lock"
    /\ inxowner # Jammed /\ schowner # Jammed
    /\ IF cmd[p].op = "def"
       THEN \/ /\ SchLock!Acquire(p) \/ SchLock!Reclaim(p)
               /\ Goto(p, "trunc")
               /\ UNCHANGED <<inxowner, inxlive, cmd, at, hd, chk>>
            \/ schowner \in Proc \ {p} /\ Exit(p) /\ UNCHANGED lockvars
       ELSE \/ /\ InxLock!Acquire(p) \/ InxLock!Reclaim(p)
               /\ Goto(p, IF SavesHeader(chk[p].code) THEN "trunc" ELSE "append")
               /\ UNCHANGED <<schowner, schlive, cmd, at, hd, chk>>
            \/ inxowner \in Proc \ {p} /\ Exit(p) /\ UNCHANGED lockvars
    /\ UNCHANGED <<sch, dat>>

\* open_file(files[2], 1), then write_header, which writes nothing if the first
\* name is empty.
Trunc(p) ==
    /\ pc[p] = "trunc"
    /\ sch' = <<>>
    /\ at' = [at EXCEPT ![p] = 0]
    /\ Goto(p, IF hd[p] = <<>> \/ hd[p][1].name = NoName THEN "unlock" ELSE "write")
    /\ UNCHANGED <<lockvars, dat, cmd, hd, chk>>

Saved(p) == IF cmd[p].op = "def" THEN "unlock" ELSE "append"

\* write_header, one write after the other.
WriteHeader(p) ==
    /\ pc[p] = "write"
    /\ sch' = Put(sch, at[p], Cell(hd[p], at[p] + 1))
    /\ at' = [at EXCEPT ![p] = @ + 1]
    /\ IF at[p] + 1 = Size(hd[p]) THEN Goto(p, Saved(p)) ELSE UNCHANGED pc
    /\ UNCHANGED <<lockvars, dat, cmd, hd, chk>>

\* The rest of -a: the record goes to the data file (module IsamStore).
AppendRecord(p) ==
    /\ pc[p] = "append"
    /\ dat' = Append(dat, [fields |-> chk[p].rec, def |-> hd[p], code |-> chk[p].code,
                           in |-> cmd[p].in, mode |-> cmd[p].mode])
    /\ Goto(p, "unlock")
    /\ UNCHANGED <<lockvars, sch, cmd, at, hd, chk>>

\* Variant: the lock is released when the last part of the header is begun.
UnlockEarly(p) ==
    /\ pc[p] = "unlock" \/ (pc[p] = "write" /\ at[p] = NamesEnd(Len(hd[p])))
    /\ IF cmd[p].op = "def" THEN SchLock!Release(p) /\ UNCHANGED <<inxowner, inxlive>>
       ELSE InxLock!Release(p) /\ UNCHANGED <<schowner, schlive>>
    /\ Exit(p)
    /\ UNCHANGED <<sch, dat>>

Unlock(p) ==
    /\ pc[p] = "unlock"
    /\ IF cmd[p].op = "def" THEN SchLock!Release(p) /\ UNCHANGED <<inxowner, inxlive>>
       ELSE InxLock!Release(p) /\ UNCHANGED <<schowner, schlive>>
    /\ Exit(p)
    /\ UNCHANGED <<sch, dat>>

\* kill -9; a process that owns a lock leaves its lock file behind.  (hd is kept
\* to say what was being written.)
Kill(p) ==
    /\ pc[p] \notin {"idle", "dead"}
    /\ \/ /\ inxowner = p /\ inxlive
          /\ InxLock!Die(p) /\ Goto(p, "dead")
          /\ UNCHANGED <<schowner, schlive, cmd, at, hd, chk>>
       \/ /\ schowner = p /\ schlive
          /\ SchLock!Die(p) /\ Goto(p, "dead")
          /\ UNCHANGED <<inxowner, inxlive, cmd, at, hd, chk>>
       \/ /\ ~(inxowner = p /\ inxlive) /\ ~(schowner = p /\ schlive)
          /\ \/ UNCHANGED lockvars
             \/ /\ pc[p] = "lock" /\ cmd[p].op = "put"
                /\ InxLock!Jam /\ UNCHANGED <<schowner, schlive>>
             \/ /\ pc[p] = "lock" /\ cmd[p].op = "def"
                /\ SchLock!Jam /\ UNCHANGED <<inxowner, inxlive>>
          /\ Exit(p)
    /\ UNCHANGED <<sch, dat>>

Next == \E p \in Proc : \/ \E c \in Command : Begin(p, c)
                        \/ ReadNames(p) \/ ReadTypes(p)
                        \/ CheckAdded(p) \/ CheckGiven(p)
                        \/ Lock(p) \/ Trunc(p) \/ WriteHeader(p) \/ AppendRecord(p)
                        \/ Unlock(p)
                        \/ Kill(p)

Spec == Init /\ [][Next]_vars
-----------------------------------------------------------------------------
Label == {"idle", "read", "types", "check", "lock", "trunc", "write", "append", "unlock", "dead"}

Cells == [is : {"id", "version", "count", "length"}, of : Nat]
         \union [is : {"name"}, of : Name \union {NoName}]
         \union [is : {"type"}, of : Type \union {NoType, TypeInt}]

Record == [type : Type \union {NoType, TypeInt}, set : BOOLEAN]

TypeOK ==
    /\ InxLock!TypeOK /\ SchLock!TypeOK
    /\ sch \in Seq(Cells)
    /\ dat \in Seq([fields : Seq(Record), def : Seq(Field), code : Nat,
                   in : Seq(Field), mode : Modes])
    /\ pc \in [Proc -> Label]
    /\ cmd \in [Proc -> Command \union {NoCommand}]
    /\ at \in [Proc -> Nat]
    /\ hd \in [Proc -> Seq(Field)]
    /\ \A p \in Proc : chk[p].rec \in Seq(Record)

\* A half-written definition has an owner: as long as commands are given one at
\* a time, and of one kind once one was killed, no command can save what it read
\* of a definition cut short (main.c:754-783, crud.c:204-228).
TornIsOwned == Whole(sch) \/ inxowner \in Proc \/ schowner \in Proc

\* While a command writes the definition, the file holds what it has written so
\* far and nothing else: commands of one kind, or given one at a time, never
\* write into each other's definition (write_header).
HeaderOfWriter == \A p \in Proc : pc[p] = "write" => sch = Begun(hd[p], at[p])

\* The file's definition, or the one being written in its place.
Def == IF Whole(sch) THEN DefOf(sch)
       ELSE LET writers == {p \in Proc : pc[p] = "write" \/ (pc[p] = "dead" /\ hd[p] # <<>>)}
            IN IF writers = {} THEN <<>> ELSE hd[CHOOSE p \in writers : TRUE]

Definition == INSTANCE FileDefinition WITH def <- Def, busy <- ~Whole(sch)

\* When commands are given one at a time, and of one kind once one was killed,
\* the definition only grows and no field changes its name or type
\* (README.md:112), whatever the modes and inputs, though each command reads,
\* changes and rewrites all of it.
ImplementsDefinition == Definition!Spec

Idle == (\A p \in Proc : pc[p] = "idle") /\ inxowner = Free /\ schowner = Free

\* When no command runs and no lock file is left, the definition is whole and
\* still begins with the fields under which each record was stored: "you can add
\* to it", and nothing else (README.md:112; crud.c:204-228, main.c:754-783).
RecordsFit ==
    Idle => /\ Whole(sch)
            /\ \A n \in DOMAIN dat : IsPrefix(NamesOf(dat[n].def), NamesOf(DefOf(sch)))

\* A field of the record i has the value given for the input field f.
Stores(r, i, f) == r.fields[i] = [type |-> f.type, set |-> TRUE]

\* A record with only some of the fields, accepted as such (SCHEMA_CT), is
\* stored under the names and types of the definition, and has no other field
\* set (check_schema, schema_check_type, parse_input_with_no_type); unless some
\* types are declared and some not (HYB_WR).
PartialIsStored ==
    \A n \in DOMAIN dat :
        LET r == dat[n]
        IN r.mode # "HYB_WR" /\ r.code = SCHEMA_CT =>
            /\ \A j \in DOMAIN r.in : \E i \in DOMAIN r.def :
                    r.def[i] = r.in[j] /\ Stores(r, i, r.in[j])
            /\ \A i \in DOMAIN r.def : r.fields[i].set =>
                    \E j \in DOMAIN r.in : r.in[j].name = r.def[i].name
=============================================================================
