# TLA+ models of isam.db

isam.db is a file database driven from the command line. One logical file is
three files on disk: `.dat` (records), `.inx` (hash tables from keys to record
positions) and `.sch` (the file definition). Every invocation of the program
opens the three, does one thing and ends; there is no server. Invocations
coordinate through lock files named after the inode they protect. What is hard
in this system is therefore what happens *between* processes and *after* the
death of one: all of it is spread over `lock.c`, `main.c`, `file.c` and
`crud.c`, and hardly any of it can be tested from the shell.

Paths and line numbers below are relative to `src/`.

## 1. Inventory

| component | state | operations | interacts with | what makes it correct |
|---|---|---|---|---|
| lock file (`src/lock.c`, loops in `src/main.c`) | a file `<inode>.lock` with a pid | `is_locked`, `lock(WLOCK)`, `lock(UNLOCK)`, the unlink of `-e` | every writing command | mutual exclusion; a command that reports success leaves no lock; everyone ends |
| hash table (`src/hash_tbl.c`) | buckets, chains of nodes with a string or a 32-bit number as key | `hash`, `get`, `set`, `delete`, `len`, `keys` | index file, `-a -D -k -u -x` | each key once, in its bucket; get finds what set put |
| index file (`src/file.c` 163-577, 6253-6348) | the `.inx` file: a count, positions, tables | write head, write body, read one table, read all, add an index | hash table, all commands | what is read is what was written, also when the writer was killed |
| commands on records (`src/main.c`, `src/crud.c`) | the tables in memory, position of the record | `-a`, `-D`, `-D -o all`, `-A`, `-k`, `-u`, `-x` | everything above | the commands are atomic changes of one map from keys to records |
| record files (`src/file.c` 623-6168) | the `.dat` file: fields, paddings, array blocks, update links | `write_file`, `read_file`, `get_update_offset` | `-a -u -k`, import | what is read is what was written; no write runs over a neighbour |
| file definition (`src/parse.c`, `src/crud.c` 143-236, `-R`) | the `.sch` file, the header in memory | read, write, add fields, check a record against it | `-a -u -R`, import | only grows; no command's fields are lost; types do not change |
| update of a record (`src/main.c` 1089-1513, `src/parse.c` 1885-3357) | the chain of a record's fragments in `.dat`, `Recs_old` | `-u`: find what differs, write it in place, append a fragment | record files, file definition, lock | sets the fields it is given and no other; no link leads astray |
| record in memory (`src/record.c`) | fields, dynamic arrays, `Recs_old` | set, copy, compare, insert | update, record files | copies are equal; limits are kept |
| import (`src/build.c`, `src/crud.c` 238-337, RAM half of `src/file.c`) | a memory image of `.dat`, tables kept open | `-B`, `-b`, `-c` | all files, lock | same result as the single commands; lock released |
| journal (`src/journal.c`) | a stack of deletions, its file, an archive | push, pop, peek, read, write | `-D` | a deletion can be found again; nothing is lost at the limit |
| input strings (`src/str_op.c`, `src/input.c`) | none | parse names, types, values; `key_converter` | `-a -R -k` | total, and one meaning per input |
| tree, sort, dates, helpers (`src/bst.c`, `src/sort.c`, `src/date.c`, `src/helper.c`) | a tree of keys for `-x` | insert, traverse, sort, print | `-x` | order |

The hazards of each, with their lines and the properties that cover them, are
the `hazards` of `PROJECT.json`.

## 2. Modules

```
FileMutex  (abstract lock)        KeyStore (abstract map)
    ^                ^                ^
    | refined by     | used by        | refined by
LockFile             +--- IsamStore --+
                            | EXTENDS
                          HashTbl
LockFileProofs     HashTblProofs <- IsamStoreProofs
MCLockFile         MCIsamStore

Records (abstract) <--- refined by --- UpdateChain        FieldStore
                         MCUpdateChain                       MCFieldStore
                         UpdateChainProofs <- UpdateRecordsProofs
                                                             FieldStoreProofs

FileDefinition (abstract) <--- refined by --- SchemaFile --- uses twice ---> FileMutex
                                                  | EXTENDS
                              MCSchemaFile      Schema ---> Positions
                              SchemaFileProofs -> PositionsProofs
```

**FileMutex** states what callers of `lock.c` rely on: at most one live owner;
an owner that dies keeps the lock; only a process with the same pid can take it
over; a creator that dies at the wrong moment jams it.

**LockFile** is `lock.c` with every `fopen`, `fgets`, `fclose` and `unlink` as a
step of its own. `name` is the inode behind the name `<inode>.lock`, `content`
the pid on its first line and the length of the file (a shorter pid written over
a longer one leaves a tail, which is why `unlock` may fail to recognise its own
file), `fp` the stream a command has open for writing (its text reaches the
file at `fclose` only), `pc` the place in the sequence of
`src/main.c` 992-1077. `AddZeroKeepsLock` is the one exit besides: `-a` with the key 0
jumps from `main.c` 1021 to the error label of `-u` (1515), whose `lock_f` nobody has
set, and the command ends with its lock file (`kept`) or, as after any other command,
without (`UnlockRead`). `Crash` loses what the stream holds; `Recycle` gives the pid
of an ended command to a new one. `SpecDisjoint` is the same system in an
environment where no two commands are at the same time between the `fopen` that
finds no file and the `fclose` of the one they make.

**HashTbl** has the tables: `set`, `get`, `delete`, and what `write_ht` followed
by `read_index_file` makes of a table (`Load`). `hash()` is a constant function,
so that the theorems hold for any. Three things in it are not what one expects
and are kept as the code has them: a numeric node whose bucket is not empty is
lost when the table is loaded (`Keep`); an operation on a string key reads the
number of a numeric node as a pointer and ends the process (`BadPointer`,
`Kills`); a table cut off at its last node is loaded with zeros for what is
missing: the value (`ZeroValue`) or the whole node (`ZeroKeyNode`). A number without its bytes is
the key 0, kept only in an empty bucket; a string without its bytes is the key `""`,
appended to whatever is there, so that a table may hold `""` more than once.

**IsamStore** is the commands `-a`, `-D`, `-D -o all`, `-A` and `-k` as processes
on one file. The lock is FileMutex (the composition is justified by
`LockFileImplementsMutex`, under its condition). `inx` is the index file with
how far the rewriting of it has come: it is truncated, then the head, then the
tables are written, and a kill may come between any two writes. `mem` is `ht` of
the command, `off` the position of its record, `dat` the records. `calm` is a
history variable: whether the index file was left alone since a get began.

| action | code |
|---|---|
| `LockIndex`, `Unlock` | `src/main.c` 992-1000, 1072-1088 |
| `AddSet`, `WriteRecord`, `WriteRest` | 1002-1037, `write_file` |
| `Del`, `DelAll` | 810-922 |
| `AddIndex` | `add_index`, `src/file.c` 6253 |
| `TruncIndex`, `WriteHead`, `NextBody`, `WriteBody` | `open_file`, `write_index_file_head`, `write_index_body`, `write_ht` |
| `Find`, `Lookup`, `Fetch` | `read_index_nr`, `read_index_file` and `get`, `read_file` in `get_record` |
| `Kill` | a signal, at any point |

**KeyStore** is what the commands promise: a map from keys to positions that
changes atomically, one key at a time or all at once. IsamStore refines it with
`map` = index 0 as the next command will load it, or as it is about to be
written (`Index0`).

**Schema** is what `parse.c` decides: whether an input fits a definition, and what
definition and record come out of it. A definition is a sequence of fields
(name, type or `NoType`); an input is the same, its types declared or guessed
from the values (`assign_type`). `PerformChecks` is `perform_checks_on_schema` in its
three modes (all types declared, none, some), `AddFields` is what `-R` adds. Names are numbers
in the order of `strcmp`, and `StartsOf` says which is the start of which, because most
comparisons are `strncmp` by the length of one name. The result codes keep their
numbers: `schema_ct_assign_type` adds to them. What is uninitialised in the code
(`StaleSets`) is any value here.

**Positions** is what the program does when it takes the elements of an array at the
indexes kept in another one (`AtPositions`), which Schema does in each mode.

**SchemaFile** is `-R` and `-a` as processes on the `.sch` file, which is a row of cells,
one for each write of `write_header`: id, version, count, for each field the length of its name and
the name, then for each field its type. Each command has its own descriptor, whose offset
is `at`. It reads the file in two steps without a lock (`ReadNames`, `ReadTypes`; what is
not there reads as zeros), decides (`CheckAdded`, `CheckGiven`), locks (`Lock`: `-R` the `.sch`
file, `-a` the `.inx` file), truncates (`Trunc`) and writes cell by cell (`WriteHeader`).
As the two locks do not exclude each other, the rewrites of an `-R` and an `-a` may
overlap: `Put` writes at the command's own offset, beyond the end of the file too, which leaves a
hole of zeros. `dat` records each accepted record with the definition and the input it was
made from. Three constants say how commands are given: `Overlap`, whether one starts while another
runs; `AfterKill`, whether an `-R` follows a killed `-a` or the reverse (those of the kind that
was killed may always follow, and find the lock taken); `PidReuse`, whether a new one may get the pid
of a killed one.

**FileDefinition** is what `README.md` promises: fields are added at the end, a
field without a type may get one, nothing else changes. SchemaFile is mapped to
it by `Def`: the definition in the file or the one being written in its place.

**FieldStore** is one record in the `.dat` file, with an array of any type and a text
after it, and another record behind it. `io` is the file as bytes, its offset and
the variables of `write_file` that all strings share (`grown` is
`__n_buff_update`, `eof`, `back` is `go_back_to`); `w` those of the array code (`step`,
`sz`, `padding_value`, `go_back_to_first_rec`). `write_file` has a copy of the array code
per type, nearly equal; `IntCopy` to `StringCopy` hold what differs between them, the bugs included;
for the numbers `map` gives these the part of the copy where it differs, from the first use of
the element size to the skip over the padding, and each other definition the lines it translates
in one of the copies.

| action | code (`src/file.c`, one of the copies) |
|---|---|
| `ReadSize` | 1000-1023: the size of the block decides |
| `FillBlock`, `OverwriteBlock` | the loop over blocks smaller than the array |
| `FollowLink`, `AppendBlock`, `LinkBlock` | to the next block, or to a new one at the end, linked when it is written |
| `ShrinkBlock`, `SameSize` | the array ends in this block |
| `Return`, `WriteText`, `WriteEnd` | back to the field after the array, the text, the link to the next fragment |

**UpdateChain** is `-u`: `dat` is a sequence of items (a fragment, or a text that
outgrew its buffer and took a place at the end), `head` the index, `u` the variables of
`-u`: the input, what `check_data` said of it, `Recs_old` with positions and what
is to be written (`old`), the loop variable (`next`), the end of the file where
the new fragment goes (`eof`).

| action | code |
|---|---|
| `Add` | `-a`, one step: it owns the lock throughout |
| `StartUpdate`, `Unlock` | `src/main.c` 1091-1118, 1426-1433 |
| `FindRecord`, `Collect` | 1119-1208, `insert_rec` |
| `UpdateInPlace`, `Crash`, `LinkFirst` | a record of one fragment: 1434-1490, `compare_old_rec_update_rec` |
| `FindFields`, `WriteFragment` | one of several: 1209-1272, `find_fields_to_update`, `compare_rec` |
| `NothingNew`, `NewFragmentDue`, `LinkNothing` | 1274-1286, 1358-1424 |
| `WriteHalf`, `WriteRest`, `LinkLast` | the new fragment and the link to it: 1287-1357, 1491-1504 |
| `Kill` | a signal, at any point |

**Records** is what `-u` promises: only the fields it is given change, each
once, of its own record; "updated" is said when all of them are set. UpdateChain is mapped to
it by what a get shows for each field (`Shown`).

The code does not keep these promises for every history. `Handled` in both modules
says for which it does, and the constants `AnyUpdate` and `AnyHistory` lift it;
section 3 lists what happens then.

Definitions marked "Variant" in the comments are faulty versions of the
definition after them (a dropped comparison, a step left out). Nothing uses
them; they are there to be put in the place of the right ones and show that the
properties notice.

## 3. What the runs show

| run | instance | result |
|---|---|---|
| `lock_disjoint` | 3 commands, 4 inodes, pids of two widths, kills, reuse, creations do not overlap | mutual exclusion, own file, refinement of FileMutex (208 007 states) |
| `lock_ends` | 3 commands, 4 inodes, pids of two widths, kills, no reuse, fair | no command leaves a lock file with its pid unless it is killed in its section or fails there, in any interleaving; every command ends unless an empty lock file was left (24 430) |
| `lock_race` | 3 commands | **violated**: two commands in the section together |
| `store_refines` | 2 commands, 2 string keys in one bucket, 1-2 indexes, 2 records | refines KeyStore; half-written files stay locked (199 486) |
| `store_mixed` | 2 string keys and a number in one bucket; add, delete, get | entries point to whole records of their key; undisturbed gets are exact (371 469) |
| `store_pid_reuse` | a string and a number, 2 indexes, pids reused | tables stay well placed after half-written files are loaded: each key in its bucket, each that a command can name at most once (725 578) |
| `store_lost_key` | 3 keys, 4 records | **violated**: a key is dropped by a load and used again |
| `schema_refines` | 2 commands, one at a time, 8 inputs to `-a`, 3 to `-R`, 3 modes, 2 records, kills, later commands of the kind that was killed | the definition only grows; torn ones stay locked; accepted partial records are stored as defined; every record fits the definition (847 874) |
| `schema_two_writers` | 2 `-R` at the same time, kills, pids reused | under one lock nobody writes into another's definition (418 041) |
| `fields` | an array of each of 6 types, up to 5 elements (texts of 1 or 5 bytes), 3 updates | reads back; gets in between see old or new; the neighbour is untouched (327 518) |
| `update_refines` | a record of 3 fields (one a text) updated 4 times, `-a` of another, kills | refines Records; positions known; fragments whole when linked (511 184) |
| `update_any` | 2 records of 2 fields, any 3 updates, kills, fair | links lead forward; every update ends (1 086 955) |

Bounds. Three commands are needed on the lock: one in the section, one that
creates, one that reads in between; four inodes let each of them meet a fresh
file. Two commands are enough on the store, because the lock admits one writer,
and the second is a get or the next writer; keys share a bucket, because keys
of different buckets do not meet. `MaxRecs` and `MaxIndexes` bound new commands
only (a command that has begun is never cut off by them). Two buckets are the
least with which a string key does not divide by zero.

A definition of two fields with one type missing and inputs of one to three
fields meet each mode of `perform_checks_on_schema` with fewer, as many and more
fields than defined. `MaxDef` and `MaxRecs` bound new commands only. In
`schema_two_writers` a single type, one-field inputs and the mode `TYPE_WR` keep the states few, since
the property is about who writes, not about what. Two commands are enough in both: a third would find
the same lock taken.

`fields`: five elements fill a block of one, two or three and outgrow it twice; the third
update meets what two others left. Six elements, or a fourth update with four, show nothing more.
`MaxElements` (20) only cuts off what is read out of bytes that were never written as a size. Texts of 1 and 5 bytes are shorter and longer than the
buffer of the shorter one (3 bytes); larger ones change nothing. `update_refines`: three
fields make a chain of three fragments, which is what `MAX_RECS_OLD_CAP` (3 here, 100 in
the code) holds; a field new to the definition makes a fourth, whose position is the first
one kept elsewhere. That takes four updates: two to give the record all its
fields, one to add the new one, one to read the chain of four. So that four updates stay
within reach the inputs are one field or the first two with any value, and all with the
largest (`SomeInputs`); all selections of three fields, three updates deep, were
checked too and show nothing else. Only one of the two records is updated: the other one is
there for its place in the file. `update_any` updates both, with chains of up to
three.

The violations are real disagreements between the code and what its
comments or `README.md` say; `findings` in `PROJECT.json` quotes both sides.

The models show more that the code does and a reader would
not expect. No run is kept for these; each follows from the definition named, and,
but for the overlapping rewrites and the kill under "Of index files and concurrent commands", the
built program was seen to do the same.

Of index files and concurrent commands:

* `-k` reads without the lock: a node whose value is not written yet has the
  value 0, and the record at position 0, of another key, is shown (`Fetch`, `main.c` 1575);
* two `-R` that both read the definition before either locks it: the second
  removes the field the first added (`Lock` after `ReadTypes`, `main.c` 755);
* an `-R` and an `-a` rewrite the definition at the same time, each under its own lock and at its own
  offset: the file may be left with a hole of zeros where its id was, and no command reads
  it any more, though nothing was killed (`Put`, `crud.c` 214-222 and `main.c` 754-770).
  With `Overlap = TRUE` TLC finds `ImplementsDefinition` violated in `schema_refines`;
* an `-a` after an `-R` that was killed in its rewrite: `is_locked` returns -1 and not `LOCKED` on a
  lock of another pid (`lock.c` 123-131), so the `-a` reads the torn definition, its last names
  empty and its last types zeros, and saves it under the lock of the `.inx` file
  (`Lock`, `crud.c` 214). A field of the base definition has then another name or type, against
  `README.md` 112 ("this base definition cannot change anymore"). With `AfterKill = TRUE`
  TLC finds `ImplementsDefinition` violated in `schema_refines`.

Of the file definition:

* `-R` with a new field and then one that exists defines the latter twice
  (`AddFields`, `parse.c` 1010-1034);
* `-a` with all types declared and more fields than defined adds fields with an
  empty name (`SortLikeHeader`, `parse.c` 937);
* `-a` with the declared types of two fields swapped is accepted
  (`CkInputSchemaFields`, `parse.c` 649), and a number of any type passes for a
  number (`CheckTypeEq`);
* a type given by a record is not saved when the record has two more fields that
  have one (code 14), and a valid record is refused when it meets exactly two
  fields that have types (code 2) (`CtAssignType`, `parse.c` 1466-1484);
* `-a` with some types declared and part of the fields loses values
  (`SortPartial`, `parse.c` 876-894);
* with a definition that still has an untyped field, a record given without types is not
  compared with the types defined, and one of exactly five fields whose types are known is taken for
  a definition that is as expected (`CtAssignType`, `parse.c` 1464-1484, 1577);
* `-R` looks at the limit of 200 fields only when all types are declared
  (`CheckAdded`, `main.c` 713-722);
* `-R` on a file created without a definition leaves the `.sch` file empty (`Trunc`),
  so `TornIsOwned` holds only of files created with one.

Of `-u` (UpdateChain; `Handled` leaves these out of `update_refines`, `update_any` has
them all):

* on a record of several fragments only the first differing field of each
  fragment is updated (`FindFieldsToUpdate`, `parse.c` 2847);
* on a record of one fragment an input of which some fields are in the record and
  others not loses the others (`UpdateCommon`, `parse.c` 1911; `UpdateAll`), also those that
  are new to the definition; if one of them is a text the process
  dies with the lock held (`Crash`, `parse.c` 2143);
* a new text that is a start of the old one is taken for equal (`Differ`,
  `record.c` 2231);
* with fields new to the definition, the fragment for them is linked only
  when the last fragment is one that is rewritten (`LinkOf`, `main.c` 1257): else it is
  written, nothing points to it and "updated" is printed, although the
  comment at `main.c` 1350 says the position "was already set";
* the same when a text of the last fragment grows: the link leads to the text
  (`main.c` 1258);
* when nothing else changes the last fragment is linked to the end of the file and
  the command ends as failed (`LinkNothing`, `main.c` 1410): the next record added is
  shown as a part of this one;
* fields are added twice when a fragment does not hold the field of its number
  (`IsOld`, `parse.c` 3155);
* the first fragment added to a record is linked before it is written
  (`LinkFirst`, `main.c` 1480): a get in between, or the next command after a kill,
  meets an empty or half a fragment;
* a record with more fragments than `MAX_RECS_OLD_CAP` is not updated any more
  (`FindFields`), which is why the further branches of `insert_rec` are never reached
  (`PositionsAreKnown`).

Of the layout (FieldStore; `Handled` leaves these out of `fields`):

* an array that ends inside a later block which is larger than the whole array gives
  old elements back (`ShrinkBlock`, `file.c` 1281);
* one that becomes shorter a second time in a later block goes wrong: the first time leaves
  padding there (floats, 2 then 5 then 4 elements), and the second time
  `is_array_last_block` (`file.c` 7141-7180) is given the size without the padding
  (`file.c` 1983, 2041) and takes the padding for the link to the next block (`IsLastBlock`);
* an array of doubles that goes on into a later block that exists starts
  there with its first element again (`DoubleCopy`, `file.c` 4291);
* padding in an array of bytes is skipped by half (`ByteCopy`, `file.c` 3834);
* in an array of strings that becomes shorter, texts after one that outgrew
  its buffer are written to the same place (`ShrinkTexts`, `file.c` 3141), against the
  comment at `file.c` 629 ("each string fields can be updated regardless the
  string size"); one that goes on after padding comes back to the wrong place
  (`FollowLink`).

Deadlock is not checked: a lock file left empty, or with the pid of a killed
command, stops the system for good, and commands come to an end.

Fairness. `lock_ends` assumes that each command keeps running unless it is
killed (weak fairness of `Step(p)`): commands are processes of the operating
system and their waiting loops (`while(lock(...) == WTLK)`) call again and
again. Nothing is assumed about kills or new commands. `update_any` assumes the same
of the one `-u` there is (weak fairness of `Step`).

## 4. What is proved

With TLAPS, for every value of the constants. The proofs of a component are in modules of
their own.

**The lock** (LockFileProofs).

* `LockIsNeverLeaked`: `Spec => []NoLeakedLock`, in every interleaving, for pids of any widths
  and with reuse. A lock file with the pid of a command belongs to one in its section, to one killed
  there, to an `-a` with the key 0 (`kept`), or to one that reported a failure because
  the file has the tail of a longer pid after its own, which two overlapping creations
  can leave. No other command ends and leaves one.
* `DisjointMutualExclusion`, `DisjointHolderOwnsFile`, `LockFileImplementsMutex`: under
  `SpecDisjoint`, for any widths and with pid reuse. The inductive invariant
  (`DisjointInv`) says of each program point what the name, the content and the open stream
  are; "at most one in the window" is what makes it inductive, and without it
  `lock_race` is the counterexample.

**The tables** (HashTblProofs). Every operation, `Load` and each way of cutting a table off
preserves "each key in its bucket, and but for `""` once" (`SetIsGood`, `DeleteIsGood`, `LoadIsGood`,
`ZeroKeyNodeIsGood`, ...), for any hash function. In a table of string keys a get finds what
`set` put, does not find what `delete` took, and finds every other key as before
(`GetOfSet`, `GetOfDelete`), and the table comes back from the file as it was
(`LoadStrings`). The last is false of numeric keys: `Keep` drops them.

**The index file** (IsamStoreProofs).

* `IndexesStayWellPlaced`: `Spec => []IndexInv`, from those lemmas, with the same
  exception: `""`, which no command can name, may be there several times. The
  strengthening `StoreInv` adds that a command in its protected section owns the
  lock (`Owns`), which is why only one process rewrites the file, and that the
  count in the head is that of the tables being written (`BodyNum`).
* `TornIndexKeepsItsOwner`: `~PidReuse /\ Spec => []TornIsOwned`. Inductive with
  `TornInv`: a writer that is not rewriting has a complete file before it, and a
  killed owner stays dead. `~PidReuse` is needed by everything that follows: a command
  that gets the pid of a killed one takes its lock and loads half of a file.
* `KeysPointToTheirRecords`: `~PidReuse /\ Spec => []PointsToRecord`. `PointsInv` says the
  same of the tables a writing command has in memory, but for the one node it has set
  and whose record it has not finished; `-a` writes the record before the index.
* `QuietGetsAreExact`: `~PidReuse /\ Spec => []QuietGetIsExact`. An absent numeric key and a get that dies of a
  number in the bucket of its string are excepted. `QuietInv` says what a
  get has in hand at each of its steps, of a file nobody has touched since.
* `StoreImplementsKeyStore`: `StringFile /\ Spec => ImplementsKeyStore`, where all keys are
  strings and pids are not reused. `RefInv` ties a rewriting command's memory to the
  file: before it truncates, its table is the one in the file after one operation
  (`Successor`), afterwards the file is a prefix of its memory. With numeric keys there is
  no such map, since loading a table loses nodes: `store_mixed` is the run for them.

**The file definition** (PositionsProofs, SchemaFileProofs).

* `AddFieldsExtends`, `PerformChecksExtends`: whatever the definition, the input, its
  mode and what uninitialised arrays held, `-R` and `-a` add fields at the end and change none but
  by giving a type to one without. Both are about sequences put together from
  positions in other sequences; `AtPositionsIs` is the lemma they rest on.
* `DefinitionsAreTyped`: `Spec => []TypeOK`, whatever commands overlap or follow killed ones. `IInv`
  adds that a command which rewrites owns its lock (`Owns`), that what it holds comes from
  its input (`Commanded`, `Checks`), and that it writes at an offset within its definition (`Within`).
* `WriterOwnsHeader`: `HeaderOfWriter` under `Disjoint` (commands one at a time, or only `-R`,
  or only `-a`), with kills, reused pids and commands of either kind after a killed one. `WInv` says that the file is a
  definition or the beginning of one (`FileBegun`) and that a writer has it for itself
  (`HeaderOfWriter`, from `Owns`: one lock has one owner). Without `Disjoint` it is false: section 3.
* `TornDefinitionIsOwned`, `CommandsOnlyAdd`: `TornIsOwned` and the refinement of FileDefinition
  under `Careful`: commands one at a time, of the kind that was killed once one was, pids not
  reused, a file made with a definition whose first field has a name. The refinement is false without: the
  definition is read before the lock is taken, so an overlapping command may
  undo what another has added; after a kill one of the other kind is not kept out and saves a torn
  definition; a reused pid takes the lock over; without a first name the file is truncated and
  nothing is written. Any number of commands may follow a killed one: they read the torn definition, and `AInv` is
  why they cannot save it (the owner of the lock is dead and they need the same lock:
  `DeadOwns`, `OneKind`, `LiveOwner`). `SoloInv` says that the definition a command holds extends the one in the file
  from the moment it has read it.
* `PartialRecordsAreStored`: `PartialIsStored` under `Disjoint` and `WellNamed`, with kills, reused pids
  and commands of either kind after a killed one. `WellNamed` demands that no name starts another
  (`strncmp` takes such names for equal), that the first definition has each name once
  (`OnceNamed`), that each `-R` has exactly one field (with more, an existing one may be
  defined twice), that the inputs of `-a` name their fields, and that none of exactly five
  fields is given without types (five is also the code for "as expected"). `PartInv` says beside it
  that the file has each name once (`FileOnceNamed`) and what a command has in hand between its check and
  its record (`HoldsRecord`). It rests on counts: an input with as many fields in
  common with the definition as it has fields has all its fields there.

**Updates** (UpdateChainProofs, UpdateRecordsProofs).

* `LinksLeadForward`: `Spec => []LinksForward`, for any records, fields, values,
  inputs and number of updates, killed or not, those the code does not handle included.
  `ChainInv` adds what links are made from: the positions in `Recs_old` increase
  and lie in the file where the fragment has fields (`PositionsForward`); the link
  followed next comes after the last fragment read (`NextForward`); the place taken for the new
  fragment comes after the last one that will be written (`EofForward`). The
  last needs that a fragment without fields is never written: a record that was
  linked to the end of the file by a killed command has its last "fragment"
  exactly where the next one goes.
* `PositionsStayKnown`, `ReaderAlwaysMeetsWhole`, `ChainImplementsRecords`:
  `PositionsAreKnown`, `ReaderMeetsWhole` and the refinement of Records, under
  `~AnyUpdate`: each update is of a kind the code handles (`Handled`) when it
  starts. Without that the refinement is false; section 3 says for which updates. (Of the
  two invariants no counterexample is known: small instances with `AnyUpdate` satisfy
  them, but their proof uses the invariant of handled updates.) What the later steps
  of an update do is not assumed but proved, for chains of any length,
  any number of updates and of records, and kills anywhere.

The invariant of these three, `HandledInv`, holds of every record (`RecordsSound`): its
fragments are whole, each has fields, no two have the same one, there are at most
`MAX_RECS_OLD_CAP` and one of them, and no fragment is in two records. The chain that a reader follows may be one
place longer while a fragment is added, because some updates link it before it is
written (`Ahead`, `Place`). `OldIsRead` and `OldIsUpdated` say what `Recs_old` holds beside the file:
the fragments as far as they have been read, then what they will be; `FieldsMissing` is why
only an input with a field the record does not have leads to a new fragment,
and `Addition` that this fragment is at the end of the file, whatever `-a` did before.
`SaysTrue` is the promise itself at the moment "updated" is said. A killed update
keeps the lock, so its record may stay half written but nobody updates it again.
The chain of a record is a recursive function; `ChainUnfolds` shows that it is
defined (by the least counterexample, as the links lead forward) and `ChainIsPath`
that it is a path through the file. Everything else is proved of paths.

**The layout of a record** (FieldStoreProofs).

* `NumbersReadBack`, `NumbersLeaveTheNeighbour`, `NumbersAreOldOrNew`: the three properties of
  `fields` whenever the array is of numbers, of each of the five types, for any number of
  updates and arrays of up to `MaxElements` elements (`Followed`: updates the code handles, arrays
  that are not empty). The instance of `fields` satisfies this hypothesis; strings are only
  checked there.

The inductive invariant (`Inv`) says that the file has a layout, what of it the update has written
and where it stands. The layout (`Layout`) is a list of blocks, of any length, with their places
in the file and in the array (`IsChain`), and the place of the text and of the buffer that
replaces its own (`IsText`); everything moved or added is behind the neighbour (`Behind`). From
it follows what `read_file` finds (`ReadRecordIs`, `ElementIs`): the recursive function
is defined (`ReadFromUnfolds`), as it follows only links that lead forward. A write of some bytes leaves what lies elsewhere (`PutIs`, `BlockKept`,
`TextKept`); each action is then one of a few changes of a layout: a text is written in
its buffer or at the end (`TextWritten`), a block is added and linked (`BlockLinked`), or a block keeps its room
while its size and padding change and the later ones move in the array (`LayoutReplaced`). The blocks
before the present one hold the new array (`Written`); unless the array becomes shorter the
others hold the old one (`Kept`), which is what makes a get in between, or after a kill, see old
or new elements and none missing. That an update meets only blocks it can deal with is not assumed of its
later steps: `HandledFits` turns `Handled`, said of the file when the update starts, into a
statement on the blocks still to come (`FutureFits`), and each step preserves it.

The type invariants of LockFile, IsamStore, SchemaFile and UpdateChain are proved too; that
of UpdateChain says also that every key has a record in the file.

Only model-checked:

* FieldStore for arrays of strings: an element there has a place like that of the text, moves
  like it, and the blocks have no fixed width. In the run these arrays are as the others;
* liveness: `EndsUnlessStuck`, `UpdateEnds`;
* `RecordsFit`.

Neither proved nor checked, because they do not hold: the refinement of FileDefinition with several
commands at a time or of both kinds after a kill, that of KeyStore with numeric keys, and mutual
exclusion when creations overlap. The runs `store_lost_key` and `lock_race` and section 3 say
how they fail.

## 5. Limits of the models

* IsamStore uses FileMutex, so its results hold while acquisitions do not
  overlap; when they do, `lock_race` shows that two writers run together.
* `PointsToRecord`, `TornIsOwned` and the refinement are stated without pid
  reuse; with it a writer may load a half-written file.
* A get reads one table at one moment; it takes the position of the table and
  the table itself at two moments. Tearing inside the table while it is read is
  not modelled.
* A numeric key compared with a string node compares the number with a part of
  a pointer; the model takes them for different.
* Keys with bytes above 127 and `-s` above 503 are left out (see the hazards).
* Errors of `read`, `write` and `calloc` are not modelled, the end of file is.
* Records of IsamStore are opaque: written in two steps, whole after the second.
* FieldStore: one array and one text; the steps of `write_file` on one block are one
  action, so a kill or a get between the bytes of one block is not seen. A number is in the last
  two of its bytes, whatever its size; with others it is one value, `Huge`. Arrays have at most
  20 elements (`MaxElements`). A calloc of a size that is none fails. Nested records (`TYPE_FILE`) are
  left out.
* UpdateChain: fields are numbers and texts; a text is the number of its length,
  each a start of the longer ones. `-a` is one step. After an update has added a field to the
  definition the inputs are those of the fields before. All fields of the definition have a type,
  so the codes 11 to 13 of `check_data` do not occur. Numbers are ints, longs or floats: for bytes and
  doubles `find_fields_to_update` marks the fragment that has the number of the
  field too (`parse.c` 2883, 2888), which is left out. The lock is a
  flag: kills keep it, and no pid is reused.
* Schema has scalar types only: arrays (whose numbers are converted) and files in
  a field are left out. Values are left out; `assign_type` is the type of the
  input, so an input whose value does not match the declared type is not told
  apart. The name of an input is never empty.
* SchemaFile: reading the names and reading the types are one step each; what is read where the
  file holds something else may be any name or type. A name fills one cell, so an empty one
  leaves the file as long as another. The run sees inputs of up to three fields, so `PartialIsStored`
  does not meet the input of five (section 3). The rewrite that `-u` makes through `check_data` is left
  out: `-u` is not a command of this module.

## 6. Not modelled, and what is left

Not modelled: the import (a text parsed into memory and written in one go, from the
beginning of `.dat` and without a lock: the promises of KeyStore hold of it only
on a new file that nobody else uses; its hazards are listed), the journal (it never opens its file, `journal.c` 21, so
nothing of it is reached), the binary tree, sorting, dates, printing and the
parsers of the command line (sequential, without state that outlives a call).

What could be added, in this order:

1. *Hash*: the arithmetic of `hash()` and `key_converter` at the edges (32-bit
   wrap, `-s 1`, key 0, keys above 2^32) against the mathematical definition.
2. *IndexReader*: get at the granularity of nodes.
3. *Import*: the memory image, string keys, the unlock of a closed descriptor.
