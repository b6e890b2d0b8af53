---------------------------- MODULE UpdateChain ----------------------------
(***************************************************************************)
(* -u on a file: a record is a chain of fragments, each with the offset of *)
(* the next.  An update reads the chain into Recs_old, decides for each    *)
(* fragment whether to write it again in its place, and adds a fragment at *)
(* the end of the file for the fields the record did not have.             *)
(*                                                                         *)
(* The data file is a sequence of items: fragments, and texts that outgrew *)
(* their buffer and went to the end of the file.  The inside of a fragment *)
(* is the subject of FieldStore.  The values of a string field are         *)
(* numbers: each is a start of the next one, and outgrows its buffer.      *)
(***************************************************************************)
EXTENDS Integers, Sequences, FiniteSets

CONSTANTS
  Keys,         \* the records of the file
  Updated,      \* those of them that are updated; the others are only added
  Base,         \* number of fields of the definition
  Strings,      \* the fields that are strings
  Values,       \* the values of a field
  Inputs,       \* the inputs to -a and -u, functions from some fields to values
  MAX_RECS_OLD_CAP,
  MaxUpdates,   \* bound: updates
  AnyUpdate     \* TRUE: also the updates the code does not handle

ASSUME ConstantsAreFit ==
  /\ Updated \subseteq Keys /\ Updated # {}
  /\ Base \in Nat \ {0}
  /\ Strings \subseteq 1 .. Base
  /\ MAX_RECS_OLD_CAP \in Nat \ {0}
  /\ MaxUpdates \in Nat
  /\ Values \subseteq Nat \ {0}
  /\ Inputs \subseteq UNION {[S -> Values] : S \in (SUBSET (1 .. Base)) \ {{}}}

VARIABLES
  dat,      \* the data file
  head,     \* the index file: the position of a record's first fragment
  def,      \* number of fields in the definition
  lock,     \* whether someone owns the lock of the index file
  pc,       \* the place in -u
  u,        \* the variables of -u
  count     \* number of updates

vars == <<dat, head, def, lock, pc, u, count>>

Fields == 1 .. Base + 1     \* an update may define one more field
NoValue == 0

EOF == Len(dat) + 1

-----------------------------------------------------------------------------
(* Fragments *)

Set(frag) == {f \in Fields : frag.val[f] # NoValue}

NewFragment(in) ==
  [val |-> [f \in Fields |-> IF f \in DOMAIN in THEN in[f] ELSE NoValue],
   room |-> [f \in Fields |-> IF f \in DOMAIN in THEN in[f] ELSE NoValue],
   link |-> 0, whole |-> TRUE]

Empty == NewFragment(<<>>)

\* read_file and get_update_offset: at the end of the file they find nothing.
Item(p) == IF p \in DOMAIN dat THEN dat[p] ELSE Empty

\* The chain as a reader follows it.
ChainFrom[p \in 0 .. EOF] ==
  IF p = 0 THEN <<>>
  ELSE <<p>> \o IF Item(p).link > p THEN ChainFrom[Item(p).link] ELSE <<>>

Chain(k) == ChainFrom[head[k]]

\* The values a get shows for each field (the zeros of a fragment that is not
\* written yet are not counted).
Shown(k) ==
  LET chain == Chain(k)
      read == {p \in {chain[i] : i \in DOMAIN chain} : Item(p).whole}
  IN  [f \in Fields |-> {Item(p).val[f] : p \in read} \ {NoValue}]

\* write_file in place: a text that outgrows its buffer goes to the end of the
\* file.  A fragment without fields is not written.
Grows(frag) == {f \in Strings : frag.val[f] > frag.room[f]}

InPlace(p, frag, link) ==
  LET put == [frag EXCEPT !.link = link,
                !.room = [f \in Fields |-> IF f \in Grows(frag) THEN frag.val[f] ELSE @[f]]]
  IN  IF Set(frag) = {} THEN dat
      ELSE [dat EXCEPT ![p] = put] \o [i \in 1 .. Cardinality(Grows(frag)) |-> Empty]

-----------------------------------------------------------------------------
(* Reading the record into Recs_old.  Beyond the first MAX_RECS_OLD_CAP       *)
(* fragments and one more the position is not stored.                      *)

Recs(old) == Len(old) > MAX_RECS_OLD_CAP      \* dynamic_capacity > 0

NoRoom(old) == Len(old) >= 2 * MAX_RECS_OLD_CAP

\* Variant: not even for the first one beyond.
InsertRecVariant(old, p) ==
  Append(old, [pos |-> IF Len(old) >= MAX_RECS_OLD_CAP THEN 0 ELSE p, frag |-> Item(p)])

InsertRec(old, p) ==
  Append(old, [pos |-> IF Len(old) > MAX_RECS_OLD_CAP THEN 0 ELSE p, frag |-> Item(p)])

-----------------------------------------------------------------------------
(* What to write.  compare_rec compares the fields that both have; a text  *)
(* is taken for equal when the new one is a start of the old one.          *)

SCHEMA_EQ == 3
SCHEMA_NW == 4
SCHEMA_CT == 5

\* check_data, on a definition whose fields all have a type: a field without one would
\* give the codes 11 to 13 (SCHEMA_EQ_NT ...), which do not occur here.
Check(in) == IF Base + 1 \in DOMAIN in /\ def = Base THEN SCHEMA_NW
             ELSE IF DOMAIN in = 1 .. def THEN SCHEMA_EQ ELSE SCHEMA_CT

Common(frag, in) == Set(frag) \cap DOMAIN in

Differ(frag, in) ==
  {f \in Common(frag, in) : IF f \in Strings THEN frag.val[f] < in[f] ELSE frag.val[f] # in[f]}

\* The first field that differs, 0 when all they have in common is equal, -1 when
\* they have none in common.
CompareRec(frag, in) ==
  IF Differ(frag, in) # {} THEN CHOOSE f \in Differ(frag, in) : \A g \in Differ(frag, in) : f <= g
  ELSE IF Common(frag, in) # {} THEN 0 ELSE -1

\* find_fields_to_update: of each fragment the first field that differs is updated.
\* (The numbers are ints, longs and floats: for a byte or a double the code also
\* marks the fragment that has the number of the field, parse.c:2883 and 2888.)
Position(frag, in) ==
  CASE CompareRec(frag, in) = -1 -> "n"
    [] CompareRec(frag, in) = 0  -> "e"
    [] OTHER                     -> "y"

Assigned(frag, f, in) == [frag EXCEPT !.val[f] = in[f]]

FindFieldsToUpdate(old, in) ==
  [i \in DOMAIN old |->
     LET f == CompareRec(old[i].frag, in)
     IN  [pos |-> old[i].pos, to |-> Position(old[i].frag, in),
          frag |-> IF f > 0 THEN Assigned(old[i].frag, f, in) ELSE old[i].frag]]

\* compare_old_rec_update_rec, for a record of one fragment: an input of some fields
\* changes those that both have; of one with all fields everything is copied,
\* but what the record did not have is not written.
UpdateCommon(frag, in) ==
  [frag EXCEPT !.val = [f \in Fields |-> IF f \in Common(frag, in) THEN in[f] ELSE @[f]]]

UpdateAll(frag, in) ==
  [frag EXCEPT !.val = [f \in Fields |-> IF f \in Common(frag, in) THEN in[f] ELSE NoValue]]

\* A text is compared with one the record does not have: the process dies.
ComparesNull(frag, in) == \E f \in Strings : f \in DOMAIN in \ Set(frag)

\* create_new_fields_from_schema: the field j is old when the fragment j has it.  The
\* name of the new field is lost (Schema), and every name begins with the empty one.
IsOld(old, j) ==
  /\ j \in DOMAIN old
  /\ j <= MAX_RECS_OLD_CAP
  /\ IF j > Base THEN Set(old[j].frag) # {} ELSE j \in Set(old[j].frag)

NewFields(old, in) == {j \in DOMAIN in : ~IsOld(old, j)}

OnlyNew(old, in) == NewFragment([f \in NewFields(old, in) |-> in[f]])

-----------------------------------------------------------------------------
(* -a and -u *)

Complete == [1 .. Base -> Values]
WithNewField ==
  {[f \in Fields |-> IF f \in DOMAIN in THEN in[f] ELSE v] : in \in Inputs \cap Complete, v \in Values}

\* What the code handles.  A record of one fragment: the update sets only fields it
\* has or only fields it does not have.  One of several: no two fields of a fragment
\* differ, a text that changes does not become a start of itself, and new fields
\* come alone.  A field new to the definition: each fragment has the field of its
\* number and the last one changes, none of its texts outgrowing its buffer.
Handled(k, in, check) ==
  LET chain == Chain(k)
      frag(i) == Item(chain[i])
      had == UNION {Set(frag(i)) : i \in DOMAIN chain}
      differ == UNION {Differ(frag(i), in) : i \in DOMAIN chain}
      last == frag(Len(chain))
  IN  head[k] > 0 =>
        /\ Len(chain) = 1 => /\ check # SCHEMA_NW
                             /\ DOMAIN in \subseteq had \/ DOMAIN in \cap had = {}
        /\ Len(chain) > 1 =>
             /\ \A i \in DOMAIN chain :
                  /\ Cardinality(Differ(frag(i), in)) <= 1
                  /\ \A f \in Common(frag(i), in) \cap Strings : frag(i).val[f] <= in[f]
             /\ check # SCHEMA_NW =>
                  DOMAIN in \subseteq had \/ (check = SCHEMA_CT /\ differ = {})
             /\ check = SCHEMA_NW =>
                  /\ Len(chain) = Base
                  /\ \A i \in 1 .. Base : i \in Set(frag(i))
                  /\ Differ(last, in) # {}
                  /\ \A f \in Differ(last, in) \cap Strings : in[f] <= last.room[f]

Idle == [key |-> CHOOSE k \in Updated : TRUE, in |-> <<>>, check |-> 0, old |-> <<>>,
         next |-> 0, eof |-> 0, result |-> "none"]

Init ==
  /\ dat = <<>>
  /\ head = [k \in Keys |-> 0]
  /\ def = Base
  /\ lock = FALSE
  /\ pc = "idle"
  /\ u = Idle
  /\ count = 0

\* Variant: the offset is taken after the record has been written.
AddVariant(k) ==
  /\ ~lock
  /\ head[k] = 0
  /\ \E in \in IF k \in Updated THEN Inputs ELSE Complete \cap Inputs :
       dat' = Append(dat, NewFragment(in))
  /\ head' = [head EXCEPT ![k] = Len(dat') + 1]
  /\ UNCHANGED <<def, lock, pc, u, count>>

\* -a, which owns the lock while it appends the record and its key.
Add(k) ==
  /\ ~lock
  /\ head[k] = 0
  /\ \E in \in IF k \in Updated THEN Inputs ELSE Complete \cap Inputs :
       dat' = Append(dat, NewFragment(in))
  /\ head' = [head EXCEPT ![k] = EOF]
  /\ UNCHANGED <<def, lock, pc, u, count>>

\* check_data, which saves a definition that grows, and the lock.
StartUpdate ==
  /\ pc = "idle"
  /\ ~lock
  /\ count < MaxUpdates
  /\ \E k \in Updated, in \in Inputs \union IF def = Base THEN WithNewField ELSE {} :
       /\ AnyUpdate \/ Handled(k, in, Check(in))
       /\ u' = [Idle EXCEPT !.key = k, !.in = in, !.check = Check(in)]
       /\ def' = IF Check(in) = SCHEMA_NW THEN def + 1 ELSE def
  /\ lock' = TRUE
  /\ pc' = "find"
  /\ count' = count + 1
  /\ UNCHANGED <<dat, head>>

Unchanged == UNCHANGED <<head, def, lock, count>>

End(result) ==
  /\ pc' = "unlock"
  /\ u' = [u EXCEPT !.result = result]

FindRecord ==
  /\ pc = "find"
  /\ \/ /\ head[u.key] = 0
        /\ End("failed")
     \/ /\ head[u.key] > 0
        /\ u' = [u EXCEPT !.old = InsertRec(<<>>, head[u.key]), !.next = Item(head[u.key]).link]
        /\ pc' = "collect"
  /\ Unchanged /\ UNCHANGED dat

Collect ==
  /\ pc = "collect"
  /\ u.next > 0
  /\ IF NoRoom(u.old)
     THEN End("failed")
     ELSE /\ u' = [u EXCEPT !.old = InsertRec(u.old, u.next), !.next = Item(u.next).link]
          /\ UNCHANGED pc
  /\ Unchanged /\ UNCHANGED dat

-----------------------------------------------------------------------------
(* A record of one fragment *)

OnlyFragment == pc = "collect" /\ u.next = 0 /\ Len(u.old) = 1

\* Some fields of the input are in the record, or all fields are given.
UpdateInPlace ==
  /\ OnlyFragment
  /\ LET frag == u.old[1].frag
     IN  \/ /\ u.check = SCHEMA_CT
            /\ Common(frag, u.in) # {}
            /\ dat' = InPlace(u.old[1].pos, UpdateCommon(frag, u.in), 0)
         \/ /\ u.check # SCHEMA_CT
            /\ ~ComparesNull(frag, u.in)
            /\ dat' = InPlace(u.old[1].pos, UpdateAll(frag, u.in), 0)
  /\ End("updated")
  /\ Unchanged

Crash ==
  /\ OnlyFragment
  /\ u.check # SCHEMA_CT
  /\ ComparesNull(u.old[1].frag, u.in)
  /\ pc' = "killed"
  /\ Unchanged /\ UNCHANGED <<dat, u>>

\* None are: the record is linked to the end of the file, where the fragment goes.
LinkFirst ==
  /\ OnlyFragment
  /\ u.check = SCHEMA_CT
  /\ Common(u.old[1].frag, u.in) = {}
  /\ dat' = InPlace(u.old[1].pos, u.old[1].frag, EOF)
  /\ pc' = "fragment"
  /\ Unchanged /\ UNCHANGED u

-----------------------------------------------------------------------------
(* A record of several fragments *)

FindFields ==
  /\ pc = "collect"
  /\ u.next = 0
  /\ Len(u.old) > 1
  /\ \/ /\ Recs(u.old)
        /\ End("failed")
     \/ /\ ~Recs(u.old)
        /\ u' = [u EXCEPT !.old = FindFieldsToUpdate(u.old, u.in), !.next = 1]
        /\ pc' = "write"
  /\ Unchanged /\ UNCHANGED dat

Last == Len(u.old)

\* Variants: the fragments after the one that changes are left out; a fragment
\* is linked to itself.
LinkOfVariant(i) == IF u.check = SCHEMA_NW THEN EOF ELSE 0
LinkOfItself(i) == IF i < Last THEN u.old[i].pos
                   ELSE IF u.check = SCHEMA_NW THEN EOF ELSE 0

\* right_update_pos
LinkOf(i) == IF i < Last THEN u.old[i + 1].pos
             ELSE IF u.check = SCHEMA_NW THEN EOF ELSE 0

\* Variant: the loop goes on without the next fragment when this one is equal.
WriteFragmentVariant ==
  /\ pc = "write"
  /\ u.next <= Last
  /\ dat' = IF u.old[u.next].to = "y"
            THEN InPlace(u.old[u.next].pos, u.old[u.next].frag, LinkOf(u.next)) ELSE dat
  /\ u' = [u EXCEPT !.next = IF u.old[u.next].to = "e" THEN @ ELSE @ + 1]
  /\ Unchanged /\ UNCHANGED pc

WriteFragment ==
  /\ pc = "write"
  /\ u.next <= Last
  /\ dat' = IF u.old[u.next].to = "y"
            THEN InPlace(u.old[u.next].pos, u.old[u.next].frag, LinkOf(u.next)) ELSE dat
  /\ u' = [u EXCEPT !.next = @ + 1]
  /\ Unchanged /\ UNCHANGED pc

Some(to) == \E i \in 1 .. Last : u.old[i].to = to

Written == pc = "write" /\ u.next > Last

\* Nothing more to write, or nothing could be: the input has fields of the record, all
\* equal, and perhaps others.
NothingNew ==
  /\ Written
  /\ u.check # SCHEMA_NW
  /\ u.check = SCHEMA_EQ \/ Some("y") \/ Some("e")
  /\ End(IF u.check = SCHEMA_CT /\ ~Some("y") THEN "failed" ELSE "updated")
  /\ Unchanged /\ UNCHANGED dat

\* Variant: the last fragment is linked before the new one is written.
NewFragmentDueVariant ==
  /\ Written
  /\ \/ u.check = SCHEMA_CT /\ ~Some("y") /\ ~Some("e")
     \/ u.check = SCHEMA_NW /\ Some("y")
  /\ dat' = InPlace(u.old[Last].pos, u.old[Last].frag, EOF)
  /\ u' = [u EXCEPT !.eof = EOF]
  /\ pc' = "fragment"
  /\ Unchanged

\* The fields are new to the record, or some are new to the definition and
\* fragments were written.
NewFragmentDue ==
  /\ Written
  /\ \/ u.check = SCHEMA_CT /\ ~Some("y") /\ ~Some("e")
     \/ u.check = SCHEMA_NW /\ Some("y")
  /\ u' = [u EXCEPT !.eof = EOF]
  /\ pc' = "fragment"
  /\ Unchanged /\ UNCHANGED dat

\* The record is linked to the end of the file; then the result of
\* create_new_fields_from_schema, 0, is taken for an error.
LinkNothing ==
  /\ Written
  /\ u.check = SCHEMA_NW
  /\ ~Some("y")
  /\ dat' = InPlace(u.old[Last].pos, u.old[Last].frag, EOF)
  /\ End("failed")
  /\ Unchanged

-----------------------------------------------------------------------------
(* A new fragment at the end of the file *)

Added == IF u.check = SCHEMA_NW THEN OnlyNew(u.old, u.in) ELSE NewFragment(u.in)

WriteHalf ==
  /\ pc = "fragment"
  /\ dat' = Append(dat, [Added EXCEPT !.whole = FALSE])
  /\ pc' = "half"
  /\ Unchanged /\ UNCHANGED u

\* The rest of it.  It is linked already, or the last fragment is next.
WriteRest ==
  /\ pc = "half"
  /\ dat' = [dat EXCEPT ![Len(dat)].whole = TRUE]
  /\ IF u.check = SCHEMA_CT /\ Last > 1
     THEN pc' = "link" /\ UNCHANGED u
     ELSE End("updated")
  /\ Unchanged

LinkLast ==
  /\ pc = "link"
  /\ dat' = InPlace(u.old[Last].pos, u.old[Last].frag, u.eof)
  /\ End("updated")
  /\ Unchanged

Unlock ==
  /\ pc = "unlock"
  /\ lock' = FALSE
  /\ pc' = "idle"
  /\ u' = [Idle EXCEPT !.key = u.key, !.in = u.in, !.result = u.result]
  /\ UNCHANGED <<dat, head, def, count>>

Kill ==
  /\ pc \notin {"idle", "killed"}
  /\ pc' = "killed"
  /\ Unchanged /\ UNCHANGED <<dat, u>>

Step ==
  \/ FindRecord \/ Collect \/ UpdateInPlace \/ Crash \/ LinkFirst \/ FindFields
  \/ WriteFragment \/ NothingNew \/ NewFragmentDue \/ LinkNothing
  \/ WriteHalf \/ WriteRest \/ LinkLast \/ Unlock

Next == Step \/ StartUpdate \/ Kill \/ \E k \in Keys : Add(k)

Spec == Init /\ [][Next]_vars

\* A command keeps running unless it is killed.
FairSpec == Spec /\ WF_vars(Step)

-----------------------------------------------------------------------------
(* Properties *)

Fragment ==
  [val : [Fields -> Values \union {NoValue}], room : [Fields -> Values \union {NoValue}],
   link : Nat, whole : BOOLEAN]

OldRecord == [pos : Nat, frag : Fragment]
               \union [pos : Nat, to : {"y", "n", "e"}, frag : Fragment]

AnyInput == Inputs \union WithNewField \union {<<>>}

UpdateState ==
  [key : Updated, in : AnyInput, check : {0, SCHEMA_EQ, SCHEMA_NW, SCHEMA_CT},
   old : Seq(OldRecord), next : Nat, eof : 0 .. EOF,
   result : {"none", "updated", "failed"}]

\* The types of the variables; every key in the index has a record in the file.
TypeOK ==
  /\ dat \in Seq(Fragment)
  /\ head \in [Keys -> 0 .. Len(dat)]
  /\ def \in Nat
  /\ lock \in BOOLEAN
  /\ pc \in {"idle", "find", "collect", "write", "fragment", "half", "link", "unlock", "killed"}
  /\ u \in UpdateState
  /\ count \in 0 .. MaxUpdates

Promise == INSTANCE Records WITH
  Key <- Keys, Field <- Fields, Value <- Values,
  rec <- [k \in Keys |-> IF head[k] = 0 THEN [f \in Fields |-> {}] ELSE Shown(k)],
  key <- u.key, given <- u.in,
  status <- CASE pc = "idle" -> u.result [] pc = "killed" -> "failed" [] OTHER -> "busy"

\* What a get shows changes by the fields an update was given and by nothing else,
\* whatever is killed and whatever is added in between, and an update that says so has set
\* them all.
ImplementsRecords == Promise!Spec

\* Every link leads forward, at most to the end of the file: no get and no update
\* follows a chain for ever.
LinksForward ==
  \A p \in DOMAIN dat : dat[p].link = 0 \/ dat[p].link \in p + 1 .. EOF

\* Every position in Recs_old is the one of its fragment: no record has more fragments than
\* there is room for positions, because one that has more than the first array holds is
\* not updated any more.
PositionsAreKnown ==
  \A i \in DOMAIN u.old : u.old[i].pos > 0

\* A fragment that is added to a record of several fragments is linked
\* when it is whole: neither a get nor the next command after a kill meets half of it.
ReaderMeetsWhole ==
  u.check = SCHEMA_CT /\ Len(u.old) > 1 =>
    \A k \in Keys : head[k] > 0 => \A i \in DOMAIN Chain(k) : Item(Chain(k)[i]).whole

\* Every update ends or is killed.
UpdateEnds == pc # "idle" ~> pc \in {"idle", "killed"}
=============================================================================
