----------------------------- MODULE FieldStore -----------------------------
(***************************************************************************)
(* The layout of a record in the .dat file: write_file and read_file of    *)
(* file.c.  The record has an array field and, after it, a string field;   *)
(* another record follows it in the file.  An update writes the record     *)
(* again in its place: a string that outgrows its buffer moves to the end  *)
(* of the file, an array that outgrows its block continues in a new one.   *)
(*                                                                         *)
(* The file is a sequence of bytes, numbers are big-endian.  write_file has *)
(* one copy of the array code for each type; the records IntCopy ...       *)
(* StringCopy keep what differs between the copies.  The steps of an       *)
(* update are actions, so that a kill or a read without the lock (-k) may  *)
(* come between any two of them.                                           *)
(***************************************************************************)
EXTENDS Integers, Sequences, SequencesExt

CONSTANTS
  Kinds,        \* the types of array that are tried
  Shapes,       \* arrays as sequences of the lengths of their elements' texts
  MaxUpdates,   \* bound: updates of the record
  AnyHistory    \* TRUE: also the histories the code does not handle

VARIABLES
  kind,     \* the type of the array
  io,       \* the file and the variables of write_file that strings share
  w,        \* the variables of the array code
  pc,       \* the place in write_file
  stored,   \* the record as the last complete write_file was given it
  want,     \* the record being written
  gen,      \* number of updates
  home      \* where the record ends in the file

vars == <<kind, io, w, pc, stored, want, gen, home>>

-----------------------------------------------------------------------------
(* Bytes and numbers.  read() past the end leaves the zero of the variable. *)

\* A number whose upper bytes are not zero: it was never written as one, and what is
\* done with it is not followed.
Huge == -1

ByteAt(d, p) == IF p < Len(d) THEN d[p + 1] ELSE 0

NumberAt(d, p, n) ==
  IF \E i \in 0 .. n - 3 : ByteAt(d, p + i) # 0
  THEN Huge
  ELSE 256 * ByteAt(d, p + n - 2) + ByteAt(d, p + n - 1)

\* The last two bytes hold the number.
Number(v, n) == [i \in 1 .. n |-> CASE i = n -> v % 256
                                    [] i = n - 1 -> v \div 256
                                    [] OTHER -> 0]

Zeros(n) == [i \in 1 .. n |-> 0]

Put(s, b) ==
  [s EXCEPT !.fp = @ + Len(b),
            !.d = SubSeq(@ \o Zeros(s.fp - Len(@)), 1, s.fp) \o b
                  \o SubSeq(@, s.fp + Len(b) + 1, Len(@))]

PutNumber(s, v, n) == Put(s, Number(v, n))

Seek(s, p) == [s EXCEPT !.fp = p]

Buffer(text, n) == SubSeq(text \o Zeros(n - Len(text)), 1, n)

-----------------------------------------------------------------------------
(* Strings: the offset of the string that replaces this one, the size of   *)
(* the buffer, the buffer.                                                 *)

NewString(s, text) ==
  LET size == 2 * Len(text) + 1
  IN  Put(PutNumber(PutNumber(s, 0, 8), size, 8), Buffer(text, size))

\* After the text: when it went to the end of the file its place there is stored in
\* front of the first buffer; the file pointer ends after the first buffer.
BackToField(s, at, loc, eof, back) ==
  IF eof > 0 THEN Seek(PutNumber(Seek(s, at), eof, 8), back)
  ELSE IF loc > 0 THEN Seek(s, back) ELSE s

\* A string is written over the one at the file pointer.  "grown" and "eof" are
\* set when the text outgrows the buffer and keep their values until someone
\* resets them (what lies after a buffer that is then too small is taken for
\* zeros); calloc fails for a size that is not one.
UpdateString(s, text) ==
  LET loc   == NumberAt(s.d, s.fp, 8)
      own   == s.fp + 8
      place == IF loc > 0 THEN loc ELSE own
      buf   == NumberAt(s.d, place, 8)
      grows == Len(text) + 1 > buf
      grown == IF grows THEN Len(text) + 1 ELSE s.grown
      eof   == IF grows THEN Len(s.d) ELSE s.eof
      at    == IF grows THEN Len(s.d) ELSE IF grown = 0 THEN place ELSE place + 8
      size  == IF grown > 0 THEN grown ELSE buf
      put   == Put(PutNumber(Seek(s, at), size, 8), Buffer(text, size))
      back  == own + 8 + NumberAt(s.d, own, 8)
  IN  IF Huge \in {loc, buf} \/ ~s.ok
      THEN [s EXCEPT !.ok = FALSE]
      ELSE [BackToField(put, s.fp, loc, eof, back) EXCEPT
              !.grown = grown, !.eof = eof, !.back = back]

Reset(s) == [s EXCEPT !.grown = 0, !.eof = 0]

\* get_string_size: the file pointer goes over one string.
OverString(s) == Seek(s, s.fp + 16 + NumberAt(s.d, s.fp + 8, 8))

TextAt(d, p) ==
  LET loc   == NumberAt(d, p, 8)
      place == IF loc > 0 THEN loc ELSE p + 8
      size  == NumberAt(d, place, 8)
      nul   == {i \in 0 .. size - 1 : ByteAt(d, place + 8 + i) = 0}
      len   == IF nul = {} THEN size ELSE CHOOSE i \in nul : \A j \in nul : i <= j
  IN  IF Huge \in {loc, size} THEN <<Huge>>
      ELSE [i \in 1 .. len |-> ByteAt(d, place + 8 + i - 1)]

-----------------------------------------------------------------------------
(* What differs between the copies of the array code.                      *)
(*   element  bytes of an element on the disk                              *)
(*   skip     bytes by which one element of padding is skipped             *)
(*   stops    does a block that took the last element end the update       *)
(*   again    does a later block begin again with the first element        *)

IntCopy    == [element |-> 4, skip |-> 4, stops |-> FALSE, again |-> FALSE]
LongCopy   == [element |-> 8, skip |-> 8, stops |-> TRUE,  again |-> FALSE]
FloatCopy  == [element |-> 4, skip |-> 4, stops |-> TRUE,  again |-> FALSE]
ByteCopy   == [element |-> 2, skip |-> 1, stops |-> TRUE,  again |-> FALSE]
DoubleCopy == [element |-> 8, skip |-> 8, stops |-> TRUE,  again |-> TRUE]
StringCopy == [stops |-> TRUE, again |-> FALSE]

Copy(k) == CASE k = "int"    -> IntCopy   [] k = "long"   -> LongCopy
             [] k = "float"  -> FloatCopy [] k = "byte"   -> ByteCopy
             [] k = "double" -> DoubleCopy [] k = "string" -> StringCopy

\* New elements of an array.
NewTexts(s, es) == FoldLeft(NewString, s, es)

\* Numbers of n bytes, one after the other.
Numbers(es, n) ==
  [i \in 1 .. n * Len(es) |-> Number(es[((i - 1) \div n) + 1][1], n)[((i - 1) % n) + 1]]

NewElements(k, s, es) ==
  IF k = "string" THEN NewTexts(s, es) ELSE Put(s, Numbers(es, Copy(k).element))

\* A block at the file pointer: size, padding, elements, offset of the next.
NewBlock(k, s, es) ==
  PutNumber(NewElements(k, PutNumber(PutNumber(s, Len(es), 4), 0, 4), es), 0, 8)

\* Variant: "grown" and "eof" keep their values from one text to the next.
OverwriteTextsVariant(s, es) == FoldLeft(UpdateString, s, es)

\* Elements written over others.  The copy of the string code for an array that
\* becomes shorter (ShrinkTexts) does not reset "grown" and "eof".
OverwriteTexts(s, es) == FoldLeft(LAMBDA t, e : Reset(UpdateString(t, e)), s, es)

ShrinkTexts(s, es) == FoldLeft(UpdateString, s, es)

Overwrite(s, es) ==
  IF kind = "string" THEN OverwriteTexts(s, es) ELSE NewElements(kind, s, es)

OverPadding(k, s, n) ==
  IF k = "string"
  THEN FoldLeft(LAMBDA t, i : OverString(t), s, [i \in 1 .. n |-> i])
  ELSE Seek(s, s.fp + n * Copy(k).skip)

IsLastBlock(s, n) == NumberAt(s.d, OverPadding(kind, s, n).fp, 8) = 0

-----------------------------------------------------------------------------
(* read_file *)

ReadTexts(d, p, n) ==
  LET end == [i \in 0 .. n |-> OverPadding("string", [d |-> d, fp |-> p], i).fp]
  IN  [i \in 1 .. n |-> TextAt(d, end[i - 1])]

ReadElements(k, d, p, n) ==
  IF k = "string" THEN ReadTexts(d, p, n)
  ELSE [i \in 1 .. n |-> <<NumberAt(d, p + (i - 1) * Copy(k).element, Copy(k).element)>>]

MaxElements == 20   \* bound: no array is longer, and what says so is not followed

\* The block at p: its elements, the place of its link and where the link leads.
BlockAt(k, d, p) ==
  LET size == NumberAt(d, p, 4)
      pad  == NumberAt(d, p + 4, 4)
      last == IF k = "string"
              THEN OverPadding(k, [d |-> d, fp |-> p + 8], size)
              ELSE [d |-> d, fp |-> p + 8 + size * Copy(k).element]
      link == OverPadding(k, last, pad).fp
  IN  IF size \notin 0 .. MaxElements \/ pad \notin 0 .. MaxElements
      THEN [at |-> p, elements |-> <<>>, size |-> Huge, pad |-> Huge, link |-> p, next |-> Huge]
      ELSE [at |-> p, elements |-> ReadElements(k, d, p + 8, size), size |-> size,
            pad |-> pad, link |-> link, next |-> NumberAt(d, link, 8)]

\* From a block on: the blocks and the elements in them, as long as the links lead
\* forward.
ReadFrom(k, d) ==
  LET from[p \in 0 .. Len(d)] ==
        LET b    == BlockAt(k, d, p)
            rest == IF b.next > p /\ b.next < Len(d) THEN from[b.next]
                    ELSE [blocks |-> <<>>, array |-> <<>>]
        IN  [blocks |-> <<b>> \o rest.blocks, array |-> b.elements \o rest.array]
  IN  from

ArrayAt == 3        \* after the count of fields and their two indexes

ReadRecord(k, d) ==
  LET read == ReadFrom(k, d)[ArrayAt]
  IN  [array |-> read.array, text |-> TextAt(d, read.blocks[1].link + 8)]

-----------------------------------------------------------------------------
(* write_file of a new record, and the record after it *)

Stream(d) == [d |-> d, fp |-> 0, grown |-> 0, eof |-> 0, back |-> 0, ok |-> TRUE]

WriteNew(k, rec) ==
  LET head == Put(Stream(<<>>), <<2, 0, 1>>)
  IN  PutNumber(NewString(NewBlock(k, head, rec.array), rec.text), 0, 8)

Neighbour == <<255, 255, 255, 255>>

ShapesOf(k) ==
  IF k = "string" THEN Shapes ELSE {s \in Shapes : \A i \in DOMAIN s : s[i] = 1}

\* The texts of the generation g: no two elements ever written are equal.
Text(g, i, len) == [j \in 1 .. len |-> 10 * g + i]

Record(g, shape, len) ==
  [array |-> [i \in DOMAIN shape |-> Text(g, i, shape[i])], text |-> Text(g, 9, len)]

Idle == [step |-> 0, sz |-> 0, pad |-> 0, first |-> 0, link |-> 0, update |-> 0]

Init ==
  /\ kind \in Kinds
  /\ \E shape \in ShapesOf(kind) :
       /\ stored = Record(1, shape, 1)
       /\ want = stored
  /\ io = Put(WriteNew(kind, stored), Neighbour)
  /\ home = Len(WriteNew(kind, stored).d)
  /\ w = Idle
  /\ pc = "idle"
  /\ gen = 1

-----------------------------------------------------------------------------
(* write_file of the update of a record *)

n == Len(want.array)
left == n - w.step

\* In what ReadFrom gives: the blocks, and the elements in those before block i.
Blocks(from) == from[ArrayAt].blocks
Before(from, i) == Len(from[ArrayAt].array) - Len(from[Blocks(from)[i].at].array)

\* An array of this length goes on after the block b, with so many elements before it.
GoesOn(b, before, len) ==
  /\ b.size < len
  /\ Copy(kind).stops /\ before < b.size => before + b.size < len

\* What the code handles.  A later block that the array reaches is not larger than the
\* whole array; if it is no larger than what lies before it, the array goes on after
\* it, or it has no padding and the array ends with it or it is the last one.  A
\* double does not go on to a later block that exists.  An array of bytes does not become
\* shorter.  One of strings does not go on after padding, and when it is shorter
\* than its first block no text but the last outgrows its buffer.
Handled(rec, from) ==
  LET len    == Len(rec.array)
      blocks == Blocks(from)
      first  == blocks[1].size
  IN  /\ \A i \in 2 .. Len(blocks) :
           (\A j \in 1 .. i - 1 : GoesOn(blocks[j], Before(from, j), len)) =>
             /\ len >= blocks[i].size
             /\ len > blocks[i].size /\ Before(from, i) >= blocks[i].size =>
                  \/ len > Before(from, i) + blocks[i].size
                  \/ /\ blocks[i].pad = 0
                     /\ len = Before(from, i) + blocks[i].size \/ i = Len(blocks)
      /\ kind = "byte" => len >= Len(stored.array)
      /\ kind = "double" /\ Len(blocks) > 1 => len <= first
      /\ kind = "string" /\ len > first => blocks[1].pad = 0
      /\ kind = "string" /\ len < first =>
           \A i \in 1 .. len - 1 : Len(rec.array[i]) <= Len(stored.array[i])

StartUpdate ==
  /\ pc = "idle"
  /\ gen <= MaxUpdates
  /\ \E shape \in ShapesOf(kind), len \in {1, 5} :
       LET rec == Record(gen + 1, shape, len)
       IN  /\ AnyHistory \/ Handled(rec, ReadFrom(kind, io.d))
           /\ want' = rec
  /\ gen' = gen + 1
  /\ io' = Put(Stream(io.d), <<2, 0, 1>>)
  /\ w' = Idle
  /\ pc' = "size"
  /\ UNCHANGED <<kind, stored, home>>

Goto(next) == pc' = IF io'.ok THEN next ELSE "failed"

Unchanged == UNCHANGED <<kind, stored, want, gen, home>>

\* The size of a block decides: the array fits into it, or goes on after it.
ReadSize ==
  /\ pc = "size"
  /\ LET sz == NumberAt(io.d, io.fp, 4)
     IN  IF n <= sz \/ sz = Huge
         THEN /\ io' = [Seek(io, io.fp + 4) EXCEPT !.ok = sz # Huge]
              /\ w' = [w EXCEPT !.sz = sz]
              /\ Goto(IF n < sz THEN "shrink" ELSE "same")
         ELSE /\ io' = Seek(io, io.fp + 8)
              /\ w' = [w EXCEPT !.sz = sz, !.pad = NumberAt(io.d, io.fp + 4, 4)]
              /\ Goto(IF w.step >= sz THEN "over" ELSE "fill")
  /\ Unchanged

\* A block that takes fewer elements than it has: its size and padding are set.
Trimmed(s) ==
  PutNumber(PutNumber(Seek(s, s.fp - 8), left, 4), w.pad + w.sz - left, 4)

\* A block no larger than what has been written already.
OverwriteBlock ==
  /\ pc = "over"
  /\ LET last  == IsLastBlock(io, w.sz)
         trim  == left < w.sz /\ last
         ends  == left <= w.sz /\ last
         count == IF left < w.sz THEN left ELSE w.sz
         put   == Overwrite(IF trim THEN Trimmed(io) ELSE io,
                            SubSeq(want.array, w.step + 1, w.step + count))
     IN  /\ io' = IF ends THEN PutNumber(put, 0, 8) ELSE put
         /\ w' = [w EXCEPT !.step = @ + count, !.sz = 0,
                           !.pad = IF trim THEN @ + w.sz - left ELSE @]
         /\ Goto(IF ends THEN "return" ELSE "link")
  /\ Unchanged

\* Variant: the size of the first block is set to that of the array.
FillBlockVariant ==
  /\ pc = "fill"
  /\ io' = Overwrite(PutNumber(Seek(io, io.fp - 8), n, 4), SubSeq(want.array, 1, w.sz))
  /\ w' = [w EXCEPT !.step = w.sz]
  /\ Goto(IF w.sz = n THEN "return" ELSE "link")
  /\ Unchanged

\* A block larger than what has been written already: the first, most often.
FillBlock ==
  /\ pc = "fill"
  /\ LET trim  == w.step > 0 /\ w.step + w.sz > n
         count == IF trim THEN left ELSE w.sz
         from  == IF Copy(kind).again THEN 0 ELSE w.step
         pad   == IF trim THEN w.pad + w.sz - left ELSE w.pad
         ends  == w.step + count = n /\ Copy(kind).stops
         put   == Overwrite(IF trim THEN Trimmed(io) ELSE io,
                            SubSeq(want.array, from + 1, from + count))
     IN  /\ io' = IF ends THEN PutNumber(OverPadding(kind, put, pad), 0, 8) ELSE put
         /\ w' = [w EXCEPT !.step = @ + count, !.sz = count, !.pad = pad]
         /\ Goto(IF ends THEN "return" ELSE "link")
  /\ Unchanged

\* Variant: the new block is put right after the array.
FollowLinkVariant ==
  /\ pc = "link"
  /\ LET link == OverPadding(kind, io, w.pad).fp
         next == NumberAt(io.d, link, 8)
     IN  /\ io' = Seek(io, IF next > 0 THEN next ELSE link + 8)
         /\ w' = [w EXCEPT !.link = link, !.update = io'.fp, !.first = link + 8]
         /\ Goto(IF next > 0 THEN "size" ELSE "append")
  /\ Unchanged

\* After a block: on to the next one, or to a new one at the end of the file.
\* The way back after the array is taken from the first link.
FollowLink ==
  /\ pc = "link"
  /\ LET link == OverPadding(kind, io, w.pad).fp
         next == NumberAt(io.d, link, 8)
         back == IF kind = "string" THEN io.back ELSE link
     IN  /\ io' = [Seek(io, IF next > 0 THEN next ELSE Len(io.d)) EXCEPT !.ok = next # Huge]
         /\ w' = [w EXCEPT !.link = link, !.update = io'.fp,
                           !.first = IF @ = 0 THEN back + 8 ELSE @]
         /\ Goto(IF next > 0 THEN "size" ELSE "append")
  /\ Unchanged

AppendBlock ==
  /\ pc = "append"
  /\ io' = NewBlock(kind, io, SubSeq(want.array, w.step + 1, n))
  /\ w' = [w EXCEPT !.step = n]
  /\ Goto("linked")
  /\ Unchanged

LinkBlock ==
  /\ pc = "linked"
  /\ io' = PutNumber(Seek(io, w.link), w.update, 8)
  /\ Goto("return")
  /\ UNCHANGED w
  /\ Unchanged

\* The array is smaller than the block: "size" becomes that of the whole array.
ShrinkBlock ==
  /\ pc = "shrink"
  /\ LET pad == NumberAt(io.d, io.fp, 4) + w.sz - n
         put == PutNumber(PutNumber(Seek(io, io.fp - 4), n, 4), pad, 4)
         es  == SubSeq(want.array, w.step + 1, n)
         all == IF kind = "string" THEN ShrinkTexts(put, es) ELSE Overwrite(put, es)
     IN  io' = PutNumber(OverPadding(kind, all, pad), 0, 8)
  /\ Goto("return")
  /\ UNCHANGED w
  /\ Unchanged

\* The array has as many elements as the block.
SameSize ==
  /\ pc = "same"
  /\ LET pad  == NumberAt(io.d, io.fp, 4)
         put  == IF w.step > 0
                 THEN Seek(PutNumber(Seek(io, io.fp - 4), left, 4), io.fp + 4)
                 ELSE Seek(io, io.fp + 4)
         from == IF Copy(kind).again THEN 0 ELSE w.step
         all  == Overwrite(put, SubSeq(want.array, from + 1, from + left))
     IN  io' = PutNumber(OverPadding(kind, all, pad), 0, 8)
  /\ Goto("return")
  /\ UNCHANGED w
  /\ Unchanged

Return ==
  /\ pc = "return"
  /\ io' = IF w.first > 0 THEN Seek(io, w.first) ELSE io
  /\ Goto("text")
  /\ UNCHANGED w
  /\ Unchanged

\* The string field after the array.
WriteText ==
  /\ pc = "text"
  /\ io' = UpdateString(Reset(io), want.text)
  /\ Goto("end")
  /\ UNCHANGED w
  /\ Unchanged

\* The offset of the next fragment of the record: none.
WriteEnd ==
  /\ pc = "end"
  /\ io' = PutNumber(io, 0, 8)
  /\ stored' = want
  /\ pc' = "idle"
  /\ UNCHANGED <<kind, w, want, gen, home>>

Next ==
  \/ StartUpdate \/ ReadSize \/ OverwriteBlock \/ FillBlock \/ FollowLink
  \/ AppendBlock \/ LinkBlock \/ ShrinkBlock \/ SameSize \/ Return
  \/ WriteText \/ WriteEnd

Spec == Init /\ [][Next]_vars

-----------------------------------------------------------------------------

(* Properties *)

\* read_file gives back what write_file was given, the field after the array
\* included, whatever updates in place, moved texts and blocks came before.
ReadBack ==
  /\ pc # "failed"
  /\ pc = "idle" => ReadRecord(kind, io.d) = stored

OldOrNew(read) ==
  /\ read.text \in {stored.text, want.text}
  /\ Len(read.array) \in {Len(stored.array), n}
  /\ \A i \in DOMAIN read.array :
       \/ read.array[i] = want.array[i]
       \/ i \in DOMAIN stored.array /\ read.array[i] = stored.array[i]

\* A get reads the file without the lock, and a killed -u leaves it as it is: while an
\* array does not become shorter, each element is then the old or the new one in its place, none
\* is missing, and the field after the array is the old or the new one.
ReaderSeesOldOrNew ==
  pc \notin {"idle", "failed"} /\ n >= Len(stored.array) => OldOrNew(ReadRecord(kind, io.d))

\* No update of a record writes over the record that follows it in the file.
NeighbourUntouched ==
  SubSeq(io.d, home + 1, home + Len(Neighbour)) = Neighbour
=============================================================================
