------------------------------- MODULE Schema -------------------------------
(***************************************************************************)
(* parse.c: how an input is checked against the definition of a file, and  *)
(* what the definition and the record become.  A definition is a sequence  *)
(* of fields, an input the fields given with their types (declared, or     *)
(* guessed by assign_type from the values).                                *)
(***************************************************************************)
EXTENDS Integers, Sequences, SequencesExt, TLC, Positions

CONSTANTS Name,      \* field names, numbered in the order of strcmp
          StartsOf,  \* <<a, b>>: the name a is the start of the name b
          Type,      \* the types in use, with their numbers in enum ValueType
          MaxFields  \* MAX_FIELD_NR

NoName == 0          \* "": what is left of a name after a memset, or at EOF
NoType == -1         \* a field defined without a type
TypeInt == 0         \* what a type reads as at the end of the .sch file
TypeDouble == 6
Numbers == {TypeInt, 1, 2, 4, TypeDouble}            \* is_number_type

ASSUME SchemaAssumption ==
    /\ Name \subseteq Nat \ {NoName}
    /\ StartsOf \subseteq Name \X Name
    /\ \A n \in Name : <<n, n>> \in StartsOf
    /\ \A a, b \in Name : <<a, b>> \in StartsOf => a <= b
    /\ Type \subseteq Nat
    /\ MaxFields \in Nat \ {0}

Field == [name : Name \union {NoName}, type : Type \union {NoType, TypeInt}]
Blank == [name |-> NoName, type |-> NoType]

\* strncmp(a, b, strlen(a)) == 0, the comparison of names nearly everywhere.
Starts(a, b) == a = NoName \/ <<a, b>> \in StartsOf

NamesOf(fields) == [i \in DOMAIN fields |-> fields[i].name]
TypesOf(fields) == [i \in DOMAIN fields |-> fields[i].type]
Ascending(s) == SortSeq(s, LAMBDA x, y : x < y)
HasType(hd) == \A i \in DOMAIN hd : hd[i].type # NoType      \* schema_has_type

\* The pairs <<i, j>> in the order of "for i in 1..m, for j in 1..n".
Loops(m, n) == [k \in 1..m * n |-> <<((k - 1) \div n) + 1, ((k - 1) % n) + 1>>]

SCHEMA_ERR == 2
SCHEMA_EQ == 3
SCHEMA_NW == 4
SCHEMA_CT == 5
SCHEMA_EQ_NT == 11
SCHEMA_CT_NT == 12
SCHEMA_NW_NT == 13
-----------------------------------------------------------------------------
(* -R: add_fields_to_schema.                                               *)

\* Its array pos should hold -1, but memset(pos,-1,fields_num) sets as many
\* bytes: any later element may hold its own index (stale) or something else.
StaleSets(in) == SUBSET (2..Len(in))

\* <<>> when the input is refused.  pos is written by order of discovery but
\* read by input field, so a field that is defined may be added again.
AddFields(hd, in, stale) ==
    LET Compare(acc, ij) ==
            LET i == ij[1]  j == ij[2]
            IN IF acc.found = Len(in) \/ acc.pos[j] = j THEN acc
               ELSE IF Starts(in[j].name, hd[i].name)
               THEN [acc EXCEPT !.pos[acc.found + 1] = j, !.found = @ + 1]
               ELSE [acc EXCEPT !.new = TRUE]
        end == FoldLeft(Compare,
                        [pos |-> [j \in DOMAIN in |-> IF j \in stale THEN j ELSE 0],
                         found |-> 0, new |-> FALSE],
                        Loops(Len(hd), Len(in)))
        added == {j \in DOMAIN in : end.pos[j] # j}
    IN IF end.found = Len(in) THEN <<>>
       ELSE IF end.new THEN hd \o AtPositions(in, added)
       ELSE hd
-----------------------------------------------------------------------------
(* -a: the parts of perform_checks_on_schema.                              *)

\* check_fields_integrity never compares the last field.
FieldsIntegrity(in) ==
    \A i, j \in 1..Len(in) - 1 : in[i].name = in[j].name => i = j

\* Position of the first field of hd that the name starts, 0 if none.
PositionOf(name, hd) == SelectInSeq(hd, LAMBDA f : Starts(name, f.name))

\* sort_input_like_header_schema, of the first n fields.  Two inputs may claim
\* one position: the longer name and the last type stay.  A position is filled
\* only if the input of the same rank has one; names without one are blanked.
SortLikeHeader(hd, in, n) ==
    LET pos == [i \in 1..n |-> PositionOf(in[i].name, hd)]
        Claims(k) == {i \in 1..n : pos[i] = k}
        Placed(k) == IF Claims(k) = {} THEN Blank
                     ELSE [name |-> Max({in[i].name : i \in Claims(k)}),
                           type |-> in[Max(Claims(k))].type]
    IN [i \in DOMAIN in |-> IF i <= n /\ pos[i] # 0 THEN Placed(i)
                            ELSE [in[i] EXCEPT !.name = NoName]]

\* The same for an input with fewer fields (SCHEMA_CT_NT): an input keeps its
\* place, and its name only if the field of the same rank is given.
SortPartial(hd, in) ==
    LET given == {SelectInSeq(hd, LAMBDA f : f.name = in[k].name) : k \in DOMAIN in}
    IN [i \in DOMAIN in |-> IF i \in given THEN in[i] ELSE [in[i] EXCEPT !.name = NoName]]

\* schema_eq_assign_type.
EqAssignType(hd, in) ==
    [i \in DOMAIN hd |->
        LET j == SelectInSeq(in, LAMBDA f : Starts(f.name, hd[i].name) /\ f.type # NoType)
        IN IF hd[i].type = NoType /\ j # 0 THEN [hd[i] EXCEPT !.type = in[j].type] ELSE hd[i]]

EqAssigns(hd, in) ==
    \E i \in DOMAIN hd, j \in DOMAIN in : hd[i].type = NoType /\ Starts(in[j].name, hd[i].name)

\* Variant: a known type is assigned again.
CtAssignAgain(hd, in) ==
    [hd |-> [j \in DOMAIN hd |->
                LET i == SelectInSeq(in, LAMBDA f : f.name = hd[j].name)
                IN IF i = 0 THEN hd[j] ELSE [hd[j] EXCEPT !.type = in[i].type]],
     code |-> SCHEMA_CT_NT]

\* schema_ct_assign_type: a field without a type gets that of the first of its
\* inputs to have one.  The count of the inputs of a field that has its type by
\* then doubles as the result, and starts again at SCHEMA_CT_NT at the others.
CtAssignType(hd, in) ==
    LET pairs == {ij \in (DOMAIN in) \X (DOMAIN hd) : Starts(hd[ij[2]].name, in[ij[1]].name)}
        Giver(j) == IF hd[j].type # NoType THEN 0
                    ELSE SelectInSeq(in, LAMBDA f : /\ Starts(hd[j].name, f.name)
                                                    /\ f.type # NoType)
        untyped == {ij \in pairs : /\ hd[ij[2]].type = NoType
                                   /\ Giver(ij[2]) = 0 \/ ij[1] <= Giver(ij[2])}
        counted == {ij \in pairs : \A u \in untyped :
                       u[1] < ij[1] \/ (u[1] = ij[1] /\ u[2] < ij[2])}
    IN [hd |-> [j \in DOMAIN hd |-> IF Giver(j) = 0 THEN hd[j]
                                    ELSE [hd[j] EXCEPT !.type = in[Giver(j)].type]],
        code |-> IF Cardinality(pairs) # Len(in) THEN 0
                 ELSE Cardinality(counted) + (IF untyped = {} THEN 0 ELSE SCHEMA_CT_NT)]

\* schema_check_type, SCHEMA_EQ: any type passes for a number.
CheckTypeEq(hd, in) ==
    \A i \in DOMAIN hd : /\ in[i].name = hd[i].name
                         /\ in[i].type = hd[i].type \/ hd[i].type \in Numbers

\* ... of which only a double is stored as one.
CoerceDoubles(hd, in) ==
    [i \in DOMAIN in |-> IF hd[i].type = TypeDouble THEN [in[i] EXCEPT !.type = TypeDouble]
                         ELSE in[i]]

Matches(hd, in) == {ij \in (DOMAIN in) \X (DOMAIN hd) : in[ij[1]].name = hd[ij[2]].name}

\* Variant: the names are not counted.
CheckTypeCtLoose(hd, in) ==
    \A ij \in Matches(hd, in) : in[ij[1]].type = hd[ij[2]].type

\* schema_check_type, SCHEMA_CT: all types are compared, then the names counted.
CheckTypeCt(hd, in) ==
    /\ \A ij \in Matches(hd, in) : in[ij[1]].type = hd[ij[2]].type
    /\ Cardinality(Matches(hd, in)) = Len(in)

\* ck_input_schema_fields: names and types are sorted apart from each other.
CkInputSchemaFields(hd, in) ==
    LET input == SubSeq(in, 1, Len(hd))
        given == Ascending(NamesOf(input))
        defined == Ascending(NamesOf(hd))
    IN /\ \A i \in DOMAIN hd : Starts(given[i], defined[i])
       /\ Ascending(TypesOf(input)) = Ascending(TypesOf(hd))

\* ck_schema_contain_input.  check_schema got the header by value: the types
\* assigned here are gone when it returns.
CkSchemaContainInput(hd, in) ==
    LET pairs == {ij \in (DOMAIN in) \X (DOMAIN hd) : Starts(in[ij[1]].name, hd[ij[2]].name)}
        typeAt(j) == IF hd[j].type # NoType THEN hd[j].type
                     ELSE in[Min({ij[1] : ij \in {p \in pairs : p[2] = j}})].type
    IN IF (\E ij \in pairs : in[ij[1]].type # typeAt(ij[2])) \/ Cardinality(pairs) # Len(in)
       THEN SCHEMA_ERR
       ELSE IF \E ij \in pairs : hd[ij[2]].type = NoType THEN SCHEMA_CT_NT ELSE SCHEMA_CT

CheckSchema(hd, in) ==
    IF Len(in) < Len(hd) THEN CkSchemaContainInput(hd, in)
    ELSE IF Len(in) > MaxFields \/ ~CkInputSchemaFields(hd, in) THEN SCHEMA_ERR
    ELSE IF Len(in) = Len(hd) THEN SCHEMA_EQ ELSE SCHEMA_NW
-----------------------------------------------------------------------------
(* A record: per field of the definition its type and whether it is set.   *)

\* Every field is set, by rank; the input may have more than the definition.
WholeRecord(hd, in) == [i \in DOMAIN hd |-> [type |-> in[i].type, set |-> TRUE]]

\* parse_d_flag_input for SCHEMA_CT and _CT_NT, parse_input_with_no_type for
\* SCHEMA_CT_NT: the fields with the name of an input are set, with its type.
PartRecord(hd, in) ==
    [i \in DOMAIN hd |->
        LET j == SelectLastInSeq(in, LAMBDA f : f.name = hd[i].name)
        IN IF j = 0 THEN [type |-> hd[i].type, set |-> FALSE]
           ELSE [type |-> in[j].type, set |-> TRUE]]

\* parse_input_with_no_type for SCHEMA_CT: with the type of the same rank.
PartRecordByRank(hd, in, types) ==
    LET rec == PartRecord(hd, in)
    IN [i \in DOMAIN hd |-> IF rec[i].set THEN [rec[i] EXCEPT !.type = types[i]] ELSE rec[i]]

Check(code, hd, rec) == [code |-> code, hd |-> hd, rec |-> rec]
Refused == Check(SCHEMA_ERR, <<>>, <<>>)

\* parse_d_flag_input, after check_schema gave the code.
ParseDFlag(code, hd, in) ==
    LET sorted == SortLikeHeader(hd, in, Len(hd))
        wider == hd \o SubSeq(sorted, Len(hd) + 1, Len(in))
    IN IF code = SCHEMA_ERR \/ ~FieldsIntegrity(in) THEN Refused
       ELSE IF code \in {SCHEMA_CT, SCHEMA_CT_NT}
       THEN Check(code, hd, PartRecord(hd, in))
       ELSE IF code = SCHEMA_NW THEN Check(code, wider, WholeRecord(wider, sorted))
       ELSE IF \E i \in DOMAIN in : PositionOf(in[i].name, hd) = 0 THEN Refused
       ELSE Check(code, hd, WholeRecord(hd, sorted))

\* Mode TYPE_WR: all types are declared.
CheckTyped(hd, in) ==
    IF hd = <<>> THEN Refused ELSE ParseDFlag(CheckSchema(hd, in), hd, in)

\* As many fields as the definition, some of which has no type.
CheckUntypedEq(hd, in) ==
    LET sorted == SortLikeHeader(hd, in, Len(in))
        typed == EqAssignType(hd, sorted)
    IN IF EqAssigns(hd, sorted) THEN Check(SCHEMA_EQ_NT, typed, WholeRecord(typed, sorted))
       ELSE Refused

\* As many fields as the definition, all of which have types.
CheckEq(hd, in) ==
    LET sorted == SortLikeHeader(hd, in, Len(in))
    IN IF CheckTypeEq(hd, sorted)
       THEN Check(SCHEMA_EQ, hd, WholeRecord(hd, CoerceDoubles(hd, sorted)))
       ELSE Refused

\* Mode NO_TYPE_WR: all types are guessed.  schema_nw_assyign_type returns 0
\* whatever it did: more fields than defined are refused.
CheckNoType(hd, in) ==
    LET ct == CtAssignType(hd, in)
    IN IF ~FieldsIntegrity(in) \/ Len(in) > Len(hd) THEN Refused
       ELSE IF Len(in) = Len(hd)
       THEN IF HasType(hd) THEN CheckEq(hd, in) ELSE CheckUntypedEq(hd, in)
       ELSE IF ~HasType(hd)
       THEN Check(ct.code, ct.hd, PartRecord(ct.hd, in))
       ELSE IF CheckTypeCt(hd, in)
       THEN Check(SCHEMA_CT, hd, PartRecordByRank(hd, in, TypesOf(hd)))
       ELSE Refused

\* Mode HYB_WR: some types are declared.  With all types defined, a partial
\* record takes types_i by the rank of the definition, and more fields than
\* defined are neither checked nor sorted nor added.
CheckHybrid(hd, in) ==
    LET ct == CtAssignType(hd, in)
        kept == SortPartial(ct.hd, in)
    IN IF HasType(hd)
       THEN IF Len(in) = Len(hd) THEN CheckEq(hd, in)
            ELSE IF Len(in) > Len(hd) THEN Check(SCHEMA_NW, hd, WholeRecord(hd, in))
            ELSE IF CheckTypeCt(hd, in)
            THEN Check(SCHEMA_CT, hd, PartRecordByRank(hd, in,
                           [i \in DOMAIN hd |-> IF i <= Len(in) THEN in[i].type ELSE NoType]))
            ELSE Refused
       ELSE IF Len(in) > Len(hd) THEN Refused
       ELSE IF Len(in) = Len(hd) THEN CheckUntypedEq(hd, in)
       ELSE IF ct.code = 0 THEN Refused
       ELSE IF ct.code = SCHEMA_CT_NT
       THEN Check(SCHEMA_CT_NT, ct.hd, PartRecord(ct.hd, kept))
       ELSE Check(SCHEMA_CT, ct.hd, PartRecordByRank(ct.hd, kept, TypesOf(ct.hd)))

PerformChecks(mode, hd, in) ==
    IF mode = "TYPE_WR" THEN CheckTyped(hd, in)
    ELSE IF mode = "NO_TYPE_WR" THEN CheckNoType(hd, in)
    ELSE CheckHybrid(hd, in)

\* check_data goes on, and rewrites the header, on these codes.
Accepted(code) == code \notin {0, SCHEMA_ERR}
SavesHeaderTyped(code) == code \in {SCHEMA_NW_NT, SCHEMA_CT_NT, SCHEMA_EQ_NT}  \* variant
SavesHeader(code) == code \in {SCHEMA_NW, SCHEMA_NW_NT, SCHEMA_CT_NT, SCHEMA_EQ_NT}
=============================================================================
