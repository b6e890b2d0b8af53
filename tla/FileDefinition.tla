--------------------------- MODULE FileDefinition ---------------------------
(***************************************************************************)
(* What the README promises of the definition of a file: "this base        *)
(* definition cannot change anymore, you can add to it".  Fields are added *)
(* at the end, a field without a type may get one; nothing else changes.   *)
(* While the .sch file is being rewritten no other change is made, and     *)
(* none ever after if the rewriting command is killed.                     *)
(***************************************************************************)
EXTENDS Naturals, Sequences

CONSTANTS Base,    \* the definition the file was created with
          NoType

VARIABLES def,   \* the fields, each with its name and type
          busy   \* the .sch file is being rewritten

vars == <<def, busy>>

\* Every field keeps its place, its name and the type it has.
Extends(new, old) ==
    /\ Len(old) <= Len(new)
    /\ \A i \in DOMAIN old : /\ new[i].name = old[i].name
                             /\ old[i].type # NoType => new[i].type = old[i].type

Init == def = Base /\ busy = FALSE

Change == ~busy /\ busy' = TRUE /\ Extends(def', def)

Finish == busy /\ busy' = FALSE /\ UNCHANGED def

Next == Change \/ Finish

Spec == Init /\ [][Next]_vars
=============================================================================
