------------------------------ MODULE Records ------------------------------
(***************************************************************************)
(* What -a, -u and -k promise of the records of a file: an update sets the *)
(* fields it is given, each once, and no other field of any record; when   *)
(* it says "updated" all of them are set.  An update that fails or is      *)
(* killed may leave some of them as they were.                             *)
(***************************************************************************)
CONSTANTS Key, Field, Value

VARIABLES
  rec,      \* for each key and field the values that a get shows
  key,      \* the record that is being updated
  given,    \* the fields the update is given, with their values
  status    \* "busy" while there is an update, then how the last one ended

vars == <<rec, key, given, status>>

IsInput(in) == DOMAIN in \subseteq Field /\ \A f \in DOMAIN in : in[f] \in Value

Absent == [f \in Field |-> {}]

TypeOK ==
  /\ rec \in [Key -> [Field -> SUBSET Value]]
  /\ key \in Key
  /\ IsInput(given)
  /\ status \in {"none", "busy", "updated", "failed"}

Init ==
  /\ rec = [k \in Key |-> Absent]
  /\ key \in Key
  /\ given = <<>>
  /\ status = "none"

Add(k) ==
  /\ rec[k] = Absent /\ rec'[k] # Absent
  /\ rec' = [rec EXCEPT ![k] = rec'[k]]
  /\ \A f \in Field : \A v, w \in rec'[k][f] : v = w
  /\ UNCHANGED <<key, given, status>>

Begin ==
  /\ status # "busy"
  /\ key' \in Key /\ IsInput(given')
  /\ status' = "busy"
  /\ UNCHANGED rec

Apply ==
  /\ status = "busy"
  /\ rec' = [rec EXCEPT ![key] = rec'[key]]
  /\ \A f \in Field : \/ rec'[key][f] = rec[key][f]
                      \/ f \in DOMAIN given /\ rec'[key][f] = {given[f]}
  /\ UNCHANGED <<key, given, status>>

Done ==
  /\ status = "busy"
  /\ \A f \in DOMAIN given : rec[key][f] = {given[f]}
  /\ status' = "updated"
  /\ UNCHANGED <<rec, key, given>>

Fail ==
  /\ status = "busy"
  /\ status' = "failed"
  /\ UNCHANGED <<rec, key, given>>

Next == (\E k \in Key : Add(k)) \/ Begin \/ Apply \/ Done \/ Fail

Spec == Init /\ [][Next]_vars
=============================================================================
