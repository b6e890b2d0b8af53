---------------------------- MODULE MCFieldStore ----------------------------
(* Instances of FieldStore for TLC. *)
EXTENDS FieldStore

UpTo(k) == UNION {[1 .. i -> {1}] : i \in 1 .. k}

TextShapes == UpTo(5) \cup {<<5>>, <<5, 1>>, <<1, 5>>, <<5, 5>>}
=============================================================================
