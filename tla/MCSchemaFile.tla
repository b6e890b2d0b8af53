---------------------------- MODULE MCSchemaFile ----------------------------
(* SchemaFile on a file created with one or two fields. *)
EXTENDS SchemaFile

CONSTANTS TInt, TLong, TString,  \* types
          na, nb, nc, nd          \* names

Untyped == -1

ExactNames == {<<n, n>> : n \in Name}

F(name, type) == [name |-> name, type |-> type]

OneBase == <<F(na, TLong)>>
MixedBase == <<F(na, TString), F(nb, Untyped)>>

AddOne == {<<F(nc, Untyped)>>, <<F(nc, TLong)>>, <<F(na, TString)>>}
AddEither == {<<F(nc, TLong)>>, <<F(nd, Untyped)>>}

\* One, two or three of the fields a, b and c.
GiveSome == {<<F(na, TString)>>, <<F(na, TLong)>>, <<F(nb, TLong)>>, <<F(nc, TLong)>>,
             <<F(na, TString), F(nb, TLong)>>, <<F(nb, TLong), F(na, TString)>>,
             <<F(nc, TLong), F(nb, TString)>>,
             <<F(na, TString), F(nb, TLong), F(nc, TLong)>>}

Symmetry == Permutations(Proc)
=============================================================================
