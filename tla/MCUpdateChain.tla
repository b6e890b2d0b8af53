--------------------------- MODULE MCUpdateChain ---------------------------
(* Instances of UpdateChain for TLC. *)
EXTENDS UpdateChain

Uniform(selections, values) == {[f \in S |-> v] : S \in selections, v \in values}

\* Every selection of fields, all of them with the same value.
UniformInputs == Uniform((SUBSET (1 .. Base)) \ {{}}, Values)

\* One field or the first two with any value; all with the largest, for which every text
\* that is shorter grows.
SomeInputs ==
  Uniform({{f} : f \in 1 .. Base} \union {1 .. 2}, Values)
    \union Uniform({1 .. Base}, {v \in Values : \A w \in Values : w <= v})
=============================================================================
