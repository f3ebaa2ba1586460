----------------------------- MODULE MCStorage -----------------------------
(* Instances of Storage for TLC. *)
EXTENDS Storage, TLC

Ref(name, version) == [name |-> name, version |-> version]

Agents == {Ref(<<"agent">>, <<"v1">>)}

Symmetric == Permutations(Callers)
=============================================================================
