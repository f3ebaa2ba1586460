------------------------------- MODULE MCPool -------------------------------
(* Instances of Pool for TLC. *)
EXTENDS PoolProperties, TLC

\* Callers and ids are interchangeable: no property or action names one.
Symmetric == Permutations(Callers) \cup Permutations(VmIds)
=============================================================================
