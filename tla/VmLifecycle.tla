---------------------------- MODULE VmLifecycle ----------------------------
(***************************************************************************)
(* What a VM pool promises about its VMs, without tasks, locks, channels   *)
(* or calls: each VM goes through one lifecycle, in one direction, and no  *)
(* more than MaxVms VMs hold a place in the pool at a time.                *)
(*                                                                         *)
(* The phases are the states the pool reports for a VM.  A place is held   *)
(* from the moment an allocation has passed the limit check until the VM   *)
(* is taken out of the pool or its start has failed; a VM that is being    *)
(* stopped no longer holds one.                                            *)
(***************************************************************************)
EXTENDS Naturals, FiniteSets

CONSTANTS VmIds,   \* the ids the pool may ever hand out
          MaxVms   \* PoolConfig::max_vms

VARIABLE phase     \* phase[v]: the state of VM v, "None" before it exists

Phases == {"None", "Allocating", "Ready", "Stopping", "Stopped", "Crashed"}

TypeOK == phase \in [VmIds -> Phases]

\* The VMs that hold a place in the pool.
Occupied == {v \in VmIds : phase[v] \in {"Allocating", "Ready"}}

Init == phase = [v \in VmIds |-> "None"]

Move(v, from, to) ==
    /\ phase[v] = from
    /\ phase' = [phase EXCEPT ![v] = to]

\* A new VM takes a free place.
Reserve(v) ==
    /\ Cardinality(Occupied) < MaxVms
    /\ Move(v, "None", "Allocating")

\* The VM has booted, or its start has failed.
Boot(v) == Move(v, "Allocating", "Ready")
Fail(v) == Move(v, "Allocating", "Crashed")

\* The VM gives its place up, and is gone some time later.
Release(v) == Move(v, "Ready", "Stopping")
Finish(v)  == Move(v, "Stopping", "Stopped")

Next == \E v \in VmIds :
    Reserve(v) \/ Boot(v) \/ Fail(v) \/ Release(v) \/ Finish(v)

Spec == Init /\ [][Next]_phase

-----------------------------------------------------------------------------
\* Fairness: a start is decided, a stop is completed.  Nothing obliges
\* anyone to allocate or to release a VM.
Decide(v) == Boot(v) \/ Fail(v)

FairSpec == Spec /\ \A v \in VmIds : WF_phase(Decide(v)) /\ WF_phase(Finish(v))
=============================================================================
