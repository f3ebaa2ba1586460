-------------------------- MODULE PoolLifecycleProofs --------------------------
(***************************************************************************)
(* The pool implements the lifecycle of module VmLifecycle: every step of  *)
(* a pool, for any number of callers, any ids and any limit, is a step of  *)
(* one VM along its lifecycle within the limit, or changes no phase.  And  *)
(* what follows from the lifecycle and the pool's inductive invariant: a   *)
(* VM leaves the pool only for a reason, deallocate() answers when the VM  *)
(* is gone, and the limit as an observer of the events sees it.            *)
(***************************************************************************)
EXTENDS PoolProofs, FiniteSetTheorems

-----------------------------------------------------------------------------
(* The lifecycle. *)

\* The phase of a VM, read off its history.
PhaseFacts(v) ==
    /\ v \in DOMAIN vms => phase[v] = "Ready"
    /\ v \notin DOMAIN vms /\ log[v] = Unborn => phase[v] = "None"
    /\ v \notin DOMAIN vms /\ log[v] = Begun => phase[v] = "Allocating"
    /\ v \notin DOMAIN vms /\ log[v] = Failed => phase[v] = "Crashed"
    /\ v \notin DOMAIN vms /\ log[v] \in {Up, Leaving} => phase[v] = "Stopping"
    /\ v \notin DOMAIN vms /\ log[v] = Gone => phase[v] = "Stopped"

LEMMA Phase == ASSUME NEW v \in VmIds PROVE PhaseFacts(v) /\ PhaseFacts(v)'
<1>1. /\ Last(Begun) = "Allocating" /\ Last(Failed) = "Crashed" /\ Last(Up) = "Ready"
      /\ Last(Leaving) = "Stopping" /\ Last(Gone) = "Stopped" /\ Unborn = <<>>
  BY DEF Last, Unborn, Begun, Failed, Up, Leaving, Gone
<1>2. PhaseFacts(v)
  BY <1>1, Histories DEF PhaseFacts, phase
<1>3. PhaseFacts(v)'
  BY <1>1, Histories DEF PhaseFacts, phase
<1> QED
  BY <1>2, <1>3

\* What happens to one VM does not change the phase of another.
LEMMA OtherPhases ==
  ASSUME NEW v, \A w \in VmIds \ {v} : log'[w] = log[w] /\ (w \in DOMAIN vms' <=> w \in DOMAIN vms)
  PROVE  \A w \in VmIds \ {v} : phase'[w] = phase[w]
  BY DEF phase

LEMMA PhaseMove ==
  ASSUME NEW v \in VmIds, NEW from, NEW to, phase[v] = from, phase'[v] = to,
         \A w \in VmIds \ {v} : phase'[w] = phase[w]
  PROVE  Lifecycle!Move(v, from, to)
<1>1. phase' = [phase EXCEPT ![v] = to]
  <2>1. phase = [w \in VmIds |-> phase[w]] /\ phase' = [w \in VmIds |-> phase'[w]]
    BY DEF phase
  <2> QED
    BY <2>1
<1> QED
  BY <1>1 DEF Lifecycle!Move

LEMMA NoPhaseMove ==
  ASSUME \A w \in VmIds : phase'[w] = phase[w]
  PROVE  UNCHANGED phase
<1>1. phase = [w \in VmIds |-> phase[w]] /\ phase' = [w \in VmIds |-> phase'[w]]
  BY DEF phase
<1> QED
  BY <1>1

LEMMA NoPhaseStep ==
  ASSUME UNCHANGED log, DOMAIN vms' = DOMAIN vms
  PROVE  UNCHANGED phase
  BY DEF phase

\* While nobody holds the write guard, the VMs in the map are all those that
\* hold a place.
LEMMA PlacesTaken ==
  ASSUME IInv, writer = NoTask
  PROVE  Lifecycle!Occupied = DOMAIN vms
<1>1. \A v \in VmIds : v \notin InCall(Holding)
  BY PoolAssumption DEF IInv, LockInv, InCall
<1>2. ASSUME NEW v \in VmIds PROVE phase[v] \in {"Allocating", "Ready"} <=> v \in DOMAIN vms
  <2>1. HistoryOf(v) /\ PhaseFacts(v)
    BY Phase DEF IInv, HistoryInv
  <2> QED
    BY <1>1, <2>1 DEF HistoryOf, PhaseFacts, Lifecycles
<1> QED
  BY <1>2 DEF Lifecycle!Occupied, IInv, TypeOK

\* allocate(): a place is reserved, then the VM boots or fails.
LEMMA AllocateMoves ==
  ASSUME IInv, NEW t \in Tasks, AllocateStep(t)
  PROVE  UNCHANGED phase \/ \E v \in VmIds :
            Lifecycle!Reserve(v) \/ Lifecycle!Boot(v) \/ Lifecycle!Fail(v)
<1>0. TypeOK /\ TypeInv
  BY DEF IInv, TypeInv
<1>1. ASSUME NEW v \in VmIds, AllocateBegin(t, v) PROVE Lifecycle!Reserve(v)
  <2>1. log[v] = Unborn /\ ~Full /\ writer = NoTask /\ UNCHANGED vms /\ Emit(v, "Allocating")
    BY <1>1 DEF AllocateBegin, FreshIds, Unborn, MayWrite, MayRead
  <2>2. log'[v] = Begun /\ \A w \in VmIds \ {v} : log'[w] = log[w]
    BY <1>0, <2>1, Emission, Histories
  <2>3. v \notin DOMAIN vms
    <3>1. HistoryOf(v) /\ v \notin InCall({"ready_event"})
      BY <2>1, PoolAssumption DEF IInv, HistoryInv, LockInv, InCall, Holding
    <3> QED
      BY <2>1, <3>1, Histories DEF HistoryOf
  <2>4. Cardinality(Lifecycle!Occupied) < MaxVms
    <3>1. Lifecycle!Occupied = DOMAIN vms
      BY <2>1, PlacesTaken
    <3>2. Cardinality(DOMAIN vms) \in Nat
      BY <1>0, PoolAssumption, FS_Subset, FS_CardinalityType DEF TypeOK
    <3> QED
      BY <2>1, <3>1, <3>2, PoolAssumption DEF Full
  <2>5. phase[v] = "None" /\ phase'[v] = "Allocating"
    BY <2>1, <2>2, <2>3, Phase DEF PhaseFacts
  <2>6. \A w \in VmIds \ {v} : phase'[w] = phase[w]
    BY <2>1, <2>2, OtherPhases
  <2>7. Lifecycle!Move(v, "None", "Allocating")
    BY <2>5, <2>6, PhaseMove
  <2> QED
    BY ONLY <2>4, <2>7 DEF Lifecycle!Reserve, Cardinality, Lifecycle!Cardinality
<1> PICK v : v = call[t].vm
  OBVIOUS
<1>2. pc[t] \in Holding => v \in VmIds /\ StageOf(t)
  BY DEF IInv, CallInv, StageInv
<1>3. ASSUME StartOk(t) PROVE Lifecycle!Boot(v)
  <2>1. pc[t] = "start" /\ DOMAIN vms' = DOMAIN vms \cup {v} /\ UNCHANGED log
    BY <1>3 DEF StartOk, Insert, events
  <2>2. v \in VmIds /\ log[v] = Begun /\ v \notin DOMAIN vms
    BY <1>2, <2>1 DEF Holding, StageOf, At
  <2>3. phase[v] = "Allocating" /\ phase'[v] = "Ready"
    BY <2>1, <2>2, Phase DEF PhaseFacts
  <2>4. \A w \in VmIds \ {v} : phase'[w] = phase[w]
    BY <2>1, OtherPhases
  <2> QED
    BY <2>2, <2>3, <2>4, PhaseMove DEF Lifecycle!Boot
<1>4. ASSUME AppendReady(t) PROVE UNCHANGED phase
  <2>1. pc[t] = "ready_event" /\ UNCHANGED vms /\ Emit(v, "Ready")
    BY <1>4 DEF AppendReady
  <2>2. v \in VmIds /\ v \in DOMAIN vms
    BY <1>2, <2>1 DEF Holding, StageOf, At
  <2>3. phase'[v] = phase[v]
    BY <2>1, <2>2, Phase DEF PhaseFacts
  <2>4. \A w \in VmIds \ {v} : phase'[w] = phase[w]
    BY <1>0, <2>1, <2>2, Emission, OtherPhases
  <2> QED
    BY <2>3, <2>4, NoPhaseMove
<1>5. ASSUME StartFails(t) \/ AllocateFull(t) PROVE UNCHANGED phase
  BY <1>5, NoPhaseStep DEF StartFails, AllocateFull, events
<1>6. ASSUME AppendCrashed(t) PROVE Lifecycle!Fail(v)
  <2>1. pc[t] = "crash_event" /\ UNCHANGED vms /\ Emit(v, "Crashed")
    BY <1>6 DEF AppendCrashed
  <2>2. v \in VmIds /\ log[v] = Begun /\ v \notin DOMAIN vms
    BY <1>2, <2>1 DEF Holding, StageOf, At
  <2>3. log'[v] = Failed /\ \A w \in VmIds \ {v} : log'[w] = log[w]
    BY <1>0, <2>1, <2>2, Emission, Histories
  <2>4. phase[v] = "Allocating" /\ phase'[v] = "Crashed"
    BY <2>1, <2>2, <2>3, Phase DEF PhaseFacts
  <2>5. \A w \in VmIds \ {v} : phase'[w] = phase[w]
    BY <2>1, <2>3, OtherPhases
  <2> QED
    BY <2>2, <2>4, <2>5, PhaseMove DEF Lifecycle!Fail
<1>7. pc[t] \in Holding => v \in VmIds
  BY <1>2
<1>8. StartOk(t) \/ AppendCrashed(t) => v \in VmIds
  BY <1>7 DEF StartOk, AppendCrashed, Holding
<1> QED
  BY <1>1, <1>3, <1>4, <1>5, <1>6, <1>8 DEF AllocateStep

\* deallocate(): the VM gives its place up, and is gone some time later.
LEMMA DeallocateMoves ==
  ASSUME IInv, NEW t \in Tasks, DeallocateStep(t)
  PROVE  UNCHANGED phase \/ \E v \in VmIds : Lifecycle!Release(v) \/ Lifecycle!Finish(v)
<1>0. TypeOK /\ TypeInv
  BY DEF IInv, TypeInv
<1> PICK v : v = call[t].vm
  OBVIOUS
<1>1. pc[t] \in {"remove"} \cup Stopping => v \in VmIds /\ StageOf(t) /\ HistoryOf(v)
  BY DEF IInv, CallInv, StageInv, HistoryInv
<1>2. ASSUME RemoveEntry(t) PROVE v \in VmIds /\ Lifecycle!Release(v)
  <2>1. /\ pc[t] = "remove" /\ v \in DOMAIN vms /\ writer = NoTask
        /\ DOMAIN vms' = DOMAIN vms \ {v} /\ UNCHANGED log
    BY <1>2 DEF RemoveEntry, Remove, MayWrite, MayRead, events
  <2>2. v \in VmIds /\ log[v] = Up
    <3>1. v \notin InCall({"ready_event"})
      BY <2>1, PoolAssumption DEF IInv, LockInv, InCall, Holding
    <3> QED
      BY <1>1, <2>1, <3>1 DEF HistoryOf
  <2>3. phase[v] = "Ready" /\ phase'[v] = "Stopping"
    BY <2>1, <2>2, Phase DEF PhaseFacts
  <2>4. \A w \in VmIds \ {v} : phase'[w] = phase[w]
    BY <2>1, OtherPhases
  <2> QED
    BY <2>2, <2>3, <2>4, PhaseMove DEF Lifecycle!Release
<1>3. ASSUME AppendStopping(t) PROVE UNCHANGED phase
  <2>1. pc[t] = "stopping_event" /\ UNCHANGED vms /\ Emit(v, "Stopping")
    BY <1>3 DEF AppendStopping
  <2>2. v \in VmIds /\ v \notin DOMAIN vms /\ log[v] = Up
    BY <1>1, <2>1 DEF Stopping, StageOf, At
  <2>3. log'[v] = Leaving /\ \A w \in VmIds \ {v} : log'[w] = log[w]
    BY <1>0, <2>1, <2>2, Emission, Histories
  <2>4. phase'[v] = phase[v]
    BY <2>1, <2>2, <2>3, Phase DEF PhaseFacts
  <2>5. \A w \in VmIds \ {v} : phase'[w] = phase[w]
    BY <2>1, <2>3, OtherPhases
  <2> QED
    BY <2>4, <2>5, NoPhaseMove
<1>4. ASSUME AppendStopped(t) PROVE v \in VmIds /\ Lifecycle!Finish(v)
  <2>1. pc[t] = "stopped_event" /\ UNCHANGED vms /\ Emit(v, "Stopped")
    BY <1>4 DEF AppendStopped
  <2>2. v \in VmIds /\ log[v] = Leaving
    BY <1>1, <2>1 DEF Stopping, StageOf, At
  <2>3. log'[v] = Gone /\ \A w \in VmIds \ {v} : log'[w] = log[w]
    BY <1>0, <2>1, <2>2, Emission, Histories
  <2>4. v \notin DOMAIN vms
    <3>1. v \notin InCall({"ready_event"})
      BY <2>2, Histories DEF IInv, InCall, StageInv, StageOf, At
    <3> QED
      BY <1>1, <2>1, <2>2, <3>1, Histories DEF HistoryOf, Stopping
  <2>5. phase[v] = "Stopping" /\ phase'[v] = "Stopped"
    BY <2>1, <2>2, <2>3, <2>4, Phase DEF PhaseFacts
  <2>6. \A w \in VmIds \ {v} : phase'[w] = phase[w]
    BY <2>1, <2>3, OtherPhases
  <2> QED
    BY <2>2, <2>5, <2>6, PhaseMove DEF Lifecycle!Finish
<1>5. ASSUME DeallocateMissing(t) \/ StopVm(t) \/ Cleanup(t) PROVE UNCHANGED phase
  BY <1>5, NoPhaseStep DEF DeallocateMissing, StopVm, Cleanup, events
<1> QED
  BY <1>2, <1>3, <1>4, <1>5 DEF DeallocateStep

LEMMA LifecycleInit == Init => Lifecycle!Init
<1> SUFFICES ASSUME Init PROVE Lifecycle!Init
  OBVIOUS
<1>1. \A v \in VmIds : phase[v] = "None"
  BY DEF Init, phase
<1>2. phase = [v \in VmIds |-> phase[v]]
  BY DEF phase
<1> QED
  BY <1>1, <1>2 DEF Lifecycle!Init

LEMMA LifecycleNext == IInv /\ [Next]_vars => [Lifecycle!Next]_phase
<1> SUFFICES ASSUME IInv, [Next]_vars PROVE [Lifecycle!Next]_phase
  OBVIOUS
<1>1. ASSUME NEW t \in Tasks, Step(t) PROVE [Lifecycle!Next]_phase
  <2>1. CASE AllocateStep(t)
    BY <2>1, AllocateMoves DEF Lifecycle!Next
  <2>2. CASE DeallocateStep(t)
    BY <2>2, DeallocateMoves DEF Lifecycle!Next
  <2>3. CASE SendStep(t)
    <3>1. UNCHANGED log /\ DOMAIN vms' = DOMAIN vms
      BY <2>3 DEF SendStep, SendNoVm, SendBegin, SendOk, SendClosed, SetQueued, events
    <3> QED
      BY <3>1, NoPhaseStep
  <2>4. CASE Request(t) \/ Status(t) \/ EvictStep(t) \/ HealthStep(t)
    <3>1. UNCHANGED log /\ DOMAIN vms' = DOMAIN vms
      BY <2>4 DEF Request, Status, EvictStep, CheckRoom, ChooseVictim, NoVictim, HealthStep,
          Scan, SweepNext, SweepDone, events
    <3> QED
      BY <3>1, NoPhaseStep
  <2> QED
    BY <1>1, <2>1, <2>2, <2>3, <2>4 DEF Step
<1>2. CASE (\E t \in Callers : Call(t)) \/ CallHealthCheck
  BY <1>2, NoPhaseStep
  DEF Call, CallAllocate, CallEvict, CallDeallocate, CallSend, CallStatus, CallHealthCheck,
      Begin, events
<1>3. CASE Environment
  BY <1>3, NoPhaseStep DEF Environment, VmDies, Drain, Tick, SetQueued, events
<1>4. CASE UNCHANGED vars
  BY <1>4, NoPhaseStep DEF vars, events
<1> QED
  BY <1>1, <1>2, <1>3, <1>4 DEF Next

\* Every behaviour of the pool is a behaviour of the abstract lifecycle: the
\* limit holds at every reservation and each VM moves along its lifecycle.
THEOREM PoolImplementsLifecycle == Spec => ImplementsLifecycle
<1>1. Spec => Lifecycle!Spec
  BY LifecycleInit, LifecycleNext, Invariance, PTL DEF Spec, Lifecycle!Spec
<1> QED
  BY <1>1 DEF ImplementsLifecycle

-----------------------------------------------------------------------------
(* Removal with a reason. *)

\* A VM that was in the map is in it now or never again.
LEMMA SeenStays ==
  ASSUME IInv, [Next]_vars, NEW v \in Seen
  PROVE  v \in Seen' /\ (v \in DOMAIN vms' => v \in DOMAIN vms)
<1>1. [Lifecycle!Next]_phase /\ v \in VmIds
  BY LifecycleNext DEF Seen
<1>2. DOMAIN phase = VmIds
  BY DEF phase
<1>3. /\ phase[v] \in {"Ready", "Stopping", "Stopped"}
      /\ phase'[v] \in {"Ready", "Stopping", "Stopped"}
      /\ phase'[v] = "Ready" => phase[v] = "Ready"
  <2> phase[v] \in {"Ready", "Stopping", "Stopped"}
    BY DEF Seen
  <2>1. CASE UNCHANGED phase
    BY <2>1
  <2>2. ASSUME NEW w \in VmIds,
               \/ Lifecycle!Reserve(w) \/ Lifecycle!Boot(w) \/ Lifecycle!Fail(w)
               \/ Lifecycle!Release(w) \/ Lifecycle!Finish(w)
        PROVE  /\ phase'[v] \in {"Ready", "Stopping", "Stopped"}
               /\ phase'[v] = "Ready" => phase[v] = "Ready"
    <3>1. PICK from, to : /\ phase[w] = from /\ phase' = [phase EXCEPT ![w] = to]
                          /\ <<from, to>> \in {<<"None", "Allocating">>, <<"Allocating", "Ready">>,
                                <<"Allocating", "Crashed">>, <<"Ready", "Stopping">>,
                                <<"Stopping", "Stopped">>}
      BY <2>2 DEF Lifecycle!Reserve, Lifecycle!Boot, Lifecycle!Fail, Lifecycle!Release,
          Lifecycle!Finish, Lifecycle!Move
    <3>2. v # w => phase'[v] = phase[v]
      BY <1>2, <3>1
    <3>3. v = w => phase'[v] = to
      BY <1>2, <3>1
    <3> QED
      BY <3>1, <3>2, <3>3
  <2> QED
    BY <1>1, <2>1, <2>2 DEF Lifecycle!Next
<1>4. v \in Seen'
  BY <1>1, <1>3 DEF Seen
<1>5. (v \in DOMAIN vms => phase[v] = "Ready") /\ (v \in DOMAIN vms' => phase'[v] = "Ready")
  BY <1>1 DEF phase
<1>6. phase[v] = "Ready" => v \in DOMAIN vms
  <2>1. HistoryOf(v) /\ PhaseFacts(v)
    BY <1>1, Phase DEF IInv, HistoryInv
  <2> QED
    BY <1>1, <2>1 DEF PhaseFacts, HistoryOf, Lifecycles
<1> QED
  BY <1>3, <1>4, <1>5, <1>6

\* An entry that stays keeps its priority and does not get younger.
LEMMA EntriesAge ==
  ASSUME IInv, [Next]_vars, NEW v \in DOMAIN vms, v \in DOMAIN vms'
  PROVE  vms'[v].priority = vms[v].priority /\ vms'[v].age >= vms[v].age
<1> DEFINE Kept == vms'[v].priority = vms[v].priority /\ vms'[v].age >= vms[v].age
<1>0. TypeOK /\ vms[v] \in Entry /\ vms[v].age \in Nat
  BY PoolAssumption DEF IInv, TypeOK, Entry
<1>1. UNCHANGED vms => Kept
  BY <1>0
<1>2. ASSUME NEW t \in Tasks, Step(t) PROVE Kept
  <2>1. CASE StartOk(t)
    <3>1. v # call[t].vm
      BY <2>1 DEF IInv, StageInv, StageOf, At, StartOk
    <3> QED
      BY <1>0, <2>1, <3>1 DEF StartOk, Insert
  <2>2. CASE RemoveEntry(t)
    BY <1>0, <2>2 DEF RemoveEntry, Remove
  <2>3. CASE SendOk(t)
    <3>1. /\ call[t].vm \in DOMAIN vms
          /\ vms[call[t].vm].queued + 1 \in 0 .. CmdCapacity
          /\ SetQueued(call[t].vm, vms[call[t].vm].queued + 1)
      BY <1>0, <2>3, PoolAssumption
      DEF IInv, StageInv, StageOf, At, SendOk, HasRoom, TypeOK, Entry
    <3> QED
      BY <1>0, <3>1, Channel
  <2>4. CASE ~StartOk(t) /\ ~RemoveEntry(t) /\ ~SendOk(t)
    BY <1>1, <1>2, <2>4
    DEF Step, Request, Status, AllocateStep, AllocateFull, AllocateBegin, AppendReady,
        StartFails, AppendCrashed, EvictStep, CheckRoom, ChooseVictim, NoVictim,
        DeallocateStep, DeallocateMissing, AppendStopping, StopVm, AppendStopped, Cleanup,
        HealthStep, Scan, SweepNext, SweepDone, SendStep, SendNoVm, SendBegin, SendClosed
  <2> QED
    BY <2>1, <2>2, <2>3, <2>4
<1>3. CASE (\E t \in Callers : Call(t)) \/ CallHealthCheck
  BY <1>1, <1>3
  DEF Call, CallAllocate, CallEvict, CallDeallocate, CallSend, CallStatus, CallHealthCheck, Begin
<1>4. CASE Environment
  <2>1. ASSUME NEW w \in VmIds, Drain(w) PROVE Kept
    <3>1. /\ w \in DOMAIN vms
          /\ vms[w].queued - 1 \in 0 .. CmdCapacity
          /\ SetQueued(w, vms[w].queued - 1)
      BY <1>0, <2>1, PoolAssumption DEF Drain, TypeOK, Entry
    <3> QED
      BY <1>0, <3>1, Channel
  <2>2. CASE Tick
    BY <1>0, <2>2, Ageing DEF Tick
  <2> QED
    BY <1>1, <1>4, <2>1, <2>2 DEF Environment, VmDies
<1>5. CASE UNCHANGED vars
  BY <1>1, <1>5 DEF vars
<1> QED
  BY <1>2, <1>3, <1>4, <1>5 DEF Next

\* So a reason stays a reason.
LEMMA ReasonsStay ==
  ASSUME IInv, [Next]_vars
  PROVE  /\ \A v, p : Outranked(v, p) => Outranked(v, p)'
         /\ \A v : Expired(v) => Expired(v)'
<1>1. ASSUME NEW v, NEW p, Outranked(v, p) PROVE Outranked(v, p)'
  BY <1>1, SeenStays, EntriesAge DEF Outranked
<1>2. ASSUME NEW v, Expired(v) PROVE Expired(v)'
  <2>1. v \in DOMAIN vms' => /\ vms[v].age >= VmTimeout /\ vms'[v].age >= vms[v].age
                             /\ vms[v].age \in Nat /\ vms'[v].age \in Nat
    <3>1. TypeOK /\ TypeOK'
      BY TypeNext DEF IInv, TypeInv
    <3> QED
      BY <1>2, <3>1, SeenStays, EntriesAge, PoolAssumption DEF Expired, TypeOK, Entry
  <2>2. VmTimeout \in Nat
    BY PoolAssumption
  <2> QED
    BY <1>2, <2>1, <2>2, SeenStays DEF Expired
<1> QED
  BY <1>1, <1>2

LEMMA ChosenInit == Init => ChosenInv
  BY DEF Init, ChosenInv, At

\* How a task comes to remove a VM: it has just found the reason, or it has
\* one, or it has been asked to by name.
ArrivedWithReason(t) ==
    pc'[t] = "remove" =>
        \/ pc[t] = "remove" /\ call'[t] = call[t]
        \/ call'[t].op = "deallocate"
        \/ /\ call'[t].op = "evict" /\ UNCHANGED vms
           /\ call'[t].vm \in Candidates(call'[t].priority)
        \/ call'[t].op = "health" /\ call'[t].vm \in timedOut

LEMMA Arrival ==
  ASSUME IInv, [Next]_vars, NEW t \in Tasks
  PROVE  ArrivedWithReason(t)
<1>0. /\ TypeOK /\ TypeInv
      /\ pc \in [Tasks -> Labels] /\ call \in [Tasks -> Calls]
      /\ pc[t] \in {"room", "victim"} => call[t].op = "evict"
      /\ pc[t] = "sweep" => call[t].op = "health"
  BY DEF IInv, TypeInv, TypeOK, CallInv
<1>1. ASSUME NEW u \in Tasks \ {t}, Others(u) PROVE ArrivedWithReason(t)
  BY <1>1 DEF Others, ArrivedWithReason
<1>2. ASSUME NEW u \in Tasks, Step(u) PROVE Others(u)
  BY <1>0, <1>2
  DEF Step, Request, Status, AllocateStep, AllocateFull, AllocateBegin, StartOk, AppendReady,
      StartFails, AppendCrashed, EvictStep, CheckRoom, ChooseVictim, NoVictim, DeallocateStep,
      DeallocateMissing, DeallocateFailed, RemoveEntry, AppendStopping, StopVm, AppendStopped,
      Cleanup, Deallocated, Resume, HealthStep, Scan, SweepNext, SweepDone, SendStep, SendNoVm,
      SendBegin, SendOk, SendClosed, Goto, Return, Others, tasks
<1>3. CASE Step(t)
  <2>1. CASE \E v \in VmIds : ChooseVictim(t, v)
    <3>1. PICK v \in VmIds : ChooseVictim(t, v)
      BY <2>1
    <3>2. ArgumentSet(t, v)
      BY <1>0, <3>1, Argument DEF ChooseVictim
    <3> QED
      BY <1>0, <3>1, <3>2 DEF ChooseVictim, ArgumentSet, ArrivedWithReason, Victims, Candidates
  <2>2. CASE \E v \in VmIds : SweepNext(t, v)
    <3>1. PICK v \in VmIds : SweepNext(t, v)
      BY <2>2
    <3>2. ArgumentSet(t, v)
      BY <1>0, <3>1, Argument DEF SweepNext
    <3> QED
      BY <1>0, <3>1, <3>2 DEF SweepNext, ArgumentSet, ArrivedWithReason
  <2>3. CASE Request(t)
    BY <2>3 DEF Request, tasks, ArrivedWithReason
  <2>4. CASE /\ ~\E v \in VmIds : ChooseVictim(t, v) \/ SweepNext(t, v)
             /\ ~Request(t)
    <3>1. pc'[t] # "remove"
      BY <1>0, <1>3, <2>4
      DEF Step, Status, AllocateStep, AllocateFull, AllocateBegin, StartOk, AppendReady,
          StartFails, AppendCrashed, EvictStep, CheckRoom, NoVictim, DeallocateStep,
          DeallocateMissing, DeallocateFailed, RemoveEntry, AppendStopping, StopVm, AppendStopped,
          Cleanup, Deallocated, Resume, HealthStep, Scan, SweepDone, SendStep, SendNoVm,
          SendBegin, SendOk, SendClosed, Goto, Return
    <3> QED
      BY <3>1 DEF ArrivedWithReason
  <2> QED
    BY <2>1, <2>2, <2>3, <2>4
<1>4. CASE (\E u \in Callers : Call(u)) \/ CallHealthCheck
  <2>1. PICK u \in Tasks : \E op, p, v, l :
          Begin(u, op, p, v, l) /\ (l = "remove" => op = "deallocate")
    BY <1>4
    DEF Call, CallAllocate, CallEvict, CallDeallocate, CallSend, CallStatus, CallHealthCheck, Tasks
  <2>2. PICK op, p, v, l : Begin(u, op, p, v, l) /\ (l = "remove" => op = "deallocate")
    BY <2>1
  <2>3. Others(u)
    BY <1>0, <2>2 DEF Begin, Goto, Others
  <2>4. pc'[u] = l /\ call'[u].op = op
    BY <1>0, <2>2 DEF Begin, Goto
  <2> QED
    BY <1>1, <2>2, <2>3, <2>4 DEF ArrivedWithReason
<1>5. CASE Environment \/ UNCHANGED vars
  BY <1>5 DEF Environment, VmDies, Drain, Tick, vars, tasks, ArrivedWithReason
<1> QED
  BY <1>1, <1>2, <1>3, <1>4, <1>5 DEF Next

\* The health check's list grows only when it is read off the map.
LEMMA ListGrows ==
  ASSUME [Next]_vars
  PROVE  timedOut' \subseteq timedOut \/ (timedOut' = TimedOut /\ UNCHANGED vms)
  BY DEF Next, Call, CallAllocate, CallEvict, CallDeallocate, CallSend, CallStatus, CallHealthCheck,
      Begin, Environment, VmDies, Drain, Tick, Step, Request, Status, AllocateStep, AllocateFull,
      AllocateBegin, StartOk, AppendReady, StartFails, AppendCrashed, EvictStep, CheckRoom,
      ChooseVictim, NoVictim, DeallocateStep, DeallocateMissing, RemoveEntry, AppendStopping,
      StopVm, AppendStopped, Cleanup, HealthStep, Scan, SweepNext, SweepDone, SendStep, SendNoVm,
      SendBegin, SendOk, SendClosed, vars

LEMMA ChosenNext == IInv /\ ChosenInv /\ [Next]_vars => ChosenInv'
<1> SUFFICES ASSUME IInv, ChosenInv, [Next]_vars PROVE ChosenInv'
  OBVIOUS
<1>1. ASSUME NEW v \in DOMAIN vms PROVE v \in Seen
  BY DEF IInv, TypeOK, Seen, phase
<1>2. ASSUME NEW v \in timedOut' PROVE Expired(v)'
  <2>1. Expired(v)
    BY <1>1, <1>2, ListGrows DEF ChosenInv, Expired, TimedOut
  <2> QED
    BY <2>1, ReasonsStay
<1>3. ASSUME NEW t \in Tasks, pc'[t] = "remove"
      PROVE  /\ call'[t].op = "evict" => Outranked(call[t].vm, call[t].priority)'
             /\ call'[t].op = "health" => Expired(call[t].vm)'
  <2>1. CASE pc[t] = "remove" /\ call'[t] = call[t]
    <3>1. /\ call[t].op = "evict" => Outranked(call[t].vm, call[t].priority)
          /\ call[t].op = "health" => Expired(call[t].vm)
      BY <2>1 DEF ChosenInv, At
    <3>2. /\ call[t].op = "evict" =>
                call[t].vm \in Seen' /\ (call[t].vm \in DOMAIN vms' =>
                    vms'[call[t].vm].priority < call[t].priority)
          /\ call[t].op = "health" =>
                call[t].vm \in Seen' /\ (call[t].vm \in DOMAIN vms' =>
                    vms'[call[t].vm].age >= VmTimeout)
      BY <3>1, ReasonsStay DEF Outranked, Expired
    <3> QED
      BY <2>1, <3>2 DEF Outranked, Expired
  <2>2. CASE call'[t].op = "deallocate"
    BY <2>2
  <2>3. CASE /\ call'[t].op = "evict" /\ UNCHANGED vms
             /\ call'[t].vm \in Candidates(call'[t].priority)
    <3>1. call'[t].vm \in Seen'
      BY <1>1, <2>3, SeenStays DEF Candidates
    <3> QED
      BY <2>3, <3>1 DEF Candidates, Outranked
  <2>4. CASE call'[t].op = "health" /\ call'[t].vm \in timedOut
    <3> DEFINE v == call'[t].vm
    <3>1. Expired(v)
      BY <2>4 DEF ChosenInv
    <3>2. v \in Seen' /\ (v \in DOMAIN vms' => vms'[v].age >= VmTimeout)
      BY <3>1, ReasonsStay DEF Expired
    <3> QED
      BY <2>4, <3>2 DEF Expired
  <2> QED
    BY <1>3, <2>1, <2>2, <2>3, <2>4, Arrival DEF ArrivedWithReason
<1> QED
  BY <1>2, <1>3 DEF ChosenInv, At

LEMMA ChosenInvariance == Spec => []ChosenInv
  BY ChosenInit, ChosenNext, Invariance, PTL DEF Spec

\* Only RemoveEntry takes an entry out of the map.
LEMMA EntryLeaves ==
  ASSUME [Next]_vars, NEW v \in DOMAIN vms, v \notin DOMAIN vms'
  PROVE  \E t \in Tasks : RemoveEntry(t) /\ call[t].vm = v
<1>1. PICK t \in Tasks : Step(t)
  BY DEF Next, Call, CallAllocate, CallEvict, CallDeallocate, CallSend, CallStatus,
      CallHealthCheck, Begin, Environment, VmDies, Drain, Tick, SetQueued, vars
<1>2. RemoveEntry(t)
  BY <1>1
  DEF Step, Request, Status, AllocateStep, AllocateFull, AllocateBegin, StartOk, Insert,
      AppendReady, StartFails, AppendCrashed, EvictStep, CheckRoom, ChooseVictim, NoVictim,
      DeallocateStep, DeallocateMissing, AppendStopping, StopVm, AppendStopped, Cleanup,
      HealthStep, Scan, SweepNext, SweepDone, SendStep, SendNoVm, SendBegin, SendOk,
      SetQueued, SendClosed
<1> QED
  BY <1>2 DEF RemoveEntry, Remove

\* A VM leaves the pool by name, for a higher priority or timed out, and the
\* reason holds at that moment whatever happened since it was found.
THEOREM RemovalIsJustified == Spec => RemovalJustified
<1> DEFINE Reason(t, v) ==
      /\ pc[t] # pc'[t] /\ call[t].vm = v
      /\ \/ call[t].op = "deallocate"
         \/ call[t].op = "evict" /\ vms[v].priority < call[t].priority
         \/ call[t].op = "health" /\ vms[v].age >= VmTimeout
<1>1. ASSUME IInv, ChosenInv, [Next]_vars, NEW v \in DOMAIN vms \ DOMAIN vms'
      PROVE  \E t \in Tasks : Reason(t, v)
  <2>1. PICK t \in Tasks : RemoveEntry(t) /\ call[t].vm = v
    BY <1>1, EntryLeaves
  <2>2. /\ At(t, "remove") /\ call[t].op \in {"deallocate", "evict", "health"}
        /\ pc[t] # pc'[t]
    BY <1>1, <2>1 DEF RemoveEntry, IInv, TypeOK, CallInv, At, Goto
  <2> QED
    BY <1>1, <2>1, <2>2 DEF ChosenInv, Outranked, Expired
<1>2. IInv /\ ChosenInv /\ [Next]_vars =>
        [\A v \in DOMAIN vms \ DOMAIN vms' : \E t \in Tasks : Reason(t, v)]_vars
  BY <1>1
<1>3. Spec => [][\A v \in DOMAIN vms \ DOMAIN vms' : \E t \in Tasks : Reason(t, v)]_vars
  BY <1>2, Invariance, ChosenInvariance, PTL DEF Spec
<1> QED
  BY <1>3 DEF RemovalJustified

-----------------------------------------------------------------------------
(* The limit, as an observer of the events sees it. *)

\* A move of the lifecycle takes a place only within the limit.
PlacesInv == Cardinality(Lifecycle!Occupied) <= MaxVms

LEMMA PlacesInit == Init => PlacesInv
<1> SUFFICES ASSUME Init PROVE PlacesInv
  OBVIOUS
<1>1. Lifecycle!Occupied = {}
  BY LifecycleInit DEF Lifecycle!Init, Lifecycle!Occupied
<1> QED
  BY <1>1, FS_EmptySet, PoolAssumption DEF PlacesInv

LEMMA PlacesNext == IInv /\ PlacesInv /\ [Next]_vars => PlacesInv'
<1> SUFFICES ASSUME IInv, PlacesInv, [Next]_vars PROVE PlacesInv'
  OBVIOUS
<1> DEFINE Occ == Lifecycle!Occupied
<1>0. /\ IsFiniteSet(Occ) /\ Cardinality(Occ) \in Nat
      /\ IsFiniteSet(Occ') /\ Cardinality(Occ') \in Nat
  BY PoolAssumption, FS_Subset, FS_CardinalityType DEF Lifecycle!Occupied
<1>1. DOMAIN phase = VmIds
  BY DEF phase
<1>2. CASE Occ' \subseteq Occ
  <2>1. Cardinality(Occ') <= Cardinality(Occ)
    BY <1>0, <1>2, FS_Subset
  <2> QED
    BY <1>0, <2>1, PoolAssumption DEF PlacesInv
<1>3. CASE \E v \in VmIds : Lifecycle!Reserve(v)
  <2>1. PICK v \in VmIds : Lifecycle!Reserve(v)
    BY <1>3
  <2>2. Occ' = Occ \cup {v}
    BY <1>1, <2>1 DEF Lifecycle!Reserve, Lifecycle!Move, Lifecycle!Occupied
  <2>3. Cardinality(Occ) < MaxVms
    BY <2>1 DEF Lifecycle!Reserve, Cardinality, Lifecycle!Cardinality
  <2>4. Cardinality(Occ') <= Cardinality(Occ) + 1
    BY <1>0, <2>2, FS_AddElement
  <2> QED
    BY <1>0, <2>3, <2>4, PoolAssumption DEF PlacesInv
<1>4. Occ' \subseteq Occ \/ \E v \in VmIds : Lifecycle!Reserve(v)
  <2>1. [Lifecycle!Next]_phase
    BY LifecycleNext
  <2>2. ASSUME NEW v \in VmIds,
               Lifecycle!Boot(v) \/ Lifecycle!Fail(v) \/ Lifecycle!Release(v) \/ Lifecycle!Finish(v)
        PROVE  Occ' \subseteq Occ
    BY <1>1, <2>2 DEF Lifecycle!Boot, Lifecycle!Fail, Lifecycle!Release, Lifecycle!Finish,
        Lifecycle!Move, Lifecycle!Occupied
  <2>3. UNCHANGED phase => Occ' \subseteq Occ
    BY DEF Lifecycle!Occupied
  <2> QED
    BY <2>1, <2>2, <2>3 DEF Lifecycle!Next
<1> QED
  BY <1>2, <1>3, <1>4

\* The tasks about to emit Stopping are as many as the VMs they stop.
LEMMA StoppingTasks ==
  ASSUME IInv
  PROVE  LET S == {t \in Tasks : pc[t] = "stopping_event"}
             V == InCall({"stopping_event"})
         IN  /\ IsFiniteSet(S) /\ Cardinality(S) \in Nat
             /\ IsFiniteSet(V) /\ Cardinality(V) <= Cardinality(S)
<1> DEFINE S == {t \in Tasks : pc[t] = "stopping_event"}
           V == InCall({"stopping_event"})
           f == [t \in S |-> call[t].vm]
<1>1. \A t \in S : call[t].vm \in VmIds
  BY DEF IInv, CallInv, Stopping
<1>2. \A t, u \in S : call[t].vm = call[u].vm => t = u
  BY DEF IInv, OwnInv, Stopping
<1>3. f \in Injection(S, VmIds)
  BY <1>1, <1>2 DEF Injection, IsInjective
<1>4. IsFiniteSet(S) /\ Cardinality(S) \in Nat
  BY <1>3, PoolAssumption, FS_Injection, FS_CardinalityType
<1>5. f \in Surjection(S, V)
  BY DEF Surjection, InCall
<1>6. IsFiniteSet(V) /\ Cardinality(V) <= Cardinality(S)
  BY <1>4, <1>5, FS_Surjection
<1> QED
  BY <1>4, <1>6

\* The VMs that are starting or ready by their events hold a place or are
\* about to be reported as stopping.
LEMMA ObservedVms ==
  ASSUME IInv
  PROVE  {v \in VmIds : log[v] # <<>> /\ Last(log[v]) \in {"Allocating", "Ready"}}
             \subseteq Lifecycle!Occupied \cup InCall({"stopping_event"})
<1>1. ASSUME NEW v \in VmIds, log[v] # <<>>, Last(log[v]) \in {"Allocating", "Ready"}
      PROVE  v \in Lifecycle!Occupied \cup InCall({"stopping_event"})
  <2>1. HistoryOf(v) /\ PhaseFacts(v)
    BY Phase DEF IInv, HistoryInv
  <2>2. log[v] \in {Begun, Up}
    <3>1. /\ Last(Begun) = "Allocating" /\ Last(Failed) = "Crashed" /\ Last(Up) = "Ready"
          /\ Last(Leaving) = "Stopping" /\ Last(Gone) = "Stopped" /\ Unborn = <<>>
      BY DEF Last, Unborn, Begun, Failed, Up, Leaving, Gone
    <3> QED
      BY <1>1, <2>1, <3>1 DEF HistoryOf, Lifecycles
  <2> QED
    BY <2>1, <2>2 DEF HistoryOf, PhaseFacts, Lifecycle!Occupied
<1> QED
  BY <1>1

\* However many callers there are, an observer counts at most max_vms VMs
\* starting or ready, not counting those whose Stopping is on its way.
THEOREM WithinLimit == Spec => []ObservedWithinLimit
<1>1. ASSUME IInv, PlacesInv PROVE ObservedWithinLimit
  <2> DEFINE O == {v \in VmIds : log[v] # <<>> /\ Last(log[v]) \in {"Allocating", "Ready"}}
             S == {t \in Tasks : pc[t] = "stopping_event"}
             V == InCall({"stopping_event"})
             Occ == Lifecycle!Occupied
  <2>1. /\ IsFiniteSet(V) /\ Cardinality(V) \in Nat
        /\ Cardinality(S) \in Nat /\ Cardinality(V) <= Cardinality(S)
    BY <1>1, StoppingTasks, FS_CardinalityType
  <2>2. IsFiniteSet(Occ) /\ Cardinality(Occ) \in Nat /\ Cardinality(Occ) <= MaxVms
    BY <1>1, PoolAssumption, FS_Subset, FS_CardinalityType DEF Lifecycle!Occupied, PlacesInv
  <2>3. /\ IsFiniteSet(Occ \cup V)
        /\ Cardinality(Occ \cup V) = Cardinality(Occ) + Cardinality(V) - Cardinality(Occ \cap V)
        /\ Cardinality(Occ \cap V) \in Nat
    BY <2>1, <2>2, FS_Union, FS_Intersection, FS_CardinalityType
  <2>4. O \subseteq Occ \cup V
    BY <1>1, ObservedVms
  <2>5. Cardinality(O) \in Nat /\ Cardinality(O) <= Cardinality(Occ \cup V)
    BY <2>3, <2>4, FS_Subset, FS_CardinalityType
  <2> HIDE DEF O, S, V, Occ
  <2>6. Cardinality(O) <= MaxVms + Cardinality(S)
    BY <2>1, <2>2, <2>3, <2>5, PoolAssumption
  <2> QED
    BY <2>6 DEF ObservedWithinLimit, O, S
<1>2. Spec => []PlacesInv
  BY PlacesInit, PlacesNext, Invariance, PTL DEF Spec
<1> QED
  BY <1>1, <1>2, Invariance, PTL

-----------------------------------------------------------------------------
(* Log buffers. *)

\* A VM has a log buffer from its first event to the end of its deallocation.
BufferOf(v) == v \in buffers <=> log[v] # Unborn /\ (log[v] = Gone => v \in InCall({"cleanup"}))

BufferInv == \A v \in VmIds : BufferOf(v)

LEMMA BufferStep ==
  ASSUME IInv, BufferInv, NEW t \in Tasks, Step(t)
  PROVE  BufferInv'
<1>0. /\ TypeOK /\ TypeInv /\ StageOf(t)
      /\ pc \in [Tasks -> Labels] /\ call \in [Tasks -> Calls]
      /\ pc[t] \in Holding \cup Stopping => call[t].vm \in VmIds
  BY DEF IInv, TypeInv, TypeOK, CallInv, StageInv
<1>1. Others(t)
  BY <1>0
  DEF Step, Request, Status, AllocateStep, AllocateFull, AllocateBegin, StartOk, AppendReady,
      StartFails, AppendCrashed, EvictStep, CheckRoom, ChooseVictim, NoVictim, DeallocateStep,
      DeallocateMissing, DeallocateFailed, RemoveEntry, AppendStopping, StopVm, AppendStopped,
      Cleanup, Deallocated, Resume, HealthStep, Scan, SweepNext, SweepDone, SendStep, SendNoVm,
      SendBegin, SendOk, SendClosed, Goto, Return, Others, tasks
\* A history that does not reach its end, with nobody in or out of cleanup.
<1>2. ASSUME NEW v \in VmIds, NEW s, Emit(v, s), log[v] # Gone, log'[v] \notin {Unborn, Gone},
             v \in buffers', buffers' \ {v} = buffers \ {v},
             pc[t] # "cleanup", pc'[t] # "cleanup"
      PROVE  BufferInv'
  <2>1. \A w \in VmIds \ {v} : log'[w] = log[w] /\ (w \in buffers' <=> w \in buffers)
    BY <1>0, <1>2, Emission
  <2>2. \A w : w \in InCall({"cleanup"})' <=> w \in InCall({"cleanup"})
    BY <1>1, <1>2 DEF InCall, Others
  <2> QED
    BY <1>2, <2>1, <2>2 DEF BufferInv, BufferOf
<1>3. CASE \E v \in VmIds : AllocateBegin(t, v)
  <2>1. PICK v \in VmIds : AllocateBegin(t, v)
    BY <1>3
  <2>2. /\ log[v] = Unborn /\ Emit(v, "Allocating") /\ buffers' = buffers \cup {v}
        /\ pc[t] # "cleanup" /\ pc'[t] # "cleanup"
    BY <1>0, <2>1 DEF AllocateBegin, FreshIds, Unborn, Goto
  <2>3. log'[v] = Begun
    BY <1>0, <2>2, Emission, Histories
  <2> QED
    BY <1>2, <2>2, <2>3, Histories
<1> DEFINE v == call[t].vm
<1>4. CASE AppendReady(t) \/ AppendCrashed(t) \/ AppendStopping(t)
  <2>1. /\ pc[t] \in {"ready_event", "crash_event", "stopping_event"} /\ pc'[t] # "cleanup"
        /\ v \in VmIds /\ UNCHANGED buffers
    BY <1>0, <1>4
    DEF AppendReady, AppendCrashed, AppendStopping, Goto, Return, Holding, Stopping
  <2>2. PICK s : /\ Emit(v, s)
                 /\ \/ log[v] = Begun /\ s \in {"Ready", "Crashed"}
                    \/ log[v] = Up /\ s = "Stopping"
    BY <1>0, <1>4 DEF AppendReady, AppendCrashed, AppendStopping, StageOf, At
  <2>3. log'[v] \in {Up, Failed, Leaving}
    <3>1. log'[v] = Append(log[v], s)
      BY <1>0, <2>1, <2>2, Emission
    <3> QED
      BY <2>2, <3>1, Histories
  <2>4. v \in buffers
    BY <2>1, <2>2, Histories DEF BufferInv, BufferOf
  <2> HIDE DEF v
  <2> QED
    BY <1>2, <2>1, <2>2, <2>3, <2>4, Histories
<1>5. CASE AppendStopped(t)
  <2>1. /\ pc[t] = "stopped_event" /\ pc'[t] = "cleanup" /\ call' = call
        /\ v \in VmIds /\ UNCHANGED buffers /\ Emit(v, "Stopped") /\ log[v] = Leaving
    BY <1>0, <1>5 DEF AppendStopped, Goto, Stopping, StageOf, At
  <2>2. log'[v] = Gone /\ \A w \in VmIds \ {v} : log'[w] = log[w]
    BY <1>0, <2>1, Emission, Histories
  <2>3. v \in buffers /\ v \in InCall({"cleanup"})'
    BY <2>1, Histories DEF BufferInv, BufferOf, InCall
  <2>4. \A w \in VmIds \ {v} : w \in InCall({"cleanup"})' <=> w \in InCall({"cleanup"})
    BY <1>1, <2>1 DEF InCall, Others
  <2> HIDE DEF v
  <2> QED
    BY <2>1, <2>2, <2>3, <2>4, Histories DEF BufferInv, BufferOf
<1>6. CASE Cleanup(t)
  <2>1. /\ pc[t] = "cleanup" /\ UNCHANGED log /\ buffers' = buffers \ {v}
        /\ v \in VmIds /\ log[v] = Gone
    BY <1>0, <1>6 DEF Cleanup, CleanupVm, Stopping, StageOf, At
  <2>2. pc'[t] # "cleanup"
    BY <1>0, <1>6 DEF Cleanup, Deallocated, Goto, Return, Resume
  <2>3. v \notin InCall({"cleanup"})'
    BY <1>1, <2>1, <2>2 DEF IInv, OwnInv, InCall, Others, Stopping
  <2>4. \A w \in VmIds \ {v} : w \in InCall({"cleanup"})' <=> w \in InCall({"cleanup"})
    BY <1>1, <2>1, <2>2 DEF InCall, Others
  <2> HIDE DEF v
  <2> QED
    BY <2>1, <2>3, <2>4 DEF BufferInv, BufferOf
<1>7. CASE /\ ~\E w \in VmIds : AllocateBegin(t, w)
           /\ ~AppendReady(t) /\ ~AppendCrashed(t) /\ ~AppendStopping(t)
           /\ ~AppendStopped(t) /\ ~Cleanup(t)
  <2>1. UNCHANGED <<buffers, log>> /\ pc[t] # "cleanup" /\ pc'[t] # "cleanup"
    BY <1>0, <1>7, Step(t)
    DEF Step, Request, Status, AllocateStep, AllocateFull, StartOk, StartFails, EvictStep,
        CheckRoom, ChooseVictim, NoVictim, DeallocateStep, DeallocateMissing, DeallocateFailed,
        Resume, RemoveEntry, StopVm, HealthStep, Scan, SweepNext, SweepDone, SendStep, SendNoVm,
        SendBegin, SendOk, SendClosed, Goto, Return, tasks, events, Waits, ReadWaits, WriteWaits
  <2>2. \A w : w \in InCall({"cleanup"})' <=> w \in InCall({"cleanup"})
    BY <1>1, <2>1 DEF InCall, Others
  <2> QED
    BY <2>1, <2>2 DEF BufferInv, BufferOf
<1> QED
  BY <1>3, <1>4, <1>5, <1>6, <1>7

LEMMA BufferNext == IInv /\ BufferInv /\ [Next]_vars => BufferInv'
<1> SUFFICES ASSUME IInv, BufferInv, [Next]_vars PROVE BufferInv'
  OBVIOUS
<1>1. CASE \E t \in Tasks : Step(t)
  BY <1>1, BufferStep
<1>2. CASE (\E t \in Callers : Call(t)) \/ CallHealthCheck
  <2>1. PICK u \in Tasks : \E op, p, v, l : Begin(u, op, p, v, l) /\ l # "cleanup"
    BY <1>2
    DEF Call, CallAllocate, CallEvict, CallDeallocate, CallSend, CallStatus, CallHealthCheck, Tasks
  <2>2. PICK op, p, v, l : Begin(u, op, p, v, l) /\ l # "cleanup"
    BY <2>1
  <2>3. InCall({"cleanup"})' = InCall({"cleanup"})
    BY <2>2 DEF IInv, TypeOK, Begin, Goto, InCall
  <2> QED
    BY <2>2, <2>3 DEF Begin, events, BufferInv, BufferOf
<1>3. CASE Environment \/ UNCHANGED vars
  BY <1>3 DEF Environment, VmDies, Drain, Tick, vars, events, tasks, BufferInv, BufferOf, InCall
<1> QED
  BY <1>1, <1>2, <1>3 DEF Next

\* Whatever callers and health checks do at once, a VM's log buffer lives from
\* its first event until the deallocation that removed it cleans it up.
THEOREM BuffersLive == Spec => []BufferLifetime
<1>1. Init => BufferInv
  BY DEF Init, BufferInv, BufferOf, Unborn
<1>2. ASSUME IInv, BufferInv PROVE BufferLifetime
  <2>1. /\ Last(Begun) = "Allocating" /\ Last(Failed) = "Crashed" /\ Last(Up) = "Ready"
        /\ Last(Leaving) = "Stopping" /\ Last(Gone) = "Stopped" /\ Unborn = <<>>
    BY DEF Last, Unborn, Begun, Failed, Up, Leaving, Gone
  <2>2. \A v \in VmIds : log[v] # <<>> => (Last(log[v]) = "Stopped" <=> log[v] = Gone)
    BY <1>2, <2>1 DEF IInv, HistoryInv, HistoryOf, Lifecycles
  <2> QED
    BY <1>2, <2>1, <2>2 DEF BufferInv, BufferOf, BufferLifetime, Known, IInv, TypeOK
<1>3. Spec => []BufferInv
  BY <1>1, BufferNext, Invariance, PTL DEF Spec
<1> QED
  BY <1>2, <1>3, Invariance, PTL

-----------------------------------------------------------------------------
(* The answers of deallocate(). *)

\* How a call of deallocate() ends.
LEMMA DeallocateEnds ==
  ASSUME IInv, [Next]_vars, NEW t \in Tasks,
         call[t].op = "deallocate", call'[t].op = "none"
  PROVE  (DeallocateMissing(t) /\ result'[t] = "VmNotFound") \/ Cleanup(t)
<1>0. /\ TypeOK /\ CallInv
      /\ pc \in [Tasks -> Labels] /\ call \in [Tasks -> Calls] /\ result \in [Tasks -> Results]
      /\ pc[t] \in {"alloc", "room", "victim"} \cup Holding => call[t].op \in {"allocate", "evict"}
      /\ pc[t] \in {"scan", "sweep"} => call[t].op = "health"
      /\ pc[t] \in {"lookup", "send"} => call[t].op = "send"
      /\ pc[t] = "status" => call[t].op = "status"
  BY DEF IInv, TypeOK, CallInv
<1>1. ASSUME NEW u \in Tasks, Step(u), u # t PROVE FALSE
  BY <1>0, <1>1
  DEF Step, Request, Status, AllocateStep, AllocateFull, AllocateBegin, StartOk, AppendReady,
      StartFails, AppendCrashed, EvictStep, CheckRoom, ChooseVictim, NoVictim, DeallocateStep,
      DeallocateMissing, DeallocateFailed, RemoveEntry, AppendStopping, StopVm, AppendStopped,
      Cleanup, Deallocated, Resume, HealthStep, Scan, SweepNext, SweepDone, SendStep, SendNoVm,
      SendBegin, SendOk, SendClosed, Return, tasks
<1>2. Step(t)
  <2>1. ASSUME NEW u \in Tasks, NEW op, NEW p, NEW v, NEW l, Begin(u, op, p, v, l), op # "none"
        PROVE  FALSE
    BY <1>0, <2>1 DEF Begin
  <2>2. call' # call
    OBVIOUS
  <2> QED
    BY <1>1, <2>1, <2>2
    DEF Next, Call, CallAllocate, CallEvict, CallDeallocate, CallSend, CallStatus,
        CallHealthCheck, Environment, VmDies, Drain, Tick, vars, tasks, Tasks
<1>3. CASE DeallocateMissing(t)
  BY <1>0, <1>3 DEF DeallocateMissing, DeallocateFailed, Return
<1>4. CASE Cleanup(t)
  BY <1>4
<1>5. CASE ~DeallocateMissing(t) /\ ~Cleanup(t)
  <2>1. pc[t] \in {"remove"} \cup Stopping => UNCHANGED call
    BY <1>2, <1>5
    DEF Step, Request, Status, AllocateStep, AllocateFull, AllocateBegin, StartOk, AppendReady,
        StartFails, AppendCrashed, EvictStep, CheckRoom, ChooseVictim, NoVictim, DeallocateStep,
        RemoveEntry, AppendStopping, StopVm, AppendStopped, HealthStep, Scan, SweepNext,
        SweepDone, SendStep, SendNoVm, SendBegin, SendOk, SendClosed, tasks, Stopping
  <2>2. pc[t] \in {"remove"} \cup Stopping \/ UNCHANGED call
    BY <1>0, <1>2
    DEF Step, Request, Status, AllocateStep, AllocateFull, AllocateBegin, StartOk, AppendReady,
        StartFails, AppendCrashed, EvictStep, CheckRoom, ChooseVictim, NoVictim, DeallocateStep,
        DeallocateMissing, RemoveEntry, AppendStopping, StopVm, AppendStopped, Cleanup,
        HealthStep, Scan, SweepNext, SweepDone, SendStep, SendNoVm, SendBegin, SendOk,
        SendClosed, tasks, Stopping, Holding
  <2> QED
    BY <2>1, <2>2
<1> QED
  BY <1>3, <1>4, <1>5

\* Only an allocation makes a log buffer, and only of a VM without a history.
LEMMA BuffersEnd ==
  ASSUME IInv, [Next]_vars
  PROVE  (Known \ buffers) \cap buffers' = {}
<1>1. CASE \E t \in Tasks : Step(t)
  <2>1. PICK t \in Tasks : Step(t)
    BY <1>1
  <2>2. CASE \E v \in VmIds : AllocateBegin(t, v)
    <3>1. PICK v \in VmIds : AllocateBegin(t, v)
      BY <2>2
    <3>2. log[v] = <<>> /\ buffers' = buffers \cup {v}
      BY <3>1 DEF AllocateBegin, FreshIds
    <3> QED
      BY <3>2 DEF Known
  <2>3. CASE Cleanup(t)
    BY <2>3 DEF Cleanup, CleanupVm
  <2>4. CASE ~(\E v \in VmIds : AllocateBegin(t, v)) /\ ~Cleanup(t)
    <3>1. UNCHANGED buffers
      BY <2>1, <2>4
      DEF Step, Request, Status, AllocateStep, AllocateFull, StartOk, AppendReady, StartFails,
          AppendCrashed, EvictStep, CheckRoom, ChooseVictim, NoVictim, DeallocateStep,
          DeallocateMissing, RemoveEntry, AppendStopping, StopVm, AppendStopped, HealthStep,
          Scan, SweepNext, SweepDone, SendStep, SendNoVm, SendBegin, SendOk, SendClosed,
          tasks, events
    <3> QED
      BY <3>1
  <2> QED
    BY <2>2, <2>3, <2>4
<1>2. CASE (\E t \in Callers : Call(t)) \/ CallHealthCheck
  BY <1>2 DEF Call, CallAllocate, CallEvict, CallDeallocate, CallSend, CallStatus,
      CallHealthCheck, Begin, events
<1>3. CASE Environment \/ UNCHANGED vars
  BY <1>3 DEF Environment, VmDies, Drain, Tick, vars, events
<1> QED
  BY <1>1, <1>2, <1>3 DEF Next

\* deallocate() answers VmNotFound only of a VM that has left the map, and Ok
\* only with the end of its log buffer, after its last event: to the caller that
\* removed the VM and to no other, however many race for it.
THEOREM DeallocateAnswers == Spec => DeallocateAnswer
<1> DEFINE Answer(t) ==
      /\ call[t].vm \notin DOMAIN vms'
      /\ result'[t] = "Ok" =>
            /\ Last(log'[call[t].vm]) = "Stopped"
            /\ call[t].vm \in buffers \ buffers'
<1> DEFINE Answers ==
      /\ \A t \in Tasks : call[t].op = "deallocate" /\ call'[t].op = "none" => Answer(t)
      /\ (Known \ buffers) \cap buffers' = {}
<1>1. ASSUME IInv, BufferLifetime, [Next]_vars, NEW t \in Tasks,
             call[t].op = "deallocate", call'[t].op = "none"
      PROVE  Answer(t)
  <2>1. CASE DeallocateMissing(t) /\ result'[t] = "VmNotFound"
    BY <2>1 DEF DeallocateMissing
  <2>2. CASE Cleanup(t)
    <3> DEFINE v == call[t].vm
    <3>1. /\ pc[t] = "cleanup" /\ UNCHANGED <<vms, log>>
          /\ buffers' = buffers \ {v}
      BY <2>2 DEF Cleanup, CleanupVm
    <3>2. v \in VmIds /\ log[v] = Gone
      BY <1>1, <3>1 DEF IInv, CallInv, Stopping, StageInv, StageOf, At
    <3>3. v \notin DOMAIN vms
      <4>1. v \notin InCall({"ready_event"})
        BY <1>1, <3>2, Histories DEF IInv, InCall, StageInv, StageOf, At
      <4> QED
        BY <1>1, <3>2, <4>1, Histories DEF IInv, HistoryInv, HistoryOf
    <3>4. Last(Gone) = "Stopped" /\ Gone # <<>>
      BY DEF Last, Gone
    <3>5. v \in buffers
      BY <1>1, <3>1, <3>2, <3>4 DEF BufferLifetime, Known, InCall
    <3> QED
      BY <3>1, <3>2, <3>3, <3>4, <3>5
  <2> QED
    BY <1>1, <2>1, <2>2, DeallocateEnds
<1>2. IInv /\ BufferLifetime /\ [Next]_vars => [Answers]_vars
  BY <1>1, BuffersEnd
<1>3. Spec => [][Answers]_vars
  BY <1>2, Invariance, BuffersLive, PTL DEF Spec
<1> QED
  BY <1>3 DEF DeallocateAnswer
=============================================================================
