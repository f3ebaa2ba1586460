----------------------------- MODULE PoolProofs -----------------------------
(***************************************************************************)
(* Proofs about the pool of module Pool, for any number of callers, any    *)
(* set of ids, any limit, timeout and channel capacity.                    *)
(*                                                                         *)
(* The inductive invariant IInv (module PoolProperties) is proved in four  *)
(* layers, each using the ones before it: types with the shape of calls,   *)
(* ownership of the lock, ownership of a VM, histories.                    *)
(***************************************************************************)
EXTENDS PoolProperties, TLAPS, SequenceTheorems

-----------------------------------------------------------------------------
(* Types and the shape of calls *)

TypeInv == TypeOK /\ CallInv

LEMMA TypeInit == Init => TypeInv
<1> SUFFICES ASSUME Init PROVE TypeInv
  OBVIOUS
<1>1. NoCall \in Calls
  BY DEF NoCall, Calls, Ops
<1>2. vms \in [DOMAIN vms -> Entry] /\ DOMAIN vms = {}
  BY DEF Init
<1>3. TypeOK
  BY <1>1, <1>2, PoolAssumption DEF Init, TypeOK, Tasks, Labels, Results, NoCall
<1>4. CallInv
  BY DEF Init, CallInv, NoCall, Holding, Stopping
<1> QED
  BY <1>3, <1>4 DEF TypeInv

\* A command enters or leaves a channel: entries stay entries, and keep their
\* priority and age.
LEMMA Channel ==
  ASSUME TypeOK, NEW v \in DOMAIN vms, NEW n \in 0 .. CmdCapacity, SetQueued(v, n)
  PROVE  /\ vms' \in [DOMAIN vms -> Entry]
         /\ \A w \in DOMAIN vms : vms'[w].priority = vms[w].priority /\ vms'[w].age = vms[w].age
<1>1. vms' = [vms EXCEPT ![v] = [vms[v] EXCEPT !.queued = n]]
  BY DEF SetQueued
<1>2. [vms[v] EXCEPT !.queued = n] \in Entry
  BY DEF TypeOK, Entry
<1>3. \A w \in DOMAIN vms : vms'[w].priority = vms[w].priority /\ vms'[w].age = vms[w].age
  BY <1>1 DEF TypeOK, Entry
<1> QED
  BY <1>1, <1>2, <1>3 DEF TypeOK

\* An entry grows older.
LEMMA Ageing ==
  ASSUME NEW e \in Entry
  PROVE  Aged(e) \in Entry /\ Aged(e).priority = e.priority /\ e.age <= Aged(e).age
<1> DEFINE a == IF e.age < MaxAge THEN e.age + 1 ELSE MaxAge
<1>1. a \in 0 .. MaxAge /\ e.age <= a
  BY PoolAssumption DEF Entry
<1>2. Aged(e) = [e EXCEPT !.age = a]
  BY DEF Aged
<1> HIDE DEF a
<1> QED
  BY <1>1, <1>2 DEF Entry

\* A task's argument is set.
ArgumentSet(t, v) ==
    /\ call' \in [Tasks -> Calls]
    /\ call'[t].vm = v
    /\ call'[t].op = call[t].op /\ call'[t].priority = call[t].priority
    /\ \A u \in Tasks \ {t} : call'[u] = call[u]

LEMMA Argument ==
  ASSUME TypeOK, NEW t \in Tasks, NEW v \in VmIds \cup {NoVm}, call' = [call EXCEPT ![t].vm = v]
  PROVE  ArgumentSet(t, v)
<1> DEFINE c == [call[t] EXCEPT !.vm = v]
<1>1. call' = [call EXCEPT ![t] = c]
  OBVIOUS
<1>2. c \in Calls /\ c.vm = v /\ c.op = call[t].op /\ c.priority = call[t].priority
  BY DEF TypeOK, Calls
<1> HIDE DEF c
<1> QED
  BY <1>1, <1>2 DEF TypeOK, ArgumentSet

\* The victim of an eviction has been deallocated.
EvictionNoted(t) ==
    /\ call' \in [Tasks -> Calls]
    /\ call'[t].op = call[t].op /\ call'[t].priority = call[t].priority
    /\ \A u \in Tasks \ {t} : call'[u] = call[u]

LEMMA Eviction ==
  ASSUME TypeOK, NEW t \in Tasks,
         call' = [call EXCEPT ![t] = [@ EXCEPT !.vm = NoVm, !.evicted = call[t].vm]]
  PROVE  EvictionNoted(t)
<1> DEFINE c == [call[t] EXCEPT !.vm = NoVm, !.evicted = call[t].vm]
<1>1. call' = [call EXCEPT ![t] = c]
  OBVIOUS
<1>2. c \in Calls /\ c.op = call[t].op /\ c.priority = call[t].priority
  BY DEF TypeOK, Calls
<1> HIDE DEF c
<1> QED
  BY <1>1, <1>2 DEF TypeOK, EvictionNoted

\* Every step of a task that is in a call keeps them.
LEMMA TypeStep ==
  ASSUME TypeInv, NEW t \in Tasks, Step(t)
  PROVE  TypeInv'
<1> USE PoolAssumption DEF TypeInv, TypeOK, CallInv, Tasks, Labels, Waits, ReadWaits,
      WriteWaits, Holding, Stopping, Calls, Ops, Results, NoCall, events, lock, tasks,
      Goto, Return
<1>1. CASE Request(t)
  BY <1>1 DEF Request
<1>2. CASE Status(t)
  BY <1>2 DEF Status, MayRead, AtHead, PassLock
<1>3. CASE AllocateFull(t)
  BY <1>3 DEF AllocateFull, MayWrite, MayRead, AtHead, PassLock
<1>4. CASE \E v \in VmIds : AllocateBegin(t, v)
  <2>1. PICK v \in VmIds : AllocateBegin(t, v)
    BY <1>4
  <2>2. call' = [call EXCEPT ![t].vm = v]
    BY <2>1 DEF AllocateBegin
  <2>3. ArgumentSet(t, v)
    BY <2>2, Argument
  <2> QED
    BY <2>1, <2>3 DEF AllocateBegin, TakeWrite, Emit, States, MayWrite, MayRead, AtHead, ArgumentSet
<1>5. CASE StartOk(t)
  BY <1>5 DEF StartOk, Insert, NewEntry, Entry
<1>6. CASE AppendReady(t)
  BY <1>6 DEF AppendReady, Emit, States, DropWrite
<1>7. CASE StartFails(t)
  BY <1>7 DEF StartFails
<1>8. CASE AppendCrashed(t)
  BY <1>8 DEF AppendCrashed, Emit, States, DropWrite
<1>9. CASE CheckRoom(t)
  BY <1>9 DEF CheckRoom, MayRead, AtHead, PassLock
<1>10. CASE \E v \in VmIds : ChooseVictim(t, v)
  <2>1. PICK v \in VmIds : ChooseVictim(t, v)
    BY <1>10
  <2>2. call' = [call EXCEPT ![t].vm = v]
    BY <2>1 DEF ChooseVictim
  <2>3. ArgumentSet(t, v)
    BY <2>2, Argument
  <2> QED
    BY <2>1, <2>3 DEF ChooseVictim, MayRead, AtHead, PassLock, ArgumentSet
<1>11. CASE NoVictim(t)
  BY <1>11 DEF NoVictim, MayRead, AtHead, PassLock
<1>12. CASE DeallocateMissing(t)
  <2>1. CASE call[t].op = "health"
    <3>1. Resume(t)
      BY <1>12, <2>1 DEF DeallocateMissing, DeallocateFailed
    <3>2. ArgumentSet(t, NoVm)
      BY <3>1, Argument DEF Resume
    <3> QED
      BY <1>12, <2>1, <3>1, <3>2 DEF DeallocateMissing, Resume, ArgumentSet, MayWrite, MayRead,
          AtHead, PassLock
  <2>2. CASE call[t].op # "health"
    <3>1. Return(t, "VmNotFound")
      BY ONLY <1>12, <2>2 DEF DeallocateMissing, DeallocateFailed
    <3> QED
      BY <1>12, <3>1 DEF DeallocateMissing, MayWrite, MayRead, AtHead, PassLock
  <2> QED
    BY <2>1, <2>2
<1>13. CASE RemoveEntry(t)
  BY <1>13 DEF RemoveEntry, Remove, MayWrite, MayRead, AtHead, PassLock
<1>14. CASE AppendStopping(t)
  BY <1>14 DEF AppendStopping, Emit, States
<1>15. CASE StopVm(t)
  BY <1>15 DEF StopVm
<1>16. CASE AppendStopped(t)
  BY <1>16 DEF AppendStopped, Emit, States
<1>17. CASE Cleanup(t)
  <2>1. CASE call[t].op = "evict"
    <3>1. /\ Goto(t, "alloc") /\ UNCHANGED result
          /\ call' = [call EXCEPT ![t] = [@ EXCEPT !.vm = NoVm, !.evicted = call[t].vm]]
      BY <1>17, <2>1 DEF Cleanup, Deallocated
    <3>2. EvictionNoted(t)
      BY <3>1, Eviction
    <3> QED
      BY <1>17, <2>1, <3>1, <3>2 DEF Cleanup, CleanupVm, EvictionNoted
  <2>2. CASE call[t].op = "health"
    <3>1. Resume(t)
      BY <1>17, <2>2 DEF Cleanup, Deallocated
    <3>2. ArgumentSet(t, NoVm)
      BY <3>1, Argument DEF Resume
    <3> QED
      BY <1>17, <2>2, <3>1, <3>2 DEF Cleanup, CleanupVm, Resume, ArgumentSet
  <2>3. CASE call[t].op \notin {"evict", "health"}
    <3>1. Return(t, "Ok")
      BY ONLY <1>17, <2>3 DEF Cleanup, Deallocated
    <3> QED
      BY <1>17, <3>1 DEF Cleanup, CleanupVm
  <2> QED
    BY <2>1, <2>2, <2>3
<1>18. CASE Scan(t)
  BY <1>18 DEF Scan, TimedOut, MayRead, AtHead, PassLock
<1>19. CASE \E v \in VmIds : SweepNext(t, v)
  <2>1. PICK v \in VmIds : SweepNext(t, v)
    BY <1>19
  <2>2. call' = [call EXCEPT ![t].vm = v]
    BY <2>1 DEF SweepNext
  <2>3. ArgumentSet(t, v)
    BY <2>2, Argument
  <2> QED
    BY <2>1, <2>3 DEF SweepNext, ArgumentSet
<1>20. CASE SweepDone(t)
  BY <1>20 DEF SweepDone
<1>21. CASE SendNoVm(t)
  BY <1>21 DEF SendNoVm, MayRead, AtHead, PassLock
<1>22. CASE SendBegin(t)
  BY <1>22 DEF SendBegin, TakeRead, MayRead, AtHead
<1>23. CASE SendOk(t)
  <2> DEFINE v == call[t].vm
  <2>1. /\ pc[t] = "send" /\ HasRoom(v) /\ SetQueued(v, vms[v].queued + 1)
        /\ readers' \subseteq readers /\ UNCHANGED <<writer, queue, live, events, timedOut>>
        /\ Return(t, "Ok")
    BY <1>23 DEF SendOk, DropRead
  <2>2. vms' \in [DOMAIN vms -> Entry] /\ DOMAIN vms' = DOMAIN vms
    <3>1. CASE v \notin DOMAIN vms
      BY <2>1, <3>1 DEF SetQueued
    <3>2. CASE v \in DOMAIN vms
      <4>1. vms[v].queued + 1 \in 0 .. CmdCapacity
        BY <2>1, <3>2 DEF HasRoom, Entry
      <4> QED
        BY <2>1, <3>2, <4>1, Channel
    <3> QED
      BY <3>1, <3>2
  <2> QED
    BY <2>1, <2>2
<1>24. CASE SendClosed(t)
  BY <1>24 DEF SendClosed, DropRead
<1> QED
  BY ONLY Step(t), <1>1, <1>2, <1>3, <1>4, <1>5, <1>6, <1>7, <1>8, <1>9, <1>10, <1>11, <1>12, <1>13, <1>14, <1>15, <1>16, <1>17, <1>18, <1>19, <1>20, <1>21, <1>22, <1>23, <1>24 DEF Step, AllocateStep, EvictStep,
    DeallocateStep, HealthStep, SendStep

\* So does the start of a call.
LEMMA TypeCall ==
  ASSUME TypeInv, NEW t \in Callers, Call(t)
  PROVE  TypeInv'
<1> USE DEF TypeInv, TypeOK, CallInv, Tasks, Labels, Waits, ReadWaits, WriteWaits,
      Holding, Stopping, Calls, Ops, Results, events, lock, Goto, Begin
<1>1. CASE CallAllocate(t)
  BY <1>1 DEF CallAllocate
<1>2. CASE CallEvict(t)
  BY <1>2 DEF CallEvict
<1>3. CASE CallDeallocate(t)
  BY <1>3 DEF CallDeallocate, Known
<1>4. CASE CallSend(t)
  BY <1>4 DEF CallSend, Known
<1>5. CASE CallStatus(t)
  BY <1>5 DEF CallStatus
<1> QED
  BY ONLY Call(t), <1>1, <1>2, <1>3, <1>4, <1>5 DEF Call

LEMMA TypeHealth == TypeInv /\ CallHealthCheck => TypeInv'
  BY DEF CallHealthCheck, TypeInv, TypeOK, CallInv, Tasks, Labels, Waits, ReadWaits, WriteWaits,
      Holding, Stopping, Calls, Ops, Results, events, lock, Goto, Begin

\* So do the environment's steps, which change no task.
LEMMA TypeEnvironment == TypeInv /\ Environment => TypeInv'
<1> SUFFICES ASSUME TypeInv, Environment PROVE TypeInv'
  OBVIOUS
<1>1. vms' \in [DOMAIN vms -> Entry] /\ DOMAIN vms' = DOMAIN vms /\ live' \subseteq live
  <2>1. CASE \E v \in VmIds : VmDies(v)
    BY <2>1 DEF VmDies, TypeInv, TypeOK
  <2>2. ASSUME NEW v \in VmIds, Drain(v)
        PROVE  vms' \in [DOMAIN vms -> Entry] /\ DOMAIN vms' = DOMAIN vms /\ live' \subseteq live
    <3>1. vms[v].queued - 1 \in 0 .. CmdCapacity
      BY <2>2, PoolAssumption DEF Drain, Entry, TypeInv, TypeOK
    <3>2. vms' \in [DOMAIN vms -> Entry]
      BY <2>2, <3>1, Channel DEF Drain, TypeInv
    <3> QED
      BY <2>2, <3>2 DEF Drain
  <2>3. CASE Tick
    <3>1. \A v \in DOMAIN vms : Aged(vms[v]) \in Entry
      BY Ageing DEF TypeInv, TypeOK
    <3> QED
      BY <2>3, <3>1 DEF Tick
  <2> QED
    BY <2>1, <2>2, <2>3 DEF Environment
<1>2. UNCHANGED <<events, lock, tasks, timedOut>>
  BY DEF Environment, VmDies, Drain, Tick
<1> QED
  BY <1>1, <1>2 DEF TypeInv, TypeOK, CallInv, events, lock, tasks

LEMMA TypeNext == TypeInv /\ [Next]_vars => TypeInv'
<1>1. TypeInv /\ UNCHANGED vars => TypeInv'
  BY DEF TypeInv, TypeOK, CallInv, vars, events, lock, tasks
<1> QED
  BY <1>1, TypeStep, TypeCall, TypeHealth, TypeEnvironment DEF Next

\* The pool's variables keep their types, and no task is at a place its call
\* cannot be at.
THEOREM TypeCorrect == Spec => []TypeOK
<1>1. Spec => []TypeInv
  BY TypeInit, TypeNext, PTL DEF Spec
<1> QED
  BY <1>1, PTL DEF TypeInv

-----------------------------------------------------------------------------
(* The lock *)

LEMMA LockStep ==
  ASSUME TypeInv, LockInv, NEW t \in Tasks, Step(t)
  PROVE  LockInv'
<1>0. pc \in [Tasks -> Labels] /\ NoTask \notin Tasks
  BY PoolAssumption DEF TypeInv, TypeOK
<1> USE <1>0 DEF LockInv, Holding, lock, Goto, Return
<1>1. CASE Request(t)
  BY <1>1 DEF Request, tasks
<1>2. CASE Status(t)
  BY <1>2 DEF Status, PassLock
<1>3. CASE AllocateFull(t)
  BY <1>3 DEF AllocateFull, PassLock
<1>4. CASE \E v \in VmIds : AllocateBegin(t, v)
  BY <1>4 DEF AllocateBegin, TakeWrite, MayWrite, MayRead
<1>5. CASE StartOk(t)
  BY <1>5 DEF StartOk
<1>6. CASE AppendReady(t)
  BY <1>6 DEF AppendReady, DropWrite
<1>7. CASE StartFails(t)
  BY <1>7 DEF StartFails
<1>8. CASE AppendCrashed(t)
  BY <1>8 DEF AppendCrashed, DropWrite
<1>9. CASE CheckRoom(t)
  BY <1>9 DEF CheckRoom, PassLock
<1>10. CASE \E v \in VmIds : ChooseVictim(t, v)
  BY <1>10 DEF ChooseVictim, PassLock
<1>11. CASE NoVictim(t)
  BY <1>11 DEF NoVictim, PassLock
<1>12. CASE DeallocateMissing(t)
  BY <1>12 DEF DeallocateMissing, DeallocateFailed, Resume, PassLock
<1>13. CASE RemoveEntry(t)
  BY <1>13 DEF RemoveEntry, PassLock
<1>14. CASE AppendStopping(t)
  BY <1>14 DEF AppendStopping
<1>15. CASE StopVm(t)
  BY <1>15 DEF StopVm
<1>16. CASE AppendStopped(t)
  BY <1>16 DEF AppendStopped
<1>17. CASE Cleanup(t)
  BY <1>17 DEF Cleanup, Deallocated, Resume
<1>18. CASE Scan(t)
  BY <1>18 DEF Scan, PassLock
<1>19. CASE \E v \in VmIds : SweepNext(t, v)
  BY <1>19 DEF SweepNext
<1>20. CASE SweepDone(t)
  BY <1>20 DEF SweepDone
<1>21. CASE SendNoVm(t)
  BY <1>21 DEF SendNoVm, PassLock
<1>22. CASE SendBegin(t)
  BY <1>22 DEF SendBegin, TakeRead, MayRead
<1>23. CASE SendOk(t)
  BY <1>23 DEF SendOk, DropRead
<1>24. CASE SendClosed(t)
  BY <1>24 DEF SendClosed, DropRead
<1> QED
  BY ONLY Step(t), <1>1, <1>2, <1>3, <1>4, <1>5, <1>6, <1>7, <1>8, <1>9, <1>10, <1>11, <1>12, <1>13, <1>14, <1>15, <1>16, <1>17, <1>18, <1>19, <1>20, <1>21, <1>22, <1>23, <1>24 DEF Step, AllocateStep, EvictStep,
    DeallocateStep, HealthStep, SendStep

LEMMA LockInit == Init => LockInv
  BY PoolAssumption DEF Init, LockInv, Holding

LEMMA LockNext == TypeInv /\ LockInv /\ [Next]_vars => LockInv'
<1> SUFFICES ASSUME TypeInv, LockInv, [Next]_vars PROVE LockInv'
  OBVIOUS
<1>0. pc \in [Tasks -> Labels]
  BY DEF TypeInv, TypeOK
<1>1. CASE \E t \in Callers : Call(t)
  BY <1>0, <1>1 DEF Call, CallAllocate, CallEvict, CallDeallocate, CallSend, CallStatus, Begin,
      Goto, LockInv, Holding, Tasks
<1>2. CASE CallHealthCheck
  BY <1>0, <1>2 DEF CallHealthCheck, Begin, Goto, LockInv, Holding, Tasks
<1>3. CASE \E t \in Tasks : Step(t)
  BY <1>3, LockStep
<1>4. CASE Environment
  BY <1>4 DEF Environment, VmDies, Drain, Tick, lock, tasks, LockInv
<1>5. CASE UNCHANGED vars
  BY <1>5 DEF vars, lock, tasks, LockInv
<1> QED
  BY <1>1, <1>2, <1>3, <1>4, <1>5 DEF Next

-----------------------------------------------------------------------------
(* Histories, and the tasks that write them *)

StoryInv == OwnInv /\ StageInv /\ HistoryInv

\* The sequence u is s with one more event, e.
Extends(s, e, u) ==
    /\ e \in States
    /\ Len(u) = Len(s) + 1
    /\ \A i \in 1 .. Len(s) : u[i] = s[i]
    /\ u[Len(s) + 1] = e

LEMMA Extension ==
  ASSUME NEW s \in Seq(States), NEW u \in Seq(States), NEW e, Extends(s, e, u)
  PROVE  Append(s, e) = u
<1>1. /\ Append(s, e) \in Seq(States)
      /\ Len(Append(s, e)) = Len(s) + 1
      /\ \A i \in 1 .. Len(s) : Append(s, e)[i] = s[i]
      /\ Append(s, e)[Len(s) + 1] = e
  BY AppendProperties DEF Extends
<1>2. \A i \in 1 .. Len(u) : u[i] = Append(s, e)[i]
  BY <1>1 DEF Extends
<1> QED
  BY <1>1, <1>2, SeqEqual DEF Extends

\* The six histories are different, and each event leads from one to the next.
LEMMA Histories ==
  /\ Append(Unborn, "Allocating") = Begun
  /\ Append(Begun, "Crashed") = Failed
  /\ Append(Begun, "Ready") = Up
  /\ Append(Up, "Stopping") = Leaving
  /\ Append(Leaving, "Stopped") = Gone
  /\ Unborn \notin {Begun, Failed, Up, Leaving, Gone}
  /\ Begun \notin {Failed, Up, Leaving, Gone}
  /\ Failed \notin {Up, Leaving, Gone}
  /\ Up \notin {Leaving, Gone}
  /\ Leaving # Gone
<1> USE DEF Unborn, Begun, Failed, Up, Leaving, Gone
<1>1. States = {"Allocating", "Ready", "Stopping", "Stopped", "Crashed"}
  BY DEF States
<1>2. /\ Unborn \in Seq(States) /\ Begun \in Seq(States) /\ Failed \in Seq(States)
      /\ Up \in Seq(States) /\ Leaving \in Seq(States) /\ Gone \in Seq(States)
  BY <1>1
<1>3. /\ Len(Unborn) = 0 /\ Len(Begun) = 1 /\ Len(Failed) = 2 /\ Len(Up) = 2
      /\ Len(Leaving) = 3 /\ Len(Gone) = 4
  OBVIOUS
<1>4. Failed[2] # Up[2]
  OBVIOUS
<1>5. Append(Unborn, "Allocating") = Begun
  OBVIOUS
<1>6. Extends(Begun, "Crashed", Failed) /\ Extends(Begun, "Ready", Up)
  BY <1>1, <1>3 DEF Extends
<1>7. Extends(Up, "Stopping", Leaving)
  BY <1>1, <1>3 DEF Extends
<1>8. Extends(Leaving, "Stopped", Gone)
  BY <1>1, <1>3 DEF Extends
<1> HIDE DEF Unborn, Begun, Failed, Up, Leaving, Gone
<1>9. Append(Begun, "Crashed") = Failed /\ Append(Begun, "Ready") = Up
  BY <1>2, <1>6, Extension
<1>10. Append(Up, "Stopping") = Leaving /\ Append(Leaving, "Stopped") = Gone
  BY <1>2, <1>7, <1>8, Extension
<1>11. /\ Unborn \notin {Begun, Failed, Up, Leaving, Gone}
       /\ Begun \notin {Failed, Up, Leaving, Gone}
       /\ Failed \notin {Up, Leaving, Gone}
       /\ Up \notin {Leaving, Gone}
       /\ Leaving # Gone
  <2>1. /\ Len(Unborn) < Len(Begun) /\ Len(Begun) < Len(Failed) /\ Len(Begun) < Len(Up)
        /\ Len(Failed) < Len(Leaving) /\ Len(Up) < Len(Leaving) /\ Len(Leaving) < Len(Gone)
    BY <1>3
  <2>2. /\ Len(Unborn) \in Nat /\ Len(Begun) \in Nat /\ Len(Failed) \in Nat
        /\ Len(Up) \in Nat /\ Len(Leaving) \in Nat /\ Len(Gone) \in Nat
    BY <1>2
  <2> QED
    BY <1>4, <2>1, <2>2
<1> QED
  BY <1>5, <1>9, <1>10, <1>11

LEMMA Emission ==
  ASSUME TypeOK, NEW v \in VmIds, NEW s, Emit(v, s)
  PROVE  /\ log'[v] = Append(log[v], s)
         /\ \A w \in VmIds \ {v} : log'[w] = log[w]
  BY DEF TypeOK, Emit

\* A step of t changes no other task.
Others(t) == \A u \in Tasks \ {t} : pc'[u] = pc[u] /\ call'[u] = call[u]

Busy == Holding \cup Stopping \cup {"send"}

\* A step of a task that neither starts nor stops a VM, and that leaves the
\* log and the set of VMs alone, disturbs nobody's story.
LEMMA Quiet ==
  ASSUME StoryInv, NEW t \in Tasks, Others(t), UNCHANGED log, DOMAIN vms' = DOMAIN vms,
         pc[t] \notin Holding \cup Stopping, pc'[t] \notin Holding \cup Stopping,
         pc'[t] = "send" => call'[t].vm \in DOMAIN vms
  PROVE  StoryInv'
<1> USE DEF StoryInv, Others
<1>1. OwnInv'
  BY DEF OwnInv
<1>2. StageInv'
  BY DEF StageInv, StageOf, At, Holding, Stopping
<1>3. \A L \in SUBSET (Holding \cup Stopping) : InCall(L)' = InCall(L)
  BY DEF InCall
<1>4. HistoryInv'
  BY <1>3 DEF HistoryInv, HistoryOf, Holding, Stopping
<1> QED
  BY <1>1, <1>2, <1>4

\* A step of the task that starts or stops v concerns v alone: what remains
\* to be shown is where it leaves the task and the history of v.
LEMMA Owner ==
  ASSUME TypeInv, StoryInv, NEW t \in Tasks, Others(t), NEW v \in VmIds,
         pc[t] \in Holding \cup Stopping, call[t].vm = v,
         pc'[t] \in Holding \cup Stopping => call'[t].vm = v,
         \A w \in VmIds \ {v} : log'[w] = log[w] /\ (w \in DOMAIN vms' <=> w \in DOMAIN vms),
         v \in DOMAIN vms => v \in DOMAIN vms',
         StageOf(t)', HistoryOf(v)'
  PROVE  StoryInv'
<1> USE DEF StoryInv, Others
<1>1. OwnInv'
  BY DEF OwnInv
<1>2. ASSUME NEW u \in Tasks \ {t} PROVE StageOf(u)'
  <2>1. pc'[u] = pc[u] /\ call'[u] = call[u] /\ StageOf(u)
    BY DEF StageInv
  <2>2. CASE pc[u] \in Holding \cup Stopping
    <3>1. call[u].vm \in VmIds \ {v}
      BY <2>2 DEF OwnInv, TypeInv, CallInv
    <3> QED
      BY <2>1, <3>1 DEF StageOf, At
  <2>3. CASE pc[u] = "send"
    <3>1. call[u].vm \in VmIds
      BY <2>3 DEF TypeInv, CallInv
    <3> QED
      BY <2>1, <2>3, <3>1 DEF StageOf, At
  <2>4. CASE pc[u] \notin Holding \cup Stopping \cup {"send"}
    BY <2>1, <2>4 DEF StageOf, At, Holding, Stopping
  <2> QED
    BY <2>2, <2>3, <2>4
<1>3. ASSUME NEW w \in VmIds \ {v} PROVE HistoryOf(w)'
  <2>1. \A L \in SUBSET (Holding \cup Stopping) : w \in InCall(L) => w \in InCall(L)'
    BY DEF InCall
  <2>2. log'[w] = log[w] /\ (w \in DOMAIN vms' <=> w \in DOMAIN vms) /\ HistoryOf(w)
    BY DEF HistoryInv
  <2> QED
    BY <2>1, <2>2 DEF HistoryOf, Holding, Stopping
<1> QED
  BY <1>1, <1>2, <1>3 DEF StageInv, HistoryInv

\* A task takes charge of a VM that no other task starts or stops.
LEMMA Acquire ==
  ASSUME TypeInv, StoryInv, NEW t \in Tasks, Others(t), NEW v \in VmIds,
         pc[t] \notin Holding \cup Stopping, pc'[t] # "send", call'[t].vm = v,
         \A u \in Tasks : pc[u] \in Holding \cup Stopping => call[u].vm # v,
         \A w \in VmIds \ {v} : log'[w] = log[w] /\ (w \in DOMAIN vms' <=> w \in DOMAIN vms),
         \A u \in Tasks : pc[u] = "send" /\ v \in DOMAIN vms => v \in DOMAIN vms',
         StageOf(t)', HistoryOf(v)'
  PROVE  StoryInv'
<1> USE DEF StoryInv, Others
<1>1. OwnInv'
  BY DEF OwnInv
<1>2. ASSUME NEW u \in Tasks \ {t} PROVE StageOf(u)'
  <2>1. pc'[u] = pc[u] /\ call'[u] = call[u] /\ StageOf(u)
    BY DEF StageInv
  <2>2. CASE pc[u] \in Holding \cup Stopping
    <3>1. call[u].vm \in VmIds \ {v}
      BY <2>2 DEF TypeInv, CallInv
    <3> QED
      BY <2>1, <3>1 DEF StageOf, At
  <2>3. CASE pc[u] = "send"
    <3>1. call[u].vm \in VmIds
      BY <2>3 DEF TypeInv, CallInv
    <3> QED
      BY <2>1, <2>3, <3>1 DEF StageOf, At
  <2>4. CASE pc[u] \notin Holding \cup Stopping \cup {"send"}
    BY <2>1, <2>4 DEF StageOf, At, Holding, Stopping
  <2> QED
    BY <2>2, <2>3, <2>4
<1>3. ASSUME NEW w \in VmIds \ {v} PROVE HistoryOf(w)'
  <2>1. \A L \in SUBSET (Holding \cup Stopping) : w \in InCall(L) => w \in InCall(L)'
    BY DEF InCall
  <2>2. log'[w] = log[w] /\ (w \in DOMAIN vms' <=> w \in DOMAIN vms) /\ HistoryOf(w)
    BY DEF HistoryInv
  <2> QED
    BY <2>1, <2>2 DEF HistoryOf, Holding, Stopping
<1> QED
  BY <1>1, <1>2, <1>3 DEF StageInv, HistoryInv

\* Where a step leaves the program counter and the arguments.
LEMMA GotoTask ==
  ASSUME TypeOK, NEW t \in Tasks, NEW l, Goto(t, l), UNCHANGED call
  PROVE  Others(t) /\ pc'[t] = l /\ call'[t] = call[t]
  BY DEF TypeOK, Goto, Others

LEMMA ReturnTask ==
  ASSUME TypeOK, NEW t \in Tasks, NEW o, Return(t, o)
  PROVE  Others(t) /\ pc'[t] = "idle"
  BY DEF TypeOK, Goto, Return, Others

\* The steps of allocate() that hold the write guard.
LEMMA StoryAllocate ==
  ASSUME TypeInv, LockInv, StoryInv, NEW t \in Tasks
  PROVE  /\ \A v \in VmIds : AllocateBegin(t, v) => StoryInv'
         /\ StartOk(t) => StoryInv'
         /\ AppendReady(t) => StoryInv'
         /\ StartFails(t) => StoryInv'
         /\ AppendCrashed(t) => StoryInv'
<1>1. ASSUME NEW v \in VmIds, AllocateBegin(t, v) PROVE StoryInv'
  <2>1. /\ pc[t] = "alloc" /\ log[v] = Unborn /\ Goto(t, "start") /\ Emit(v, "Allocating")
        /\ call' = [call EXCEPT ![t].vm = v] /\ UNCHANGED vms
    BY <1>1 DEF AllocateBegin, FreshIds, Unborn
  <2>2. Others(t) /\ pc'[t] = "start" /\ call'[t].vm = v
    BY <2>1, Argument DEF ArgumentSet, Others, Goto, TypeInv, TypeOK
  <2>3. log'[v] = Begun /\ \A w \in VmIds \ {v} : log'[w] = log[w]
    BY <2>1, Emission, Histories DEF TypeInv
  <2>4. \A u \in Tasks : pc[u] \in Holding \cup Stopping => call[u].vm # v
    BY <2>1, Histories DEF StoryInv, StageInv, StageOf, At, Holding, Stopping
  <2>5. v \notin DOMAIN vms
    <3>1. HistoryOf(v)
      BY DEF StoryInv, HistoryInv
    <3> QED
      BY <2>1, <2>4, <3>1, Histories DEF HistoryOf, InCall, Holding
  <2>6. StageOf(t)' /\ HistoryOf(v)'
    BY <2>1, <2>2, <2>3, <2>5, Histories DEF StageOf, HistoryOf, At, InCall, Holding, Lifecycles
  <2> QED
    BY <2>1, <2>2, <2>3, <2>4, <2>6, Acquire DEF Holding, Stopping
<1> PICK v : v = call[t].vm
  OBVIOUS
<1>2. pc[t] \in Holding => v \in VmIds /\ StageOf(t) /\ HistoryOf(v)
  BY DEF TypeInv, CallInv, StoryInv, StageInv, HistoryInv
<1>3. ASSUME StartOk(t) PROVE StoryInv'
  <2>1. /\ pc[t] = "start" /\ Others(t) /\ pc'[t] = "ready_event" /\ call'[t].vm = v
        /\ DOMAIN vms' = DOMAIN vms \cup {v} /\ UNCHANGED log
    BY <1>3, GotoTask DEF StartOk, Insert, events, TypeInv
  <2>2. StageOf(t)' /\ HistoryOf(v)'
    BY <1>2, <2>1, Histories DEF StageOf, HistoryOf, At, InCall, Holding
  <2> QED
    BY <1>2, <2>1, <2>2, Owner DEF Holding
<1>4. ASSUME AppendReady(t) PROVE StoryInv'
  <2>1. /\ pc[t] = "ready_event" /\ Others(t) /\ pc'[t] = "idle" /\ UNCHANGED vms
        /\ Emit(v, "Ready")
    BY <1>4, ReturnTask DEF AppendReady, TypeInv
  <2>2. log'[v] = Up /\ \A w \in VmIds \ {v} : log'[w] = log[w]
    BY <1>2, <2>1, Emission, Histories DEF StageOf, At, Holding, TypeInv
  <2>3. StageOf(t)' /\ HistoryOf(v)'
    BY <1>2, <2>1, <2>2, Histories DEF StageOf, HistoryOf, At, Holding, Lifecycles
  <2> QED
    BY <1>2, <2>1, <2>2, <2>3, Owner DEF Holding, Stopping
<1>5. ASSUME StartFails(t) PROVE StoryInv'
  <2>1. /\ pc[t] = "start" /\ Others(t) /\ pc'[t] = "crash_event" /\ call'[t].vm = v
        /\ UNCHANGED <<vms, log>>
    BY <1>5, GotoTask DEF StartFails, events, TypeInv
  <2>2. StageOf(t)' /\ HistoryOf(v)'
    BY <1>2, <2>1, Histories DEF StageOf, HistoryOf, At, InCall, Holding
  <2> QED
    BY <1>2, <2>1, <2>2, Owner DEF Holding
<1>6. ASSUME AppendCrashed(t) PROVE StoryInv'
  <2>1. /\ pc[t] = "crash_event" /\ Others(t) /\ pc'[t] = "idle" /\ UNCHANGED vms
        /\ Emit(v, "Crashed")
    BY <1>6, ReturnTask DEF AppendCrashed, TypeInv
  <2>2. log'[v] = Failed /\ \A w \in VmIds \ {v} : log'[w] = log[w]
    BY <1>2, <2>1, Emission, Histories DEF StageOf, At, Holding, TypeInv
  <2>3. StageOf(t)' /\ HistoryOf(v)'
    BY <1>2, <2>1, <2>2, Histories DEF StageOf, HistoryOf, At, Holding, Lifecycles
  <2> QED
    BY <1>2, <2>1, <2>2, <2>3, Owner DEF Holding, Stopping
<1> QED
  BY <1>1, <1>3, <1>4, <1>5, <1>6

\* The steps of deallocate().
LEMMA StoryDeallocate ==
  ASSUME TypeInv, LockInv, StoryInv, NEW t \in Tasks
  PROVE  /\ RemoveEntry(t) => StoryInv'
         /\ AppendStopping(t) => StoryInv'
         /\ StopVm(t) => StoryInv'
         /\ AppendStopped(t) => StoryInv'
         /\ Cleanup(t) => StoryInv'
<1> PICK v : v = call[t].vm
  OBVIOUS
<1>1. pc[t] \in {"remove"} \cup Stopping => v \in VmIds /\ StageOf(t) /\ HistoryOf(v)
  BY DEF TypeInv, CallInv, StoryInv, StageInv, HistoryInv
<1>2. ASSUME RemoveEntry(t) PROVE StoryInv'
  <2>1. /\ pc[t] = "remove" /\ v \in DOMAIN vms /\ writer = NoTask /\ readers = {}
        /\ DOMAIN vms' = DOMAIN vms \ {v} /\ UNCHANGED log
        /\ Others(t) /\ pc'[t] = "stopping_event" /\ call'[t].vm = v
    BY <1>2, GotoTask DEF RemoveEntry, Remove, MayWrite, MayRead, events, TypeInv
  <2>2. \A u \in Tasks : pc[u] \notin Holding \cup {"send"}
    BY <2>1, PoolAssumption DEF LockInv
  <2>3. log[v] = Up
    BY <1>1, <2>1, <2>2 DEF HistoryOf, InCall, Holding
  <2>4. \A u \in Tasks : pc[u] \in Holding \cup Stopping => call[u].vm # v
    BY <2>1, <2>2, <2>3, Histories DEF StoryInv, StageInv, StageOf, At, Stopping
  <2>5. StageOf(t)' /\ HistoryOf(v)'
    BY <2>1, <2>3, Histories DEF StageOf, HistoryOf, At, InCall, Holding, Lifecycles
  <2> QED
    BY <1>1, <2>1, <2>2, <2>4, <2>5, Acquire DEF Holding, Stopping
<1>3. ASSUME AppendStopping(t) PROVE StoryInv'
  <2>1. /\ pc[t] = "stopping_event" /\ Others(t) /\ pc'[t] = "stop" /\ call'[t].vm = v
        /\ UNCHANGED vms /\ Emit(v, "Stopping")
    BY <1>3, GotoTask DEF AppendStopping, TypeInv
  <2>2. log'[v] = Leaving /\ \A w \in VmIds \ {v} : log'[w] = log[w]
    BY <1>1, <2>1, Emission, Histories DEF StageOf, At, Stopping, TypeInv
  <2>3. v \notin DOMAIN vms
    BY <1>1, <2>1 DEF StageOf, At, Stopping
  <2>4. StageOf(t)' /\ HistoryOf(v)'
    BY <2>1, <2>2, <2>3, Histories DEF StageOf, HistoryOf, At, InCall, Lifecycles
  <2> QED
    BY <1>1, <2>1, <2>2, <2>4, Owner DEF Stopping
<1>4. ASSUME StopVm(t) PROVE StoryInv'
  <2>1. /\ pc[t] = "stop" /\ Others(t) /\ pc'[t] = "stopped_event" /\ call'[t].vm = v
        /\ UNCHANGED <<vms, log>>
    BY <1>4, GotoTask DEF StopVm, events, TypeInv
  <2>2. log[v] = Leaving
    BY <1>1, <2>1 DEF StageOf, At, Stopping
  <2>3. v \notin DOMAIN vms
    <3>1. v \notin InCall({"ready_event"})
      BY <2>1, <2>2, Histories DEF InCall, StoryInv, StageInv, StageOf, At
    <3> QED
      BY <1>1, <2>1, <2>2, <3>1, Histories DEF HistoryOf, Stopping
  <2>4. StageOf(t)' /\ HistoryOf(v)'
    BY <2>1, <2>2, <2>3, Histories DEF StageOf, HistoryOf, At, InCall, Lifecycles
  <2> QED
    BY <1>1, <2>1, <2>4, Owner DEF Stopping
<1>5. ASSUME AppendStopped(t) PROVE StoryInv'
  <2>1. /\ pc[t] = "stopped_event" /\ Others(t) /\ pc'[t] = "cleanup" /\ call'[t].vm = v
        /\ UNCHANGED vms /\ Emit(v, "Stopped")
    BY <1>5, GotoTask DEF AppendStopped, TypeInv
  <2>2. log[v] = Leaving
    BY <1>1, <2>1 DEF StageOf, At, Stopping
  <2>3. log'[v] = Gone /\ \A w \in VmIds \ {v} : log'[w] = log[w]
    BY <1>1, <2>1, <2>2, Emission, Histories DEF Stopping, TypeInv
  <2>4. v \notin DOMAIN vms
    <3>1. v \notin InCall({"ready_event"})
      BY <2>1, <2>2, Histories DEF InCall, StoryInv, StageInv, StageOf, At
    <3> QED
      BY <1>1, <2>1, <2>2, <3>1, Histories DEF HistoryOf, Stopping
  <2>5. StageOf(t)' /\ HistoryOf(v)'
    BY <2>1, <2>3, <2>4, Histories DEF StageOf, HistoryOf, At, Lifecycles
  <2> QED
    BY <1>1, <2>1, <2>3, <2>5, Owner DEF Stopping
<1>6. ASSUME Cleanup(t) PROVE StoryInv'
  <2>1. /\ pc[t] = "cleanup" /\ UNCHANGED <<vms, log>>
        /\ pc' \in {[pc EXCEPT ![t] = l] : l \in {"idle", "alloc", "sweep"}}
        /\ \E c : call' = [call EXCEPT ![t] = c]
    BY <1>6 DEF Cleanup, Deallocated, Resume, Return, Goto
  <2>2. Others(t) /\ pc'[t] \in {"idle", "alloc", "sweep"}
    BY <2>1 DEF Others, TypeInv, TypeOK
  <2>3. log[v] = Gone
    BY <1>1, <2>1 DEF StageOf, At, Stopping
  <2>4. v \notin DOMAIN vms
    <3>1. v \notin InCall({"ready_event"})
      BY <2>1, <2>3, Histories DEF InCall, StoryInv, StageInv, StageOf, At
    <3> QED
      BY <1>1, <2>1, <2>3, <3>1, Histories DEF HistoryOf, Stopping
  <2>5. StageOf(t)' /\ HistoryOf(v)'
    BY <2>1, <2>2, <2>3, <2>4, Histories DEF StageOf, HistoryOf, At, Lifecycles
  <2> QED
    BY <1>1, <2>1, <2>2, <2>5, Owner DEF Holding, Stopping
<1> QED
  BY <1>2, <1>3, <1>4, <1>5, <1>6

\* The other steps of a task are quiet.
LEMMA StoryQuiet ==
  ASSUME TypeInv, StoryInv, NEW t \in Tasks,
         \/ Request(t) \/ Status(t) \/ AllocateFull(t) \/ EvictStep(t) \/ DeallocateMissing(t)
         \/ HealthStep(t) \/ SendStep(t)
  PROVE  StoryInv'
<1>1. pc \in [Tasks -> Labels] /\ call \in [Tasks -> Calls]
  BY DEF TypeInv, TypeOK
<1>2. UNCHANGED log /\ DOMAIN vms' = DOMAIN vms
  <2>1. CASE SendOk(t)
    BY <2>1 DEF SendOk, SetQueued, events
  <2>2. CASE ~SendOk(t)
    BY <2>2 DEF Request, Status, AllocateFull, EvictStep, CheckRoom, ChooseVictim, NoVictim,
        DeallocateMissing, HealthStep, Scan, SweepNext, SweepDone, SendStep, SendNoVm, SendBegin,
        SendClosed, events
  <2> QED
    BY <2>1, <2>2
<1>3. Others(t) /\ pc[t] \notin Holding \cup Stopping
  <2>1. /\ \E l : pc' = [pc EXCEPT ![t] = l]
        /\ \E c : call' = [call EXCEPT ![t] = c]
        /\ pc[t] \notin Holding \cup Stopping
    <3> USE DEF Goto, Return, Holding, Stopping
    <3>1. CASE Request(t)
      BY <1>1, <3>1 DEF Request, tasks, Waits, ReadWaits, WriteWaits
    <3>2. CASE Status(t) \/ AllocateFull(t)
      BY <3>2 DEF Status, AllocateFull
    <3>3. CASE EvictStep(t)
      BY <1>1, <3>3 DEF EvictStep, CheckRoom, ChooseVictim, NoVictim
    <3>4. CASE DeallocateMissing(t)
      BY <3>4 DEF DeallocateMissing, DeallocateFailed, Resume
    <3>5. CASE HealthStep(t)
      BY <1>1, <3>5 DEF HealthStep, Scan, SweepNext, SweepDone
    <3>6. CASE SendStep(t)
      BY <1>1, <3>6 DEF SendStep, SendNoVm, SendBegin, SendOk, SendClosed
    <3> QED
      BY <3>1, <3>2, <3>3, <3>4, <3>5, <3>6
  <2> QED
    BY <1>1, <2>1 DEF Others
<1>4. pc'[t] \notin Holding \cup Stopping
  BY <1>1
  DEF Request, Status, AllocateFull, EvictStep, CheckRoom, ChooseVictim, NoVictim,
      DeallocateMissing, DeallocateFailed, Resume, HealthStep, Scan, SweepNext, SweepDone,
      SendStep, SendNoVm, SendBegin, SendOk, SendClosed, tasks, Waits, ReadWaits, WriteWaits,
      Goto, Return, Holding, Stopping
<1>5. pc'[t] = "send" => call'[t].vm \in DOMAIN vms
  BY <1>1
  DEF Request, Status, AllocateFull, EvictStep, CheckRoom, ChooseVictim, NoVictim,
      DeallocateMissing, DeallocateFailed, Resume, HealthStep, Scan, SweepNext, SweepDone,
      SendStep, SendNoVm, SendBegin, SendOk, SendClosed, tasks, Waits, ReadWaits, WriteWaits,
      Goto, Return
<1> QED
  BY <1>2, <1>3, <1>4, <1>5, Quiet

LEMMA StoryInit == Init => StoryInv
<1> SUFFICES ASSUME Init PROVE StoryInv
  OBVIOUS
<1>1. OwnInv /\ StageInv
  BY DEF Init, OwnInv, StageInv, StageOf, At, Holding, Stopping
<1>2. \A v \in VmIds : log[v] = Unborn /\ v \notin DOMAIN vms
  BY DEF Init, Unborn
<1>3. HistoryInv
  BY <1>2, Histories DEF HistoryInv, HistoryOf, Lifecycles
<1> QED
  BY <1>1, <1>3 DEF StoryInv

LEMMA StoryNext == TypeInv /\ LockInv /\ StoryInv /\ [Next]_vars => StoryInv'
<1> SUFFICES ASSUME TypeInv, LockInv, StoryInv, [Next]_vars PROVE StoryInv'
  OBVIOUS
<1>1. ASSUME NEW t \in Tasks, NEW op, NEW p, NEW v, NEW l,
             Begin(t, op, p, v, l), l \notin Holding \cup Stopping \cup {"send"}
      PROVE  StoryInv'
  <2>1. Others(t) /\ UNCHANGED <<log, vms>> /\ pc[t] = "idle" /\ pc'[t] = l
    BY <1>1 DEF Begin, Goto, Others, events, TypeInv, TypeOK
  <2> QED
    BY <1>1, <2>1, Quiet DEF Holding, Stopping
<1>2. CASE \E t \in Callers : Call(t)
  <2>1. \A l \in {"alloc", "room", "remove", "lookup", "status"} :
           l \notin Holding \cup Stopping \cup {"send"}
    BY DEF Holding, Stopping
  <2> QED
    BY <1>1, <1>2, <2>1
    DEF Call, CallAllocate, CallEvict, CallDeallocate, CallSend, CallStatus, Tasks
<1>3. CASE CallHealthCheck
  BY <1>1, <1>3 DEF CallHealthCheck, Holding, Stopping, Tasks
<1>4. ASSUME NEW t \in Tasks, Step(t) PROVE StoryInv'
  BY <1>4, StoryAllocate, StoryDeallocate, StoryQuiet DEF Step, AllocateStep, DeallocateStep
<1>5. ASSUME UNCHANGED <<log, tasks>>, DOMAIN vms' = DOMAIN vms PROVE StoryInv'
  BY <1>5 DEF tasks, StoryInv, OwnInv, StageInv, StageOf, HistoryInv, HistoryOf, At, InCall
<1>6. CASE Environment
  BY <1>5, <1>6 DEF Environment, VmDies, Drain, Tick, SetQueued, events
<1>7. CASE UNCHANGED vars
  BY <1>5, <1>7 DEF vars, events
<1> QED
  BY <1>2, <1>3, <1>4, <1>6, <1>7 DEF Next

-----------------------------------------------------------------------------
(* The theorems *)

LEMMA Invariance == Spec => []IInv
<1>1. Init => IInv
  BY TypeInit, LockInit, StoryInit DEF IInv, TypeInv, StoryInv
<1>2. IInv /\ [Next]_vars => IInv'
  BY TypeNext, LockNext, StoryNext DEF IInv, TypeInv, StoryInv
<1> QED
  BY <1>1, <1>2, PTL DEF Spec

\* The events emitted for a VM follow its lifecycle, whatever callers,
\* evictions and health checks do at once.
THEOREM LifecycleOrdered == Spec => []LifecycleOrder
<1>1. IInv => LifecycleOrder
  BY DEF IInv, HistoryInv, HistoryOf, LifecycleOrder
<1> QED
  BY <1>1, Invariance, PTL

\* The entry a waiting send_to_vm() has borrowed is not removed.
THEOREM BorrowedEntriesStay == Spec => []BorrowedEntryStays
<1>1. IInv => BorrowedEntryStays
  BY DEF IInv, StageInv, StageOf, At, BorrowedEntryStays, InCall
<1> QED
  BY <1>1, Invariance, PTL

\* The map and the event log tell the same story.
THEOREM LogMatchesMap == Spec => []LogMatchesPool
<1>1. IInv => LogMatchesPool
  <2> SUFFICES ASSUME IInv PROVE LogMatchesPool
    OBVIOUS
  <2>1. \A v \in VmIds : log[v] # <<>> /\ Last(log[v]) = "Ready" <=> log[v] = Up
    <3>1. /\ Last(Begun) = "Allocating" /\ Last(Failed) = "Crashed" /\ Last(Up) = "Ready"
          /\ Last(Leaving) = "Stopping" /\ Last(Gone) = "Stopped" /\ Unborn = <<>>
      BY DEF Last, Unborn, Begun, Failed, Up, Leaving, Gone
    <3> QED
      BY <3>1, Histories DEF IInv, HistoryInv, HistoryOf, Lifecycles
  <2>2. InCall({"ready_event"}) \subseteq DOMAIN vms
    BY DEF IInv, StageInv, StageOf, At, InCall
  <2>3. \A v \in InCall({"stopping_event"}) : v \in VmIds /\ log[v] = Up
    BY DEF IInv, StageInv, StageOf, At, InCall, CallInv, Stopping
  <2>4. \A v \in VmIds :
          /\ v \in DOMAIN vms => log[v] = Up \/ v \in InCall({"ready_event"})
          /\ log[v] = Up => v \in DOMAIN vms \/ v \in InCall({"stopping_event"})
    BY DEF IInv, HistoryInv, HistoryOf
  <2>5. DOMAIN vms \subseteq VmIds
    BY DEF IInv, TypeOK
  <2> QED
    BY <2>1, <2>2, <2>3, <2>4, <2>5 DEF LogMatchesPool
<1> QED
  BY <1>1, Invariance, PTL

=============================================================================
