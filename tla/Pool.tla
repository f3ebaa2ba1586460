-------------------------------- MODULE Pool --------------------------------
(***************************************************************************)
(* The VM pool (crates/pool/src/lib.rs, struct Pool) as its callers use it:*)
(* concurrent tasks that allocate, allocate with eviction, deallocate,     *)
(* send commands and query, and the service's health loop.                 *)
(*                                                                         *)
(* The pool's map of VMs is behind one tokio RwLock.  That lock is fair:   *)
(* requests are served in arrival order, so a reader that arrives behind a *)
(* waiting writer waits too.  `queue' holds the waiting tasks, `writer'    *)
(* and `readers' the guards that are held across an await.  A critical     *)
(* section with no await inside is one action; allocate() (write guard     *)
(* held while the VM boots) and send_to_vm() (read guard held while the    *)
(* VM's command channel is full) are not.                                  *)
(*                                                                         *)
(* log[v] is EventLog::for_vm(v) restricted to lifecycle events, `buffers' *)
(* the VMs that have a log buffer.  A VM's start time is kept as its age,  *)
(* which stops growing at MaxAge.  Command payloads, images and resource   *)
(* sizes are left out.                                                     *)
(*                                                                         *)
(* An operator whose name starts with Bug is a wrong form of the operator  *)
(* after it, used to show that a property notices the mistake; no action   *)
(* uses it.                                                                *)
(***************************************************************************)
EXTENDS Naturals, Sequences, FiniteSets

CONSTANTS Callers,       \* tasks that use the pool (the service's connections)
          HealthTask,    \* the service's health check loop
          VmIds,         \* bound: the ids generate_vm_id may return
          Priorities,    \* bound: the priorities callers ask for
          MaxVms,        \* PoolConfig::max_vms
          VmTimeout,     \* PoolConfig::vm_timeout, in clock ticks
          MaxAge,        \* bound: ages are not told apart from here on
          CmdCapacity,   \* capacity of a VM's command channel
          NoTask, NoVm

Tasks == Callers \cup {HealthTask}

ASSUME PoolAssumption ==
    /\ HealthTask \notin Callers
    /\ NoTask \notin Tasks
    /\ NoVm \notin VmIds
    /\ IsFiniteSet(VmIds)
    /\ Priorities \subseteq 0 .. 3
    /\ MaxVms \in Nat
    /\ MaxAge \in Nat
    /\ VmTimeout \in 0 .. MaxAge
    /\ CmdCapacity \in Nat \ {0}

VARIABLES
    vms,       \* Pool::vms, a map from id to VmEntry
    live,      \* VMs that run and whose bridge task serves the command channel
    log,       \* lifecycle events of each VM, in order of emission
    buffers,   \* EventLog::vm_logs, the VMs with a log buffer
    writer,    \* the task that holds the write guard of vms
    readers,   \* the tasks that hold a read guard across an await
    queue,     \* the tasks waiting for the lock of vms, in arrival order
    pc,        \* where each task is
    call,      \* arguments and locals of the call each task is in
    result,    \* what the task's last call returned
    timedOut   \* health_check's list, still to be deallocated

events == <<log, buffers>>
lock == <<writer, readers, queue>>
tasks == <<pc, call, result>>
vars == <<vms, live, events, lock, tasks, timedOut>>

Entry == [priority : Priorities, age : 0 .. MaxAge, queued : 0 .. CmdCapacity]

ReadWaits  == {"room", "victim", "scan", "lookup", "status"}
WriteWaits == {"alloc", "remove"}
Waits      == ReadWaits \cup WriteWaits
Holding    == {"start", "ready_event", "crash_event"}
Stopping   == {"stopping_event", "stop", "stopped_event", "cleanup"}
Labels     == {"idle", "sweep", "send"} \cup Waits \cup Holding \cup Stopping

Ops     == {"none", "allocate", "evict", "deallocate", "send", "status", "health"}
Results == {"None", "Ok", "Exhausted", "VmNotFound", "Runtime"}
Calls   == [op : Ops, priority : Priorities \cup {0},
            vm : VmIds \cup {NoVm}, evicted : VmIds \cup {NoVm}]

States == {"Allocating", "Ready", "Stopping", "Stopped", "Crashed"}

TypeOK ==
    /\ DOMAIN vms \subseteq VmIds
    /\ vms \in [DOMAIN vms -> Entry]
    /\ live \subseteq VmIds
    /\ log \in [VmIds -> Seq(States)]
    /\ buffers \subseteq VmIds
    /\ writer \in Tasks \cup {NoTask}
    /\ readers \subseteq Tasks
    /\ queue \in Seq(Tasks)
    /\ pc \in [Tasks -> Labels]
    /\ call \in [Tasks -> Calls]
    /\ result \in [Tasks -> Results]
    /\ timedOut \subseteq VmIds

NoCall == [op |-> "none", priority |-> 0, vm |-> NoVm, evicted |-> NoVm]

Init ==
    /\ vms = [v \in {} |-> NoVm]
    /\ live = {}
    /\ log = [v \in VmIds |-> <<>>]
    /\ buffers = {}
    /\ writer = NoTask
    /\ readers = {}
    /\ queue = <<>>
    /\ pc = [t \in Tasks |-> "idle"]
    /\ call = [t \in Tasks |-> NoCall]
    /\ result = [t \in Tasks |-> "None"]
    /\ timedOut = {}

-----------------------------------------------------------------------------
(* The map of VMs, the event log and the moves of a task. *)

BugFull == Cardinality(DOMAIN vms) > MaxVms
Full == Cardinality(DOMAIN vms) >= MaxVms

\* The VMs that a request of priority p may evict, and those of them that
\* min_by_key may return: lowest priority first, then oldest.
BugCandidates(p) == {v \in DOMAIN vms : vms[v].priority <= p}
Candidates(p) == {v \in DOMAIN vms : vms[v].priority < p}
Victims(p) ==
    {v \in Candidates(p) : \A w \in Candidates(p) :
        \/ vms[v].priority < vms[w].priority
        \/ vms[v].priority = vms[w].priority /\ vms[v].age >= vms[w].age}

BugTimedOut == {v \in DOMAIN vms : vms[v].age < VmTimeout}
TimedOut == {v \in DOMAIN vms : vms[v].age >= VmTimeout}

NewEntry(p) == [priority |-> p, age |-> 0, queued |-> 0]

Insert(v, p) ==
    vms' = [w \in DOMAIN vms \cup {v} |-> IF w = v THEN NewEntry(p) ELSE vms[w]]

BugRemove(v) == v \in DOMAIN vms /\ UNCHANGED vms
Remove(v) == vms' = [w \in DOMAIN vms \ {v} |-> vms[w]]

\* The number of commands in the channel of v becomes n; one more tick.
SetQueued(v, n) == vms' = [vms EXCEPT ![v].queued = n]
Aged(entry) == [entry EXCEPT !.age = IF entry.age < MaxAge THEN entry.age + 1 ELSE MaxAge]

Emit(v, state) == log' = [log EXCEPT ![v] = Append(@, state)]

\* generate_vm_id never returns an id twice.
FreshIds == {v \in VmIds : log[v] = <<>>}

Goto(t, label) == pc' = [pc EXCEPT ![t] = label]

Return(t, outcome) ==
    /\ Goto(t, "idle")
    /\ call' = [call EXCEPT ![t] = NoCall]
    /\ result' = [result EXCEPT ![t] = outcome]

-----------------------------------------------------------------------------
(* The lock. *)

\* A task that goes on to its call's next critical section joins the queue;
\* others may have joined it since the task dropped its last guard.
Request(t) ==
    /\ pc[t] \in Waits
    /\ \A i \in DOMAIN queue : queue[i] # t
    /\ queue' = Append(queue, t)
    /\ UNCHANGED <<vms, live, events, writer, readers, tasks, timedOut>>

AtHead(t)   == queue # <<>> /\ Head(queue) = t
MayRead(t)  == AtHead(t) /\ writer = NoTask

BugMayWrite(t) == MayRead(t)
MayWrite(t) == MayRead(t) /\ readers = {}

\* A guard taken and dropped within one step, the write guard taken to be
\* kept, and a guard of either kind dropped.
PassLock == queue' = Tail(queue) /\ UNCHANGED <<writer, readers>>

BugTakeWrite(t) == PassLock
TakeWrite(t) == queue' = Tail(queue) /\ writer' = t /\ UNCHANGED readers
TakeRead(t) == queue' = Tail(queue) /\ readers' = readers \cup {t} /\ UNCHANGED writer

DropWrite == writer' = NoTask /\ UNCHANGED <<readers, queue>>

BugDropRead(t) == UNCHANGED lock
DropRead(t) == readers' = readers \ {t} /\ UNCHANGED <<writer, queue>>

-----------------------------------------------------------------------------
(* Calls.  A caller knows the ids it has seen in the event log.  What every *)
(* call does first is to ask for the lock.                                  *)

Known == {v \in VmIds : log[v] # <<>>}

Begin(t, op, p, v, label) ==
    /\ pc[t] = "idle"
    /\ Goto(t, label)
    /\ call' = [call EXCEPT ![t] = [op |-> op, priority |-> p, vm |-> v, evicted |-> NoVm]]
    /\ result' = [result EXCEPT ![t] = "None"]
    /\ queue' = Append(queue, t)
    /\ UNCHANGED <<vms, live, events, writer, readers, timedOut>>

\* Bound: an allocation starts only while every pending one can get an id.
IdsLeft ==
    Cardinality({t \in Tasks : call[t].op \in {"allocate", "evict"}})
        < Cardinality(FreshIds)

CallAllocate(t) == IdsLeft /\ \E p \in Priorities : Begin(t, "allocate", p, NoVm, "alloc")
CallEvict(t) == IdsLeft /\ \E p \in Priorities : Begin(t, "evict", p, NoVm, "room")
CallDeallocate(t) == \E v \in Known : Begin(t, "deallocate", 0, v, "remove")
CallSend(t) == \E v \in Known : Begin(t, "send", 0, v, "lookup")
CallStatus(t) == Begin(t, "status", 0, NoVm, "status")

CallHealthCheck == Begin(HealthTask, "health", 0, NoVm, "scan")

-----------------------------------------------------------------------------
(* status(), get(), list(): read and return. *)

Status(t) ==
    /\ pc[t] = "status" /\ MayRead(t)
    /\ PassLock
    /\ Return(t, "Ok")
    /\ UNCHANGED <<vms, live, events, timedOut>>

-----------------------------------------------------------------------------
(* allocate() *)

AllocateFull(t) ==
    /\ pc[t] = "alloc" /\ MayWrite(t) /\ Full
    /\ PassLock
    /\ Return(t, "Exhausted")
    /\ UNCHANGED <<vms, live, events, timedOut>>

\* A new id, its log buffer and its first event; the write guard stays held.
AllocateBegin(t, v) ==
    /\ pc[t] = "alloc" /\ MayWrite(t) /\ ~Full
    /\ v \in FreshIds
    /\ TakeWrite(t)
    /\ call' = [call EXCEPT ![t].vm = v]
    /\ buffers' = buffers \cup {v}
    /\ Emit(v, "Allocating")
    /\ Goto(t, "start")
    /\ UNCHANGED <<vms, live, result, timedOut>>

\* runtime.start returned a handle: the VM runs, its entry is inserted.
StartOk(t) ==
    LET v == call[t].vm IN
    /\ pc[t] = "start"
    /\ live' = live \cup {v}
    /\ Insert(v, call[t].priority)
    /\ Goto(t, "ready_event")
    /\ UNCHANGED <<events, lock, call, result, timedOut>>

AppendReady(t) ==
    /\ pc[t] = "ready_event"
    /\ Emit(call[t].vm, "Ready")
    /\ DropWrite
    /\ Return(t, "Ok")
    /\ UNCHANGED <<vms, live, buffers, timedOut>>

\* runtime.start failed (spawn error, no Ready within its timeout).
BugStartFails(t) ==
    /\ pc[t] = "start"
    /\ DropWrite
    /\ Return(t, "Runtime")
    /\ UNCHANGED <<vms, live, events, timedOut>>

StartFails(t) ==
    /\ pc[t] = "start"
    /\ Goto(t, "crash_event")
    /\ UNCHANGED <<vms, live, events, lock, call, result, timedOut>>

AppendCrashed(t) ==
    /\ pc[t] = "crash_event"
    /\ Emit(call[t].vm, "Crashed")
    /\ DropWrite
    /\ Return(t, "Runtime")
    /\ UNCHANGED <<vms, live, buffers, timedOut>>

-----------------------------------------------------------------------------
(* allocate_or_evict(): room check, choice of a victim, deallocate(),      *)
(* allocate(), each under a guard of its own.                              *)

CheckRoom(t) ==
    /\ pc[t] = "room" /\ MayRead(t)
    /\ PassLock
    /\ Goto(t, IF Full THEN "victim" ELSE "alloc")
    /\ UNCHANGED <<vms, live, events, call, result, timedOut>>

ChooseVictim(t, v) ==
    /\ pc[t] = "victim" /\ MayRead(t)
    /\ v \in Victims(call[t].priority)
    /\ PassLock
    /\ call' = [call EXCEPT ![t].vm = v]
    /\ Goto(t, "remove")
    /\ UNCHANGED <<vms, live, events, result, timedOut>>

NoVictim(t) ==
    /\ pc[t] = "victim" /\ MayRead(t)
    /\ Candidates(call[t].priority) = {}
    /\ PassLock
    /\ Return(t, "Exhausted")
    /\ UNCHANGED <<vms, live, events, timedOut>>

-----------------------------------------------------------------------------
(* deallocate(), on its own, inside allocate_or_evict() and inside         *)
(* health_check().                                                         *)

\* health_check goes on with the rest of its list.
Resume(t) ==
    /\ Goto(t, "sweep")
    /\ call' = [call EXCEPT ![t].vm = NoVm]
    /\ UNCHANGED result

\* What follows a deallocate() that returned an error: `?' in
\* allocate_or_evict, a warning in health_check.
BugDeallocateFailed(t) ==
    IF call[t].op = "health" THEN Resume(t)
    ELSE Return(t, IF call[t].vm \in buffers THEN "VmNotFound" ELSE "Ok")

DeallocateFailed(t) ==
    IF call[t].op = "health" THEN Resume(t) ELSE Return(t, "VmNotFound")

DeallocateMissing(t) ==
    /\ pc[t] = "remove" /\ MayWrite(t)
    /\ call[t].vm \notin DOMAIN vms
    /\ PassLock
    /\ DeallocateFailed(t)
    /\ UNCHANGED <<vms, live, events, timedOut>>

RemoveEntry(t) ==
    /\ pc[t] = "remove" /\ MayWrite(t)
    /\ call[t].vm \in DOMAIN vms
    /\ PassLock
    /\ Remove(call[t].vm)
    /\ Goto(t, "stopping_event")
    /\ UNCHANGED <<live, events, call, result, timedOut>>

AppendStopping(t) ==
    /\ pc[t] = "stopping_event"
    /\ Emit(call[t].vm, "Stopping")
    /\ Goto(t, "stop")
    /\ UNCHANGED <<vms, live, buffers, lock, call, result, timedOut>>

\* runtime.stop, whose error is only logged, then drop(entry): the bridge
\* task sees the command channel closed and shuts the VM down.
StopVm(t) ==
    /\ pc[t] = "stop"
    /\ live' = live \ {call[t].vm}
    /\ Goto(t, "stopped_event")
    /\ UNCHANGED <<vms, events, lock, call, result, timedOut>>

AppendStopped(t) ==
    /\ pc[t] = "stopped_event"
    /\ Emit(call[t].vm, "Stopped")
    /\ Goto(t, "cleanup")
    /\ UNCHANGED <<vms, live, buffers, lock, call, result, timedOut>>

\* What follows a deallocate() that returned Ok.
Deallocated(t) ==
    CASE call[t].op = "evict" ->
            /\ Goto(t, "alloc")
            /\ call' = [call EXCEPT ![t] = [@ EXCEPT !.vm = NoVm, !.evicted = call[t].vm]]
            /\ UNCHANGED result
      [] call[t].op = "health" -> Resume(t)
      [] OTHER -> Return(t, "Ok")

\* EventLog::cleanup_vm
BugCleanupVm(v) == UNCHANGED buffers
CleanupVm(v) == buffers' = buffers \ {v}

Cleanup(t) ==
    /\ pc[t] = "cleanup"
    /\ CleanupVm(call[t].vm)
    /\ Deallocated(t)
    /\ UNCHANGED <<vms, live, log, lock, timedOut>>

-----------------------------------------------------------------------------
(* health_check() *)

Scan(t) ==
    /\ pc[t] = "scan" /\ MayRead(t)
    /\ PassLock
    /\ timedOut' = TimedOut
    /\ Goto(t, "sweep")
    /\ UNCHANGED <<vms, live, events, call, result>>

SweepNext(t, v) ==
    /\ pc[t] = "sweep" /\ v \in timedOut
    /\ timedOut' = timedOut \ {v}
    /\ call' = [call EXCEPT ![t].vm = v]
    /\ Goto(t, "remove")
    /\ UNCHANGED <<vms, live, events, lock, result>>

SweepDone(t) ==
    /\ pc[t] = "sweep" /\ timedOut = {}
    /\ Return(t, "Ok")
    /\ UNCHANGED <<vms, live, events, lock, timedOut>>

-----------------------------------------------------------------------------
(* send_to_vm(): the read guard is held until the channel has room. *)

SendNoVm(t) ==
    /\ pc[t] = "lookup" /\ MayRead(t)
    /\ call[t].vm \notin DOMAIN vms
    /\ PassLock
    /\ Return(t, "VmNotFound")
    /\ UNCHANGED <<vms, live, events, timedOut>>

SendBegin(t) ==
    /\ pc[t] = "lookup" /\ MayRead(t)
    /\ call[t].vm \in DOMAIN vms
    /\ TakeRead(t)
    /\ Goto(t, "send")
    /\ UNCHANGED <<vms, live, events, call, result, timedOut>>

\* The channel is open and not full.
BugHasRoom(v) == v \in live
HasRoom(v) == v \in live /\ vms[v].queued < CmdCapacity

SendOk(t) ==
    LET v == call[t].vm IN
    /\ pc[t] = "send" /\ HasRoom(v)
    /\ SetQueued(v, vms[v].queued + 1)
    /\ DropRead(t)
    /\ Return(t, "Ok")
    /\ UNCHANGED <<live, log, buffers, timedOut>>

SendClosed(t) ==
    /\ pc[t] = "send" /\ call[t].vm \notin live
    /\ DropRead(t)
    /\ Return(t, "Runtime")
    /\ UNCHANGED <<vms, live, events, timedOut>>

-----------------------------------------------------------------------------
(* The environment. *)

\* The VM's process exits or its transport breaks: the bridge task ends and
\* the receiver of the command channel is dropped with what it holds.
VmDies(v) ==
    /\ v \in live
    /\ live' = live \ {v}
    /\ UNCHANGED <<vms, events, lock, tasks, timedOut>>

\* The bridge task takes a command from the channel.
Drain(v) ==
    /\ v \in live \cap DOMAIN vms
    /\ vms[v].queued > 0
    /\ SetQueued(v, vms[v].queued - 1)
    /\ UNCHANGED <<live, events, lock, tasks, timedOut>>

\* The clock advances.
Tick ==
    /\ \E v \in DOMAIN vms : vms[v].age < MaxAge
    /\ vms' = [v \in DOMAIN vms |-> Aged(vms[v])]
    /\ UNCHANGED <<live, events, lock, tasks, timedOut>>

-----------------------------------------------------------------------------
Call(t) ==
    \/ CallAllocate(t)
    \/ CallEvict(t)
    \/ CallDeallocate(t)
    \/ CallSend(t)
    \/ CallStatus(t)

AllocateStep(t) ==
    \/ AllocateFull(t)
    \/ \E v \in VmIds : AllocateBegin(t, v)
    \/ StartOk(t)
    \/ AppendReady(t)
    \/ StartFails(t)
    \/ AppendCrashed(t)

EvictStep(t) ==
    \/ CheckRoom(t)
    \/ \E v \in VmIds : ChooseVictim(t, v)
    \/ NoVictim(t)

DeallocateStep(t) ==
    \/ DeallocateMissing(t)
    \/ RemoveEntry(t)
    \/ AppendStopping(t)
    \/ StopVm(t)
    \/ AppendStopped(t)
    \/ Cleanup(t)

HealthStep(t) ==
    \/ Scan(t)
    \/ \E v \in VmIds : SweepNext(t, v)
    \/ SweepDone(t)

SendStep(t) ==
    \/ SendNoVm(t)
    \/ SendBegin(t)
    \/ SendOk(t)
    \/ SendClosed(t)

Step(t) ==
    \/ Request(t)
    \/ Status(t)
    \/ AllocateStep(t)
    \/ EvictStep(t)
    \/ DeallocateStep(t)
    \/ HealthStep(t)
    \/ SendStep(t)

Environment ==
    \/ \E v \in VmIds : VmDies(v)
    \/ \E v \in VmIds : Drain(v)
    \/ Tick

Next ==
    \/ \E t \in Callers : Call(t)
    \/ CallHealthCheck
    \/ \E t \in Tasks : Step(t)
    \/ Environment

Spec == Init /\ [][Next]_vars

\* Fairness: a task that can take its next step takes it (the executor runs
\* every ready task, the lock is fair, runtime.start and runtime.stop return:
\* ContainerRuntime gives up on a VM's Ready after 60 s), the service's
\* health loop calls health_check again and again, the clock advances.
HungSpec ==
    /\ Spec
    /\ \A t \in Tasks : WF_vars(Step(t))
    /\ WF_vars(CallHealthCheck)
    /\ WF_vars(Tick)

\* With it, every VM that is alive takes the commands sent to it.
FairSpec == HungSpec /\ \A v \in VmIds : WF_vars(Drain(v))
=============================================================================
