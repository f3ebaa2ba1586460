--------------------------- MODULE PoolProperties ---------------------------
(***************************************************************************)
(* What the pool of module Pool guarantees, the lifecycle it implements,   *)
(* and what the code's documents say of it and it does not do.             *)
(***************************************************************************)
EXTENDS Pool

-----------------------------------------------------------------------------
(* Safety *)

Last(s) == s[Len(s)]

InCall(labels) == {call[t].vm : t \in {u \in Tasks : pc[u] \in labels}}

\* Whatever the interleaving of allocations, evictions, deallocations and
\* health checks, the events emitted for a VM are a prefix of one of the two
\* lifecycles: no event is missing, doubled or out of order, although up to
\* three tasks may try to deallocate the same VM at once.
Unborn  == <<>>
Begun   == <<"Allocating">>
Failed  == <<"Allocating", "Crashed">>
Up      == <<"Allocating", "Ready">>
Leaving == <<"Allocating", "Ready", "Stopping">>
Gone    == <<"Allocating", "Ready", "Stopping", "Stopped">>

Lifecycles == {Unborn, Begun, Failed, Up, Leaving, Gone}

LifecycleOrder == \A v \in VmIds : log[v] \in Lifecycles

\* The pool's map and the event log, which no common lock protects, tell the
\* same story: the VMs the log calls ready are those of the map, give or
\* take the one task that has inserted an entry and not yet emitted Ready
\* and the tasks that have removed one and not yet emitted Stopping.
LogMatchesPool ==
    {v \in VmIds : log[v] # <<>> /\ Last(log[v]) = "Ready"} \cup InCall({"ready_event"})
        = DOMAIN vms \cup InCall({"stopping_event"})

\* An observer of the events counts at most max_vms VMs that are starting or
\* ready, and one more per deallocation that has not yet emitted Stopping.
ObservedWithinLimit ==
    Cardinality({v \in VmIds : log[v] # <<>> /\ Last(log[v]) \in {"Allocating", "Ready"}})
        <= MaxVms + Cardinality({t \in Tasks : pc[t] = "stopping_event"})

\* A VM has a log buffer from its first event until the deallocation that
\* took it out of the pool cleans it up; a VM whose start failed is never
\* deallocated and keeps its buffer for good.
BufferLifetime ==
    buffers = {v \in Known : Last(log[v]) = "Stopped" => v \in InCall({"cleanup"})}

\* The entry send_to_vm() has borrowed stays in the map while it waits for
\* room in the command channel: no deallocation gets in between.
BorrowedEntryStays == InCall({"send"}) \subseteq DOMAIN vms

\* A VM leaves the pool only for a reason that holds when it leaves, however
\* long ago its remover decided: that caller asked for it by name, its request
\* has a strictly higher priority, or it is the health check and the VM has
\* timed out.
RemovalJustified ==
    [][\A v \in DOMAIN vms \ DOMAIN vms' : \E t \in Tasks :
        /\ pc[t] # pc'[t] /\ call[t].vm = v
        /\ \/ call[t].op = "deallocate"
           \/ call[t].op = "evict" /\ vms[v].priority < call[t].priority
           \/ call[t].op = "health" /\ vms[v].age >= VmTimeout]_vars

\* deallocate() answers Ok to one caller only, the one that removed the VM: its
\* answer is the step that ends the VM's log buffer, after the VM's last event,
\* and a buffer that has ended is never there again.  It answers VmNotFound
\* once the VM has left the pool, which may be before it has been stopped.
DeallocateAnswer ==
    [][/\ \A t \in Tasks : call[t].op = "deallocate" /\ call'[t].op = "none" =>
            /\ call[t].vm \notin DOMAIN vms'
            /\ result'[t] = "Ok" =>
                  /\ Last(log'[call[t].vm]) = "Stopped"
                  /\ call[t].vm \in buffers \ buffers'
       /\ (Known \ buffers) \cap buffers' = {}]_vars

-----------------------------------------------------------------------------
(* The pool implements the lifecycle of VmLifecycle. *)

phase == [v \in VmIds |->
    CASE v \in DOMAIN vms -> "Ready"
      [] v \notin DOMAIN vms /\ log[v] = <<>> -> "None"
      [] v \notin DOMAIN vms /\ log[v] # <<>> ->
            IF Last(log[v]) = "Ready" THEN "Stopping" ELSE Last(log[v])]

Lifecycle == INSTANCE VmLifecycle

\* Every behaviour of the pool is one of the abstract lifecycle.
ImplementsLifecycle == Lifecycle!Spec

\* With fairness, starts are decided and stops are completed.
ImplementsFairLifecycle == Lifecycle!FairSpec

-----------------------------------------------------------------------------
(* Liveness *)

\* Every call returns: no task waits for ever for the lock, a channel or a VM.
EveryCallReturns == \A t \in Tasks : pc[t] # "idle" ~> pc[t] = "idle"

\* A VM that stays in the pool until its timeout is taken out of it.
TimeoutEnforced == \A v \in VmIds : v \in DOMAIN vms ~> v \notin DOMAIN vms

-----------------------------------------------------------------------------
(* What a comment of the code says and the code does not do. *)

\* "Fails if the pool is full and no VM has a strictly lower priority than
\* the requested config": any other failure is one of the runtime.
EvictFailsOnlyWithoutVictim ==
    [][\A t \in Tasks :
        call[t].op = "evict" /\ call'[t].op = "none"
            /\ result'[t] \in {"Exhausted", "VmNotFound"} =>
                Full /\ Candidates(call[t].priority) = {}]_vars

-----------------------------------------------------------------------------
(* The inductive invariant behind the safety properties. *)

\* Each call is where its operation can be, with the arguments it needs
\* there.  What eviction and the health check chose from the map was in it.
CallInv == \A t \in Tasks :
    /\ pc[t] \in {"alloc", "room", "victim"} \cup Holding => call[t].op \in {"allocate", "evict"}
    /\ call[t].op \in {"allocate", "evict"} => call[t].priority \in Priorities
    /\ pc[t] \in {"room", "victim"} => call[t].op = "evict"
    /\ pc[t] \in {"remove"} \cup Stopping => call[t].op \in {"deallocate", "evict", "health"}
    /\ pc[t] \in {"scan", "sweep"} => call[t].op = "health"
    /\ pc[t] \in {"lookup", "send"} => call[t].op = "send"
    /\ pc[t] = "status" => call[t].op = "status"
    /\ pc[t] \in {"remove", "lookup", "send"} \cup Holding \cup Stopping => call[t].vm \in VmIds

\* Who holds the lock: one writer, in allocate(), or any number of senders.
LockInv ==
    /\ \A t \in Tasks : pc[t] \in Holding <=> writer = t
    /\ \A t \in Tasks : pc[t] = "send" <=> t \in readers
    /\ writer # NoTask => readers = {}

\* No two tasks start or stop the same VM.
OwnInv == \A t, u \in Tasks :
    /\ pc[t] \in Holding \cup Stopping
    /\ pc[u] \in Holding \cup Stopping
    /\ call[t].vm = call[u].vm
    => t = u

\* How far the task that starts or stops a VM has brought its history, and
\* whether the VM is in the map meanwhile.
At(t, label) == pc[t] = label

StageOf(t) ==
    LET v == call[t].vm IN
    /\ At(t, "start") \/ At(t, "crash_event") => log[v] = Begun /\ v \notin DOMAIN vms
    /\ At(t, "ready_event") => log[v] = Begun /\ v \in DOMAIN vms
    /\ At(t, "stopping_event") => log[v] = Up /\ v \notin DOMAIN vms
    /\ At(t, "stop") \/ At(t, "stopped_event") => log[v] = Leaving
    /\ At(t, "cleanup") => log[v] = Gone
    /\ At(t, "send") => v \in DOMAIN vms

StageInv == \A t \in Tasks : StageOf(t)

\* Conversely, each history is in the map or in the hands of a task.
HistoryOf(v) ==
    /\ log[v] \in Lifecycles
    /\ v \in DOMAIN vms => log[v] = Up \/ v \in InCall({"ready_event"})
    /\ log[v] = Begun => v \in InCall(Holding)
    /\ log[v] = Up => v \in DOMAIN vms \/ v \in InCall({"stopping_event"})
    /\ log[v] = Leaving => v \in InCall({"stop", "stopped_event"})

HistoryInv == \A v \in VmIds : HistoryOf(v)

IInv == TypeOK /\ CallInv /\ LockInv /\ OwnInv /\ StageInv /\ HistoryInv

-----------------------------------------------------------------------------
(* And what RemovalJustified rests on: a reason to remove a VM, once there,  *)
(* stays while the VM is in the map, and a VM does not come back.            *)

\* VMs that are or were in the map.
Seen == {v \in VmIds : phase[v] \in {"Ready", "Stopping", "Stopped"}}

Outranked(v, p) == v \in Seen /\ (v \in DOMAIN vms => vms[v].priority < p)
Expired(v) == v \in Seen /\ (v \in DOMAIN vms => vms[v].age >= VmTimeout)

ChosenInv ==
    /\ \A t \in Tasks : At(t, "remove") =>
        /\ call[t].op = "evict" => Outranked(call[t].vm, call[t].priority)
        /\ call[t].op = "health" => Expired(call[t].vm)
    /\ \A v \in timedOut : Expired(v)
=============================================================================
