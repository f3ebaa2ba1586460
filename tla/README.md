# A TLA+ model of vm-pool

vm-pool hands out virtual machines to clients over a Unix socket. This directory holds TLA+ models of its
parts, TLC configurations that check them on small instances, and proofs that TLAPS checks for every value of
the constants. `src/` paths below are relative to the repository.

## 1. The system

| part | state | operations | talks to |
|---|---|---|---|
| **Pool** `pool/src/lib.rs` `Pool` | `vms`: a `HashMap` of entries behind one tokio `RwLock` | `allocate`, `allocate_or_evict`, `deallocate`, `send_to_vm`, `status`/`get`/`list`, `health_check` | event log (append, init and clean up buffers), runtime (start, stop), a VM's command channel |
| **Event log** `pool/src/events.rs` `EventLog` | `next_seq`, `events`, `vm_logs` (one log buffer per VM), each behind a lock of its own; a broadcast channel of 1024 | `append`, `since`, `for_vm`, `subscribe`, `tail_vm_logs`, `init_vm`, `cleanup_vm` | written by the pool and the forwarders, read by connections |
| **Log buffer** `events.rs` `VmLogBuffer` | ring of at most `capacity` lines with a write position | `push`, `tail` | owned by the event log |
| **VM link** `pool/src/lib.rs` runtimes, `transport.rs`, `supervisor` | command channel (64), stdin pipe, stdout pipe, transport channel (64), event channel (64) | bridge task, reader task, supervisor loop, forwarder task | pool on one side, the VM's process on the other |
| **Service** `service/src/lib.rs` | socket, per connection a writer channel and an event forwarder | `handle_connection`, `handle_command`, health loop | pool, event log, snapshots |
| **Client** `client/src/lib.rs` | response channel, event channel | one request at a time, `next_event` | service |
| **Snapshots** `pool/src/snapshot.rs` | a `.vmstate` and a `.json` file per name | `save`, `restore`, `delete`, `list`, `get` | file system |
| **Images** `pool/src/images.rs` | a metadata file per image | `build`, `get`, `list`, `delete` | file system, container CLI |
| **Protocol** `protocol/src/lib.rs` | none | JSON line encoding of commands and events | all |

What is hard in it: the pool's calls are made of several critical sections with awaits between them, one of
them (`allocate`) holds the write guard while a VM boots and another (`send_to_vm`) a read guard while a
channel is full; the lock is fair, so one blocked task can hold up all the others; a VM may die or hang at any
time; an event is numbered, stored and broadcast under three different locks; the link to a VM is a chain of
bounded buffers in both directions, served by tasks that block on both; a connection multiplexes answers and
events on one stream. The list of hazards, each with its line and the properties that cover it, is in
`PROJECT.json`.

What makes the parts correct:

* Pool: never more VMs than `max_vms`; one lifecycle per VM, each event once and in order, whoever
  deallocates; map, event log and log buffers agree; a VM leaves the pool only with a reason; every call
  returns; a VM that times out is removed.
* Event log: sequence numbers dense and unique, nothing lost, readers see a consistent order.
* Log buffer: `tail(n)` is the last n lines written, at any fill and wrap position.
* VM link: commands and events arrive once and in order, nobody waits for ever for a VM that works, shutdown ends the chain.
* Service and client: an answer goes to the request it answers, a subscriber learns of every event.
* Snapshots and images: a file is whole unless its last write was not, and every call does what it says unless
  another one on the same files overlaps it.

## 2. Modules

| module | models |
|---|---|
| `VmLifecycle` | the abstract specification: each VM goes None, Allocating, Ready, Stopping, Stopped (or Allocating, Crashed), and at most `MaxVms` VMs hold a place |
| `Pool` | the pool's tasks, lock, map, event log per VM and log buffers, one action per critical section or await of each call |
| `PoolProperties` | its safety, refinement and liveness properties, the statements its documents make, its inductive invariant |
| `MCPool` | instances for TLC (symmetry) |
| `PoolProofs` | type correctness, the inductive invariant, and the safety properties that follow from it |
| `PoolLifecycleProofs` | the pool implements `VmLifecycle`; the limit, the log buffers, the reasons for a removal and the answers of `deallocate` |
| `LogTail` | the abstract specification of a log buffer: the last `Capacity` lines |
| `VmLogBuffer` | the circular buffer, with the code's index arithmetic |
| `VmLogBufferProofs` | the circular buffer implements `LogTail`, for every capacity |
| `EventLog` | `append` as its four steps, under concurrent appenders, with `init_vm` and `cleanup_vm` |
| `MCEventLog` | instances for TLC (symmetry) |
| `EventLogProofs` | numbering, broadcast, order per VM and log buffers without holes, for every number of appenders |
| `VmSession` | the abstract specification of the link to a VM: commands and events in order, at most once |
| `VmLink` | the start of a VM and the chain of channels, pipes and tasks between the pool and its supervisor |
| `VmLinkProofs` | conservation and order of commands and events, graceful shutdown, and that the link implements `VmSession` |
| `ChannelFacts` | facts about sequences as channels, for the proofs about the link and the connection |
| `Connection` | one client's connection: client tasks, socket, the service's three tasks, the broadcast channel |
| `ConnectionProofs` | types, one answer per request in order, events without gaps, that requests get their own answers until one has returned an event, and up to where they cannot jam |
| `MetadataFiles` | the files of the two metadata stores and the steps their operations share |
| `SnapshotStore` | the snapshot store's operations |
| `ImageStore` | the image store's operations |
| `Storage` | both stores, their callers and a service that may be killed; the properties |
| `MCStorage` | instances for TLC (symmetry) |
| `StorageProofs` | all of `Storage`'s properties, for any number of callers |

The modules meet at these points: `Pool` treats a VM's command channel as a counter that its bridge drains, and
`VmLink` is that channel with all that is behind it; `Pool` appends lifecycle events one after the other per VM,
which is the condition of `EventLog`'s `VmOrder`; `EventLog` treats a log buffer as its last lines, which is
what `VmLogBuffer` is shown to implement; `Connection` reads what `EventLog` calls `published`, and its
`HandleCommand` is a call of `Pool` that returns (`EveryCallReturns`), or of `SnapshotStore`. `Pool`'s `StartOk` and
`StartFails` are those of `VmLink`, with what leads to them.

### Pool

`vms` is the map (`VmEntry`: priority, start time kept as an age, number of commands in its channel). The lock
is modelled as tokio serves it: `queue` is the line of waiting tasks, a task enters when it is at the head and
no conflicting guard is held (`MayRead`, `MayWrite`). A critical section without an await is one action;
`allocate` keeps the write guard (`writer`) through `start` and the `Ready` event, `send_to_vm` keeps a read
guard (`readers`) until its command is in the channel. The first lock request of a call is part of the call's
first action; every later one is an action of its own (`Request`), so that other tasks may queue up in between.

`pc` says where each task is:

    allocate            alloc -> start -> ready_event | crash_event
    allocate_or_evict   room -> alloc   or   room -> victim -> remove ... cleanup -> alloc
    deallocate          remove -> stopping_event -> stop -> stopped_event -> cleanup
    health_check        scan -> sweep -> (remove ... cleanup -> sweep)*
    send_to_vm          lookup -> send
    status, get, list   status

`deallocate` is one piece of code called from three places; what follows it depends on the call (`Deallocated`,
`DeallocateFailed`). `log[v]` is the lifecycle events of VM v in order of emission, that is `for_vm(v)`: the
events of one VM are appended one after the other, each by a task that has seen the previous one stored.
`Append` itself, where numbering and storing are separate steps, is the subject of the event log's model.

The environment: a VM dies (`VmDies`), its bridge takes a command (`Drain`), the clock advances (`Tick`). A
runtime start succeeds or fails; with `NoRuntime` a VM is dead as soon as it is ready. `runtime.stop` never
makes `deallocate` fail (its error is only logged).

Bounds: `VmIds` (an allocation begins only while an id is left, `IdsLeft`), `MaxAge` (an age stops growing
there; ages at or beyond the timeout are not told apart by the health check), `Priorities`, `CmdCapacity`.

Runs:

| run | instance | shows |
|---|---|---|
| `PoolSafety` | 2 callers, health loop, 3 ids, pool of 1, 2 priorities | all safety and action properties; the pool implements `VmLifecycle` |
| `PoolLiveness` | 1 caller, health loop, 2 ids, pool of 1, 2 priorities | calls return, timeouts are enforced, starts and stops complete |
| `PoolEvictFails` | 2 callers, pool of 1 | **violated**: `allocate_or_evict` fails although a victim exists |
| `PoolHungVm` | 1 caller, 1 VM | **violated**: a VM that takes no commands stops timeout enforcement for all |

Why these bounds are enough: two callers and the health loop give every pair of operations, and every pair
with a deallocation by the health check in addition; a third id gives a full pool, an eviction and a place that
is filled again; a channel of capacity one is full after one command. Pools of several VMs, with several
victims to choose from and several VMs to sweep, are covered by the proofs, which hold for every limit.

Fairness: every task takes its next step when it can (the executor runs ready tasks, the lock is fair,
`runtime.start` gives up after 60 s in `ContainerRuntime`, `runtime.stop` runs a command to its end), the
health loop calls `health_check` again and again (`service/src/lib.rs` 112-121), the clock advances.
`FairSpec` adds that a live VM takes its commands; `HungSpec` does not, and there `TimeoutEnforced` fails.

What `PoolEvictFails` shows has a sibling that no run shows: the victim is chosen under one guard and removed
under a later one, so it may be evicted from a pool that has room by then (`lib.rs` 527-554). `RemovalJustified`
states what does hold: the victim has a lower priority than the request.

### Log buffer

`lines`, `head`, `len` and the two branches of `push` and `tail` are those of the code; indices are 0-based
(`At`). `LastLines(n)` is `tail(n)`. Run `VmLogBuffer` (capacity 4, lines from a set of 3): the buffer implements
`LogTail`, and a shorter tail is the end of the longest.

### Event log

`append` is four actions, one per lock and one for the broadcast: `Number`, `Store`, `Keep` (log lines only),
`Publish`. Any number of appenders are somewhere in it; `held[a]` is the event each carries. `published` is the
order in which every subscriber gets events. Queries change nothing; what they return is `events` and `vm_logs`.

Because numbering and storing are under different locks, the numbers do not increase along the log or the
broadcast when two appends overlap, although `Event::seq` is documented as "Monotonic sequence number"
(`events.rs` 22). `overlapped` records the VMs for which two appends were under way at once; for all others
`VmOrder` says that the order of the numbers is kept. The pool's lifecycle appends of one VM never overlap with
each other (`Pool`, `LifecycleOrder`); a VM's forwarder appends concurrently with them.

Run `EventLogOrder`: 2 appenders, 2 VMs, 4 events, buffers of 2 lines. Four events are two full appends per
appender, so every overlap of two appends, followed by one more each; a buffer of two overflows.

### VM link

    pool -> queue -> bridge -> stdin -> supervisor
    event log <- forwarder <- outbox <- bridge <- inbox <- reader <- stdout <- supervisor

Each channel and pipe is a sequence with a capacity; what a task has taken and not passed on is a sequence of at
most one element (`writing`, `bridging`, `reading`, `forwarding`). The bridge waits for a command and for an event
at once (`Selecting`), but while it writes the one or sends the other it does nothing else; the supervisor
emits all events of a command before it reads the next. `Stop` and `DropEntry` are the part of `deallocate`
after the entry has left the map: `runtime.stop`, and then the command channel loses its only sender, which the
bridge notices when the channel is empty (`Drained`). A VM may die at any point.

The link may also fail under a VM that is alive. `send` may return an error (`WriteFails`: the command cannot be
serialized, or not be written), and the reader may (`ReadFails`: a read error, or a line that is not UTF-8; it drops
its end of stdout with what is in it). Either way the bridge leaves its loop without a `Shutdown`, closes stdin and gives
up what is in the command channel; the VM comes to the end of its input (`EndOfInput`), or its next output fails
(`EmitFails`). So a VM that exits has not always executed what was accepted: `ShutdownIsLast` says it of the one that
has read `Shutdown`, and `CommandsConserved`, `EventsConserved` and `AnswersArrive` hold until the bridge has left its
loop, the bridge has ended or the reader has failed. In all of these cases the order is kept and only the
last is lost (`ImplementsSession`), and everything ends (`LinkEnds`). What one side writes the other is taken to parse:
both skip a line that they cannot.

The model begins with the process and the reader spawned. The VM emits `Ready` when it has booted (`Boot`), which it
need not; `start` takes it and spawns the bridge (`StartOk`), or gives up: after 60 s, because the transport is
closed, or because the first event is another one (`StartFails`). It then drops the transport: the child is not
killed, its stdin is closed, and its `Ready` may still be on its way to an inbox without a receiver.

| run | instance | shows |
|---|---|---|
| `Link` | capacities 1, 3 commands of 1 to 4 events, at most 2 under way, `runtime.stop` kills or not | order, conservation, graceful shutdown, refinement of `VmSession`; commands are answered; VM and tasks end when the VM has exited or the reader has failed; a start given up leaves nothing behind once the VM has booted |
| `LinkJam` | 4 commands under way | **violated**: bridge, supervisor and reader wait for each other |
| `LinkDrop` | 1 command of up to 3 events, `runtime.stop` does nothing | **violated**: a deallocated VM that has more to say than its buffers hold never exits |

`Window` is the number of commands that clients keep under way. `AnswersArrive` holds up to `PipeCapacity` + 1 and
that is tight: with one more (and the other bounds of `Link`) TLC finds the jam of `LinkJam`. In the code a pipe
holds 64 KiB, so it takes many or long commands. `DeallocationEndsLink` holds wherever `runtime.stop` kills the VM:
the VM has then exited and the rest is `LinkEnds`.

Capacities of 1 suffice because what matters is full, empty and neither for the chain as a whole; each buffer
fills and drains independently of its neighbours, and with up to 12 events under way all are full at once.

Fairness: every task runs when it can, `start` is decided (after 60 s in `ContainerRuntime`; `SupervisorRuntime` has
no such limit, and with a VM that never boots `start` would hold the pool's write guard for ever), a VM that has
booted reads its input (`SupervisorStep`), a deallocation that has begun goes on (`DropEntry`). VMs need not boot,
exit or die, the pool need not send or deallocate, and what may fail need not: `WriteFails` is fair only when the VM has
exited (`BrokenPipe`), `ReadFails` never.

### Connection

    request() -> commands -> input -> read loop -> responses -> stream -> inbox -> request() or next_event()
    event log -> broadcast -> forwarder -> responses

`commands` is the client's command channel, `input` and `stream` the two directions of the socket, `responses` the
service's response channel, `inbox` the client's. The forwarder takes events in the order of the broadcast and
ends when it lags (`Lagged`, `AfterLag`). `taken` is the history of what the client took, and by which request.
`Response` is what each method of `Client` expects, and decides whether it succeeds with what it took. The client is
one task that makes requests, takes events with `next_event`, or is dropped at any point, also in the middle of a
request. A caller that gives up a `request()` and keeps the client, which leaves an answer behind as an event does, is not
modelled.

| run | instance | shows |
|---|---|---|
| `Connection` | capacities 1, broadcast of 2, 4 requests and 4 events, 7 in all (`MaxInputs`) | one answer per request, in order; events without gaps; requests matched until one has returned an event; a request returns, an event arrives and a client that is gone is served, unless too many requests are under way |
| `ConnectionMixup` | 2 calls of `allocate`, 1 event | **violated**: the second `allocate` returns the id of the first one's VM |

With 3 events the broadcast overflows (capacity 2).

The connection can jam. Each event that a request returns to its caller leaves an answer behind, so a client that makes
request after request while events arrive has more and more of them under way (`UnderWay`), and when both directions
are full nobody moves. The liveness properties say up to where this cannot happen, whatever the events:

* `RequestReturns`: a request returns if, when it is made, no more than `CommandCapacity` + `SocketCapacity` others are
  under way (not `Overloaded`). One more, and the client may wait for room in the command channel, its writer task for
  room in the socket, the read loop for room for its answer, the response writer for the client's reader, and that
  for the client. `EventsReach` has the same excuse, beside the lag.
* `GoneClientServed`: what a client that is gone has sent is handled, and the read loop ends, if no more than
  `SocketCapacity` + 1 requests are under way. One more, and the writer task waits for the read loop while it holds
  open the socket whose end would release it.

Both limits are tight. The run has states beyond them: without its condition, or with one request more, TLC finds
`GoneClientServed` violated by the run itself (3 requests and 4 events), and a client is `Overloaded` with 4 requests
and 3 events. That such a client never goes on takes 4 requests and 6 events, for which the state space is
too large for a liveness run; a search for the state alone finds it there, and with fewer of either it does not exist.
`RequestsUnjammed` proves for all capacities and numbers that up to the limits one of the tasks a request has to pass
can go on. In the code the channels hold 64 each and the socket many lines, so a jam takes a client that
hardly ever calls `next_event`.

Fairness: every task runs when it can; `handle_command` returns, as the pool's runs show; a client that makes no
request takes what is there (`NextEvent`).

### Snapshots and images

Both stores keep one JSON file per key and do the same with it; `MetadataFiles` has the steps they share. A call is
its file system operations with an await between each two (`at` says which comes next); the other callers run in
between, and `Crash` ends all calls and leaves the files. Metadata is a key and a body, written as as many pieces as
the number of the body, so that bodies differ in length: `tokio::fs::write` truncates (`Truncate`) and then writes from
the start (`Fill`, `Over`), and two writers at once may leave the end of the longer text behind the shorter one.
A failed write leaves a part. A file removed while it is open for writing takes the write with it.

`raced` is the history of the saves and deletes that overlapped a call. It is the only excuse the properties know:
`SaveKeeps`, `ReadsSound`, `DeleteClean` and `ListComplete` say what a call has done when it returns, whatever earlier
calls that failed or were cut short have left behind, unless another call on the same file overlapped it. `torn` is
the history of the files whose last write failed, was cut short or overlapped another; `WholeUnlessTorn` says
that all others are whole or being written.

Without an overlap the stores keep their word; with one they do not, and every excuse is needed: without them TLC
finds a `get` that fails on a file that was there all the time (it is empty while a save writes it), a `list`
that fails because of one deleted image, a `delete` that fails because another one was faster, a `restore` that
returns a path to nothing. After a crash in the middle of a save the old metadata is gone.

Run `Storage`: 2 callers, 1 snapshot name, 1 image reference, bodies of 1 and 2 pieces. Two callers are every
overlap of two calls; longer overlaps come from one long call (a `list`, a `delete`) during several short ones. A
second name would meet the first only in `list`, which reads the directory and then file after file: that it misses
none of several and invents none is left to the proof (`ListsComplete`, for any names and references). A read of a
file that is there is taken to succeed. The image store's `get` and the snapshot store's differ in
what they answer for a file they cannot read (`NotFound`, `Json`). Nothing in the code waits for another call, so
there is no liveness to check.

## 3. What is proved

### Pool

For every set of callers and ids, every limit, timeout and channel capacity (`PoolAssumption`):

* `TypeCorrect`, `LifecycleOrdered`, `LogMatchesMap`, `BorrowedEntriesStay` (`PoolProofs`);
* `PoolImplementsLifecycle` (`PoolLifecycleProofs`): every step of the pool is a step of `VmLifecycle` or
  changes no phase. The limit of the abstract specification is the guard of `Reserve`, so this includes that
  no allocation passes a full pool;
* `WithinLimit`, `BuffersLive`, `RemovalIsJustified`, `DeallocateAnswers` (`PoolLifecycleProofs`).

The properties are not inductive: that a `Ready` event cannot follow `Stopping` depends on who holds the lock
and on who owns the VM. The inductive invariant `IInv` has layers, each proved relative to those before it:
types and the shape of calls (`TypeOK`, `CallInv`); the lock (`LockInv`: the writer is the task in
`allocate`, the readers are the senders); ownership (`OwnInv`: no two tasks start or stop the same VM); and
histories (`StageInv`: what a task's position says of its VM's events and entry, `HistoryInv`: what a VM's
events say of the map and of the tasks). Three lemmas carry the step proofs: a step that touches no history is
harmless (`Quiet`), a step of the owner of a VM concerns that VM alone (`Owner`), and a task may take charge
of a VM nobody else has (`Acquire`).

`RemovalIsJustified` needs to know why a task wants a VM removed (`ChosenInv`: an eviction's victim had a lower
priority when it was chosen, and priorities do not change; a health check's VMs had timed out, and ages only
grow). `WithinLimit` goes through the abstract lifecycle: at most `MaxVms` VMs hold a place there
(`PlacesInv`), the VMs an observer counts hold one or are about to be reported as stopping (`ObservedVms`), and
no two tasks are about to report the same VM (`StoppingTasks`). `BuffersLive` ties each log buffer to the events of
its VM and to the owner that has yet to clean up (`BufferInv`). `DeallocateAnswers` says that an answer of Ok is the step
that ends the VM's buffer, and that a buffer that has ended is never there again (`BuffersEnd`): so only one caller
gets it.

### Log buffer

For every set of lines and every capacity above 0 (`CapacityAssumption`; the code makes buffers of 1000):
`TypeCorrect`, `BufferKeepsLastLines` (the circular buffer implements `LogTail`) and `ShortTailsAgree`. The
inductive invariant adds to the types that the vector's length is `len`, and that `head` is 0 until the buffer is
full; the proof describes the slot of the i-th oldest line (`Slot`) and shows that a push moves each line one
slot towards the oldest, with the modulo eliminated by a case distinction (`Wrap`).

### Event log

For every set of appenders and VMs (`LogAssumption`): `TypeCorrect`, `NumbersDense`, `BroadcastExact`, `VmOrderKept`,
`BuffersWithoutHoles`. The inductive invariant `Inv` adds what an appender in the middle of `append` holds (`HeldInv`)
and that, for a VM without overlapping appends, the one appender's event is newer than all that is stored or sent
about it (`NewestHeld`). For the buffers it says that what an appender holds is the newest of what it has stored
(`OwnNewest`), so that a push leaves no hole behind that appender's earlier lines (`PushFollows`), and a buffer that
is cut at the front or made again has none it had not before (`LastShifts`).

### VM link

For all capacities above 0, any number of commands and of events per command, and whatever `runtime.stop` does
(`LinkAssumption`): `LinkTypes`, `LinkEvents`, `LinkCommands`, `LinkShutdown` and `LinkImplementsSession`.

The inductive invariant `LinkInv` is proved in three parts on top of the types. `ControlInv` says which tasks and
parts of the link can be doing what at once. `CommandsInv` says that while the bridge is in its loop what lies between
`send_to_vm` and the supervisor is the commands accepted and not executed, in order (`Pending`), followed by `Shutdown`
once it has been taken up, and that `Shutdown` is taken up only when the channel has no sender; when the bridge has left
its loop, what the VM has yet to read is the first of them (`WrittenFirst`), or all of them and `Shutdown` (`Told`), so
that a VM that reads `Shutdown` has missed none. `EventsInv` says that what has left the bridge, or the reader while the
bridge goes on, is the first part of what was emitted (`Ahead`; `Lost` names the rest), which is what remains true when
the bridge has ended or the reader has failed, and that the rest is on its way while neither has. Every step of a task
moves an element from the front of one sequence to the end of the next (`MoveFirst`, `MoveAll`), which changes no concatenation. A step of the link
is then one of `VmSession`'s because the supervisor emits events of the command it executes (`Todo`), the first command
in the line is the next one (`InputFirst`), and the forwarder's event is the one that follows `logged` in `emitted`
(`LogsNext`).

### Connection

For all capacities above 0 and any number of requests and events (`ConnectionAssumption`): `ConnectionTypes`,
`AnswersOwn`, `OneAnswerEach`, `NoGaps` and `RequestsUnjammed`.

`AnswersFit` is not inductive: it needs that, until a request has returned an event, nothing but the one request of the waiting client is under way, in one of the channels before the service or in the form of the one answer
in those after it (`Flight`), and nothing at all while the client is not waiting. Moving an item along keeps the
number of answers (`Passing`); the steps at which a channel is emptied are those after which the client is gone
(`GoneInv`).

`RequestsConserved` and `EventsContiguous` are about the answers and the events among all that the client has taken or
will take, in this order (`Sequel`). They name the positions of the answers (of the events) and say that the numbers
found there ascend through a given set (`Ascending`), which a step leaves alone unless it sends an answer or an event:
only these two add to the sequel, at its end (`SequelNext`, `Ascends`). `RequestsInv` adds that the answers there
are those to requests 1 to n, and that what is before the responder is n + 1 to the last request sent;
`EventsInv` that the event in the forwarder's hand is the one it has taken last, so that the sequel has the events
taken before.

`RequestsUnjammed` needs of the invariant only the types and that the read loop ends when nothing is left to read
(`AllRead`); it is a count: where channel and socket are full and hold all that is under way, the read loop's hands are
empty.

### Snapshots and images

For any callers and names, any references (two of which may share a file) and metadata of any lengths above 0
(`FilesAssumption`, `ImagesAssumption`): `StorageTypes`, `FilesWhole`, `SavesKept`, `ReadsAreSound`, `DeletesClean` and
`ListsComplete`.

The properties speak of calls that return; the invariant `StorageInv` says what a call relies on before that. `Shape`
says where an operation may be, and on which files. `RacedInv` says that a call knows of every other save or delete
under way of its files, so that a step of another caller that changes them is in its `raced`. `Promise` says what
each operation has found or made so far and still has unless `raced` excuses it: a save that its file is open and
empty, a get that the file is there, a delete that the metadata is gone and the state file still there, a list that
each whole file is still to be read or has been, and that what it has found is in a file. `TornInv` says that a file
that is not torn is whole without writers, or empty with one: what that one writes is then whole, and what two
write is torn by definition. `Changes` says which files a step changes; the lemma `Kept` that all others keep their promises
under it, for all steps at once. What is left is a lemma per step for the caller's own promise, and what it returns.

### Only model-checked

Liveness, because fairness and ENABLED are out of the prover's reach: `EveryCallReturns`, `TimeoutEnforced` and
`ImplementsFairLifecycle` of the pool, `AnswersArrive` and `LinkEnds` of the link, `RequestReturns`, `EventsReach` and
`GoneClientServed` of the connection. Every other property that a passing run checks is a theorem.

## 4. Plan

Done: the pool and its lifecycle, the log buffer, the event log, the link to a VM from its start on, the connection,
the snapshot and image stores.

Next, in this order:

1. Compositions: the pool with the event log's append steps, several connections over one pool.

Not modelled: argument parsing and mains, JSON encoding (its correctness is serde's), logging, the
sorting of lists by time, the accept loop, the reaction of a VM to Ping, which nothing sends.
