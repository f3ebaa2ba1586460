------------------------------- MODULE VmLink -------------------------------
(***************************************************************************)
(* The link between the pool and one VM, from the start of the VM on: the  *)
(* chain of bounded channels and pipes, and the tasks between them         *)
(* (crates/pool/src/lib.rs: start() and the bridge task of the runtimes,   *)
(* forward_vm_events; transport.rs; crates/supervisor/src/lib.rs:          *)
(* run_supervisor).                                                        *)
(*                                                                         *)
(*    pool -> queue -> bridge -> stdin -> supervisor                       *)
(*    event log <- forwarder <- outbox <- bridge <- inbox                  *)
(*                                  inbox <- reader <- stdout <- supervisor*)
(*                                                                         *)
(* What a task has taken and not yet passed on is a sequence of at most    *)
(* one element: `writing', `bridging', `reading', `forwarding'.  A line is *)
(* written to a pipe in one step, and a pipe holds PipeCapacity lines.     *)
(* The model begins when the VM's process and the reader task have been    *)
(* spawned.  Commands are their numbers; the events of a command are what  *)
(* the handler returned for it.                                            *)
(*                                                                         *)
(* An operator whose name starts with Bug is a wrong form of the operator  *)
(* after it, used to show that a property notices the mistake.             *)
(***************************************************************************)
EXTENDS Naturals, Sequences

CONSTANTS QueueCapacity,   \* of the command channel; 64 in the code
          PipeCapacity,    \* of stdin and stdout, in lines; 64 KiB in Linux
          InboxCapacity,   \* of the transport's channel; 64
          OutboxCapacity,  \* of the event channel; 64
          MaxCommands,     \* bound: commands in all
          MaxOutput,       \* bound: events a command's handler returns; 3 for a shell
          Window,          \* commands clients keep under way; MaxCommands: any number
          StopKills        \* whether runtime.stop may kill the VM: {TRUE} or {FALSE} or both

Shutdown == 0
ShutdownEvent == [cmd |-> 0, last |-> TRUE]
Ready == [cmd |-> 0, last |-> FALSE]

ASSUME LinkAssumption ==
    /\ {QueueCapacity, PipeCapacity, InboxCapacity, OutboxCapacity} \subseteq Nat \ {0}
    /\ {MaxCommands, MaxOutput, Window} \subseteq Nat
    /\ StopKills \in (SUBSET BOOLEAN) \ {{}}

VARIABLES
    entry,        \* the VM in the pool: "starting", "failed", "up", "stopping" or "gone"
    queue,        \* the command channel
    bridge,       \* the bridge task: "none", "loop", "closing" or "done"
    writing,      \* the command it is writing to stdin
    bridging,     \* the event it is sending to the outbox
    stdin,        \* the VM's standard input
    vm,           \* the VM's process: "boots", "runs", "exiting" (told to) or "exited"
    todo,         \* the events the supervisor has yet to emit
    stdout,       \* the VM's standard output
    reader,       \* the reader task: "runs", "done" or "failed", after a read error
    reading,      \* the event it is sending to the inbox
    inbox,        \* the transport's event channel
    outbox,       \* the event channel of the VM's handle
    forwarder,    \* the forwarder task: "none", "runs" or "done"
    forwarding,   \* the event it is appending to the event log
    accepted, executed, emitted, logged   \* history, as in VmSession

up == <<queue, writing, stdin>>
down == <<stdout, reading, inbox, bridging, outbox, forwarding>>
states == <<entry, bridge, vm, reader, forwarder>>
history == <<accepted, executed, emitted, logged>>
vars == <<up, down, todo, states, history>>

Command == Shutdown .. MaxCommands
Event == [cmd : Command, last : BOOLEAN]

TypeOK ==
    /\ entry \in {"starting", "failed", "up", "stopping", "gone"}
    /\ bridge \in {"none", "loop", "closing", "done"}
    /\ vm \in {"boots", "runs", "exiting", "exited"}
    /\ reader \in {"runs", "done", "failed"}
    /\ forwarder \in {"none", "runs", "done"}
    /\ {queue, writing, stdin} \subseteq Seq(Command)
    /\ {stdout, reading, inbox, bridging, outbox, forwarding} \subseteq Seq(Event)
    /\ {todo, emitted, logged} \subseteq Seq(Event)
    /\ Len(queue) <= QueueCapacity
    /\ {Len(stdin), Len(stdout)} \subseteq 0 .. PipeCapacity
    /\ Len(inbox) <= InboxCapacity
    /\ Len(outbox) <= OutboxCapacity
    /\ {Len(writing), Len(reading), Len(bridging), Len(forwarding)} \subseteq {0, 1}
    /\ {accepted, executed} \subseteq 0 .. MaxCommands

Init ==
    /\ entry = "starting" /\ bridge = "none" /\ vm = "boots"
    /\ reader = "runs" /\ forwarder = "none"
    /\ queue = <<>> /\ writing = <<>> /\ stdin = <<>> /\ todo = <<>>
    /\ stdout = <<>> /\ reading = <<>> /\ inbox = <<>>
    /\ bridging = <<>> /\ outbox = <<>> /\ forwarding = <<>>
    /\ accepted = 0 /\ executed = 0 /\ emitted = <<>> /\ logged = <<>>

-----------------------------------------------------------------------------
(* start(): it waits for the VM's first event.  When it gives up it drops   *)
(* the transport: stdin is closed and the inbox has no receiver any more,   *)
(* but nobody kills the VM.                                                 *)

StartOk ==
    /\ entry = "starting" /\ inbox # <<>>
    /\ entry' = "up" /\ bridge' = "loop" /\ forwarder' = "runs"
    /\ inbox' = Tail(inbox)
    /\ UNCHANGED <<up, stdout, reading, bridging, outbox, forwarding, todo, vm, reader, history>>

\* The transport is closed before Ready; or no Ready comes in time, or another
\* event instead.
StartFails ==
    /\ entry = "starting"
    /\ entry' = "failed"
    /\ inbox' = <<>>
    /\ UNCHANGED <<up, stdout, reading, bridging, outbox, forwarding, todo, bridge, vm, reader,
                   forwarder, history>>

StartStep == StartOk \/ StartFails

-----------------------------------------------------------------------------
(* The pool. *)

\* The commands whose last event is in the event log.
Answered == Len(SelectSeq(logged, LAMBDA e : e.cmd # 0 /\ e.last))

\* send_to_vm() puts a command into the channel.  Its receiver is dropped
\* when the bridge task ends, not when it leaves its loop.
Accept ==
    /\ entry = "up" /\ bridge # "done"
    /\ accepted < MaxCommands
    /\ accepted - Answered < Window
    /\ Len(queue) < QueueCapacity
    /\ accepted' = accepted + 1
    /\ queue' = Append(queue, accepted + 1)
    /\ UNCHANGED <<writing, stdin, down, todo, states, executed, emitted, logged>>

\* The process is gone, with what it had not read and not emitted.
Dead == vm' = "exited" /\ stdin' = <<>> /\ todo' = <<>>

\* runtime.stop.  ContainerRuntime runs `container stop', which kills the VM
\* unless it fails; SupervisorRuntime does nothing.
StopVm == \E kills \in StopKills : IF kills THEN Dead ELSE UNCHANGED <<vm, stdin, todo>>

\* deallocate(): the entry has left the map, runtime.stop is called ...
Stop ==
    /\ entry = "up"
    /\ entry' = "stopping"
    /\ StopVm
    /\ UNCHANGED <<queue, writing, down, bridge, reader, forwarder, history>>

\* ... and the entry is dropped: the command channel has no sender any more.
DropEntry ==
    /\ entry = "stopping"
    /\ entry' = "gone"
    /\ UNCHANGED <<up, down, todo, bridge, vm, reader, forwarder, history>>

-----------------------------------------------------------------------------
(* The bridge task.  It waits for a command and for an event at once, but   *)
(* while it writes the one or sends on the other it does nothing else.      *)

BugSelecting == bridge = "loop" /\ bridging = <<>>
Selecting == bridge = "loop" /\ writing = <<>> /\ bridging = <<>>

TakeCommand ==
    /\ Selecting /\ queue # <<>>
    /\ writing' = <<Head(queue)>>
    /\ queue' = Tail(queue)
    /\ UNCHANGED <<stdin, down, todo, states, history>>

\* The channel is closed, and recv() has returned all that was in it.
BugDrained == entry = "gone"
Drained == entry = "gone" /\ queue = <<>>

TakeShutdown ==
    /\ Selecting /\ Drained
    /\ writing' = <<Shutdown>>
    /\ UNCHANGED <<queue, stdin, down, todo, states, history>>

\* After Shutdown the task leaves its loop and drops stdin.
Write ==
    /\ writing # <<>> /\ vm # "exited"
    /\ Len(stdin) < PipeCapacity
    /\ stdin' = stdin \o writing
    /\ writing' = <<>>
    /\ bridge' = IF writing = <<Shutdown>> THEN "closing" ELSE "loop"
    /\ UNCHANGED <<queue, down, todo, entry, vm, reader, forwarder, history>>

\* send() returns an error: the command cannot be serialized, or not be written.
\* What is left in the command channel will not be sent any more, be the VM alive
\* or not.
WriteFails ==
    /\ writing # <<>>
    /\ writing' = <<>>
    /\ bridge' = "closing"
    /\ UNCHANGED <<queue, stdin, down, todo, entry, vm, reader, forwarder, history>>

BrokenPipe == vm = "exited" /\ WriteFails

TakeEvent ==
    /\ Selecting /\ inbox # <<>>
    /\ bridging' = <<Head(inbox)>>
    /\ inbox' = Tail(inbox)
    /\ UNCHANGED <<up, stdout, reading, outbox, forwarding, todo, states, history>>

SendEvent ==
    /\ bridging # <<>>
    /\ Len(outbox) < OutboxCapacity
    /\ outbox' = outbox \o bridging
    /\ bridging' = <<>>
    /\ UNCHANGED <<up, stdout, reading, inbox, forwarding, todo, states, history>>

\* The reader has ended: also when it is the reader that has failed, and not the VM.
TransportClosed ==
    /\ Selecting /\ inbox = <<>> /\ reader # "runs"
    /\ bridge' = "closing"
    /\ UNCHANGED <<up, down, todo, entry, vm, reader, forwarder, history>>

\* transport.close(): the VM has exited.  The task ends; what is left in its
\* channels is dropped with them.
Closed ==
    /\ bridge = "closing" /\ vm = "exited"
    /\ bridge' = "done"
    /\ queue' = <<>> /\ inbox' = <<>>
    /\ UNCHANGED <<writing, stdin, stdout, reading, bridging, outbox, forwarding, todo,
                   entry, vm, reader, forwarder, history>>

BridgeStep ==
    \/ TakeCommand
    \/ TakeShutdown
    \/ Write
    \/ BrokenPipe
    \/ TakeEvent
    \/ SendEvent
    \/ TransportClosed
    \/ Closed

-----------------------------------------------------------------------------
(* The reader task of the transport. *)

Read ==
    /\ reader = "runs" /\ reading = <<>> /\ stdout # <<>>
    /\ reading' = <<Head(stdout)>>
    /\ stdout' = Tail(stdout)
    /\ UNCHANGED <<up, inbox, bridging, outbox, forwarding, todo, states, history>>

BugUnbounded == inbox' = inbox \o reading
BugDelivers == inbox' = IF Len(inbox) < InboxCapacity THEN inbox \o reading ELSE inbox
Delivers == Len(inbox) < InboxCapacity /\ inbox' = inbox \o reading

\* start() or the bridge task has the receiving end.
Listening == bridge # "done" /\ entry # "failed"

Deliver ==
    /\ reading # <<>> /\ Listening
    /\ Delivers
    /\ reading' = <<>>
    /\ UNCHANGED <<up, stdout, bridging, outbox, forwarding, todo, states, history>>

EndOfFile == stdout = <<>> /\ vm = "exited"

\* The receiver is gone, or the VM has closed its output.
ReaderEnds ==
    /\ reader = "runs"
    /\ \/ reading # <<>> /\ ~Listening
       \/ reading = <<>> /\ EndOfFile
    /\ reader' = "done"
    /\ reading' = <<>>
    /\ UNCHANGED <<up, stdout, inbox, bridging, outbox, forwarding, todo,
                   entry, bridge, vm, forwarder, history>>

ReaderStep == Read \/ Deliver \/ ReaderEnds

\* A read error, or a line that is not UTF-8: the reader drops the VM's output,
\* with what is in the pipe.
ReadFails ==
    /\ reader = "runs" /\ reading = <<>>
    /\ reader' = "failed"
    /\ stdout' = <<>>
    /\ UNCHANGED <<up, reading, inbox, bridging, outbox, forwarding, todo,
                   entry, bridge, vm, forwarder, history>>

-----------------------------------------------------------------------------
(* The supervisor: run_supervisor handles one command after the other and   *)
(* emits all its events before it reads the next.                           *)

\* A supervisor that cannot emit Ready, because the reader has failed, exits: VmDies.
Boot ==
    /\ vm = "boots" /\ reader = "runs"
    /\ vm' = "runs"
    /\ stdout' = Append(stdout, Ready)
    /\ UNCHANGED <<up, reading, inbox, bridging, outbox, forwarding, todo, entry, bridge, reader,
                   forwarder, history>>

Output(c, n) == [i \in 1 .. n |-> [cmd |-> c, last |-> i = n]]

Execute ==
    /\ vm = "runs" /\ todo = <<>>
    /\ stdin # <<>> /\ Head(stdin) # Shutdown
    /\ stdin' = Tail(stdin)
    /\ executed' = executed + 1
    /\ \E n \in 1 .. MaxOutput : todo' = Output(Head(stdin), n)
    /\ UNCHANGED <<queue, writing, down, states, accepted, emitted, logged>>

ShutDown ==
    /\ vm = "runs" /\ todo = <<>>
    /\ stdin # <<>> /\ Head(stdin) = Shutdown
    /\ stdin' = Tail(stdin)
    /\ todo' = <<ShutdownEvent>>
    /\ vm' = "exiting"
    /\ UNCHANGED <<queue, writing, down, entry, bridge, reader, forwarder, history>>

\* emit_event: blocks while the pipe is full ...
Emit ==
    /\ todo # <<>> /\ reader = "runs"
    /\ Len(stdout) < PipeCapacity
    /\ stdout' = Append(stdout, Head(todo))
    /\ emitted' = Append(emitted, Head(todo))
    /\ todo' = Tail(todo)
    /\ UNCHANGED <<up, reading, inbox, bridging, outbox, forwarding, states,
                   accepted, executed, logged>>

\* ... and fails when nobody reads it any more, which ends the supervisor.
EmitFails ==
    /\ todo # <<>> /\ reader # "runs"
    /\ Dead
    /\ UNCHANGED <<queue, writing, down, entry, bridge, reader, forwarder, history>>

\* The end of its input: its start was given up, or the bridge has left its loop
\* without a Shutdown.
BugStdinClosed == FALSE
StdinClosed == entry = "failed" \/ bridge \in {"closing", "done"}

EndOfInput ==
    /\ vm = "runs" /\ todo = <<>> /\ stdin = <<>>
    /\ StdinClosed
    /\ Dead
    /\ UNCHANGED <<queue, writing, down, entry, bridge, reader, forwarder, history>>

Exit ==
    /\ todo = <<>> /\ vm = "exiting"
    /\ Dead
    /\ UNCHANGED <<queue, writing, down, entry, bridge, reader, forwarder, history>>

SupervisorStep == Execute \/ ShutDown \/ Emit \/ EmitFails \/ EndOfInput \/ Exit

-----------------------------------------------------------------------------
(* forward_vm_events *)

Forward ==
    /\ forwarding = <<>> /\ outbox # <<>>
    /\ forwarding' = <<Head(outbox)>>
    /\ outbox' = Tail(outbox)
    /\ UNCHANGED <<up, stdout, reading, inbox, bridging, todo, states, history>>

AppendToLog ==
    /\ forwarding # <<>>
    /\ logged' = logged \o forwarding
    /\ forwarding' = <<>>
    /\ UNCHANGED <<up, stdout, reading, inbox, bridging, outbox, todo, states,
                   accepted, executed, emitted>>

ForwarderEnds ==
    /\ forwarder = "runs" /\ forwarding = <<>> /\ outbox = <<>> /\ bridge = "done"
    /\ forwarder' = "done"
    /\ UNCHANGED <<up, down, todo, entry, bridge, vm, reader, history>>

ForwarderStep == Forward \/ AppendToLog \/ ForwarderEnds

-----------------------------------------------------------------------------
\* The VM crashes, its supervisor gives up on an error, or it is killed from outside.
VmDies ==
    /\ vm # "exited"
    /\ Dead
    /\ UNCHANGED <<queue, writing, down, entry, bridge, reader, forwarder, history>>

Next ==
    \/ StartStep
    \/ Boot
    \/ Accept
    \/ Stop
    \/ DropEntry
    \/ BridgeStep
    \/ ReaderStep
    \/ SupervisorStep
    \/ ForwarderStep
    \/ WriteFails
    \/ ReadFails
    \/ VmDies

Spec == Init /\ [][Next]_vars

\* Every task runs when it can, a VM that has booted and is alive reads its
\* input, start() waits for 60 s at most, and a deallocation that has begun goes
\* on.  A VM need not boot, and what fails need not fail: WriteFails and
\* ReadFails are not fair.
FairSpec ==
    /\ Spec
    /\ WF_vars(StartStep)
    /\ WF_vars(BridgeStep)
    /\ WF_vars(ReaderStep)
    /\ WF_vars(SupervisorStep)
    /\ WF_vars(ForwarderStep)
    /\ WF_vars(DropEntry)

-----------------------------------------------------------------------------
(* Properties *)

\* The link implements VmSession: whatever is lost when a session ends is
\* the last of what was on its way.
Session == INSTANCE VmSession
ImplementsSession == Session!Spec

\* Until the bridge task ends or the reader fails no event is lost or overtaken:
\* what the VM has emitted since Ready is in the log or on its way there, in order.
EventsConserved ==
    bridge \in {"loop", "closing"} /\ reader # "failed" =>
        emitted = logged \o forwarding \o outbox \o bridging \o inbox \o reading \o stdout

\* While VM and bridge run no command is lost or overtaken.
CommandsConserved ==
    bridge = "loop" /\ vm # "exited" =>
        stdin \o writing \o queue = SubSeq([i \in 1 .. MaxCommands |-> i], executed + 1, accepted)
            \o (IF writing = <<Shutdown>> THEN <<Shutdown>> ELSE <<>>)

\* A graceful shutdown comes after everything else: a VM that has read
\* Shutdown has executed every command the pool accepted for it, and none will
\* follow.  A VM that only finds its input closed may have missed some: the
\* bridge leaves its loop without a Shutdown when send() or the reader fails.
ShutdownIsLast ==
    vm = "exiting" => executed = accepted /\ entry = "gone" /\ stdin \o writing \o queue = <<>>

TasksEnded ==
    /\ entry # "starting"
    /\ bridge \in {"none", "done"} /\ reader # "runs" /\ forwarder \in {"none", "done"}

\* When the VM has exited, however it did, its start is decided and the tasks of
\* its link end: none of them waits for ever for a channel or a pipe.  A start
\* that has failed leaves nothing behind once the VM has booted, be it after
\* start() has given up: the VM exits and the reader ends.  The same when the
\* reader fails under a VM that is alive and may be writing to it.
LinkEnds ==
    (vm = "exited" \/ (vm # "boots" /\ (entry = "failed" \/ reader = "failed")))
        ~> (vm = "exited" /\ TasksEnded)

\* Every command that is accepted is answered by its events in the log,
\* unless its VM is deallocated, or dies, or its link fails, first: the bridge
\* has left its loop.
AnswersArrive ==
    \A c \in 1 .. MaxCommands :
        accepted >= c ~> (Answered >= c \/ entry # "up" \/ vm = "exited" \/ bridge # "loop")

\* A deallocated VM exits and its tasks end.  Where runtime.stop kills the VM
\* this is LinkEnds; SupervisorRuntime::stop leaves it to the Shutdown
\* command: "channel drop handles shutdown".
DeallocationEndsLink == entry = "gone" ~> vm = "exited" /\ TasksEnded
=============================================================================
