------------------------------ MODULE VmSession ------------------------------
(***************************************************************************)
(* What the link between the pool and a VM promises: the commands the pool *)
(* accepts are executed in order, each at most once, and the event log     *)
(* gets the events the VM emits in order, each at most once.  When the     *)
(* session ends, the last commands and events may be lost.                 *)
(***************************************************************************)
EXTENDS Naturals, Sequences

CONSTANT MaxCommands   \* bound: commands in all

VARIABLES accepted,   \* commands accepted so far; they are numbered from 1
          executed,   \* commands the VM has begun to execute
          emitted,    \* the events it has emitted
          logged      \* the events in the event log

\* A VM's event belongs to the command it executes; its Shutdown event to none.
Event == [cmd : 0 .. MaxCommands, last : BOOLEAN]

Init ==
    /\ accepted = 0
    /\ executed = 0
    /\ emitted = <<>>
    /\ logged = <<>>

Accept ==
    /\ accepted < MaxCommands
    /\ accepted' = accepted + 1
    /\ UNCHANGED <<executed, emitted, logged>>

Execute ==
    /\ executed < accepted
    /\ executed' = executed + 1
    /\ UNCHANGED <<accepted, emitted, logged>>

Emit(e) ==
    /\ e.cmd \in {0, executed}
    /\ emitted' = Append(emitted, e)
    /\ UNCHANGED <<accepted, executed, logged>>

Log ==
    /\ Len(logged) < Len(emitted)
    /\ logged' = Append(logged, emitted[Len(logged) + 1])
    /\ UNCHANGED <<accepted, executed, emitted>>

Next ==
    \/ Accept
    \/ Execute
    \/ \E e \in Event : Emit(e)
    \/ Log

Spec == Init /\ [][Next]_<<accepted, executed, emitted, logged>>
=============================================================================
