----------------------------- MODULE VmLogBuffer -----------------------------
(***************************************************************************)
(* The circular buffer that holds a VM's last log lines                    *)
(* (crates/pool/src/events.rs, struct VmLogBuffer): a vector that grows to *)
(* Capacity, and from then on is overwritten from `head', its oldest line. *)
(* Indices into the vector are kept 0-based, as in the code.               *)
(*                                                                         *)
(* An operator whose name starts with Bug is a wrong form of the operator  *)
(* after it, used to show that a property notices the mistake.             *)
(***************************************************************************)
EXTENDS Integers, Sequences

CONSTANTS Lines,     \* the lines that may be written
          Capacity   \* VmLogBuffer::capacity; the event log uses 1000

\* push() on a buffer of capacity 0 would index an empty vector.
ASSUME CapacityAssumption == Capacity \in Nat \ {0}

VARIABLES lines, head, len

vars == <<lines, head, len>>

TypeOK ==
    /\ lines \in Seq(Lines)
    /\ head \in 0 .. Capacity - 1
    /\ len \in 0 .. Capacity

Init ==
    /\ lines = <<>>
    /\ head = 0
    /\ len = 0

At(i) == lines[i + 1]

PushGrowing(line) ==
    /\ len < Capacity
    /\ lines' = Append(lines, line)
    /\ len' = len + 1
    /\ UNCHANGED head

BugAdvanced == head
BugUnwrapped == head + 1
Advanced == (head + 1) % Capacity

PushFull(line) ==
    /\ len >= Capacity
    /\ lines' = [lines EXCEPT ![head + 1] = line]
    /\ head' = Advanced
    /\ UNCHANGED len

Push(line) == PushGrowing(line) \/ PushFull(line)

\* tail(n): the last n lines, oldest first.
BugStart(n) == head
Start(n) == (head + Capacity - n) % Capacity

TailOf(n) ==
    IF len < Capacity
    THEN SubSeq(lines, len - n + 1, len)
    ELSE [i \in 1 .. n |-> At((Start(n) + i - 1) % Capacity)]

LastLines(n) == TailOf(IF n < len THEN n ELSE len)

Next == \E line \in Lines : Push(line)

Spec == Init /\ [][Next]_vars

-----------------------------------------------------------------------------
\* The buffer implements LogTail, where what it keeps is all that tail() can
\* return: at every fill level and write position these are the last lines
\* written, none lost, repeated or out of order.
Kept == INSTANCE LogTail WITH kept <- LastLines(Capacity)

KeepsLastLines == Kept!Spec

\* A shorter tail is the end of a longer one; a longer one than there is
\* returns all there is.
ShortTails ==
    \A n \in 0 .. Capacity + 1 : LastLines(n) = Kept!LastN(LastLines(Capacity), n)
=============================================================================
