------------------------------- MODULE LogTail -------------------------------
(***************************************************************************)
(* What a VM's log buffer promises: it keeps the last Capacity lines that  *)
(* were written to it, in order.                                           *)
(***************************************************************************)
EXTENDS Naturals, Sequences

CONSTANTS Lines,     \* the lines that may be written
          Capacity   \* how many are kept

VARIABLE kept

LastN(s, n) == IF n >= Len(s) THEN s ELSE SubSeq(s, Len(s) - n + 1, Len(s))

Init == kept = <<>>

Write(line) == kept' = LastN(Append(kept, line), Capacity)

Next == \E line \in Lines : Write(line)

Spec == Init /\ [][Next]_kept
=============================================================================
