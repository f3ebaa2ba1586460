----------------------------- MODULE MCEventLog -----------------------------
(* Instances of EventLog for TLC. *)
EXTENDS EventLog, TLC

\* No property or action names an appender or a VM.
Symmetric == Permutations(Appenders) \cup Permutations(VmIds)
=============================================================================
