------------------------------ MODULE EventLog ------------------------------
(***************************************************************************)
(* The event log (crates/pool/src/events.rs, struct EventLog) under        *)
(* concurrent appenders: the pool's calls and one forwarder per VM.        *)
(*                                                                         *)
(* append() takes three locks one after the other and then broadcasts:     *)
(* numbering an event, storing it, keeping its line in the VM's log buffer *)
(* and broadcasting it are four steps, and other appenders run in between. *)
(*                                                                         *)
(* A log buffer is modelled by what module VmLogBuffer is shown to         *)
(* implement: the last BufferCapacity lines.  `published' is the sequence  *)
(* of events the broadcast channel has been given, which is the order in   *)
(* which every subscriber gets them.  Timestamps are left out, and of an   *)
(* event's contents only its VM and whether it is a log line are kept.     *)
(*                                                                         *)
(* An operator whose name starts with Bug is a wrong form of the operator  *)
(* after it, used to show that a property notices the mistake.             *)
(***************************************************************************)
EXTENDS Naturals, Sequences

CONSTANTS Appenders,       \* tasks that append events
          VmIds,           \* VMs that events are about
          MaxEvents,       \* bound: events appended in all
          BufferCapacity   \* lines kept per VM; 1000 in the code

ASSUME LogAssumption ==
    /\ MaxEvents \in Nat
    /\ BufferCapacity \in Nat \ {0}

VARIABLES
    next_seq,    \* EventLog::next_seq
    events,      \* EventLog::events
    vm_logs,     \* EventLog::vm_logs, from a VM to the lines kept
    published,   \* what has been broadcast
    stage,       \* where each appender is in append()
    held,        \* the event each appender has numbered and not yet published
    overlapped   \* history: VMs that two appends have been about at once

vars == <<next_seq, events, vm_logs, published, stage, held, overlapped>>

Event == [seq : Nat, vm : VmIds, line : BOOLEAN, by : Appenders]

Stages == {"idle", "store", "keep", "publish"}

Appending == {a \in Appenders : stage[a] # "idle"}

TypeOK ==
    /\ next_seq \in Nat
    /\ events \in Seq(Event)
    /\ DOMAIN vm_logs \subseteq VmIds
    /\ vm_logs \in [DOMAIN vm_logs -> Seq(Event)]
    /\ published \in Seq(Event)
    /\ stage \in [Appenders -> Stages]
    /\ DOMAIN held = Appending
    /\ held \in [DOMAIN held -> Event]
    /\ overlapped \subseteq VmIds

Init ==
    /\ next_seq = 0
    /\ events = <<>>
    /\ vm_logs = [v \in {} |-> <<>>]
    /\ published = <<>>
    /\ stage = [a \in Appenders |-> "idle"]
    /\ held = [a \in {} |-> <<>>]
    /\ overlapped = {}

Goto(a, s) == stage' = [stage EXCEPT ![a] = s]

-----------------------------------------------------------------------------
(* append() *)

BugNextSeq == next_seq
NextSeq == next_seq + 1

\* Under the lock of next_seq.
Number(a, v, line) ==
    /\ stage[a] = "idle" /\ next_seq < MaxEvents
    /\ next_seq' = NextSeq
    /\ held' = [b \in Appending \cup {a} |->
                   IF b = a THEN [seq |-> next_seq, vm |-> v, line |-> line, by |-> a]
                            ELSE held[b]]
    /\ overlapped' = IF \E b \in Appending : held[b].vm = v
                     THEN overlapped \cup {v} ELSE overlapped
    /\ Goto(a, "store")
    /\ UNCHANGED <<events, vm_logs, published>>

\* Under the lock of events.  Only log lines go to a log buffer.
BugPushed(a) == <<held[a]>> \o events
Pushed(a) == Append(events, held[a])

Store(a) ==
    /\ stage[a] = "store"
    /\ events' = Pushed(a)
    /\ Goto(a, IF held[a].line THEN "keep" ELSE "publish")
    /\ UNCHANGED <<next_seq, vm_logs, published, held, overlapped>>

\* Under the lock of vm_logs: the VM's buffer, made if there is none.
Lines(v) == IF v \in DOMAIN vm_logs THEN vm_logs[v] ELSE <<>>

BugLast(s) == IF Len(s) > BufferCapacity THEN SubSeq(s, 1, BufferCapacity) ELSE s
Last(s) ==
    IF Len(s) > BufferCapacity THEN SubSeq(s, Len(s) - BufferCapacity + 1, Len(s)) ELSE s

Keep(a) ==
    LET e == held[a] IN
    /\ stage[a] = "keep"
    /\ vm_logs' = [v \in DOMAIN vm_logs \cup {e.vm} |->
                      IF v = e.vm THEN Last(Append(Lines(v), e)) ELSE vm_logs[v]]
    /\ Goto(a, "publish")
    /\ UNCHANGED <<next_seq, events, published, held, overlapped>>

\* The broadcast; append() returns.
BugMayPublish(a) == stage[a] \in {"store", "publish"}
MayPublish(a) == stage[a] = "publish"

BugReleased(a) == held
Released(a) == [b \in Appending \ {a} |-> held[b]]

Publish(a) ==
    /\ MayPublish(a)
    /\ published' = Append(published, held[a])
    /\ held' = Released(a)
    /\ Goto(a, "idle")
    /\ UNCHANGED <<next_seq, events, vm_logs, overlapped>>

-----------------------------------------------------------------------------
(* init_vm() and cleanup_vm(). *)

\* The pool makes a buffer for a VM it has just named.
InitVm(v) ==
    /\ v \notin DOMAIN vm_logs
    /\ \A i \in DOMAIN events : events[i].vm # v
    /\ \A a \in Appending : held[a].vm # v
    /\ vm_logs' = [w \in DOMAIN vm_logs \cup {v} |-> Lines(w)]
    /\ UNCHANGED <<next_seq, events, published, stage, held, overlapped>>

\* An appender that keeps a line of v after this makes a new buffer.
CleanupVm(v) ==
    /\ vm_logs' = [w \in DOMAIN vm_logs \ {v} |-> vm_logs[w]]
    /\ UNCHANGED <<next_seq, events, published, stage, held, overlapped>>

-----------------------------------------------------------------------------
Next ==
    \/ \E a \in Appenders :
        \/ \E v \in VmIds, line \in BOOLEAN : Number(a, v, line)
        \/ Store(a)
        \/ Keep(a)
        \/ Publish(a)
    \/ \E v \in VmIds : InitVm(v) \/ CleanupVm(v)

Spec == Init /\ [][Next]_vars

-----------------------------------------------------------------------------
(* Properties *)

Stored == {events[i] : i \in DOMAIN events}
Sent == {published[i] : i \in DOMAIN published}
At(stages) == {a \in Appenders : stage[a] \in stages}

\* Numbers are dense and unique: each number below next_seq belongs to one
\* event, which is stored or held by an appender that is about to store it.
SeqDense ==
    /\ \A i, j \in DOMAIN events : events[i].seq = events[j].seq => i = j
    /\ \A a, b \in At({"store"}) : held[a].seq = held[b].seq => a = b
    /\ \A a \in At({"store"}) : \A e \in Stored : e.seq # held[a].seq
    /\ {e.seq : e \in Stored} \cup {held[a].seq : a \in At({"store"})} = 0 .. next_seq - 1

\* Subscribers get every event exactly once and never before it is stored, so
\* what a subscriber has seen a query finds too: once no append is under
\* way, the broadcast and the log hold the same events.
PublishedOnce ==
    /\ \A i, j \in DOMAIN published : published[i].seq = published[j].seq => i = j
    /\ Sent = Stored \ {held[a] : a \in At({"keep", "publish"})}

InOrderAbout(s, v) ==
    \A i, j \in DOMAIN s : i < j /\ s[i].vm = v /\ s[j].vm = v => s[i].seq < s[j].seq

\* While the appends about a VM come one after the other, as those of its
\* lifecycle do, for_vm() and every subscriber get them in the order of their
\* numbers, whatever is appended about other VMs meanwhile.  Across VMs the
\* order of the log is not that of the numbers.
VmOrder ==
    \A v \in VmIds \ overlapped : InOrderAbout(events, v) /\ InOrderAbout(published, v)

\* A log buffer has no holes: with a line it has every later line of the same
\* appender that has been kept, so a tail skips nothing its writer wrote.
NoHoles ==
    \A v \in DOMAIN vm_logs : \A i \in DOMAIN vm_logs[v] : \A e \in Stored :
        /\ e.vm = v /\ e.line
        /\ e.by = vm_logs[v][i].by
        /\ e.seq > vm_logs[v][i].seq
        /\ \A a \in At({"keep"}) : held[a] # e
        => \E j \in DOMAIN vm_logs[v] : j > i /\ vm_logs[v][j] = e
=============================================================================
