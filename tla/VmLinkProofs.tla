---------------------------- MODULE VmLinkProofs ----------------------------
(***************************************************************************)
(* Proofs about the link of module VmLink, for any capacities of channels  *)
(* and pipes and any number of commands and events: no event and no        *)
(* command is lost or overtaken while the link is up, a VM told to shut    *)
(* down has executed everything, and the link implements VmSession.        *)
(***************************************************************************)
EXTENDS VmLink, ChannelFacts

-----------------------------------------------------------------------------
(* The inductive invariant. *)

\* What the tasks and the parts of the link can be doing at once.
Unstarted == entry \in {"starting", "failed"}

Idle ==
    /\ accepted = 0 /\ executed = 0
    /\ queue = <<>> /\ writing = <<>> /\ stdin = <<>>
    /\ todo = <<>> /\ emitted = <<>> /\ logged = <<>>
    /\ forwarding = <<>> /\ outbox = <<>> /\ bridging = <<>>

Arriving == inbox \o reading \o stdout

ControlInv ==
    /\ bridge = "none" <=> Unstarted
    /\ Unstarted => Idle
    /\ entry = "starting" => vm # "exiting" /\ Arriving \in {<<>>, <<Ready>>}
    /\ vm = "boots" => Unstarted /\ inbox = <<>> /\ reading = <<>> /\ stdout = <<>>
    /\ bridge # "loop" => writing = <<>> /\ bridging = <<>>
    /\ writing = <<>> \/ bridging = <<>>
    /\ bridge = "done" => vm = "exited"
    /\ vm = "exited" => todo = <<>> /\ stdin = <<>>
    /\ reader # "runs" => reading = <<>>
    /\ reader = "failed" => stdout = <<>>

\* Events: what has left the bridge, or the reader while the bridge goes on, is the
\* first part of what was emitted, also when the rest is lost; while the link is
\* up the rest is on its way.  The supervisor emits the events of the command it
\* executes.
Passed == logged \o forwarding \o outbox
Live == bridge \in {"loop", "closing"}
Ahead == IF Live THEN Passed \o bridging \o inbox ELSE Passed
Lost == \E lost \in Seq(Event) : emitted = Ahead \o lost
Todo == \A i \in 1 .. Len(todo) : todo[i].cmd \in {Shutdown, executed}
EventsInv == EventsConserved /\ Lost /\ Todo

\* Commands: those accepted and not yet executed, then Shutdown once it is sent.
\* When the bridge has left its loop, the first of them, or all and Shutdown.
Sent == IF writing = <<Shutdown>> THEN <<Shutdown>> ELSE <<>>

Line == stdin \o writing \o queue

Written(k, s) == stdin = Pending(executed, k) \o s
Told == entry = "gone" /\ queue = <<>> /\ Written(accepted, <<Shutdown>>)

CommandsInv ==
    /\ queue \in Seq(1 .. MaxCommands)
    /\ executed <= accepted
    /\ writing = <<Shutdown>> => entry = "gone" /\ queue = <<>>
    /\ bridge = "loop" /\ vm = "runs" => Line = Pending(executed, accepted) \o Sent
    /\ bridge = "closing" /\ vm = "runs" =>
          Told \/ \E k \in executed .. accepted : Written(k, <<>>)
    /\ vm = "exiting" =>
          /\ executed = accepted /\ entry = "gone" /\ bridge = "closing"
          /\ stdin = <<>> /\ writing = <<>> /\ queue = <<>>

LinkInv == TypeOK /\ ControlInv /\ EventsInv /\ CommandsInv

-----------------------------------------------------------------------------
(* Types.  That no more is executed than accepted is left to the commands. *)

Channels ==
    /\ Holds(Command, queue, QueueCapacity)
    /\ Holds(Command, writing, 1)
    /\ Holds(Command, stdin, PipeCapacity)
    /\ Holds(Event, stdout, PipeCapacity)
    /\ Holds(Event, reading, 1)
    /\ Holds(Event, inbox, InboxCapacity)
    /\ Holds(Event, bridging, 1)
    /\ Holds(Event, outbox, OutboxCapacity)
    /\ Holds(Event, forwarding, 1)
    /\ todo \in Seq(Event) /\ emitted \in Seq(Event) /\ logged \in Seq(Event)

States ==
    /\ entry \in {"starting", "failed", "up", "stopping", "gone"}
    /\ bridge \in {"none", "loop", "closing", "done"}
    /\ vm \in {"boots", "runs", "exiting", "exited"}
    /\ reader \in {"runs", "done", "failed"}
    /\ forwarder \in {"none", "runs", "done"}
    /\ accepted \in 0 .. MaxCommands /\ executed \in Nat

LEMMA Capacities ==
  /\ QueueCapacity \in Nat \ {0} /\ PipeCapacity \in Nat \ {0}
  /\ InboxCapacity \in Nat \ {0} /\ OutboxCapacity \in Nat \ {0}
  /\ MaxCommands \in Nat /\ MaxOutput \in Nat
  BY LinkAssumption

LEMMA TypesOpen == TypeOK <=> Channels /\ States /\ executed \in 0 .. MaxCommands
<1>1. \A S, s, n : Holds(S, s, n) <=> s \in Seq(S) /\ Len(s) \in 0 .. n
  BY DEF Holds
<1>2. \A S : \A s \in Seq(S), n \in Nat : Len(s) <= n <=> Len(s) \in 0 .. n
  BY LenProperties
<1>3. /\ queue \in Seq(Command) /\ Len(queue) <= QueueCapacity
          <=> Holds(Command, queue, QueueCapacity)
      /\ inbox \in Seq(Event) /\ Len(inbox) <= InboxCapacity <=> Holds(Event, inbox, InboxCapacity)
      /\ outbox \in Seq(Event) /\ Len(outbox) <= OutboxCapacity
          <=> Holds(Event, outbox, OutboxCapacity)
  BY <1>1, <1>2, Capacities
<1>4. \A n : n \in {0, 1} <=> n \in 0 .. 1
  OBVIOUS
<1>5. TypeOK => Channels /\ States /\ executed \in 0 .. MaxCommands
  <2> SUFFICES ASSUME TypeOK PROVE Channels /\ States /\ executed \in 0 .. MaxCommands
    OBVIOUS
  <2>1. Channels
    BY <1>1, <1>3, <1>4 DEF TypeOK, Channels
  <2> QED
    BY <2>1, Capacities DEF TypeOK, States
<1>6. Channels /\ States /\ executed \in 0 .. MaxCommands => TypeOK
  BY <1>1, <1>3, <1>4 DEF TypeOK, Channels, States
<1> QED
  BY <1>5, <1>6

LEMMA EventTypes ==
  /\ Ready \in Event /\ ShutdownEvent \in Event /\ Shutdown \in Command
  /\ <<ShutdownEvent>> \in Seq(Event) /\ Holds(Command, <<Shutdown>>, 1)
  BY Capacities DEF Ready, ShutdownEvent, Event, Command, Shutdown, Holds

LEMMA OutputType ==
  ASSUME NEW c \in Command, NEW n \in 1 .. MaxOutput
  PROVE  /\ Output(c, n) \in Seq(Event) /\ Len(Output(c, n)) = n
         /\ \A i \in 1 .. Len(Output(c, n)) : Output(c, n)[i].cmd = c
  BY Capacities DEF Output, Event, Command, Shutdown

\* What a step needs of the types to keep them.
LEMMA ChannelsNext ==
  ASSUME Channels, States, [Next]_vars, vm = "boots" => stdout = <<>>
  PROVE  Channels' /\ States'
<1>0. /\ QueueCapacity \in Nat /\ PipeCapacity \in Nat /\ InboxCapacity \in Nat
      /\ OutboxCapacity \in Nat /\ 1 \in Nat /\ MaxCommands \in Nat
  BY Capacities
<1> USE <1>0, Holding DEF Channels, States, up, down, states, history
<1>1. CASE StartStep
  BY <1>1 DEF StartStep, StartOk, StartFails
<1>2. CASE Accept
  <2>1. accepted + 1 \in Command /\ accepted + 1 \in 0 .. MaxCommands
    BY <1>2 DEF Accept, Command, Shutdown
  <2> QED
    BY <1>2, <2>1 DEF Accept
<1>3. <<>> \in Seq(Event)
  BY EmptySeq
<1>4. CASE Stop \/ DropEntry \/ VmDies
  BY <1>3, <1>4 DEF Stop, StopVm, DropEntry, VmDies, Dead
<1>5. CASE BridgeStep
  <2>1. CASE Write
    BY <2>1 DEF Write
  <2>2. CASE SendEvent
    BY <2>2 DEF SendEvent
  <2>3. CASE ~Write /\ ~SendEvent
    BY <1>5, <2>3, EventTypes DEF BridgeStep, TakeCommand, TakeShutdown, BrokenPipe, WriteFails,
        TakeEvent, TransportClosed, Closed
  <2> QED
    BY <2>1, <2>2, <2>3
<1>6. CASE ReaderStep
  BY <1>6 DEF ReaderStep, Read, Deliver, Delivers, ReaderEnds
<1>11. CASE WriteFails \/ ReadFails
  BY <1>11 DEF WriteFails, ReadFails
<1>7. CASE Boot
  <2>1. stdout = <<>> /\ Len(stdout) < PipeCapacity
    BY <1>7, Capacities, EmptySeq DEF Boot
  <2> QED
    BY <1>7, <2>1, EventTypes DEF Boot
<1>8. CASE SupervisorStep
  <2>1. CASE Execute
    <3>1. PICK n \in 1 .. MaxOutput : todo' = Output(Head(stdin), n)
      BY <2>1 DEF Execute
    <3>2. Head(stdin) \in Command
      BY <2>1 DEF Execute
    <3>3. todo' \in Seq(Event)
      BY <3>1, <3>2, OutputType
    <3>4. stdin # <<>> /\ stdin' = Tail(stdin) /\ executed' = executed + 1
      BY <2>1 DEF Execute
    <3>5. Holds(Command, stdin', PipeCapacity)
      BY ONLY Holds(Command, stdin, PipeCapacity), PipeCapacity \in Nat, <3>4, Holding
    <3>6. executed' \in Nat
      BY ONLY States, <3>4 DEF States
    <3> QED
      BY <2>1, <3>3, <3>5, <3>6 DEF Execute
  <2>2. CASE Emit
    <3>1. /\ Head(todo) \in Event /\ Tail(todo) \in Seq(Event)
          /\ Append(emitted, Head(todo)) \in Seq(Event)
      BY <2>2, Front, AppendProperties DEF Emit
    <3> QED
      BY <2>2, <3>1 DEF Emit
  <2>3. CASE ShutDown \/ EmitFails \/ EndOfInput \/ Exit
    BY <1>3, <2>3, EventTypes DEF ShutDown, EmitFails, EndOfInput, Exit, Dead
  <2> QED
    BY <1>8, <2>1, <2>2, <2>3 DEF SupervisorStep
<1>9. CASE ForwarderStep
  <2>1. logged \o forwarding \in Seq(Event)
    BY ConcatProperties DEF Holds
  <2> QED
    BY <1>9, <2>1 DEF ForwarderStep, Forward, AppendToLog, ForwarderEnds
<1>10. CASE UNCHANGED vars
  BY <1>10 DEF vars
<1> QED
  BY <1>1, <1>2, <1>4, <1>5, <1>6, <1>7, <1>8, <1>9, <1>10, <1>11 DEF Next

-----------------------------------------------------------------------------
(* Control. *)

\* The reader only moves events along.
LEMMA ReaderMoves ==
  ASSUME Channels, NEW a \in Seq(Event),
         Read \/ Deliver \/ (ReaderEnds /\ reading = <<>>)
  PROVE  a \o inbox' \o reading' \o stdout' = a \o inbox \o reading \o stdout
<1>1. /\ a \o inbox \in Seq(Event) /\ inbox \in Seq(Event) /\ reading \in Seq(Event)
      /\ stdout \in Seq(Event)
  BY ConcatProperties DEF Channels, Holds
<1>2. CASE Read
  BY <1>1, <1>2, MoveFirst DEF Read
<1>3. CASE Deliver
  <2>1. (a \o (inbox \o reading)) \o <<>> = (a \o inbox) \o reading
    BY <1>1, MoveAll, SMTT(30)
  <2> QED
    BY <1>3, <2>1 DEF Deliver, Delivers
<1>4. CASE ReaderEnds /\ reading = <<>>
  BY <1>4 DEF ReaderEnds
<1> QED
  BY <1>2, <1>3, <1>4

LEMMA ArrivingOrder ==
  ASSUME Channels, Read \/ Deliver \/ (ReaderEnds /\ reading = <<>>)
  PROVE  Arriving' = Arriving
<1>1. <<>> \in Seq(Event) /\ inbox \in Seq(Event) /\ inbox' \in Seq(Event)
  <2>1. <<>> \in Seq(Event) /\ inbox \in Seq(Event) /\ inbox \o reading \in Seq(Event)
    BY EmptySeq, ConcatProperties DEF Channels, Holds
  <2> QED
    BY <2>1 DEF Read, Deliver, Delivers, ReaderEnds
<1>2. <<>> \o inbox' \o reading' \o stdout' = <<>> \o inbox \o reading \o stdout
  BY <1>1, ReaderMoves
<1>3. <<>> \o inbox' = inbox' /\ <<>> \o inbox = inbox
  BY <1>1, ConcatEmptySeq
<1> QED
  BY <1>2, <1>3 DEF Arriving

LEMMA Concats ==
  ASSUME NEW a \in Seq(Event), NEW b \in Seq(Event), NEW c \in Seq(Event)
  PROVE  a \o b \o c = <<>> <=> a = <<>> /\ b = <<>> /\ c = <<>>
<1>1. a \o b \in Seq(Event)
  BY ConcatProperties
<1> QED
  BY <1>1, ConcatEqualIffEmpty

\* When start() has taken an event off the channel it has taken Ready, and
\* there is no other.
LEMMA ReadyFirst ==
  ASSUME Channels, Arriving \in {<<>>, <<Ready>>}, inbox # <<>>
  PROVE  /\ Head(inbox) = Ready /\ Tail(inbox) = <<>>
         /\ reading = <<>> /\ stdout = <<>>
<1> DEFINE e == Head(inbox)
           rest == Tail(inbox) \o reading \o stdout
<1>1. inbox \in Seq(Event) /\ reading \in Seq(Event) /\ stdout \in Seq(Event)
  BY DEF Channels, Holds
<1>2. /\ e \in Event /\ Tail(inbox) \in Seq(Event) /\ <<e>> \in Seq(Event)
      /\ Len(<<e>>) = 1 /\ <<e>> \o Tail(inbox) = inbox
  BY <1>1, Front
<1>3. Tail(inbox) \o reading \in Seq(Event) /\ rest \in Seq(Event)
  BY <1>1, <1>2, ConcatProperties
<1>4. Arriving = <<e>> \o rest
  <2>1. <<e>> \o (Tail(inbox) \o reading) = inbox \o reading
    BY <1>1, <1>2, ConcatAssociative
  <2>2. (<<e>> \o (Tail(inbox) \o reading)) \o stdout = <<e>> \o rest
    BY <1>1, <1>2, <1>3, ConcatAssociative
  <2> QED
    BY <2>1, <2>2 DEF Arriving
<1>5. Len(Arriving) = 1 + Len(rest) /\ Arriving[1] = e /\ Len(rest) \in Nat
  <2> HIDE DEF e, rest
  <2> QED
    BY <1>2, <1>3, <1>4, ConcatProperties, LenProperties
<1>6. Arriving = <<Ready>>
  BY <1>1, <1>5, Concats DEF Arriving
<1>7. Len(rest) = 0 /\ e = Ready
  BY <1>5, <1>6
<1>8. rest = <<>>
  BY <1>3, <1>7, EmptySeq
<1> QED
  BY <1>1, <1>2, <1>7, <1>8, Concats

\* When the reader fails before start() has taken Ready, Ready may be in the inbox.
LEMMA ReadyOrNot ==
  ASSUME Channels, Arriving \in {<<>>, <<Ready>>}
  PROVE  inbox \o <<>> \o <<>> \in {<<>>, <<Ready>>}
<1>1. inbox \in Seq(Event)
  BY DEF Channels, Holds
<1>2. inbox \o <<>> = inbox
  BY <1>1, ConcatEmptySeq
<1>3. CASE inbox = <<>>
  BY <1>2, <1>3
<1>4. CASE inbox # <<>>
  <2>1. Head(inbox) = Ready /\ Tail(inbox) = <<>>
    BY <1>4, ReadyFirst
  <2>2. <<Head(inbox)>> \o Tail(inbox) = inbox /\ <<Head(inbox)>> \in Seq(Event)
    BY <1>1, <1>4, Front
  <2>3. inbox = <<Ready>>
    BY <2>1, <2>2, ConcatEmptySeq
  <2> QED
    BY <1>2, <2>3
<1> QED
  BY <1>3, <1>4

LEMMA ControlNext ==
  ASSUME Channels, States, ControlInv, [Next]_vars
  PROVE  ControlInv'
<1> USE DEF States, ControlInv, Unstarted, Idle, Listening, EndOfFile, up, down, states, history
<1>0. inbox \in Seq(Event) /\ reading \in Seq(Event) /\ stdout \in Seq(Event)
  BY DEF Channels, Holds
<1>1. CASE StartOk
  BY <1>1, ReadyFirst DEF StartOk
<1>2. CASE StartFails
  BY <1>2 DEF StartFails
<1>3. CASE Boot
  <2>1. Append(stdout, Ready) = <<Ready>>
    BY <1>3 DEF Boot
  <2>2. entry = "starting" => Arriving' = <<Ready>>
    <3>1. <<>> \o <<>> \o <<Ready>> = <<Ready>>
      BY EventTypes, ConcatEmptySeq
    <3> QED
      BY <1>3, <2>1, <3>1 DEF Boot, Arriving
  <2> QED
    BY <1>3, <2>2 DEF Boot
<1>4. CASE Accept \/ DropEntry
  BY <1>4 DEF Accept, DropEntry, Arriving
<1>5. CASE Stop
  BY <1>5 DEF Stop, StopVm, Dead, Arriving
<1>6. CASE BridgeStep
  BY <1>6 DEF BridgeStep, TakeCommand, TakeShutdown, Write, BrokenPipe, WriteFails, TakeEvent,
      SendEvent, TransportClosed, Closed, Selecting, Arriving
<1>7. CASE ReaderStep
  <2>1. entry = "starting" => Arriving' = Arriving
    BY <1>7, ArrivingOrder DEF ReaderStep, ReaderEnds
  <2> HIDE DEF Arriving
  <2> QED
    BY <1>7, <2>1 DEF ReaderStep, Read, Deliver, Delivers, ReaderEnds
<1>8. CASE SupervisorStep
  BY <1>8 DEF SupervisorStep, Execute, ShutDown, Emit, EmitFails, EndOfInput, StdinClosed, Exit,
      Dead, Arriving
<1>9. CASE ForwarderStep
  BY <1>9 DEF ForwarderStep, Forward, AppendToLog, ForwarderEnds, Arriving
<1>10. CASE VmDies
  BY <1>10 DEF VmDies, Dead, Arriving
<1>11. CASE UNCHANGED vars
  BY <1>11 DEF vars, Arriving
<1>12. CASE WriteFails
  BY <1>12 DEF WriteFails, Arriving
<1>13. CASE ReadFails
  <2>1. entry = "starting" => Arriving' \in {<<>>, <<Ready>>}
    BY <1>13, ReadyOrNot DEF ReadFails, Arriving
  <2> HIDE DEF Arriving
  <2> QED
    BY <1>13, <2>1 DEF ReadFails
<1> QED
  BY <1>1, <1>2, <1>3, <1>4, <1>5, <1>6, <1>7, <1>8, <1>9, <1>10, <1>11, <1>12, <1>13
  DEF Next, StartStep

-----------------------------------------------------------------------------
(* Commands. *)

LEMMA LineTypes ==
  ASSUME Channels
  PROVE  /\ stdin \in Seq(Nat) /\ writing \in Seq(Nat) /\ queue \in Seq(Nat)
         /\ Sent \in Seq(Nat) /\ Len(Sent) \in {0, 1}
<1>1. Command \subseteq Nat
  BY Capacities DEF Command, Shutdown
<1>2. stdin \in Seq(Nat) /\ writing \in Seq(Nat) /\ queue \in Seq(Nat)
  BY <1>1, SeqMonotonic DEF Channels, Holds
<1>3. Sent \in Seq(Nat) /\ Len(Sent) \in {0, 1}
  BY DEF Sent, Shutdown
<1> QED
  BY <1>2, <1>3

\* What the VM reads is the next command, or Shutdown when there is no other.
LEMMA InputFirst ==
  ASSUME NEW s \in Seq(Nat), s # <<>>, NEW e \in Nat, NEW k \in Nat, e <= k,
         NEW u \in {<<>>, <<Shutdown>>}, s = Pending(e, k) \o u
  PROVE  \/ /\ Head(s) # Shutdown /\ e < k /\ Head(s) = e + 1
            /\ Tail(s) = Pending(e + 1, k) \o u
         \/ Head(s) = Shutdown /\ e = k /\ u = <<Shutdown>> /\ Tail(s) = <<>>
<1>0. u \in Seq(Nat)
  BY DEF Shutdown
<1>1. CASE e < k
  <2>1. PICK p \in Seq(Nat) : p = Pending(e, k)
    BY PendingType
  <2>2. p # <<>> /\ Head(p) = e + 1 /\ Tail(p) = Pending(e + 1, k)
    BY <1>1, <2>1, PendingFirst
  <2>3. Head(p \o u) = Head(p) /\ Tail(p \o u) = Tail(p) \o u
    <3>1. PICK v \in Seq(Nat) : v = u
      BY ONLY <1>0
    <3>2. Head(p \o v) = Head(p) /\ Tail(p \o v) = Tail(p) \o v
      BY ONLY <2>2, FrontOfConcat, SMTT(30)
    <3> QED
      BY ONLY <3>1, <3>2
  <2>4. e + 1 # Shutdown
    BY DEF Shutdown
  <2> QED
    BY <1>1, <2>1, <2>2, <2>3, <2>4
<1>2. CASE e = k
  <2>1. Pending(e, k) = <<>>
    BY <1>2, PendingType
  <2>2. s = u
    BY <1>0, <2>1, ConcatEmptySeq
  <2>3. Head(<<Shutdown>>) = Shutdown /\ Tail(<<Shutdown>>) = <<>>
    OBVIOUS
  <2> QED
    BY <1>2, <2>2, <2>3
<1>3. e < k \/ e = k
  OBVIOUS
<1> QED
  BY ONLY <1>1, <1>2, <1>3

Rest == Tail(stdin) \o writing \o queue

LEMMA LineFront ==
  ASSUME Channels, stdin # <<>>
  PROVE  /\ Line \in Seq(Nat) /\ Line # <<>>
         /\ Head(Line) = Head(stdin) /\ Tail(Line) = Rest
<1> DEFINE b == stdin \o writing
<1>1. /\ b \in Seq(Nat) /\ b # <<>>
      /\ Head(b) = Head(stdin) /\ Tail(b) = Tail(stdin) \o writing
  BY LineTypes, FrontOfConcat
<1> HIDE DEF b
<1>2. queue \in Seq(Nat)
  BY LineTypes
<1>3. /\ b \o queue \in Seq(Nat) /\ b \o queue # <<>>
      /\ Head(b \o queue) = Head(b) /\ Tail(b \o queue) = Tail(b) \o queue
  BY ONLY <1>1, <1>2, FrontOfConcat
<1> QED
  BY <1>1, <1>3 DEF Line, Rest, b

\* What the bridge has written, should it leave its loop now: the first of the
\* commands accepted.
LEMMA WrittenFirst ==
  ASSUME Channels, States, CommandsInv, bridge = "loop", vm = "runs"
  PROVE  \E k \in executed .. accepted : Written(k, <<>>)
<1>0. executed \in Nat /\ accepted \in Nat /\ executed <= accepted
  BY Capacities DEF States, CommandsInv
<1>1. Line = Pending(executed, accepted) \o Sent
  BY DEF CommandsInv
<1>2. /\ stdin \in Seq(Nat) /\ writing \in Seq(Nat) /\ queue \in Seq(Nat)
      /\ writing \o queue \in Seq(Nat) /\ Sent \in Seq(Nat)
  BY LineTypes, ConcatProperties
<1>3. stdin \o (writing \o queue) = Pending(executed, accepted) \o Sent
  <2>1. Joined(Joined(stdin, writing), queue) = Joined(stdin, Joined(writing, queue))
    BY ONLY <1>2, JoinedTwice
  <2> QED
    BY ONLY <1>1, <2>1 DEF Joined, Line
<1>4. PICK p \in Seq(Nat) : p = Pending(executed, accepted) /\ Len(p) = accepted - executed
  BY <1>0, PendingType
<1>5. /\ Len(stdin) + Len(writing \o queue) = accepted - executed + Len(Sent)
      /\ Len(writing \o queue) = Len(writing) + Len(queue)
  BY <1>2, <1>3, <1>4, ConcatProperties
<1>6. Len(Sent) <= Len(writing)
  <2>1. CASE writing = <<Shutdown>>
    BY <2>1 DEF Sent
  <2>2. CASE writing # <<Shutdown>>
    BY <1>2, <2>2, LenProperties, EmptySeq DEF Sent
  <2> QED
    BY <2>1, <2>2
<1>7. /\ Len(stdin) \in Nat /\ Len(writing) \in Nat /\ Len(queue) \in Nat /\ Len(Sent) \in Nat
  BY <1>2, LenProperties
<1>8. Len(stdin) <= accepted - executed
  BY <1>0, <1>5, <1>6, <1>7
<1>9. /\ stdin = Pending(executed, executed + Len(stdin))
      /\ executed + Len(stdin) \in executed .. accepted
  BY <1>0, <1>2, <1>3, <1>8, PendingPrefix
<1>10. stdin \o <<>> = stdin
  BY <1>2, ConcatEmptySeq
<1> QED
  BY <1>9, <1>10 DEF Written

\* Steps that do not touch what is on its way to the VM.
LEMMA CommandsQuiet ==
  ASSUME CommandsInv, UNCHANGED <<up, accepted, executed, entry>>,
         \/ UNCHANGED <<vm, bridge>>
         \/ vm' = "exited"
         \/ vm = "boots" /\ vm' = "runs" /\ bridge' = bridge /\ bridge = "none"
  PROVE  CommandsInv'
  BY DEF CommandsInv, Line, Sent, Told, Written, up

LEMMA AcceptKeeps ==
  ASSUME Channels, States, ControlInv, CommandsInv, Accept
  PROVE  CommandsInv'
<1>0. /\ accepted \in Nat /\ executed \in Nat /\ MaxCommands \in Nat
      /\ accepted + 1 \in 1 .. MaxCommands /\ accepted' = accepted + 1
      /\ queue' = Append(queue, accepted + 1)
      /\ entry = "up" /\ UNCHANGED <<writing, stdin, executed, entry, bridge, vm>>
  BY Capacities DEF States, Accept, states
<1>1. writing # <<Shutdown>> /\ vm # "exiting" /\ ~Told
  BY <1>0 DEF CommandsInv, Told
<1>2. queue' \in Seq(1 .. MaxCommands) /\ executed' <= accepted'
  BY <1>0, AppendProperties DEF CommandsInv
<1>3. CASE bridge = "loop" /\ vm = "runs"
  <2>1. Sent = <<>> /\ Sent' = <<>>
    BY <1>0, <1>1 DEF Sent
  <2>2. Line = Pending(executed, accepted)
    <3>1. Pending(executed, accepted) \in Seq(Nat)
      BY <1>0, PendingType DEF CommandsInv
    <3> QED
      BY <1>3, <2>1, <3>1, ConcatEmptySeq DEF CommandsInv
  <2>3. Line' = Append(Line, accepted + 1)
    <3>1. stdin \o writing \in Seq(Nat) /\ queue \in Seq(Nat) /\ accepted + 1 \in Nat
      BY <1>0, LineTypes, ConcatProperties
    <3>2. PICK s \in Seq(Nat), n \in Nat : s = stdin \o writing /\ n = accepted + 1
      BY ONLY <3>1
    <3>3. PICK q \in Seq(Nat) : q = queue
      BY ONLY <3>1
    <3>4. s \o Append(q, n) = Append(s \o q, n)
      BY ONLY AddLast, SMTT(30)
    <3> QED
      BY <1>0, <3>2, <3>3, <3>4 DEF Line
  <2>4. Line' = Pending(executed, accepted + 1)
    BY <1>0, <2>2, <2>3, PendingMore DEF CommandsInv
  <2>5. Line' = Pending(executed', accepted') \o Sent'
    <3>1. Pending(executed, accepted + 1) \in Seq(Nat)
      <4>1. executed <= accepted + 1 /\ accepted + 1 \in Nat
        BY <1>0, <1>2
      <4> QED
        BY <1>0, <4>1, PendingType
    <3> QED
      BY <1>0, <2>1, <2>4, <3>1, ConcatEmptySeq
  <2> HIDE DEF Line, Sent
  <2> QED
    BY <1>0, <1>1, <1>2, <1>3, <2>5 DEF CommandsInv
<1>4. CASE bridge = "closing" /\ vm = "runs"
  <2>1. PICK k \in executed .. accepted : Written(k, <<>>)
    BY <1>1, <1>4 DEF CommandsInv
  <2>2. k \in executed' .. accepted' /\ Written(k, <<>>)'
    BY <1>0, <2>1 DEF Written
  <2> QED
    BY <1>0, <1>1, <1>2, <1>4, <2>2 DEF CommandsInv
<1>5. CASE ~(bridge \in {"loop", "closing"} /\ vm = "runs")
  BY <1>0, <1>1, <1>2, <1>5 DEF CommandsInv
<1> QED
  BY <1>3, <1>4, <1>5

LEMMA BridgeKeeps ==
  ASSUME Channels, States, ControlInv, CommandsInv, BridgeStep \/ WriteFails
  PROVE  CommandsInv'
<1> USE DEF up, states, history
<1>1. CASE TakeCommand
  <2>1. /\ Selecting /\ queue # <<>> /\ writing' = <<Head(queue)>> /\ queue' = Tail(queue)
        /\ UNCHANGED <<stdin, entry, bridge, vm, accepted, executed>>
    BY <1>1 DEF TakeCommand
  <2>2. Head(queue) \in 1 .. MaxCommands /\ queue' \in Seq(1 .. MaxCommands)
    BY <2>1, Front DEF CommandsInv
  <2>3. writing' # <<Shutdown>> /\ writing # <<Shutdown>>
    BY <2>1, <2>2 DEF Selecting, Shutdown
  <2>4. Line' = Line
    <3>1. (stdin \o <<Head(queue)>>) \o Tail(queue) = (stdin \o <<>>) \o queue
      BY <2>1, LineTypes, MoveFirst
    <3> QED
      BY <2>1, <3>1 DEF Line, Selecting
  <2>5. vm # "exiting" /\ bridge = "loop"
    BY <2>1 DEF CommandsInv, Selecting
  <2> QED
    BY <2>1, <2>2, <2>3, <2>4, <2>5 DEF CommandsInv, Sent
<1>2. CASE TakeShutdown
  <2>1. /\ bridge = "loop" /\ writing = <<>> /\ entry = "gone" /\ queue = <<>>
        /\ writing' = <<Shutdown>>
        /\ UNCHANGED <<queue, stdin, entry, bridge, vm, accepted, executed>>
    BY <1>2 DEF TakeShutdown, Selecting, Drained
  <2>2. Line = stdin /\ Line' = stdin \o <<Shutdown>>
    <3>1. stdin \in Seq(Nat) /\ <<Shutdown>> \in Seq(Nat) /\ stdin \o <<Shutdown>> \in Seq(Nat)
      BY LineTypes, ConcatProperties DEF Shutdown
    <3> QED
      BY <2>1, <3>1, ConcatEmptySeq DEF Line
  <2>3. Sent = <<>> /\ Sent' = <<Shutdown>>
    BY <2>1 DEF Sent
  <2>4. vm = "runs" => stdin = Pending(executed, accepted)
    <3>1. Pending(executed, accepted) \in Seq(Nat)
      BY PendingType, Capacities DEF CommandsInv, States
    <3> QED
      BY <2>1, <2>2, <2>3, <3>1, ConcatEmptySeq DEF CommandsInv
  <2>5. vm # "exiting"
    BY <2>1 DEF CommandsInv
  <2> QED
    BY <2>1, <2>2, <2>3, <2>4, <2>5 DEF CommandsInv
<1>3. CASE Write
  <2>1. /\ bridge = "loop" /\ writing # <<>> /\ vm # "exited" /\ vm # "exiting"
        /\ stdin' = stdin \o writing /\ writing' = <<>>
        /\ bridge' = IF writing = <<Shutdown>> THEN "closing" ELSE "loop"
        /\ UNCHANGED <<queue, entry, vm, accepted, executed>>
    BY <1>3 DEF Write, ControlInv, CommandsInv
  <2>2. Line' = Line
    <3>1. stdin \o writing \in Seq(Nat)
      BY LineTypes, ConcatProperties
    <3> QED
      BY <2>1, <3>1, ConcatEmptySeq DEF Line
  <2>3. CASE writing # <<Shutdown>>
    BY <2>1, <2>2, <2>3 DEF CommandsInv, Sent
  <2>4. CASE writing = <<Shutdown>>
    <3>1. entry = "gone" /\ queue = <<>> /\ bridge' = "closing" /\ Sent = <<Shutdown>>
      BY <2>1, <2>4 DEF CommandsInv, Sent
    <3>2. Line = stdin'
      <4>1. stdin \o writing \in Seq(Nat)
        BY LineTypes, ConcatProperties
      <4> QED
        BY <2>1, <3>1, <4>1, ConcatEmptySeq DEF Line
    <3>3. vm = "runs" => Told'
      BY <2>1, <3>1, <3>2 DEF CommandsInv, Told, Written
    <3> QED
      BY <2>1, <3>1, <3>3 DEF CommandsInv
  <2> QED
    BY <2>3, <2>4
<1>4. CASE WriteFails \/ TransportClosed
  <2>1. /\ bridge = "loop" /\ bridge' = "closing" /\ writing' = <<>>
        /\ UNCHANGED <<queue, stdin, vm, entry, accepted, executed>>
    BY <1>4 DEF WriteFails, TransportClosed, Selecting, ControlInv
  <2>2. vm # "exiting"
    BY <2>1 DEF CommandsInv
  <2>3. CASE vm = "runs"
    <3>1. PICK k \in executed .. accepted : Written(k, <<>>)
      BY <2>1, <2>3, WrittenFirst
    <3>2. k \in executed' .. accepted' /\ Written(k, <<>>)'
      BY <2>1, <3>1 DEF Written
    <3> QED
      BY <2>1, <2>2, <3>2 DEF CommandsInv
  <2> QED
    BY <2>1, <2>2, <2>3 DEF CommandsInv
<1>5. CASE TakeEvent \/ SendEvent
  BY <1>5, CommandsQuiet DEF TakeEvent, SendEvent
<1>6. CASE Closed
  BY <1>6, EmptySeq DEF Closed, CommandsInv
<1> QED
  BY <1>1, <1>2, <1>3, <1>4, <1>5, <1>6 DEF BridgeStep, BrokenPipe

LEMMA ExecuteKeeps ==
  ASSUME Channels, States, ControlInv, CommandsInv, Execute \/ ShutDown
  PROVE  /\ CommandsInv'
         /\ Execute => executed < accepted /\ Head(stdin) = executed'
<1> USE DEF up, states, history
<1>0. /\ executed \in Nat /\ accepted \in Nat /\ executed <= accepted
      /\ vm = "runs" /\ stdin # <<>> /\ bridge \in {"loop", "closing"}
      /\ stdin' = Tail(stdin)
      /\ UNCHANGED <<queue, writing, entry, bridge, accepted>>
  BY Capacities DEF Execute, ShutDown, ControlInv, Unstarted, Idle, CommandsInv, States
<1>1. stdin \in Seq(Nat) /\ Sent \in {<<>>, <<Shutdown>>} /\ UNCHANGED Sent
  BY <1>0, LineTypes DEF Sent
<1>2. CASE Execute
  <2>1. Head(stdin) # Shutdown /\ executed' = executed + 1 /\ vm' = "runs"
    BY <1>2 DEF Execute
  <2>2. CASE bridge = "loop"
    <3>1. /\ executed < accepted /\ Head(stdin) = executed + 1
          /\ Rest = Pending(executed + 1, accepted) \o Sent
      <4>1. /\ Line \in Seq(Nat) /\ Line # <<>> /\ Head(Line) = Head(stdin) /\ Tail(Line) = Rest
            /\ Line = Pending(executed, accepted) \o Sent
        BY <1>0, <2>2, LineFront DEF CommandsInv
      <4> HIDE DEF Line, Rest, Sent
      <4> QED
        BY <1>0, <1>1, <2>1, <4>1, InputFirst
    <3>2. Line' = Rest /\ executed' <= accepted'
      BY <1>0, <2>1, <3>1 DEF Line, Rest
    <3>3. CommandsInv'
      BY <1>0, <1>1, <2>1, <2>2, <3>1, <3>2 DEF CommandsInv
    <3> QED
      BY <2>1, <3>1, <3>3
  <2>3. CASE bridge = "closing" /\ Told
    <3>1. /\ executed < accepted /\ Head(stdin) = executed + 1
          /\ Tail(stdin) = Pending(executed + 1, accepted) \o <<Shutdown>>
      <4>1. PICK u \in {<<>>, <<Shutdown>>} : u = <<Shutdown>>
        OBVIOUS
      <4>2. stdin = Pending(executed, accepted) \o u
        BY <2>3, <4>1 DEF Told, Written
      <4> QED
        BY ONLY <1>0, <1>1, <2>1, <4>1, <4>2, InputFirst
    <3>2. Told' /\ executed' <= accepted'
      BY <1>0, <2>1, <2>3, <3>1 DEF Told, Written
    <3>3. CommandsInv'
      BY <1>0, <2>1, <2>3, <3>2 DEF CommandsInv
    <3> QED
      BY <2>1, <3>1, <3>3
  <2>4. CASE bridge = "closing" /\ ~Told
    <3>1. PICK k \in executed .. accepted : Written(k, <<>>)
      BY <1>0, <2>4 DEF CommandsInv
    <3>2. /\ executed < k /\ Head(stdin) = executed + 1
          /\ Tail(stdin) = Pending(executed + 1, k) \o <<>>
      <4>1. PICK u \in {<<>>, <<Shutdown>>} : u = <<>>
        OBVIOUS
      <4>2. k \in Nat /\ executed <= k /\ stdin = Pending(executed, k) \o u
        BY <1>0, <3>1, <4>1 DEF Written
      <4> QED
        BY ONLY <1>0, <1>1, <2>1, <4>1, <4>2, InputFirst
    <3>3. k \in executed' .. accepted' /\ Written(k, <<>>)' /\ executed' <= accepted'
      BY <1>0, <2>1, <3>1, <3>2 DEF Written
    <3>4. CommandsInv'
      BY <1>0, <2>1, <2>4, <3>3 DEF CommandsInv
    <3> QED
      BY <1>0, <2>1, <3>2, <3>4
  <2> QED
    BY <1>0, <2>2, <2>3, <2>4
<1>3. CASE ShutDown
  <2>1. Head(stdin) = Shutdown /\ vm' = "exiting" /\ executed' = executed /\ ~Execute
    BY <1>3 DEF ShutDown, Execute
  <2>2. bridge = "closing"
    <3> SUFFICES ASSUME bridge = "loop" PROVE FALSE
      BY <1>0
    <3>1. Sent = <<Shutdown>> /\ Rest = <<>>
      <4>1. /\ Line \in Seq(Nat) /\ Line # <<>> /\ Head(Line) = Head(stdin) /\ Tail(Line) = Rest
            /\ Line = Pending(executed, accepted) \o Sent
        BY <1>0, LineFront DEF CommandsInv
      <4> HIDE DEF Line, Rest, Sent
      <4> QED
        BY <1>0, <1>1, <2>1, <4>1, InputFirst
    <3>2. Tail(stdin) \in Seq(Nat) /\ writing \in Seq(Nat) /\ queue \in Seq(Nat)
      BY <1>0, LineTypes, Front
    <3>3. Tail(stdin) \o writing \in Seq(Nat)
      BY <3>2, ConcatProperties
    <3>4. writing = <<>>
      BY <3>1, <3>2, <3>3, ConcatEqualIffEmpty DEF Rest
    <3> QED
      BY <3>1, <3>4 DEF Sent
  <2>3. Told
    <3> SUFFICES ASSUME NEW k \in executed .. accepted, Written(k, <<>>) PROVE FALSE
      BY <1>0, <2>2 DEF CommandsInv
    <3>1. PICK u \in {<<>>, <<Shutdown>>} : u = <<>>
      OBVIOUS
    <3>2. k \in Nat /\ executed <= k /\ stdin = Pending(executed, k) \o u /\ u # <<Shutdown>>
      BY <1>0, <3>1 DEF Written
    <3> QED
      BY ONLY <1>0, <1>1, <2>1, <3>2, InputFirst
  <2>4. executed = accepted /\ Tail(stdin) = <<>>
    <3>1. PICK u \in {<<>>, <<Shutdown>>} : u = <<Shutdown>>
      OBVIOUS
    <3>2. stdin = Pending(executed, accepted) \o u
      BY <2>3, <3>1 DEF Told, Written
    <3> QED
      BY ONLY <1>0, <1>1, <2>1, <3>2, InputFirst
  <2>5. writing = <<>>
    BY <2>2 DEF ControlInv
  <2> QED
    BY <1>0, <1>3, <2>1, <2>2, <2>3, <2>4, <2>5 DEF CommandsInv, Told
<1> QED
  BY <1>2, <1>3

LEMMA CommandsNext ==
  ASSUME Channels, States, ControlInv, CommandsInv, [Next]_vars
  PROVE  CommandsInv'
<1> USE DEF states, history
<1>1. CASE StartOk
  <2>1. Idle /\ entry = "starting" /\ vm # "exiting" /\ bridge' = "loop" /\ entry' = "up"
    BY <1>1 DEF StartOk, ControlInv, Unstarted
  <2>2. Line' = <<>> /\ Sent' = <<>> /\ Pending(executed, accepted)' = <<>>
    <3>1. <<>> \o <<>> \o <<>> = <<>>
      BY EmptySeq, ConcatEmptySeq
    <3>2. Pending(0, 0) = <<>>
      BY PendingType
    <3> QED
      BY <1>1, <2>1, <3>1, <3>2 DEF StartOk, Idle, Line, Sent, up
  <2>3. <<>> \o <<>> = <<>>
    BY EmptySeq, ConcatEmptySeq
  <2> QED
    BY <1>1, <2>1, <2>2, <2>3 DEF StartOk, Idle, CommandsInv, up
<1>2. CASE StartFails
  BY <1>2 DEF StartFails, ControlInv, Unstarted, CommandsInv, Idle, up
<1>3. CASE Boot
  BY <1>3, CommandsQuiet DEF Boot, ControlInv
<1>4. CASE Stop \/ DropEntry
  BY <1>4 DEF Stop, StopVm, Dead, DropEntry, CommandsInv, Line, Sent, Told, Written, up
<1>5. CASE ReaderStep \/ ReadFails \/ ForwarderStep \/ Emit
  BY <1>5, CommandsQuiet DEF ReaderStep, Read, Deliver, ReaderEnds, ReadFails, ForwarderStep,
      Forward, AppendToLog, ForwarderEnds, Emit
<1>6. CASE EmitFails \/ EndOfInput \/ Exit \/ VmDies
  BY <1>6 DEF EmitFails, EndOfInput, Exit, VmDies, Dead, CommandsInv
<1>7. CASE UNCHANGED vars
  BY <1>7, CommandsQuiet DEF vars
<1> QED
  BY <1>1, <1>2, <1>3, <1>4, <1>5, <1>6, <1>7, AcceptKeeps, BridgeKeeps, ExecuteKeeps
  DEF Next, StartStep, SupervisorStep

-----------------------------------------------------------------------------
(* Events. *)

LEMMA EventSeqs ==
  ASSUME Channels
  PROVE  /\ logged \in Seq(Event) /\ forwarding \in Seq(Event) /\ outbox \in Seq(Event)
         /\ bridging \in Seq(Event) /\ inbox \in Seq(Event) /\ reading \in Seq(Event)
         /\ stdout \in Seq(Event)
         /\ Passed \in Seq(Event) /\ Passed \o bridging \in Seq(Event)
         /\ Passed \o bridging \o inbox \in Seq(Event)
         /\ Passed \o bridging \o inbox \o reading \in Seq(Event)
<1>1. /\ logged \in Seq(Event) /\ forwarding \in Seq(Event) /\ outbox \in Seq(Event)
      /\ bridging \in Seq(Event) /\ inbox \in Seq(Event) /\ reading \in Seq(Event)
      /\ stdout \in Seq(Event)
  BY DEF Channels, Holds
<1>2. Passed \in Seq(Event)
  BY <1>1, ConcatProperties DEF Passed
<1>3. Passed \o bridging \in Seq(Event)
  BY <1>1, <1>2, ConcatProperties
<1>4. Passed \o bridging \o inbox \in Seq(Event)
  BY <1>1, <1>3, ConcatProperties
<1>5. Passed \o bridging \o inbox \o reading \in Seq(Event)
  BY <1>1, <1>4, ConcatProperties
<1> QED
  BY <1>1, <1>2, <1>3, <1>4, <1>5

\* The forwarder only moves events along.
LEMMA ForwarderMoves ==
  ASSUME Channels, ForwarderStep
  PROVE  Passed' = Passed
<1>1. CASE Forward
  <2>1. logged \in Seq(Event) /\ outbox \in Seq(Event)
    BY EventSeqs
  <2>2. outbox # <<>> => (logged \o <<Head(outbox)>>) \o Tail(outbox) = (logged \o <<>>) \o outbox
    BY ONLY <2>1, MoveFirst
  <2> QED
    BY <1>1, <2>2 DEF Forward, Passed, history
<1>2. CASE AppendToLog
  <2>1. logged \o forwarding \in Seq(Event)
    BY EventSeqs, ConcatProperties
  <2> QED
    BY <1>2, <2>1, ConcatEmptySeq DEF AppendToLog, Passed
<1>3. CASE ForwarderEnds
  BY <1>3 DEF ForwarderEnds, Passed, down, history
<1> QED
  BY <1>1, <1>2, <1>3 DEF ForwarderStep

\* Nor does the bridge change anything when it sends an event.
LEMMA SendsEvent ==
  ASSUME Channels
  PROVE  /\ (logged \o forwarding) \o (outbox \o bridging)
               = ((logged \o forwarding) \o outbox) \o bridging
         /\ (logged \o forwarding) \o (outbox \o bridging) \in Seq(Event)
<1>1. logged \in Seq(Event) /\ forwarding \in Seq(Event) /\ outbox \in Seq(Event)
      /\ bridging \in Seq(Event)
  BY EventSeqs
<1>2. Joined(Joined(logged, forwarding), Joined(outbox, bridging))
        = Joined(Joined(Joined(logged, forwarding), outbox), bridging)
  BY ONLY <1>1, JoinedType, JoinedTwice
<1>3. Joined(Joined(logged, forwarding), Joined(outbox, bridging)) \in Seq(Event)
  BY ONLY <1>1, JoinedType
<1> QED
  BY ONLY <1>2, <1>3 DEF Joined

OnTheWay == Passed \o bridging \o inbox \o reading \o stdout

LEMMA ConservedNext ==
  ASSUME Channels, States, ControlInv, EventsConserved, [Next]_vars
  PROVE  EventsConserved'
<1> USE DEF up, states, history
<1>0. /\ EventsConserved <=> (Live /\ reader # "failed" => emitted = OnTheWay)
      /\ EventsConserved' <=> (Live' /\ reader' # "failed" => emitted' = OnTheWay')
  BY DEF EventsConserved, OnTheWay, Passed, Live
<1>1. CASE StartOk
  <2>1. /\ Idle /\ inbox' = <<>> /\ reading = <<>> /\ stdout = <<>>
        /\ UNCHANGED <<emitted, logged, forwarding, outbox, bridging, reading, stdout>>
    BY <1>1, ReadyFirst DEF StartOk, ControlInv, Unstarted
  <2>2. <<>> \o <<>> \o <<>> \o <<>> \o <<>> \o <<>> \o <<>> = <<>>
    BY EmptySeq, ConcatEmptySeq
  <2>3. OnTheWay' = <<>> /\ emitted' = <<>>
    BY <2>1, <2>2 DEF OnTheWay, Passed, Idle
  <2> QED
    BY <1>0, <2>3
<1>2. CASE StartFails \/ Boot
  BY <1>0, <1>2 DEF StartFails, Boot, ControlInv, Unstarted, Live
<1>4. CASE UNCHANGED <<down, emitted, logged, reader>> /\ (Live' => Live)
  BY <1>0, <1>4 DEF OnTheWay, Passed, down
<1>5. CASE TakeEvent
  <2>1. (Passed \o <<Head(inbox)>>) \o Tail(inbox) = (Passed \o <<>>) \o inbox
    BY <1>5, EventSeqs, MoveFirst DEF TakeEvent
  <2>2. OnTheWay' = OnTheWay /\ UNCHANGED <<bridge, emitted, reader>>
    BY <1>5, <2>1 DEF TakeEvent, Selecting, OnTheWay, Passed
  <2> QED
    BY <1>0, <2>2 DEF Live
<1>6. CASE SendEvent
  <2>1. ((logged \o forwarding) \o (outbox \o bridging)) \o <<>>
            = ((logged \o forwarding) \o outbox) \o bridging
    BY SendsEvent, ConcatEmptySeq
  <2>2. OnTheWay' = OnTheWay /\ UNCHANGED <<bridge, emitted, reader>>
    BY <1>6, <2>1 DEF SendEvent, OnTheWay, Passed
  <2> QED
    BY <1>0, <2>2 DEF Live
<1>7. CASE Closed \/ ReadFails
  BY <1>0, <1>7 DEF Closed, ReadFails, Live
<1>8. CASE ReaderStep
  <2>1. UNCHANGED <<bridge, emitted, bridging>> /\ Passed' = Passed /\ reader = "runs"
    BY <1>8 DEF ReaderStep, Read, Deliver, ReaderEnds, Passed, ControlInv
  <2>2. Live => OnTheWay' = OnTheWay
    <3>1. Live => Listening
      BY DEF ControlInv, Unstarted, Listening, Live
    <3>2. Listening => Read \/ Deliver \/ (ReaderEnds /\ reading = <<>>)
      BY <1>8 DEF ReaderStep, ReaderEnds
    <3> DEFINE a == Passed \o bridging
    <3>3. a \in Seq(Event)
      BY EventSeqs
    <3>4. Listening => a \o inbox' \o reading' \o stdout' = a \o inbox \o reading \o stdout
      BY <3>2, <3>3, ReaderMoves
    <3> QED
      BY <2>1, <3>1, <3>4 DEF OnTheWay
  <2> QED
    BY <1>0, <2>1, <2>2 DEF Live
<1>9. CASE Emit
  <2> DEFINE a == Passed \o bridging \o inbox \o reading
             e == Head(todo)
  <2>1. a \in Seq(Event) /\ stdout \in Seq(Event) /\ e \in Event
    BY <1>9, EventSeqs, Front DEF Emit, Channels
  <2>2. a \o Append(stdout, e) = Append(a \o stdout, e)
    BY ONLY <2>1, AddLast, SMTT(30)
  <2>3. /\ emitted' = Append(emitted, e) /\ stdout' = Append(stdout, e)
        /\ UNCHANGED <<bridge, reader>> /\ a' = a
    BY <1>9 DEF Emit, Passed
  <2>4. OnTheWay = a \o stdout /\ OnTheWay' = a' \o stdout'
    BY DEF OnTheWay
  <2> HIDE DEF a, e
  <2> QED
    BY <1>0, <2>2, <2>3, <2>4 DEF Live
<1>10. CASE ForwarderStep
  <2>1. UNCHANGED <<bridge, emitted, bridging, inbox, reading, stdout, reader>>
        /\ Passed' = Passed
    BY <1>10, ForwarderMoves DEF ForwarderStep, Forward, AppendToLog, ForwarderEnds, down
  <2> QED
    BY <1>0, <2>1 DEF OnTheWay, Live
<1>11. CASE Accept \/ Stop \/ DropEntry \/ Execute \/ ShutDown \/ EmitFails \/ EndOfInput \/ Exit
            \/ VmDies \/ UNCHANGED vars
  BY <1>4, <1>11 DEF Accept, Stop, DropEntry, Execute, ShutDown, EmitFails, EndOfInput, Exit,
      VmDies, vars, Live
<1>12. CASE TakeCommand \/ TakeShutdown \/ Write \/ WriteFails \/ TransportClosed
  BY <1>4, <1>12 DEF TakeCommand, TakeShutdown, Selecting, Write, WriteFails, TransportClosed,
      ControlInv, Live
<1> QED
  BY <1>1, <1>2, <1>5, <1>6, <1>7, <1>8, <1>9, <1>10, <1>11, <1>12
  DEF Next, StartStep, BridgeStep, BrokenPipe, SupervisorStep

LEMMA AheadType ==
  ASSUME Channels
  PROVE  Ahead \in Seq(Event)
  BY EventSeqs DEF Ahead

LEMMA ConservedIsLost ==
  Channels /\ EventsConserved /\ Live /\ reader # "failed" => Lost
<1> SUFFICES ASSUME Channels, EventsConserved, Live, reader # "failed" PROVE Lost
  OBVIOUS
<1>1. /\ Ahead \in Seq(Event) /\ reading \in Seq(Event) /\ stdout \in Seq(Event)
      /\ emitted = Ahead \o reading \o stdout
  BY EventSeqs, AheadType DEF EventsConserved, Live, Ahead, Passed
<1>2. Joined(Joined(Ahead, reading), stdout) = Joined(Ahead, Joined(reading, stdout))
      /\ Joined(reading, stdout) \in Seq(Event)
  BY ONLY <1>1, JoinedTwice, JoinedType
<1>3. (Ahead \o reading) \o stdout = Ahead \o (reading \o stdout)
      /\ reading \o stdout \in Seq(Event)
  BY ONLY <1>2 DEF Joined
<1> QED
  BY <1>1, <1>3 DEF Lost

LEMMA ConservedIsLostNext ==
  (Channels /\ EventsConserved /\ Live /\ reader # "failed" => Lost)'
  BY ConservedIsLost, PTL

LEMMA LostNext ==
  ASSUME Channels, States, ControlInv, EventsConserved, Lost, [Next]_vars,
         Channels', EventsConserved'
  PROVE  Lost'
<1> USE DEF up, states, history
<1>1. CASE Live' /\ reader' # "failed"
  BY <1>1, ConservedIsLostNext
<1>2. CASE Ahead' = Ahead /\ emitted' = emitted
  BY <1>2 DEF Lost
<1>3. CASE StartOk
  <2>1. Passed' = <<>> /\ bridging' = <<>> /\ inbox' = <<>> /\ emitted' = <<>>
    <3>1. <<>> \o <<>> \o <<>> = <<>>
      BY EmptySeq, ConcatEmptySeq
    <3> QED
      BY <1>3, <3>1, ReadyFirst DEF StartOk, ControlInv, Unstarted, Idle, Passed
  <2>2. <<>> \in Seq(Event) /\ <<>> \o <<>> \o <<>> \o <<>> = <<>> /\ <<>> \o <<>> = <<>>
    BY EmptySeq, ConcatEmptySeq
  <2> QED
    BY <2>1, <2>2 DEF Lost, Ahead
<1>4. CASE Closed
  <2>1. PICK lost \in Seq(Event) : emitted = Ahead \o lost
    BY DEF Lost
  <2>2. Ahead = Passed \o bridging \o inbox /\ bridging = <<>>
    BY <1>4 DEF Closed, Ahead, Live, ControlInv
  <2>3. Passed \in Seq(Event) /\ inbox \in Seq(Event) /\ Passed \o <<>> = Passed
    BY EventSeqs, ConcatEmptySeq
  <2>4. Joined(Joined(Passed, inbox), lost) = Joined(Passed, Joined(inbox, lost))
        /\ Joined(inbox, lost) \in Seq(Event)
    BY ONLY <2>1, <2>3, JoinedTwice, JoinedType
  <2>5. emitted = Passed \o (inbox \o lost) /\ inbox \o lost \in Seq(Event)
    BY <2>1, <2>2, <2>3, <2>4 DEF Joined
  <2>6. emitted' = emitted /\ Ahead' = Passed
    BY <1>4 DEF Closed, Ahead, Live, Passed
  <2> QED
    BY <2>5, <2>6 DEF Lost
<1>5. CASE TakeEvent
  <2>1. (Passed \o <<Head(inbox)>>) \o Tail(inbox) = (Passed \o <<>>) \o inbox
    BY <1>5, EventSeqs, MoveFirst DEF TakeEvent
  <2> QED
    BY <1>2, <1>5, <2>1 DEF TakeEvent, Selecting, Ahead, Live, Passed
<1>6. CASE SendEvent
  <2>1. Passed' \o <<>> = Passed \o bridging
    BY <1>6, SendsEvent, ConcatEmptySeq DEF SendEvent, Passed
  <2> QED
    BY <1>2, <1>6, <2>1 DEF SendEvent, ControlInv, Ahead, Live
<1>7. CASE ForwarderStep
  BY <1>2, <1>7, ForwarderMoves DEF ForwarderStep, Forward, AppendToLog, ForwarderEnds, Ahead,
      Live
<1>8. CASE Emit
  BY <1>1, <1>8 DEF Emit, ControlInv, States, Idle, Live
<1>9. CASE Read \/ Deliver \/ ReaderEnds \/ StartFails
  BY <1>1, <1>2, <1>9 DEF Read, Deliver, ReaderEnds, StartFails, ControlInv, Unstarted, Ahead,
      Live, Passed
<1>10. CASE UNCHANGED <<logged, forwarding, outbox, bridging, inbox, emitted>> /\ Live' = Live
  BY <1>2, <1>10 DEF Ahead, Passed
<1>11. CASE TakeCommand \/ TakeShutdown \/ Write \/ WriteFails \/ TransportClosed
  BY <1>10, <1>11 DEF TakeCommand, TakeShutdown, Selecting, Write, WriteFails, TransportClosed,
      ControlInv, Live, down
<1>12. CASE Boot \/ Accept \/ Stop \/ DropEntry \/ Execute \/ ShutDown \/ EmitFails \/ EndOfInput
            \/ Exit \/ ReadFails \/ VmDies \/ UNCHANGED vars
  BY <1>10, <1>12 DEF Boot, Accept, Stop, DropEntry, Execute, ShutDown, EmitFails, EndOfInput,
      Exit, ReadFails, VmDies, vars, Live, down
<1> QED
  BY <1>3, <1>4, <1>5, <1>6, <1>7, <1>8, <1>9, <1>11, <1>12
  DEF Next, StartStep, BridgeStep, BrokenPipe, ReaderStep, SupervisorStep

LEMMA TodoNext ==
  ASSUME Channels, States, ControlInv, CommandsInv, Todo, [Next]_vars
  PROVE  Todo'
<1> USE DEF up, states, history
<1>1. CASE Execute
  <2>1. PICK n \in 1 .. MaxOutput : todo' = Output(Head(stdin), n)
    BY <1>1 DEF Execute
  <2>2. Head(stdin) = executed' /\ Head(stdin) \in Command
    <3>1. stdin # <<>> /\ stdin \in Seq(Command)
      BY <1>1 DEF Execute, Channels, Holds
    <3> QED
      BY <1>1, <3>1, ExecuteKeeps, Front
  <2>3. \A i \in 1 .. Len(todo') : todo'[i].cmd = executed'
    BY <2>1, <2>2, OutputType
  <2> QED
    BY <2>3 DEF Todo
<1>2. CASE ShutDown
  <2>1. todo' = <<ShutdownEvent>> /\ ShutdownEvent.cmd = Shutdown
    BY <1>2 DEF ShutDown, ShutdownEvent, Shutdown
  <2>2. Len(<<ShutdownEvent>>) = 1 /\ <<ShutdownEvent>>[1] = ShutdownEvent
    OBVIOUS
  <2> QED
    BY <2>1, <2>2 DEF Todo
<1>3. CASE Emit
  <2>1. todo \in Seq(Event) /\ todo # <<>> /\ todo' = Tail(todo) /\ executed' = executed
    BY <1>3 DEF Emit, Channels
  <2>2. /\ Len(Tail(todo)) = Len(todo) - 1 /\ Len(todo) \in Nat
        /\ \A i \in 1 .. Len(Tail(todo)) : Tail(todo)[i] = todo[i + 1]
    BY <2>1, Front, HeadTailProperties
  <2>3. \A i \in 1 .. Len(Tail(todo)) : i + 1 \in 1 .. Len(todo)
    BY <2>2
  <2> QED
    BY <2>1, <2>2, <2>3 DEF Todo
<1>4. CASE todo' = <<>>
  BY <1>4, EmptySeq DEF Todo
<1>5. CASE UNCHANGED <<todo, executed>>
  BY <1>5 DEF Todo
<1>6. UNCHANGED <<todo, executed>> \/ todo' = <<>> \/ Execute \/ ShutDown \/ Emit
  BY DEF Next, StartStep, StartOk, StartFails, Boot, Accept, Stop, StopVm, Dead, DropEntry,
      BridgeStep, TakeCommand, TakeShutdown, Write, WriteFails, TakeEvent, SendEvent,
      TransportClosed, Closed, BrokenPipe, ReaderStep, Read, Deliver, ReaderEnds, ReadFails,
      SupervisorStep, EmitFails, EndOfInput, Exit, ForwarderStep, Forward, AppendToLog,
      ForwarderEnds, VmDies, vars
<1> QED
  BY <1>1, <1>2, <1>3, <1>4, <1>5, <1>6

-----------------------------------------------------------------------------
(* The invariant, and what follows from it. *)

LEMMA LinkInit == Init => LinkInv
<1> SUFFICES ASSUME Init PROVE LinkInv
  OBVIOUS
<1> USE Capacities DEF Init
<1>0. <<>> \in Seq(Event) /\ <<>> \in Seq(Command) /\ <<>> \in Seq(1 .. MaxCommands)
      /\ Len(<<>>) = 0
  BY EmptySeq
<1>1. TypeOK
  BY <1>0, TypesOpen DEF Channels, States, Holds
<1>2. <<>> \o <<>> = <<>>
  BY EmptySeq, ConcatEmptySeq
<1>3. ControlInv
  BY <1>2 DEF ControlInv, Unstarted, Idle, Arriving, Listening, EndOfFile
<1>4. EventsInv
  <2>1. Passed = <<>> /\ <<>> \o <<>> = <<>>
    BY <1>2 DEF Passed
  <2>2. Lost
    BY <1>0, <2>1 DEF Lost, Ahead, Live
  <2>3. Todo
    BY <1>0 DEF Todo
  <2> QED
    BY <2>2, <2>3 DEF EventsInv, EventsConserved
<1>5. CommandsInv
  BY <1>0 DEF CommandsInv
<1> QED
  BY <1>1, <1>3, <1>4, <1>5 DEF LinkInv

LEMMA TypesOpenNext == (Channels /\ States /\ executed \in 0 .. MaxCommands => TypeOK)'
<1>1. Channels /\ States /\ executed \in 0 .. MaxCommands => TypeOK
  BY TypesOpen
<1> QED
  BY <1>1, PTL

LEMMA LinkNext == LinkInv /\ [Next]_vars => LinkInv'
<1> SUFFICES ASSUME LinkInv, [Next]_vars PROVE LinkInv'
  OBVIOUS
<1>1. Channels /\ States /\ ControlInv /\ CommandsInv /\ EventsConserved /\ Lost /\ Todo
  BY TypesOpen DEF LinkInv, EventsInv
<1>2. Channels' /\ States'
  BY <1>1, ChannelsNext DEF ControlInv
<1>3. ControlInv' /\ CommandsInv' /\ EventsInv'
  BY <1>1, <1>2, ControlNext, CommandsNext, ConservedNext, LostNext, TodoNext DEF EventsInv
<1>4. TypeOK'
  <2>1. executed' \in 0 .. MaxCommands
    BY <1>2, <1>3, Capacities DEF States, CommandsInv
  <2>2. (Channels /\ States /\ executed \in 0 .. MaxCommands => TypeOK)'
    BY TypesOpenNext
  <2> QED
    BY <1>2, <2>1, <2>2
<1> QED
  BY <1>3, <1>4 DEF LinkInv

\* Every state of the link satisfies the invariant.
THEOREM LinkInvariance == Spec => []LinkInv
  BY LinkInit, LinkNext, PTL DEF Spec

\* The channels and pipes of the link (transport.rs, start() in lib.rs) never
\* hold more than their capacity, whatever that is.
THEOREM LinkTypes == Spec => []TypeOK
<1>1. LinkInv => TypeOK
  BY DEF LinkInv
<1> QED
  BY <1>1, LinkInvariance, PTL

\* Until the bridge task ends or the reader fails, no event of the VM is lost or
\* overtaken between its standard output and the event log (the bridge task, the
\* reader task of transport.rs, forward_vm_events).
THEOREM LinkEvents == Spec => []EventsConserved
<1>1. LinkInv => EventsConserved
  BY DEF LinkInv, EventsInv
<1> QED
  BY <1>1, LinkInvariance, PTL

LEMMA PendingIsPart ==
  ASSUME NEW a \in Nat, NEW b \in Nat, NEW n \in Nat, a <= b, b <= n
  PROVE  Pending(a, b) = SubSeq([i \in 1 .. n |-> i], a + 1, b)
<1> DEFINE all == [i \in 1 .. n |-> i]
           p == Pending(a, b)
           q == SubSeq(all, a + 1, b)
<1>1. all \in Seq(Nat) /\ Len(all) = n /\ \A i \in 1 .. n : all[i] = i
  OBVIOUS
<1>2. p \in Seq(Nat) /\ Len(p) = b - a /\ \A i \in 1 .. b - a : p[i] = a + i
  BY PendingType
<1> HIDE DEF all, p
<1>3. /\ q \in Seq(Nat) /\ Len(q) = b - a
      /\ \A i \in 1 .. b - a : q[i] = all[a + i]
  <2>1. a + 1 \in Int /\ b \in Int /\ \A i \in a + 1 .. b : all[i] \in Nat
    BY <1>1
  <2>2. /\ q \in Seq(Nat)
        /\ Len(q) = IF a + 1 <= b THEN b - (a + 1) + 1 ELSE 0
        /\ \A i \in 1 .. b - (a + 1) + 1 : q[i] = all[a + 1 + i - 1]
    BY ONLY <2>1, SubSeqProperties DEF q
  <2>3. b - (a + 1) + 1 = b - a /\ (a + 1 <= b \/ b - a = 0)
        /\ \A i \in 1 .. b - a : a + 1 + i - 1 = a + i
    OBVIOUS
  <2> HIDE DEF q
  <2> QED
    BY <2>2, <2>3
<1>4. \A i \in 1 .. b - a : a + i \in 1 .. n
  OBVIOUS
<1>5. \A i \in 1 .. b - a : q[i] = p[i]
  BY <1>1, <1>2, <1>3, <1>4
<1> HIDE DEF q
<1>6. p = q
  BY <1>2, <1>3, <1>5, SeqEqual
<1> QED
  BY <1>6 DEF p, q, all

\* While VM and bridge run, no command that send_to_vm() accepted is lost or
\* overtaken on its way through the channel and the VM's standard input, and
\* Shutdown comes after the last of them.
THEOREM LinkCommands == Spec => []CommandsConserved
<1>1. LinkInv => CommandsConserved
  <2> SUFFICES ASSUME LinkInv, bridge = "loop", vm # "exited"
               PROVE  stdin \o writing \o queue
                        = SubSeq([i \in 1 .. MaxCommands |-> i], executed + 1, accepted)
                            \o (IF writing = <<Shutdown>> THEN <<Shutdown>> ELSE <<>>)
    BY DEF CommandsConserved
  <2>1. vm = "runs" \/ vm = "boots" \/ vm = "exiting"
    BY DEF LinkInv, TypeOK
  <2>2. vm = "runs"
    BY <2>1 DEF LinkInv, ControlInv, CommandsInv, Unstarted
  <2>3. Line = Pending(executed, accepted) \o Sent
    BY <2>2 DEF LinkInv, CommandsInv
  <2>4. /\ executed \in Nat /\ accepted \in Nat /\ MaxCommands \in Nat
        /\ executed <= accepted /\ accepted <= MaxCommands
    BY Capacities DEF LinkInv, TypeOK, CommandsInv
  <2> QED
    BY <2>3, <2>4, PendingIsPart DEF Line, Sent
<1> QED
  BY <1>1, LinkInvariance, PTL

\* A VM that has read Shutdown has executed every command the pool accepted for
\* it, and none will follow (run_supervisor's loop, the closing of the command
\* channel in the bridge task).
THEOREM LinkShutdown == Spec => []ShutdownIsLast
<1>1. <<>> \o <<>> \o <<>> = <<>>
  BY EmptySeq, ConcatEmptySeq
<1>2. LinkInv => ShutdownIsLast
  BY <1>1 DEF LinkInv, CommandsInv, ShutdownIsLast
<1> QED
  BY <1>2, LinkInvariance, PTL

-----------------------------------------------------------------------------
(* Refinement: the link's history variables are the session's variables. *)

sessionVars == <<accepted, executed, emitted, logged>>

LEMMA SessionQuiet ==
  ASSUME [Next]_vars, ~Accept, ~Execute, ~Emit, ~AppendToLog
  PROVE  UNCHANGED sessionVars
  BY DEF Next, StartStep, StartOk, StartFails, Boot, Stop, DropEntry, BridgeStep,
      TakeCommand, TakeShutdown, Write, BrokenPipe, WriteFails, TakeEvent, SendEvent,
      TransportClosed, Closed, ReaderStep, Read, Deliver, ReaderEnds, ReadFails, SupervisorStep,
      ShutDown, EmitFails, EndOfInput, Exit, ForwarderStep, Forward, ForwarderEnds, VmDies, vars,
      history, sessionVars

LEMMA PassedIsFirst ==
  ASSUME Channels, Lost
  PROVE  \E lost \in Seq(Event) : emitted = Passed \o lost
<1>1. PICK lost \in Seq(Event) : emitted = Ahead \o lost
  BY DEF Lost
<1>2. CASE ~Live
  BY <1>1, <1>2 DEF Ahead
<1>3. CASE Live
  <2>1. Passed \in Seq(Event) /\ bridging \in Seq(Event) /\ inbox \in Seq(Event)
    BY EventSeqs
  <2>2. Joined(Joined(Joined(Passed, bridging), inbox), lost)
          = Joined(Passed, Joined(Joined(bridging, inbox), lost))
        /\ Joined(Joined(bridging, inbox), lost) \in Seq(Event)
    BY ONLY <1>1, <2>1, Regroup, JoinedType
  <2>3. /\ Passed \o bridging \o inbox \o lost = Passed \o (bridging \o inbox \o lost)
        /\ bridging \o inbox \o lost \in Seq(Event)
    BY ONLY <2>2 DEF Joined
  <2> QED
    BY <1>1, <1>3, <2>3 DEF Ahead
<1> QED
  BY <1>2, <1>3

\* The forwarder appends the event that comes next in what was emitted.
LEMMA LogsNext ==
  ASSUME Channels, Lost, AppendToLog
  PROVE  Session!Log
<1> DEFINE e == Head(forwarding)
           n == Len(logged) + 1
<1>1. /\ logged \in Seq(Event) /\ outbox \in Seq(Event) /\ forwarding \in Seq(Event)
      /\ forwarding # <<>> /\ Len(forwarding) \in {0, 1}
  BY EventSeqs DEF AppendToLog, Channels, Holds
<1>2. e \in Event /\ forwarding = <<e>>
  BY <1>1, Single
<1>3. PICK lost \in Seq(Event) : emitted = Passed \o lost
  BY PassedIsFirst
<1> HIDE DEF e
<1>4. logged \o forwarding = Append(logged, e)
  BY <1>1, <1>2, AppendIsConcat
<1>5. emitted = (Append(logged, e) \o outbox) \o lost
  BY <1>3, <1>4 DEF Passed
<1>6. /\ Append(logged, e) \in Seq(Event) /\ Len(Append(logged, e)) = n
      /\ Append(logged, e)[n] = e /\ Len(logged) \in Nat
  BY <1>1, <1>2, AppendProperties, LenProperties
<1>7. /\ Append(logged, e) \o outbox \in Seq(Event)
      /\ Len(Append(logged, e) \o outbox) >= n
      /\ (Append(logged, e) \o outbox)[n] = e
  BY <1>1, <1>6, ConcatProperties, LenProperties
<1>8. Len(emitted) >= n /\ emitted[n] = e
  BY <1>3, <1>5, <1>6, <1>7, ConcatProperties, LenProperties
<1>9. Len(emitted) \in Nat
  BY <1>3, <1>5, <1>7, ConcatProperties, LenProperties
<1> QED
  BY <1>4, <1>6, <1>8, <1>9 DEF AppendToLog, Session!Log

LEMMA StepIsSession ==
  ASSUME LinkInv, [Next]_vars
  PROVE  [Session!Next]_sessionVars
<1>1. Channels /\ States /\ ControlInv /\ CommandsInv /\ Lost /\ Todo
  BY TypesOpen DEF LinkInv, EventsInv
<1>2. CASE Accept
  BY <1>2 DEF Accept, Session!Next, Session!Accept
<1>3. CASE Execute
  <2>1. executed < accepted
    BY <1>1, <1>3, ExecuteKeeps
  <2> QED
    BY <1>3, <2>1 DEF Execute, Session!Next, Session!Execute
<1>4. CASE Emit
  <2>1. todo \in Seq(Event) /\ todo # <<>>
    BY <1>1, <1>4 DEF Emit, Channels
  <2>2. Head(todo) = todo[1] /\ 1 \in 1 .. Len(todo) /\ Head(todo) \in Event
    BY <2>1, Front
  <2>3. Head(todo).cmd \in {0, executed}
    BY <1>1, <2>2 DEF Todo, Shutdown
  <2>4. Session!Emit(Head(todo))
    BY <1>4, <2>3 DEF Emit, Session!Emit
  <2>5. Head(todo) \in Session!Event
    BY <2>2 DEF Event, Command, Shutdown, Session!Event
  <2> QED
    BY <2>4, <2>5 DEF Session!Next
<1>5. CASE AppendToLog
  BY <1>1, <1>5, LogsNext DEF Session!Next
<1> QED
  BY <1>2, <1>3, <1>4, <1>5, SessionQuiet

\* The link implements VmSession: commands are executed in the order in which
\* they were accepted, each at most once, and the event log gets the events in
\* the order in which the VM emitted them, each at most once (the whole chain
\* from send_to_vm() to forward_vm_events), also when the VM dies, its start is
\* given up or it is deallocated in between.
THEOREM LinkImplementsSession == Spec => ImplementsSession
<1>1. Init => Session!Init
  BY DEF Init, Session!Init
<1>2. LinkInv /\ [Next]_vars => [Session!Next]_sessionVars
  BY StepIsSession
<1> QED
  BY <1>1, <1>2, LinkInvariance, PTL DEF Spec, ImplementsSession, Session!Spec, sessionVars
=============================================================================
