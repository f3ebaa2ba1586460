----------------------------- MODULE Connection -----------------------------
(***************************************************************************)
(* One client's connection to the service (crates/client/src/lib.rs;       *)
(* crates/service/src/lib.rs, handle_connection).  Answers to the client's *)
(* requests and the events of the VMs share one stream:                    *)
(*                                                                         *)
(*   request() -> commands -> input -> read loop -> responses              *)
(*   event log -> broadcast -> forwarder -> responses                      *)
(*   responses -> stream -> inbox -> request() or next_event()             *)
(*                                                                         *)
(* `input' and `stream' are the two directions of the socket, with what    *)
(* the tasks that write and read it have in hand.  Requests are their      *)
(* numbers, events their positions in what is broadcast after the          *)
(* connection was made.                                                    *)
(*                                                                         *)
(* An operator whose name starts with Bug is a wrong form of the operator  *)
(* after it, used to show that a property notices the mistake.             *)
(***************************************************************************)
EXTENDS Naturals, Sequences

CONSTANTS Methods,             \* the methods of Client that are called
          MaxRequests,         \* bound: requests in all
          MaxEvents,           \* bound: events appended to the log in all
          MaxInputs,           \* bound: requests and events together
          CommandCapacity,     \* of the client's command channel; 64 in the code
          SocketCapacity,      \* of each direction of the socket, in lines
          ResponseCapacity,    \* of the service's response channel; 64
          InboxCapacity,       \* of the client's response channel; 64
          BroadcastCapacity    \* of the event log's broadcast channel; 1024

\* What each method of Client expects as its answer, which is what
\* handle_command returns for its command unless it returns an error.
Response ==
    [status |-> "PoolStatus", allocate |-> "VmAllocated", deallocate |-> "VmStopped",
     send_to_vm |-> "CommandSent", snapshot |-> "VmStopped", restore |-> "VmReady",
     tail_logs |-> "LogTail", subscribe_logs |-> "LogsSubscribed",
     unsubscribe_logs |-> "LogsSubscribed"]

\* The commands that may fail.
MayFail == {"allocate", "deallocate", "send_to_vm", "snapshot", "restore"}

ASSUME ConnectionAssumption ==
    /\ Methods \subseteq DOMAIN Response
    /\ {MaxRequests, MaxEvents, MaxInputs} \subseteq Nat
    /\ {CommandCapacity, SocketCapacity, ResponseCapacity, InboxCapacity,
        BroadcastCapacity} \subseteq Nat \ {0}

VARIABLES
    client,        \* "idle", "sending" or "waiting" in request(), or "gone"
    asked,         \* the methods called so far, one per request
    commands,      \* the client's command channel
    input,         \* the socket to the service
    read_loop,     \* the task of handle_connection: "reads" or "done"
    handling,      \* the request it handles
    answering,     \* the answer it is sending
    published,     \* the events broadcast since the connection was made
    forwarder,     \* the event forwarder: "runs" or "done"
    seen,          \* how many of them it has taken
    forwarding,    \* the event it is sending
    responses,     \* the response channel
    responder,     \* the response writer: "runs" or "done"
    stream,        \* the socket to the client
    receiver,      \* the client's reader task: "runs" or "done"
    inbox,         \* the client's response channel
    taken          \* history: what the client took from it, and by which request

requests == <<client, asked, commands, input>>
service == <<read_loop, handling, answering>>
events == <<published, forwarder, seen, forwarding>>
replies == <<responses, responder, stream, receiver, inbox>>
vars == <<requests, service, events, replies, taken>>

\* What the client may find in its inbox: the answer to request n, or the n-th
\* event, if it is an application event of a VM.
Kinds == {Response[m] : m \in DOMAIN Response} \cup {"Error", "VmApp"}
Item == [kind : Kinds, n : Nat]
Answer(r, kind) == [kind |-> kind, n |-> r]
AppEvent(i) == [kind |-> "VmApp", n |-> i]
IsAnswer(item) == item.kind # "VmApp"

\* An item of the inbox is taken by request number `by', or by next_event().
NextEventCall == 0
Taken == [item : Item, by : 0 .. MaxRequests]

\* Of the log's events only those of the application are forwarded.
EventKinds == {"app", "other"}

TypeOK ==
    /\ client \in {"idle", "sending", "waiting", "gone"}
    /\ asked \in Seq(Methods) /\ Len(asked) <= MaxRequests
    /\ {commands, input, handling} \subseteq Seq(1 .. MaxRequests)
    /\ read_loop \in {"reads", "done"}
    /\ {forwarder, responder, receiver} \subseteq {"runs", "done"}
    /\ {answering, forwarding, responses, stream, inbox} \subseteq Seq(Item)
    /\ {Len(handling), Len(answering), Len(forwarding)} \subseteq {0, 1}
    /\ published \in Seq(EventKinds) /\ Len(published) <= MaxEvents
    /\ seen \in 0 .. Len(published)
    /\ Len(commands) <= CommandCapacity
    /\ Len(responses) <= ResponseCapacity
    /\ {Len(input), Len(stream)} \subseteq 0 .. SocketCapacity
    /\ Len(inbox) <= InboxCapacity
    /\ taken \in Seq(Taken)

Init ==
    /\ client = "idle" /\ asked = <<>> /\ commands = <<>> /\ input = <<>>
    /\ read_loop = "reads" /\ handling = <<>> /\ answering = <<>>
    /\ published = <<>> /\ forwarder = "runs" /\ seen = 0 /\ forwarding = <<>>
    /\ responses = <<>> /\ responder = "runs"
    /\ stream = <<>> /\ receiver = "runs" /\ inbox = <<>>
    /\ taken = <<>>

-----------------------------------------------------------------------------
(* The client.  Its methods take `&mut self': one call at a time. *)

Request(method) ==
    /\ client = "idle" /\ Len(asked) < MaxRequests
    /\ Len(asked) + Len(published) < MaxInputs
    /\ client' = "sending"
    /\ asked' = Append(asked, method)
    /\ UNCHANGED <<commands, input, service, events, replies, taken>>

SendCommand ==
    /\ client = "sending"
    /\ Len(commands) < CommandCapacity
    /\ commands' = Append(commands, Len(asked))
    /\ client' = "waiting"
    /\ UNCHANGED <<asked, input, service, events, replies, taken>>

Take(by) ==
    /\ inbox # <<>>
    /\ taken' = Append(taken, [item |-> Head(inbox), by |-> by])
    /\ inbox' = Tail(inbox)

\* request() returns the next thing that arrives, which its caller compares
\* with the response it expects.
Receive ==
    /\ client = "waiting"
    /\ Take(Len(asked))
    /\ client' = "idle"
    /\ UNCHANGED <<asked, commands, input, service, events, responses, responder, stream,
                   receiver>>

\* next_event().
NextEvent ==
    /\ client = "idle"
    /\ Take(NextEventCall)
    /\ UNCHANGED <<requests, service, events, responses, responder, stream, receiver>>

\* The client is dropped, perhaps in the middle of a request.  The commands
\* it has sent go on.
Disconnect ==
    /\ client # "gone"
    /\ client' = "gone"
    /\ inbox' = <<>>
    /\ UNCHANGED <<asked, commands, input, service, events, responses, responder, stream,
                   receiver, taken>>

\* The client's writer task.
WriteCommand ==
    /\ commands # <<>>
    /\ Len(input) < SocketCapacity
    /\ input' = Append(input, Head(commands))
    /\ commands' = Tail(commands)
    /\ UNCHANGED <<client, asked, service, events, replies, taken>>

\* The client's reader task.
Deliver ==
    /\ client # "gone" /\ receiver = "runs" /\ stream # <<>>
    /\ Len(inbox) < InboxCapacity
    /\ inbox' = Append(inbox, Head(stream))
    /\ stream' = Tail(stream)
    /\ UNCHANGED <<requests, service, events, responses, responder, receiver, taken>>

\* It notices that the client is gone when it has something to deliver, or
\* that the service has closed its side.
ReceiverEnds ==
    /\ receiver = "runs"
    /\ \/ client = "gone" /\ stream # <<>>
       \/ responder = "done" /\ stream = <<>>
    /\ receiver' = "done"
    /\ UNCHANGED <<requests, service, events, responses, responder, stream, inbox, taken>>

ReceiverStep == Deliver \/ ReceiverEnds

-----------------------------------------------------------------------------
(* The read loop: one command after the other, its answer sent before the   *)
(* next command is read.                                                    *)

ReadCommand ==
    /\ read_loop = "reads" /\ handling = <<>> /\ answering = <<>>
    /\ input # <<>>
    /\ handling' = <<Head(input)>>
    /\ input' = Tail(input)
    /\ UNCHANGED <<client, asked, commands, read_loop, answering, events, replies, taken>>

\* handle_command: every command, also one that fails, has one answer.
Replies(r) ==
    {Response[asked[r]]} \cup IF asked[r] \in MayFail THEN {"Error"} ELSE {}

BugReply(r, kind) == <<>>
Reply(r, kind) == <<Answer(r, kind)>>

HandleCommand ==
    /\ handling # <<>>
    /\ \E kind \in Replies(Head(handling)) : answering' = Reply(Head(handling), kind)
    /\ handling' = <<>>
    /\ UNCHANGED <<requests, read_loop, events, replies, taken>>

\* Sending waits for room in the response channel.  It fails when the
\* response writer is gone; the failure is ignored.
BugRefused == FALSE
Refused == responder = "done"

BugUnbounded(items) == responses' = responses \o items
BugSent(items) ==
    responses' = IF Len(responses) < ResponseCapacity THEN responses \o items ELSE responses
Sent(items) == Len(responses) < ResponseCapacity /\ responses' = responses \o items

Send(items) ==
    /\ items # <<>>
    /\ \/ Refused /\ UNCHANGED responses
       \/ ~Refused /\ Sent(items)

BugAnswered == UNCHANGED answering
Answered == answering' = <<>>

SendAnswer ==
    /\ Send(answering)
    /\ Answered
    /\ UNCHANGED <<requests, read_loop, handling, events, responder, stream, receiver,
                   inbox, taken>>

\* The client's writer task has sent all there was and closed its side.
EndOfInput ==
    /\ read_loop = "reads" /\ handling = <<>> /\ answering = <<>>
    /\ client = "gone" /\ commands = <<>> /\ input = <<>>
    /\ read_loop' = "done"
    /\ UNCHANGED <<requests, handling, answering, events, replies, taken>>

ReadLoopStep == ReadCommand \/ HandleCommand \/ SendAnswer \/ EndOfInput

-----------------------------------------------------------------------------
(* The event forwarder and the response writer. *)

\* An event is appended to the log and broadcast.
Publish(kind) ==
    /\ Len(published) < MaxEvents
    /\ Len(asked) + Len(published) < MaxInputs
    /\ published' = Append(published, kind)
    /\ UNCHANGED <<requests, service, forwarder, seen, forwarding, replies, taken>>

\* The broadcast channel has overwritten an event the forwarder has not taken.
Lagged == Len(published) - seen > BroadcastCapacity

TakeEvent ==
    /\ forwarder = "runs" /\ forwarding = <<>>
    /\ seen < Len(published) /\ ~Lagged
    /\ seen' = seen + 1
    /\ forwarding' = IF published[seen'] = "app" THEN <<AppEvent(seen')>> ELSE <<>>
    /\ UNCHANGED <<requests, service, published, forwarder, replies, taken>>

\* recv() returns Err(Lagged), which ends the loop as a closed channel does.
BugAfterLag == seen' = Len(published) - BroadcastCapacity /\ UNCHANGED forwarder
AfterLag == forwarder' = "done" /\ UNCHANGED seen

ForwarderLags ==
    /\ forwarder = "runs" /\ forwarding = <<>>
    /\ Lagged
    /\ AfterLag
    /\ UNCHANGED <<requests, service, published, forwarding, replies, taken>>

SendEvent ==
    /\ Send(forwarding)
    /\ forwarding' = <<>>
    /\ UNCHANGED <<requests, service, published, forwarder, seen, responder, stream,
                   receiver, inbox, taken>>

ForwarderStep == TakeEvent \/ ForwarderLags \/ SendEvent

\* The client has closed the socket when both its tasks have ended.
SocketClosed == client = "gone" /\ commands = <<>> /\ receiver = "done"

WriteResponse ==
    /\ responder = "runs" /\ responses # <<>>
    /\ ~SocketClosed /\ Len(stream) < SocketCapacity
    /\ stream' = Append(stream, Head(responses))
    /\ responses' = Tail(responses)
    /\ UNCHANGED <<requests, service, events, responder, receiver, inbox, taken>>

\* A write fails, or nobody is left who could send a response.
ResponderEnds ==
    /\ responder = "runs"
    /\ \/ responses # <<>> /\ SocketClosed
       \/ responses = <<>> /\ read_loop = "done" /\ forwarder = "done"
    /\ responder' = "done"
    /\ responses' = <<>>
    /\ UNCHANGED <<requests, service, events, stream, receiver, inbox, taken>>

ResponderStep == WriteResponse \/ ResponderEnds

-----------------------------------------------------------------------------
ClientStep ==
    \/ \E method \in Methods : Request(method)
    \/ SendCommand
    \/ Receive
    \/ NextEvent
    \/ Disconnect

Next ==
    \/ ClientStep
    \/ WriteCommand
    \/ ReceiverStep
    \/ ReadLoopStep
    \/ \E kind \in EventKinds : Publish(kind)
    \/ ForwarderStep
    \/ ResponderStep

Spec == Init /\ [][Next]_vars

\* Every task runs when it can; handle_command returns, as the pool's model
\* shows for its calls; a client that is not making a request takes what is
\* there with next_event().
FairSpec ==
    /\ Spec
    /\ WF_vars(SendCommand)
    /\ WF_vars(Receive)
    /\ WF_vars(NextEvent)
    /\ WF_vars(WriteCommand)
    /\ WF_vars(ReceiverStep)
    /\ WF_vars(ReadLoopStep)
    /\ WF_vars(ForwarderStep)
    /\ WF_vars(ResponderStep)

-----------------------------------------------------------------------------
(* Properties *)

\* What has left the service's tasks for the client, oldest first.
Sequel == [i \in DOMAIN taken |-> taken[i].item] \o inbox \o stream \o responses

AnswersIn(items) == {i \in DOMAIN items : IsAnswer(items[i])}
EventsIn(items) == DOMAIN items \ AnswersIn(items)

\* The items at these places are those with these numbers, in their order.
Ascending(items, places, numbers) ==
    /\ {items[i].n : i \in places} = numbers
    /\ \A i, j \in places : i < j => items[i].n < items[j].n

\* Every request that was sent is in one place: on its way, handled, or in the
\* form of its one answer on its way back or at the client, all in the order
\* of the requests.
RequestsConserved ==
    client # "gone" =>
        LET out == Sequel \o answering
            sent == Len(asked) - (IF client = "sending" THEN 1 ELSE 0) IN
        \E n \in 0 .. sent :
            /\ Ascending(out, AnswersIn(out), 1 .. n)
            /\ handling \o input \o commands = [i \in 1 .. sent - n |-> n + i]

\* The events a client gets have no gap: they are the application events since
\* the connection was made up to some point, however far the forwarder fell
\* behind.
EventsContiguous ==
    client # "gone" =>
        LET out == Sequel \o forwarding IN
        Ascending(out, EventsIn(out), {i \in 1 .. seen : published[i] = "app"})

\* request() has returned an event to its caller, before taken[i].
Confused(i) == \E j \in 1 .. i - 1 :
    taken[j].by # NextEventCall /\ ~IsAnswer(taken[j].item)

\* As long as no request has returned an event, each returns its own answer
\* and next_event() returns events only.
AnswersFit ==
    \A i \in DOMAIN taken :
        IsAnswer(taken[i].item) /\ ~Confused(i) => taken[i].item.n = taken[i].by

\* "Allocate a VM. Returns the VM ID", and so for the other methods: one that
\* succeeds returns the answer to its own request.
OkIsOwn ==
    \A i \in DOMAIN taken :
        taken[i].by # NextEventCall /\ taken[i].item.kind = Response[asked[taken[i].by]]
            => taken[i].item.n = taken[i].by

\* The requests whose answers the service has yet to send.
UnderWay == Len(commands) + Len(input) + Len(handling) + Len(answering)

\* A client makes one more request than command channel, socket and read loop
\* hold: one it may be waiting for ever to send.
Overloaded == client = "sending" /\ UnderWay > CommandCapacity + SocketCapacity

\* A request returns, whatever events arrive meanwhile, if the client has room
\* for it: the requests before it that have returned an event have left no more
\* of their own under way than the command channel and the socket hold.  With
\* one more the client waits for room in the channel, its writer for room in the
\* socket, the read loop for room for its answer, and the response writer and
\* the client's reader for the client.
RequestReturns ==
    client \in {"sending", "waiting"} /\ ~Overloaded ~> client \in {"idle", "gone"}

\* A client has yet to get an application event.
Behind ==
    \E n \in DOMAIN published :
        published[n] = "app" /\ \A i \in DOMAIN taken : taken[i].item # AppEvent(n)

\* A client that keeps taking what is there gets every application event that
\* has been published, once no more come (here no more than MaxEvents do), unless
\* the forwarder falls behind by more than the broadcast channel holds, or the
\* client cannot go on with a request.
EventsReach == Behind ~> ~Behind \/ client = "gone" \/ Overloaded \/ forwarder = "done"

\* When the client is gone the service handles the commands it has sent and
\* ends the connection's read loop, although nobody takes the answers, if all of
\* them find room: in the socket, but for the one that is handled.  With one more
\* the client's writer waits for room in the socket and so keeps open the socket
\* whose end would release the response writer, and with it the read loop.
GoneClientServed ==
    client = "gone" /\ UnderWay <= SocketCapacity + 1
        ~> read_loop = "done" /\ commands = <<>>
=============================================================================
