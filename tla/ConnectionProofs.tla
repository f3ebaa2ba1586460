-------------------------- MODULE ConnectionProofs --------------------------
(***************************************************************************)
(* Proofs about a client's connection (module Connection), for any         *)
(* capacities and any number of requests and events: the types; that every *)
(* request has one answer, in order, and that the events have no gap; and  *)
(* that the client gets the answers to its requests one by one as long as  *)
(* no request has returned an event; and up to which number of requests    *)
(* none of them can be stuck.                                              *)
(***************************************************************************)
EXTENDS Connection, ChannelFacts

-----------------------------------------------------------------------------
(* The inductive invariant. *)

Asked == 1 .. Len(asked)

Channels ==
    /\ Holds(Asked, commands, CommandCapacity)
    /\ Holds(Asked, input, SocketCapacity)
    /\ Holds(Asked, handling, 1)
    /\ Holds(Item, answering, 1)
    /\ Holds(Item, forwarding, 1)
    /\ Holds(Item, responses, ResponseCapacity)
    /\ Holds(Item, stream, SocketCapacity)
    /\ Holds(Item, inbox, InboxCapacity)

States ==
    /\ client \in {"idle", "sending", "waiting", "gone"}
    /\ client \in {"sending", "waiting"} => asked # <<>>
    /\ read_loop \in {"reads", "done"}
    /\ {forwarder, responder, receiver} \subseteq {"runs", "done"}
    /\ Holds(Methods, asked, MaxRequests)
    /\ Holds(EventKinds, published, MaxEvents)
    /\ seen \in 0 .. Len(published)
    /\ taken \in Seq(Taken)

\* Nobody takes answers only when the client is gone.
GoneInv == read_loop = "done" \/ responder = "done" => client = "gone"

\* The forwarder sends events only.
Bare(s) == \A i \in DOMAIN s : ~IsAnswer(s[i])

\* The only answer in s is the one to request r.
Own(s, r) ==
    \E i \in DOMAIN s :
        /\ IsAnswer(s[i]) /\ s[i].n = r
        /\ \A j \in DOMAIN s : j # i => ~IsAnswer(s[j])

NoRequest == commands = <<>> /\ input = <<>> /\ handling = <<>>
NoAnswer == Bare(answering) /\ Bare(responses) /\ Bare(stream) /\ Bare(inbox)

OneRequest ==
    LET r == <<Len(asked)>> IN
    \/ commands = r /\ input = <<>> /\ handling = <<>>
    \/ commands = <<>> /\ input = r /\ handling = <<>>
    \/ commands = <<>> /\ input = <<>> /\ handling = r

OneAnswer ==
    \/ Own(answering, Len(asked)) /\ Bare(responses) /\ Bare(stream) /\ Bare(inbox)
    \/ Bare(answering) /\ Own(responses, Len(asked)) /\ Bare(stream) /\ Bare(inbox)
    \/ Bare(answering) /\ Bare(responses) /\ Own(stream, Len(asked)) /\ Bare(inbox)
    \/ Bare(answering) /\ Bare(responses) /\ Bare(stream) /\ Own(inbox, Len(asked))

\* A request has returned an event.
Mixed == \E j \in DOMAIN taken : taken[j].by # NextEventCall /\ ~IsAnswer(taken[j].item)

\* While none has, what is under way is the request that the client waits for,
\* or its answer, and nothing else.
Flight ==
    IF client = "waiting"
    THEN (OneRequest /\ NoAnswer) \/ (NoRequest /\ OneAnswer)
    ELSE NoRequest /\ NoAnswer

FlightInv == client # "gone" /\ ~Mixed => Flight

\* Where the requests are that the client has sent and that have no answer on
\* its way to the client.
Numbers(items) == [i \in DOMAIN items |-> items[i].n]
SentCount == Len(asked) - (IF client = "sending" THEN 1 ELSE 0)
Unanswered == handling \o input \o commands
Undelivered == Numbers(answering) \o Unanswered

RequestsInv ==
    /\ handling = <<>> \/ answering = <<>>
    /\ \A i \in DOMAIN answering : IsAnswer(answering[i])
    /\ client # "gone" =>
        \E n \in 0 .. SentCount :
            /\ Ascending(Sequel, AnswersIn(Sequel), 1 .. n)
            /\ Undelivered = Pending(n, SentCount)

\* The event in the forwarder's hand is the one it has taken last.
AppEvents(n) == {i \in 1 .. n : published[i] = "app"}

EventsInv ==
    client # "gone" =>
        IF forwarding = <<>>
        THEN Ascending(Sequel, EventsIn(Sequel), AppEvents(seen))
        ELSE /\ forwarding = <<AppEvent(seen)>> /\ seen > 0 /\ published[seen] = "app"
             /\ Ascending(Sequel, EventsIn(Sequel), AppEvents(seen - 1))

ConnectionInv ==
    /\ Channels /\ States /\ GoneInv /\ Bare(forwarding)
    /\ FlightInv /\ AnswersFit
    /\ RequestsInv /\ EventsInv

-----------------------------------------------------------------------------
(* Types. *)

LEMMA Bounds ==
  /\ CommandCapacity \in Nat \ {0} /\ SocketCapacity \in Nat \ {0}
  /\ ResponseCapacity \in Nat \ {0} /\ InboxCapacity \in Nat \ {0}
  /\ MaxRequests \in Nat /\ MaxEvents \in Nat
  /\ Methods \subseteq DOMAIN Response
  BY ConnectionAssumption

\* An answer is told from an event by its kind.
LEMMA Kinded ==
  /\ \A m \in Methods : Response[m] \in Kinds /\ Response[m] # "VmApp"
  /\ "Error" \in Kinds /\ "VmApp" \in Kinds /\ "Error" # "VmApp"
<1>1. \A m \in DOMAIN Response : Response[m] # "VmApp"
  BY DEF Response
<1>2. \A m \in DOMAIN Response : Response[m] \in Kinds
  BY DEF Kinds
<1> QED
  BY <1>1, <1>2, Bounds DEF Kinds

LEMMA Items ==
  /\ \A n \in Nat : AppEvent(n) \in Item /\ ~IsAnswer(AppEvent(n))
  /\ \A n \in Nat : \A kind \in Kinds \ {"VmApp"} :
        Answer(n, kind) \in Item /\ IsAnswer(Answer(n, kind)) /\ Answer(n, kind).n = n
  BY Kinded DEF AppEvent, Answer, Item, IsAnswer

\* More requests leave the types of the requests under way as they are.
LEMMA MoreAsked ==
  ASSUME NEW m \in Nat, NEW n \in Nat, m <= n, NEW s, NEW k, Holds(1 .. m, s, k)
  PROVE  Holds(1 .. n, s, k)
<1>1. 1 .. m \subseteq 1 .. n
  OBVIOUS
<1> QED
  BY <1>1 DEF Holds

LEMMA Replied ==
  ASSUME NEW r \in Asked, asked \in Seq(Methods), NEW kind \in Replies(r)
  PROVE  kind \in Kinds \ {"VmApp"}
<1>1. asked[r] \in Methods
  BY DEF Asked
<1> QED
  BY <1>1, Kinded DEF Replies

LEMMA Asking ==
  ASSUME Channels, States
  PROVE  /\ asked \in Seq(Methods) /\ Len(asked) \in 0 .. MaxRequests
         /\ Len(asked) \in Nat /\ Asked \subseteq 1 .. MaxRequests /\ Asked \subseteq Nat
<1>1. asked \in Seq(Methods) /\ Len(asked) \in 0 .. MaxRequests /\ Len(asked) \in Nat
  BY DEF States, Holds
<1> QED
  BY <1>1, Bounds DEF Asked

LEMMA TypesNext ==
  ASSUME Channels, States, [Next]_vars
  PROVE  Channels' /\ States'
<1>0. /\ CommandCapacity \in Nat /\ SocketCapacity \in Nat /\ ResponseCapacity \in Nat
      /\ InboxCapacity \in Nat /\ 1 \in Nat /\ MaxRequests \in Nat /\ MaxEvents \in Nat
  BY Bounds
<1> USE <1>0, Holding, Asking DEF requests, service, events, replies
<1>1. ASSUME NEW method \in Methods, Request(method) PROVE Channels' /\ States'
  <2>1. /\ asked' = Append(asked, method) /\ Len(asked) < MaxRequests
        /\ UNCHANGED <<commands, input, service, events, replies, taken>> /\ client' = "sending"
    BY <1>1 DEF Request
  <2>2. Holds(Methods, asked', MaxRequests) /\ asked' # <<>> /\ Len(asked') = Len(asked) + 1
    <3>1. Holds(Methods, asked, MaxRequests) /\ asked \in Seq(Methods)
      BY DEF States
    <3>2. Holds(Methods, asked', MaxRequests)
      BY <2>1, <3>1
    <3> QED
      BY <2>1, <3>1, <3>2, AppendProperties
  <2>3. Channels'
    BY <2>1, <2>2, MoreAsked DEF Channels, Asked
  <2> QED
    BY <2>1, <2>2, <2>3 DEF States
<1>2. CASE SendCommand
  <2>1. Len(asked) \in Asked
    BY <1>2 DEF SendCommand, States, Asked, Holds
  <2> QED
    BY <1>2, <2>1 DEF SendCommand, Channels, States, Asked
<1>3. ASSUME NEW by \in 0 .. MaxRequests, Take(by)
      PROVE  Holds(Item, inbox', InboxCapacity) /\ taken' \in Seq(Taken)
  <2>1. Head(inbox) \in Item /\ Holds(Item, Tail(inbox), InboxCapacity)
    BY <1>3 DEF Take, Channels
  <2>2. [item |-> Head(inbox), by |-> by] \in Taken
    BY <2>1 DEF Taken
  <2> QED
    BY <1>3, <2>1, <2>2 DEF Take, States
<1>4. CASE Receive
  BY <1>3, <1>4 DEF Receive, Channels, States, Asked
<1>5. CASE NextEvent
  <2>1. 0 \in 0 .. MaxRequests
    BY <1>0
  <2> QED
    BY <1>3, <1>5, <2>1 DEF NextEvent, NextEventCall, Channels, States, Asked
<1>6. CASE Disconnect
  BY <1>6 DEF Disconnect, Channels, States, Asked
<1>7. CASE WriteCommand \/ ReceiverStep
  BY <1>7 DEF WriteCommand, ReceiverStep, Deliver, ReceiverEnds, Channels, States, Asked
<1>8. CASE ReadCommand \/ EndOfInput
  BY <1>8 DEF ReadCommand, EndOfInput, Channels, States, Asked
<1>9. CASE HandleCommand
  <2>1. handling # <<>> /\ Head(handling) \in Asked /\ handling' = <<>>
    BY <1>9 DEF HandleCommand, Channels
  <2>2. PICK kind \in Replies(Head(handling)) : answering' = <<Answer(Head(handling), kind)>>
    BY <1>9 DEF HandleCommand, Reply
  <2>3. Answer(Head(handling), kind) \in Item
    BY <2>1, Replied, Items
  <2>4. Holds(Item, answering', 1)
    BY <2>2, <2>3 DEF Holds
  <2> QED
    BY <1>9, <2>1, <2>4 DEF HandleCommand, Channels, States, Asked
<1>10. CASE SendAnswer
  BY <1>10 DEF SendAnswer, Send, Sent, Answered, Channels, States, Asked
<1>11. ASSUME NEW kind \in EventKinds, Publish(kind) PROVE Channels' /\ States'
  <2>1. Holds(EventKinds, published', MaxEvents) /\ Len(published') = Len(published) + 1
    <3>1. Holds(EventKinds, published, MaxEvents) /\ published \in Seq(EventKinds)
      BY DEF States, Holds
    <3>2. published' = Append(published, kind) /\ Len(published) < MaxEvents
      BY <1>11 DEF Publish
    <3> QED
      BY <3>1, <3>2, AppendProperties
  <2>2. seen' \in 0 .. Len(published')
    BY <1>11, <2>1 DEF Publish, States, Holds
  <2> QED
    BY <1>11, <2>1, <2>2 DEF Publish, Channels, States, Asked
<1>12. CASE TakeEvent
  <2>1. seen' \in 0 .. Len(published) /\ seen' \in Nat
    BY <1>12 DEF TakeEvent, States, Holds
  <2>2. Holds(Item, forwarding', 1)
    <3>1. AppEvent(seen') \in Item
      BY <2>1, Items
    <3> QED
      BY <1>12, <3>1 DEF TakeEvent, Holds
  <2> QED
    BY <1>12, <2>1, <2>2 DEF TakeEvent, Channels, States, Asked
<1>13. CASE ForwarderLags \/ SendEvent
  BY <1>13 DEF ForwarderLags, AfterLag, SendEvent, Send, Sent, Channels, States, Asked
<1>14. CASE ResponderStep
  BY <1>14 DEF ResponderStep, WriteResponse, ResponderEnds, Channels, States, Asked
<1>15. CASE UNCHANGED vars
  BY <1>15 DEF vars, Channels, States, Asked
<1> QED
  BY <1>1, <1>2, <1>4, <1>5, <1>6, <1>7, <1>8, <1>9, <1>10, <1>11, <1>12, <1>13, <1>14, <1>15
  DEF Next, ClientStep, ReadLoopStep, ForwarderStep

-----------------------------------------------------------------------------
(* What a channel carries when the front of another moves to its end. *)

LEMMA FrontItem ==
  ASSUME NEW s \in Seq(Item), s # <<>>
  PROVE  /\ Bare(s) => ~IsAnswer(Head(s)) /\ Bare(Tail(s))
         /\ \A r : Own(s, r) =>
              \/ IsAnswer(Head(s)) /\ Head(s).n = r /\ Bare(Tail(s))
              \/ ~IsAnswer(Head(s)) /\ Own(Tail(s), r)
<1>1. /\ Len(s) \in Nat /\ Len(s) >= 1 /\ Head(s) = s[1] /\ DOMAIN s = 1 .. Len(s)
      /\ DOMAIN Tail(s) = 1 .. Len(s) - 1
      /\ \A i \in 1 .. Len(s) - 1 : Tail(s)[i] = s[i + 1]
  BY Front, HeadTailProperties
<1>2. ASSUME Bare(s) PROVE ~IsAnswer(Head(s)) /\ Bare(Tail(s))
  <2>1. 1 \in DOMAIN s /\ \A i \in 1 .. Len(s) - 1 : i + 1 \in DOMAIN s
    BY <1>1
  <2> QED
    BY <1>1, <1>2, <2>1 DEF Bare
<1>3. ASSUME NEW r, Own(s, r)
      PROVE  \/ IsAnswer(Head(s)) /\ Head(s).n = r /\ Bare(Tail(s))
             \/ ~IsAnswer(Head(s)) /\ Own(Tail(s), r)
  <2>1. PICK i \in DOMAIN s : /\ IsAnswer(s[i]) /\ s[i].n = r
                              /\ \A j \in DOMAIN s : j # i => ~IsAnswer(s[j])
    BY <1>3 DEF Own
  <2>2. CASE i = 1
    <3>1. \A j \in 1 .. Len(s) - 1 : j + 1 \in DOMAIN s /\ j + 1 # 1
      BY <1>1
    <3> QED
      BY <1>1, <2>1, <2>2, <3>1 DEF Bare
  <2>3. CASE i # 1
    <3>1. i - 1 \in DOMAIN Tail(s) /\ Tail(s)[i - 1] = s[i] /\ 1 \in DOMAIN s
      BY <1>1, <2>3
    <3>2. ASSUME NEW j \in DOMAIN Tail(s), j # i - 1 PROVE ~IsAnswer(Tail(s)[j])
      <4>1. j + 1 \in DOMAIN s /\ j + 1 # i /\ Tail(s)[j] = s[j + 1]
        BY <1>1, <3>2
      <4> QED
        BY <2>1, <4>1
    <3> QED
      BY <1>1, <2>1, <2>3, <3>1, <3>2 DEF Own
  <2> QED
    BY <2>2, <2>3
<1> QED
  BY <1>2, <1>3

LEMMA AddItem ==
  ASSUME NEW t \in Seq(Item), NEW e \in Item
  PROVE  /\ Bare(t) /\ ~IsAnswer(e) => Bare(Append(t, e))
         /\ \A r : Own(t, r) /\ ~IsAnswer(e) => Own(Append(t, e), r)
         /\ \A r : Bare(t) /\ IsAnswer(e) /\ e.n = r => Own(Append(t, e), r)
<1> DEFINE u == Append(t, e)
<1>1. /\ Len(t) \in Nat /\ DOMAIN t = 1 .. Len(t) /\ DOMAIN u = 1 .. Len(t) + 1
      /\ \A i \in DOMAIN t : u[i] = t[i]
      /\ u[Len(t) + 1] = e
  BY AppendProperties
<1>2. /\ Len(t) + 1 \in DOMAIN u /\ \A i \in DOMAIN t : i \in DOMAIN u /\ i # Len(t) + 1
      /\ \A i \in DOMAIN u : i \in DOMAIN t \/ i = Len(t) + 1
  BY <1>1
<1> HIDE DEF u
<1>3. Bare(t) /\ ~IsAnswer(e) => Bare(u)
  BY <1>1, <1>2 DEF Bare
<1>4. ASSUME NEW r, Own(t, r), ~IsAnswer(e) PROVE Own(u, r)
  <2>1. PICK i \in DOMAIN t : /\ IsAnswer(t[i]) /\ t[i].n = r
                              /\ \A j \in DOMAIN t : j # i => ~IsAnswer(t[j])
    BY <1>4 DEF Own
  <2> QED
    BY <1>1, <1>2, <1>4, <2>1 DEF Own
<1>5. ASSUME NEW r, Bare(t), IsAnswer(e), e.n = r PROVE Own(u, r)
  BY <1>1, <1>2, <1>5 DEF Own, Bare
<1> QED
  BY <1>3, <1>4, <1>5 DEF u

\* What becomes of the answer to request r when the front of s moves to the end
\* of t, which makes them s2 and t2.
Passes(s, t, s2, t2, r) ==
    /\ Bare(s) /\ Bare(t) => Bare(s2) /\ Bare(t2)
    /\ Bare(s) /\ Own(t, r) => Bare(s2) /\ Own(t2, r)
    /\ Own(s, r) /\ Bare(t) => \/ Bare(s2) /\ Own(t2, r)
                               \/ Own(s2, r) /\ Bare(t2)

LEMMA Passing ==
  ASSUME NEW s \in Seq(Item), NEW t \in Seq(Item), s # <<>>, NEW s2, NEW t2, NEW r,
         s2 = Tail(s), t2 = Append(t, Head(s))
  PROVE  Passes(s, t, s2, t2, r)
<1>1. Head(s) \in Item
  BY Front
<1>2. Bare(s) /\ Bare(t) => Bare(s2) /\ Bare(t2)
  BY <1>1, FrontItem, AddItem
<1>3. ASSUME Bare(s), Own(t, r) PROVE Bare(s2) /\ Own(t2, r)
  BY <1>1, <1>3, FrontItem, AddItem
<1>4. ASSUME Own(s, r), Bare(t)
      PROVE  \/ Bare(s2) /\ Own(t2, r)
             \/ Own(s2, r) /\ Bare(t2)
  <2>1. CASE IsAnswer(Head(s)) /\ Head(s).n = r /\ Bare(Tail(s))
    BY <1>1, <1>4, <2>1, AddItem
  <2>2. CASE ~IsAnswer(Head(s)) /\ Own(Tail(s), r)
    BY <1>1, <1>4, <2>2, AddItem
  <2> QED
    BY <1>4, <2>1, <2>2, FrontItem
<1> QED
  BY <1>2, <1>3, <1>4 DEF Passes

\* A task sends the one item that it holds.
LEMMA OneSent ==
  ASSUME NEW s, Holds(Item, s, 1), NEW t \in Seq(Item), s # <<>>, NEW t2, t2 = t \o s
  PROVE  s \in Seq(Item) /\ Tail(s) = <<>> /\ t2 = Append(t, Head(s))
<1>1. s \in Seq(Item) /\ Len(s) \in {0, 1}
  BY DEF Holds
<1>2. Head(s) \in Item /\ s = <<Head(s)>>
  BY <1>1, Single
<1>3. Append(t, Head(s)) = t \o <<Head(s)>>
  BY <1>2, AppendIsConcat
<1>4. Tail(<<Head(s)>>) = <<>>
  OBVIOUS
<1> QED
  BY <1>1, <1>2, <1>3, <1>4

-----------------------------------------------------------------------------
(* What is under way. *)

LEMMA Lone == ASSUME NEW n PROVE Head(<<n>>) = n /\ Tail(<<n>>) = <<>> /\ Append(<<>>, n) = <<n>>
  OBVIOUS

LEMMA GoneNext ==
  ASSUME GoneInv, [Next]_vars
  PROVE  GoneInv' /\ (client = "gone" => client' = "gone")
  BY DEF GoneInv, Next, vars, requests, service, events, replies, ClientStep, Request,
  SendCommand, Receive, NextEvent, Disconnect, WriteCommand, ReceiverStep, Deliver,
  ReceiverEnds, ReadLoopStep, ReadCommand, HandleCommand, SendAnswer, EndOfInput, Publish,
  ForwarderStep, TakeEvent, ForwarderLags, SendEvent, ResponderStep, WriteResponse,
  ResponderEnds, SocketClosed, AfterLag

LEMMA BareNext ==
  ASSUME States, Bare(forwarding), [Next]_vars
  PROVE  Bare(forwarding)'
<1>1. CASE UNCHANGED forwarding
  BY <1>1 DEF Bare
<1>2. CASE TakeEvent
  <2>1. seen' \in Nat
    BY <1>2 DEF TakeEvent, States
  <2> QED
    BY <1>2, <2>1, Items DEF TakeEvent, Bare
<1>3. CASE SendEvent
  BY <1>3 DEF SendEvent, Bare
<1>4. UNCHANGED forwarding \/ TakeEvent \/ SendEvent
  BY DEF Next, vars, requests, service, events, replies, ClientStep, Request,
  SendCommand, Receive, NextEvent, Disconnect, WriteCommand, ReceiverStep, Deliver,
  ReceiverEnds, ReadLoopStep, ReadCommand, HandleCommand, SendAnswer, EndOfInput, Publish,
  ForwarderStep, ForwarderLags, ResponderStep, WriteResponse, ResponderEnds
<1> QED
  BY <1>1, <1>2, <1>3, <1>4

\* What has been taken stays taken.
LEMMA TakenNext ==
  ASSUME Channels, States, [Next]_vars
  PROVE  \/ UNCHANGED taken /\ ~Receive /\ ~NextEvent
         \/ Receive /\ taken' = Append(taken, [item |-> Head(inbox), by |-> Len(asked)])
                    /\ [item |-> Head(inbox), by |-> Len(asked)] \in Taken
         \/ NextEvent /\ taken' = Append(taken, [item |-> Head(inbox), by |-> 0])
                      /\ [item |-> Head(inbox), by |-> 0] \in Taken
<1>1. inbox # <<>> => Head(inbox) \in Item
  BY Holding, Bounds DEF Channels
<1>2. 0 \in 0 .. MaxRequests /\ Len(asked) \in 0 .. MaxRequests
  BY Bounds, Asking
<1>3. ASSUME Receive
      PROVE  /\ taken' = Append(taken, [item |-> Head(inbox), by |-> Len(asked)])
             /\ [item |-> Head(inbox), by |-> Len(asked)] \in Taken
  BY <1>1, <1>2, <1>3 DEF Receive, Take, Taken
<1>4. ASSUME NextEvent
      PROVE  /\ taken' = Append(taken, [item |-> Head(inbox), by |-> 0])
             /\ [item |-> Head(inbox), by |-> 0] \in Taken
  BY <1>1, <1>2, <1>4 DEF NextEvent, NextEventCall, Take, Taken
<1>5. Receive \/ NextEvent \/ UNCHANGED taken
  BY DEF Next, vars, requests, service, events, replies, ClientStep, Request,
  SendCommand, Disconnect, WriteCommand, ReceiverStep, Deliver,
  ReceiverEnds, ReadLoopStep, ReadCommand, HandleCommand, SendAnswer, EndOfInput, Publish,
  ForwarderStep, TakeEvent, ForwarderLags, SendEvent, ResponderStep, WriteResponse,
  ResponderEnds
<1> QED
  BY <1>3, <1>4, <1>5

LEMMA MixedNext ==
  ASSUME States, NEW t \in Taken, taken' = Append(taken, t), ~Mixed'
  PROVE  ~Mixed /\ (t.by = 0 \/ IsAnswer(t.item))
<1>1. /\ taken \in Seq(Taken) /\ Len(taken) \in Nat /\ DOMAIN taken = 1 .. Len(taken)
      /\ DOMAIN taken' = 1 .. Len(taken) + 1
      /\ \A i \in DOMAIN taken : taken'[i] = taken[i]
      /\ taken'[Len(taken) + 1] = t
  BY AppendProperties DEF States
<1>2. \A i \in DOMAIN taken : i \in DOMAIN taken'
  BY <1>1
<1>3. Len(taken) + 1 \in DOMAIN taken'
  BY <1>1
<1> QED
  BY <1>1, <1>2, <1>3 DEF Mixed, NextEventCall

\* A step on the way of the requests.
LEMMA RequestMoves ==
  ASSUME SendCommand \/ WriteCommand \/ ReadCommand, States, Flight
  PROVE  Flight'
<1>1. UNCHANGED <<asked, answering, responses, stream, inbox>>
  BY DEF SendCommand, WriteCommand, ReadCommand, service, events, replies
<1>2. NoAnswer => NoAnswer'
  BY <1>1 DEF NoAnswer, Bare
<1>3. CASE SendCommand
  <2>1. commands' = Append(commands, Len(asked)) /\ UNCHANGED <<input, handling>>
        /\ client = "sending" /\ client' = "waiting"
    BY <1>3 DEF SendCommand, service
  <2>2. commands' = <<Len(asked)>> /\ input' = <<>> /\ handling' = <<>>
    BY <2>1, Lone DEF Flight, NoRequest
  <2> QED
    BY <1>1, <1>2, <2>1, <2>2 DEF Flight, OneRequest
<1>4. ASSUME WriteCommand \/ ReadCommand PROVE client = "waiting" /\ OneRequest /\ NoAnswer
  BY <1>4 DEF WriteCommand, ReadCommand, Flight, NoRequest
<1>5. CASE WriteCommand
  <2>1. /\ commands # <<>> /\ input' = Append(input, Head(commands))
        /\ commands' = Tail(commands) /\ UNCHANGED <<client, handling>>
    BY <1>5 DEF WriteCommand, service
  <2>2. commands = <<Len(asked)>> /\ input = <<>> /\ handling = <<>>
    BY <1>4, <1>5, <2>1 DEF OneRequest
  <2>3. commands' = <<>> /\ input' = <<Len(asked)>> /\ handling' = <<>>
    BY <2>1, <2>2, Lone
  <2> QED
    BY <1>1, <1>2, <1>4, <1>5, <2>1, <2>3 DEF Flight, OneRequest
<1>6. CASE ReadCommand
  <2>1. /\ input # <<>> /\ handling' = <<Head(input)>> /\ input' = Tail(input)
        /\ UNCHANGED <<client, commands>>
    BY <1>6 DEF ReadCommand
  <2>2. input = <<Len(asked)>> /\ commands = <<>>
    BY <1>4, <1>6, <2>1 DEF OneRequest
  <2>3. commands' = <<>> /\ input' = <<>> /\ handling' = <<Len(asked)>>
    BY <2>1, <2>2, Lone
  <2> QED
    BY <1>1, <1>2, <1>4, <1>6, <2>1, <2>3 DEF Flight, OneRequest
<1> QED
  BY <1>3, <1>5, <1>6

\* A request becomes its answer.
LEMMA RequestAnswered ==
  ASSUME HandleCommand, Channels, States, Flight
  PROVE  Flight'
<1>1. /\ handling # <<>> /\ handling' = <<>>
      /\ UNCHANGED <<client, asked, commands, input, responses, stream, inbox>>
  BY DEF HandleCommand, requests, replies
<1>2. /\ client = "waiting" /\ NoAnswer
      /\ handling = <<Len(asked)>> /\ commands = <<>> /\ input = <<>>
  BY <1>1 DEF Flight, NoRequest, OneRequest
<1>3. Head(handling) = Len(asked) /\ Len(asked) \in Asked /\ asked \in Seq(Methods)
  <2>1. Head(handling) \in Asked
    BY <1>1, Holding DEF Channels
  <2> QED
    BY <1>2, <2>1, Lone, Asking
<1>4. PICK kind \in Replies(Len(asked)) : answering' = <<Answer(Len(asked), kind)>>
  BY <1>3 DEF HandleCommand, Reply
<1>5. kind \in Kinds \ {"VmApp"} /\ Len(asked) \in Nat
  BY <1>3, Replied, Asking
<1>6. Own(answering, Len(asked))'
  BY <1>1, <1>4, <1>5, Items DEF Own
<1>7. NoRequest' /\ Bare(responses)' /\ Bare(stream)' /\ Bare(inbox)'
  BY <1>1, <1>2 DEF NoRequest, NoAnswer, Bare
<1> QED
  BY <1>1, <1>2, <1>6, <1>7 DEF Flight, OneAnswer

\* A step on the way of the answers and events.
LEMMA AnswerMoves ==
  ASSUME SendAnswer \/ SendEvent \/ WriteResponse \/ Deliver, Channels, States, GoneInv,
         Bare(forwarding), client # "gone", Flight
  PROVE  Flight'
<1>1. UNCHANGED <<client, asked, commands, input, handling>>
  BY DEF SendAnswer, SendEvent, WriteResponse, Deliver, requests, service
<1>2. ~Refused
  BY DEF Refused, GoneInv
<1>3. /\ answering \in Seq(Item) /\ responses \in Seq(Item) /\ stream \in Seq(Item)
      /\ inbox \in Seq(Item)
  BY DEF Channels, Holds
<1>4. Bare(<<>>) /\ \A r : ~Own(<<>>, r)
  BY DEF Bare, Own
<1>5. NoRequest' = NoRequest /\ OneRequest' = OneRequest
  BY <1>1 DEF NoRequest, OneRequest
<1>6. /\ Bare(answering)' = Bare(answering') /\ Bare(responses)' = Bare(responses')
      /\ Bare(stream)' = Bare(stream') /\ Bare(inbox)' = Bare(inbox')
  BY DEF Bare
<1>7. /\ Own(answering, Len(asked))' = Own(answering', Len(asked))
      /\ Own(responses, Len(asked))' = Own(responses', Len(asked))
      /\ Own(stream, Len(asked))' = Own(stream', Len(asked))
      /\ Own(inbox, Len(asked))' = Own(inbox', Len(asked))
  BY <1>1 DEF Own
<1>8. /\ NoAnswer => NoAnswer'
      /\ OneAnswer => OneAnswer'
  <2>1. CASE SendAnswer
    <3>1. /\ answering # <<>> /\ responses' = responses \o answering /\ answering' = <<>>
          /\ UNCHANGED <<asked, stream, inbox>>
      BY <1>2, <2>1 DEF SendAnswer, Send, Sent, Answered, requests
    <3>2. answering' = Tail(answering) /\ responses' = Append(responses, Head(answering))
      BY <1>3, <3>1, OneSent DEF Channels
    <3>3. Passes(answering, responses, answering', responses', Len(asked))
      BY <1>3, <3>1, <3>2, Passing
    <3> QED
      BY <1>6, <1>7, <3>1, <3>3 DEF NoAnswer, OneAnswer, Passes
  <2>2. CASE SendEvent
    <3>1. /\ forwarding # <<>> /\ responses' = responses \o forwarding
          /\ UNCHANGED <<asked, answering, stream, inbox>>
      BY <1>2, <2>2 DEF SendEvent, Send, Sent, requests, service
    <3>2. Head(forwarding) \in Item /\ responses' = Append(responses, Head(forwarding))
          /\ ~IsAnswer(Head(forwarding))
      <4>1. forwarding \in Seq(Item)
        BY DEF Channels, Holds
      <4> QED
        BY <1>3, <3>1, <4>1, OneSent, Front, FrontItem DEF Channels
    <3>3. /\ Bare(responses) => Bare(responses')
          /\ Own(responses, Len(asked)) => Own(responses', Len(asked))
      BY <1>3, <3>2, AddItem
    <3> QED
      BY <1>6, <1>7, <3>1, <3>3 DEF NoAnswer, OneAnswer
  <2>3. CASE WriteResponse
    <3>1. /\ responses # <<>> /\ stream' = Append(stream, Head(responses))
          /\ responses' = Tail(responses) /\ UNCHANGED <<asked, answering, inbox>>
      BY <2>3 DEF WriteResponse, requests, service
    <3>2. Passes(responses, stream, responses', stream', Len(asked))
      BY <1>3, <3>1, Passing
    <3> QED
      BY <1>6, <1>7, <3>1, <3>2 DEF NoAnswer, OneAnswer, Passes
  <2>4. CASE Deliver
    <3>1. /\ stream # <<>> /\ inbox' = Append(inbox, Head(stream))
          /\ stream' = Tail(stream) /\ UNCHANGED <<asked, answering, responses>>
      BY <2>4 DEF Deliver, requests, service
    <3>2. Passes(stream, inbox, stream', inbox', Len(asked))
      BY <1>3, <3>1, Passing
    <3> QED
      BY <1>6, <1>7, <3>1, <3>2 DEF NoAnswer, OneAnswer, Passes
  <2> QED
    BY <2>1, <2>2, <2>3, <2>4
<1> QED
  BY <1>1, <1>5, <1>8 DEF Flight

LEMMA FlightNext ==
  ASSUME ConnectionInv, [Next]_vars
  PROVE  FlightInv'
<1>0. /\ Channels /\ States /\ GoneInv /\ Bare(forwarding)
      /\ inbox \in Seq(Item) /\ Len(asked) \in Nat
  BY Asking DEF ConnectionInv, Channels, Holds
<1> SUFFICES ASSUME client' # "gone", ~Mixed'
             PROVE  Flight'
  BY DEF FlightInv
<1>1. client # "gone" /\ ~Disconnect
  BY <1>0, GoneNext DEF Disconnect
<1>2. ~Mixed
  BY <1>0, TakenNext, MixedNext DEF Mixed
<1>3. Flight
  BY <1>1, <1>2 DEF ConnectionInv, FlightInv
<1>4. CASE Receive
  <2>1. /\ client = "waiting" /\ client' = "idle" /\ inbox # <<>> /\ inbox' = Tail(inbox)
        /\ UNCHANGED <<commands, input, handling, answering, responses, stream>>
    BY <1>4 DEF Receive, Take, service
  <2>2. asked # <<>> /\ Len(asked) # 0
    BY <1>0, <2>1, EmptySeq DEF States, Holds
  <2>3. IsAnswer(Head(inbox))
    <3> DEFINE t == [item |-> Head(inbox), by |-> Len(asked)]
    <3>1. t \in Taken /\ taken' = Append(taken, t)
      BY <1>0, <1>4, TakenNext, <2>1 DEF NextEvent
    <3>2. t.by # 0 /\ t.item = Head(inbox)
      BY <2>2
    <3> QED
      BY <1>0, <3>1, <3>2, MixedNext
  <2>4. ~Bare(inbox)
    BY <1>0, <2>1, <2>3, FrontItem
  <2>5. NoRequest /\ Bare(answering) /\ Bare(responses) /\ Bare(stream)
        /\ Own(inbox, Len(asked))
    BY <1>3, <2>1, <2>4 DEF Flight, NoAnswer, OneAnswer
  <2>6. Bare(Tail(inbox))
    BY <1>0, <2>1, <2>3, <2>5, FrontItem
  <2>7. NoRequest' /\ NoAnswer'
    BY <2>1, <2>5, <2>6 DEF NoRequest, NoAnswer, Bare
  <2> QED
    BY <2>1, <2>7 DEF Flight
<1>5. CASE NextEvent
  <2>1. /\ client = "idle" /\ client' = "idle" /\ inbox # <<>> /\ inbox' = Tail(inbox)
        /\ UNCHANGED <<commands, input, handling, answering, responses, stream>>
    BY <1>5 DEF NextEvent, Take, requests, service
  <2>2. NoRequest /\ NoAnswer
    BY <1>3, <2>1 DEF Flight
  <2>3. Bare(Tail(inbox))
    BY <1>0, <2>1, <2>2, FrontItem DEF NoAnswer
  <2>4. NoRequest' /\ NoAnswer'
    BY <2>1, <2>2, <2>3 DEF NoRequest, NoAnswer, Bare
  <2> QED
    BY <2>1, <2>4 DEF Flight
<1>6. ASSUME NEW method \in Methods, Request(method) PROVE Flight'
  <2>1. /\ client = "idle" /\ client' = "sending"
        /\ UNCHANGED <<commands, input, handling, answering, responses, stream, inbox>>
    BY <1>6 DEF Request, service, replies
  <2>2. NoRequest' /\ NoAnswer'
    BY <1>3, <2>1 DEF Flight, NoRequest, NoAnswer, Bare
  <2> QED
    BY <2>1, <2>2 DEF Flight
<1>7. CASE SendCommand \/ WriteCommand \/ ReadCommand
  BY <1>0, <1>3, <1>7, RequestMoves
<1>8. CASE HandleCommand
  BY <1>0, <1>3, <1>8, RequestAnswered
<1>9. CASE SendAnswer \/ SendEvent \/ WriteResponse \/ Deliver
  BY <1>0, <1>1, <1>3, <1>9, AnswerMoves
<1>10. CASE \/ \E kind \in EventKinds : Publish(kind)
            \/ TakeEvent \/ ForwarderLags \/ ReceiverEnds \/ UNCHANGED vars
  <2>1. UNCHANGED <<client, asked, commands, input, handling, answering, responses, stream,
                    inbox>>
    BY <1>10 DEF Publish, TakeEvent, ForwarderLags, ReceiverEnds, vars, requests, service,
    replies
  <2> QED
    BY <1>3, <2>1 DEF Flight, NoRequest, OneRequest, NoAnswer, OneAnswer, Bare, Own
<1>11. ~EndOfInput /\ ~ResponderEnds
  BY <1>0, <1>1 DEF EndOfInput, ResponderEnds, SocketClosed, GoneInv
<1> QED
  BY <1>1, <1>4, <1>5, <1>6, <1>7, <1>8, <1>9, <1>10, <1>11
  DEF Next, ClientStep, ReceiverStep, ReadLoopStep, ForwarderStep, ResponderStep

LEMMA FitNext ==
  ASSUME ConnectionInv, [Next]_vars
  PROVE  AnswersFit'
<1>0. Channels /\ States /\ AnswersFit /\ inbox \in Seq(Item) /\ taken \in Seq(Taken)
  BY DEF ConnectionInv, Channels, States, Holds
<1>1. CASE UNCHANGED taken
  BY <1>0, <1>1 DEF AnswersFit, Confused
<1>2. ASSUME NEW t \in Taken, taken' = Append(taken, t),
             IsAnswer(t.item) /\ ~Mixed => t.item.n = t.by
      PROVE  AnswersFit'
  <2>1. /\ Len(taken) \in Nat /\ DOMAIN taken = 1 .. Len(taken)
        /\ DOMAIN taken' = 1 .. Len(taken) + 1
        /\ \A i \in DOMAIN taken : taken'[i] = taken[i]
        /\ taken'[Len(taken) + 1] = t
    BY <1>0, <1>2, AppendProperties
  <2>2. SUFFICES ASSUME NEW i \in DOMAIN taken', IsAnswer(taken'[i].item), ~Confused(i)'
                 PROVE  taken'[i].item.n = taken'[i].by
    BY DEF AnswersFit
  <2>3. CASE i \in DOMAIN taken
    <3>1. \A j \in 1 .. i - 1 : j \in DOMAIN taken
      BY <2>1, <2>3
    <3>2. ~Confused(i)
      BY <2>1, <2>2, <3>1 DEF Confused
    <3> QED
      BY <1>0, <2>1, <2>2, <2>3, <3>2 DEF AnswersFit
  <2>4. CASE i = Len(taken) + 1
    <3>1. \A j \in DOMAIN taken : j \in 1 .. i - 1
      BY <2>1, <2>4
    <3>2. ~Mixed
      BY <2>1, <2>2, <3>1 DEF Confused, Mixed
    <3> QED
      BY <1>2, <2>1, <2>2, <2>4, <3>2
  <2> QED
    BY <2>1, <2>3, <2>4
<1>3. ASSUME Receive, IsAnswer(Head(inbox)), ~Mixed PROVE Head(inbox).n = Len(asked)
  <2>1. client = "waiting" /\ inbox # <<>>
    BY <1>3 DEF Receive, Take
  <2>2. Flight
    BY <1>3, <2>1 DEF ConnectionInv, FlightInv
  <2>3. Own(inbox, Len(asked))
    BY <1>0, <1>3, <2>1, <2>2, FrontItem DEF Flight, NoAnswer, OneAnswer
  <2> QED
    BY <1>0, <1>3, <2>1, <2>3, FrontItem
<1>4. ASSUME NextEvent, ~Mixed PROVE ~IsAnswer(Head(inbox))
  <2>1. client = "idle" /\ inbox # <<>>
    BY <1>4 DEF NextEvent, Take
  <2>2. Flight
    BY <1>4, <2>1 DEF ConnectionInv, FlightInv
  <2> QED
    BY <1>0, <2>1, <2>2, FrontItem DEF Flight, NoAnswer
<1>5. CASE Receive
  <2>1. /\ taken' = Append(taken, [item |-> Head(inbox), by |-> Len(asked)])
        /\ [item |-> Head(inbox), by |-> Len(asked)] \in Taken
    BY <1>0, <1>5, TakenNext DEF Receive, NextEvent
  <2> QED
    BY <1>2, <1>3, <1>5, <2>1
<1>6. CASE NextEvent
  <2>1. /\ taken' = Append(taken, [item |-> Head(inbox), by |-> 0])
        /\ [item |-> Head(inbox), by |-> 0] \in Taken
    BY <1>0, <1>6, TakenNext DEF Receive, NextEvent
  <2> QED
    BY <1>2, <1>4, <1>6, <2>1
<1> QED
  BY <1>0, <1>1, <1>5, <1>6, TakenNext

-----------------------------------------------------------------------------
(* The sequel: what has left the service's tasks for the client. *)

LEMMA Ascends ==
  ASSUME NEW s \in Seq(Item), NEW e \in Item, NEW P \in SUBSET DOMAIN s, NEW N,
         Ascending(s, P, N)
  PROVE  /\ Ascending(Append(s, e), P, N)
         /\ (\A n \in N : n < e.n) => Ascending(Append(s, e), P \cup {Len(s) + 1}, N \cup {e.n})
<1> DEFINE u == Append(s, e)
<1>1. /\ Len(s) \in Nat /\ DOMAIN s = 1 .. Len(s)
      /\ \A i \in DOMAIN s : u[i] = s[i]
      /\ u[Len(s) + 1] = e
  BY AppendProperties
<1>2. /\ \A i \in P : u[i] = s[i]
      /\ \A i \in P : i \in Nat /\ i < Len(s) + 1
  BY <1>1
<1> HIDE DEF u
<1>3. {u[i].n : i \in P} = {s[i].n : i \in P}
  BY <1>2
<1>4. Ascending(u, P, N)
  BY <1>2, <1>3 DEF Ascending
<1>5. ASSUME \A n \in N : n < e.n PROVE Ascending(u, P \cup {Len(s) + 1}, N \cup {e.n})
  <2> DEFINE Q == P \cup {Len(s) + 1}
  <2>1. {u[i].n : i \in Q} = {u[i].n : i \in P} \cup {u[Len(s) + 1].n}
    OBVIOUS
  <2>2. {u[i].n : i \in Q} = N \cup {e.n}
    BY <1>1, <1>4, <2>1 DEF Ascending
  <2>3. ASSUME NEW i \in Q, NEW j \in Q, i < j PROVE u[i].n < u[j].n
    <3>1. i \in P
      BY <1>1, <1>2, <2>3
    <3>2. CASE j \in P
      BY <1>4, <2>3, <3>1, <3>2 DEF Ascending
    <3>3. CASE j = Len(s) + 1
      <4>1. u[i].n \in N
        BY <1>4, <3>1 DEF Ascending
      <4> QED
        BY <1>1, <1>5, <3>3, <4>1
    <3> QED
      BY <3>2, <3>3
  <2> QED
    BY <2>2, <2>3 DEF Ascending
<1> QED
  BY <1>4, <1>5 DEF u

LEMMA Places ==
  ASSUME NEW s \in Seq(Item), NEW e \in Item
  PROVE  /\ AnswersIn(s) \subseteq DOMAIN s /\ EventsIn(s) \subseteq DOMAIN s
         /\ IsAnswer(e) => /\ AnswersIn(Append(s, e)) = AnswersIn(s) \cup {Len(s) + 1}
                           /\ EventsIn(Append(s, e)) = EventsIn(s)
         /\ ~IsAnswer(e) => /\ AnswersIn(Append(s, e)) = AnswersIn(s)
                            /\ EventsIn(Append(s, e)) = EventsIn(s) \cup {Len(s) + 1}
<1> DEFINE u == Append(s, e)
<1>1. /\ Len(s) \in Nat /\ DOMAIN s = 1 .. Len(s) /\ DOMAIN u = 1 .. Len(s) + 1
      /\ \A i \in DOMAIN s : u[i] = s[i]
      /\ u[Len(s) + 1] = e
  BY AppendProperties
<1>2. DOMAIN u = DOMAIN s \cup {Len(s) + 1} /\ Len(s) + 1 \notin DOMAIN s
  BY <1>1
<1> HIDE DEF u
<1> QED
  BY <1>1, <1>2 DEF AnswersIn, EventsIn, u

\* An answer or an event is added to the sequel.
LEMMA AnswerAdded ==
  ASSUME NEW s \in Seq(Item), NEW e \in Item, NEW n \in Nat, IsAnswer(e), e.n = n + 1,
         Ascending(s, AnswersIn(s), 1 .. n)
  PROVE  Ascending(Append(s, e), AnswersIn(Append(s, e)), 1 .. n + 1)
<1>1. (1 .. n) \cup {e.n} = 1 .. n + 1 /\ \A i \in 1 .. n : i < e.n
  OBVIOUS
<1> QED
  BY <1>1, Ascends, Places

LEMMA EventAdded ==
  ASSUME NEW s \in Seq(Item), NEW e \in Item, ~IsAnswer(e), e.n \in Nat, e.n > 0,
         published[e.n] = "app", Ascending(s, EventsIn(s), AppEvents(e.n - 1))
  PROVE  Ascending(Append(s, e), EventsIn(Append(s, e)), AppEvents(e.n))
<1>1. AppEvents(e.n - 1) \cup {e.n} = AppEvents(e.n)
  BY DEF AppEvents
<1>2. \A i \in AppEvents(e.n - 1) : i < e.n
  BY DEF AppEvents
<1> QED
  BY <1>1, <1>2, Ascends, Places

LEMMA NotAdded ==
  ASSUME NEW s \in Seq(Item), NEW e \in Item, NEW N
  PROVE  /\ IsAnswer(e) /\ Ascending(s, EventsIn(s), N) =>
              Ascending(Append(s, e), EventsIn(Append(s, e)), N)
         /\ ~IsAnswer(e) /\ Ascending(s, AnswersIn(s), N) =>
              Ascending(Append(s, e), AnswersIn(Append(s, e)), N)
  BY Ascends, Places

Got == [i \in DOMAIN taken |-> taken[i].item]

LEMMA SequelType ==
  ASSUME Channels, States
  PROVE  /\ Got \in Seq(Item) /\ Sequel \in Seq(Item)
         /\ inbox \in Seq(Item) /\ stream \in Seq(Item) /\ responses \in Seq(Item)
         /\ Sequel = ((Got \o inbox) \o stream) \o responses
<1>1. inbox \in Seq(Item) /\ stream \in Seq(Item) /\ responses \in Seq(Item)
  BY DEF Channels, Holds
<1>2. Got \in Seq(Item)
  <2>1. /\ Len(taken) \in Nat /\ DOMAIN taken = 1 .. Len(taken)
        /\ \A i \in DOMAIN taken : taken[i].item \in Item
    <3>1. taken \in Seq(Taken) /\ \A t \in Taken : t.item \in Item
      BY DEF States, Taken
    <3> QED
      BY <3>1
  <2> QED
    BY <2>1 DEF Got
<1>3. Sequel = ((Got \o inbox) \o stream) \o responses
  BY DEF Sequel, Got
<1>4. /\ Got \o inbox \in Seq(Item) /\ (Got \o inbox) \o stream \in Seq(Item)
      /\ ((Got \o inbox) \o stream) \o responses \in Seq(Item)
  BY <1>1, <1>2, ConcatProperties
<1> QED
  BY <1>1, <1>2, <1>3, <1>4

\* Taking an item moves it from the inbox to what the client has got.
LEMMA Gets ==
  ASSUME Channels, States, NEW by \in 0 .. MaxRequests, Take(by)
  PROVE  Got' \o inbox' = Got \o inbox
<1>1. /\ inbox # <<>> /\ inbox' = Tail(inbox)
      /\ taken' = Append(taken, [item |-> Head(inbox), by |-> by])
  BY DEF Take
<1>2. taken \in Seq(Taken) /\ inbox \in Seq(Item) /\ Got \in Seq(Item)
  BY SequelType DEF States
<1>3. Head(inbox) \in Item /\ [item |-> Head(inbox), by |-> by] \in Taken
  BY <1>1, <1>2, Front DEF Taken
<1>4. Got' = Append(Got, Head(inbox))
  <2>1. /\ Len(taken) \in Nat /\ DOMAIN taken = 1 .. Len(taken)
        /\ DOMAIN taken' = 1 .. Len(taken) + 1
        /\ \A i \in DOMAIN taken : taken'[i] = taken[i]
        /\ taken'[Len(taken) + 1].item = Head(inbox)
    BY <1>1, <1>2, <1>3, AppendProperties
  <2>2. /\ Got' = [i \in 1 .. Len(taken) + 1 |-> taken'[i].item]
        /\ Got = [i \in 1 .. Len(taken) |-> taken[i].item]
        /\ Len(Got) = Len(taken)
    BY <2>1 DEF Got
  <2>3. Append(Got, Head(inbox)) =
            [i \in 1 .. Len(taken) + 1 |-> IF i = Len(taken) + 1 THEN Head(inbox) ELSE Got[i]]
    BY <2>2 DEF Append
  <2> QED
    BY <2>1, <2>2, <2>3
<1> QED
  BY <1>1, <1>2, <1>4, MoveOn

\* What is added to the sequel while the client is there.
LEMMA SequelNext ==
  ASSUME Channels, States, GoneInv, [Next]_vars, client' # "gone"
  PROVE  /\ SendAnswer => /\ answering = <<Head(answering)>> /\ Head(answering) \in Item
                          /\ Sequel' = Append(Sequel, Head(answering))
         /\ SendEvent => /\ forwarding = <<Head(forwarding)>> /\ Head(forwarding) \in Item
                         /\ Sequel' = Append(Sequel, Head(forwarding))
         /\ ~SendAnswer /\ ~SendEvent => UNCHANGED Sequel
<1>0. /\ Got \in Seq(Item) /\ inbox \in Seq(Item) /\ stream \in Seq(Item)
      /\ responses \in Seq(Item)
      /\ Sequel = ((Got \o inbox) \o stream) \o responses
      /\ Got \o inbox \in Seq(Item) /\ (Got \o inbox) \o stream \in Seq(Item)
  BY SequelType, ConcatProperties
<1>1. Sequel' = ((Got' \o inbox') \o stream') \o responses'
  BY DEF Sequel, Got
<1>2. client # "gone" /\ ~Refused /\ ~Disconnect /\ ~ResponderEnds
  BY GoneNext DEF GoneInv, Refused, Disconnect, ResponderEnds, SocketClosed
<1>3. ASSUME NEW by \in 0 .. MaxRequests, Take(by), UNCHANGED <<stream, responses>>
      PROVE  Sequel' = Sequel
  BY <1>0, <1>1, <1>3, Gets
<1>4. ASSUME Receive PROVE UNCHANGED Sequel
  <2>1. Len(asked) \in 0 .. MaxRequests
    BY Asking
  <2> QED
    BY <1>3, <1>4, <2>1 DEF Receive
<1>5. ASSUME NextEvent PROVE UNCHANGED Sequel
  <2>1. 0 \in 0 .. MaxRequests
    BY Bounds
  <2> QED
    BY <1>3, <1>5, <2>1 DEF NextEvent, NextEventCall
<1>6. ASSUME Deliver PROVE UNCHANGED Sequel
  <2>1. /\ stream # <<>> /\ inbox' = Append(inbox, Head(stream)) /\ stream' = Tail(stream)
        /\ Got' = Got /\ responses' = responses
    BY <1>6 DEF Deliver, Got
  <2>2. MovesOn(Got, inbox, stream)
    BY <1>0, <2>1, MoveOnBehind
  <2> QED
    BY <1>0, <1>1, <2>1, <2>2 DEF MovesOn
<1>7. ASSUME WriteResponse PROVE UNCHANGED Sequel
  <2>1. /\ responses # <<>> /\ stream' = Append(stream, Head(responses))
        /\ responses' = Tail(responses) /\ Got' = Got /\ inbox' = inbox
    BY <1>7 DEF WriteResponse, Got
  <2>2. MovesOn(Got \o inbox, stream, responses)
    BY <1>0, <2>1, MoveOnBehind
  <2> QED
    BY <1>0, <1>1, <2>1, <2>2 DEF MovesOn
<1>8. ASSUME NEW s, Holds(Item, s, 1), s # <<>>, responses' = responses \o s,
             UNCHANGED <<taken, inbox, stream>>
      PROVE  Sequel' = Append(Sequel, Head(s)) /\ Head(s) \in Item /\ s = <<Head(s)>>
  <2>1. s \in Seq(Item) /\ responses' = Append(responses, Head(s))
    BY <1>0, <1>8, OneSent
  <2>2. Head(s) \in Item /\ s = <<Head(s)>>
    <3>1. Len(s) \in {0, 1}
      BY <1>8 DEF Holds
    <3> QED
      BY <1>8, <2>1, <3>1, Single
  <2>3. Got' = Got
    BY <1>8 DEF Got
  <2>4. ((Got \o inbox) \o stream) \o Append(responses, Head(s))
            = Append(((Got \o inbox) \o stream) \o responses, Head(s))
    BY <1>0, <2>2, AddLast
  <2> QED
    BY <1>0, <1>1, <1>8, <2>1, <2>2, <2>3, <2>4
<1>9. ASSUME SendAnswer
      PROVE  /\ answering = <<Head(answering)>> /\ Head(answering) \in Item
             /\ Sequel' = Append(Sequel, Head(answering))
  <2>1. /\ answering # <<>> /\ responses' = responses \o answering
        /\ UNCHANGED <<taken, inbox, stream>> /\ Holds(Item, answering, 1)
    BY <1>2, <1>9 DEF SendAnswer, Send, Sent, Channels
  <2> QED
    BY <1>8, <2>1
<1>10. ASSUME SendEvent
       PROVE  /\ forwarding = <<Head(forwarding)>> /\ Head(forwarding) \in Item
              /\ Sequel' = Append(Sequel, Head(forwarding))
  <2>1. /\ forwarding # <<>> /\ responses' = responses \o forwarding
        /\ UNCHANGED <<taken, inbox, stream>> /\ Holds(Item, forwarding, 1)
    BY <1>2, <1>10 DEF SendEvent, Send, Sent, Channels
  <2> QED
    BY <1>8, <2>1
<1>11. \/ Receive \/ NextEvent \/ Deliver \/ WriteResponse \/ SendAnswer \/ SendEvent
       \/ UNCHANGED <<taken, inbox, stream, responses>>
  BY <1>2 DEF Next, vars, requests, service, events, replies, ClientStep, Request,
  SendCommand, WriteCommand, ReceiverStep, ReceiverEnds, ReadLoopStep, ReadCommand,
  HandleCommand, EndOfInput, Publish, ForwarderStep, TakeEvent, ForwarderLags, ResponderStep
<1>12. ASSUME UNCHANGED <<taken, inbox, stream, responses>> PROVE UNCHANGED Sequel
  BY <1>12 DEF Sequel
<1> QED
  BY <1>4, <1>5, <1>6, <1>7, <1>9, <1>10, <1>11, <1>12

-----------------------------------------------------------------------------
(* Where the requests are. *)

LEMMA Numbered ==
  ASSUME Channels, States
  PROVE  /\ Numbers(<<>>) = <<>> /\ \A e : Numbers(<<e>>) = <<e.n>>
         /\ Numbers(answering) \in Seq(Nat) /\ handling \in Seq(Nat) /\ input \in Seq(Nat)
         /\ commands \in Seq(Nat) /\ Unanswered \in Seq(Nat) /\ Undelivered \in Seq(Nat)
<1>1. Numbers(<<>>) = <<>> /\ \A e : Numbers(<<e>>) = <<e.n>>
  BY DEF Numbers
<1>2. handling \in Seq(Nat) /\ input \in Seq(Nat) /\ commands \in Seq(Nat)
  <2>1. \A s : s \in Seq(Asked) => s \in Seq(Nat)
    BY Asking
  <2> QED
    BY <2>1 DEF Channels, Holds
<1>3. Numbers(answering) \in Seq(Nat)
  <2>1. answering \in Seq(Item) /\ \A e \in Item : e.n \in Nat
    BY DEF Channels, Holds, Item
  <2>2. Len(answering) \in Nat /\ DOMAIN answering = 1 .. Len(answering)
    BY <2>1
  <2>3. \A i \in 1 .. Len(answering) : answering[i].n \in Nat
    BY <2>1
  <2> QED
    BY <2>2, <2>3 DEF Numbers
<1>4. handling \o input \in Seq(Nat) /\ Unanswered \in Seq(Nat)
  BY <1>2, ConcatProperties DEF Unanswered
<1>5. Undelivered \in Seq(Nat)
  BY <1>3, <1>4, ConcatProperties DEF Undelivered
<1> QED
  BY <1>1, <1>2, <1>3, <1>4, <1>5

LEMMA HandNext ==
  ASSUME Channels, States, RequestsInv, [Next]_vars
  PROVE  /\ handling' = <<>> \/ answering' = <<>>
         /\ \A i \in DOMAIN answering' : IsAnswer(answering'[i])
<1>0. /\ handling = <<>> \/ answering = <<>>
      /\ \A i \in DOMAIN answering : IsAnswer(answering[i])
  BY DEF RequestsInv
<1>1. CASE ReadCommand
  BY <1>0, <1>1 DEF ReadCommand
<1>2. CASE HandleCommand
  <2>1. handling # <<>> /\ Head(handling) \in Asked /\ handling' = <<>>
    BY <1>2, Holding DEF HandleCommand, Channels
  <2>2. PICK kind \in Replies(Head(handling)) : answering' = <<Answer(Head(handling), kind)>>
    BY <1>2 DEF HandleCommand, Reply
  <2>3. IsAnswer(Answer(Head(handling), kind))
    BY <2>1, Replied, Items, Asking
  <2> QED
    BY <2>1, <2>2, <2>3
<1>3. CASE SendAnswer
  BY <1>3 DEF SendAnswer, Answered
<1>4. CASE UNCHANGED <<handling, answering>>
  BY <1>0, <1>4
<1>5. ReadCommand \/ HandleCommand \/ SendAnswer \/ UNCHANGED <<handling, answering>>
  BY DEF Next, vars, requests, service, events, replies, ClientStep, Request,
  SendCommand, Receive, NextEvent, Disconnect, WriteCommand, ReceiverStep, Deliver,
  ReceiverEnds, ReadLoopStep, EndOfInput, Publish,
  ForwarderStep, TakeEvent, ForwarderLags, SendEvent, ResponderStep, WriteResponse,
  ResponderEnds
<1> QED
  BY <1>1, <1>2, <1>3, <1>4, <1>5

LEMMA UndeliveredNext ==
  ASSUME Channels, States, RequestsInv, [Next]_vars
  PROVE  /\ SendCommand => Undelivered' = Append(Undelivered, Len(asked))
         /\ SendAnswer => /\ Undelivered # <<>> /\ Head(Undelivered) = Head(answering).n
                          /\ Undelivered' = Tail(Undelivered)
         /\ ~SendCommand /\ ~SendAnswer => UNCHANGED Undelivered
<1> DEFINE a == Numbers(answering)
<1>0. /\ a \in Seq(Nat) /\ handling \in Seq(Nat) /\ input \in Seq(Nat) /\ commands \in Seq(Nat)
      /\ Unanswered \in Seq(Nat) /\ handling \o input \in Seq(Nat)
      /\ Numbers(<<>>) = <<>> /\ <<>> \in Seq(Nat)
  BY Numbered, ConcatProperties
<1>1. /\ Undelivered = a \o Unanswered /\ Unanswered = (handling \o input) \o commands
      /\ Undelivered' = a' \o Unanswered' /\ Unanswered' = (handling' \o input') \o commands'
  BY DEF Undelivered, Unanswered
<1>2. \A s \in Seq(Nat) : <<>> \o s = s
  BY ConcatEmptySeq
<1>3. ASSUME SendCommand PROVE Undelivered' = Append(Undelivered, Len(asked))
  <2>1. /\ commands' = Append(commands, Len(asked)) /\ Len(asked) \in Nat
        /\ UNCHANGED <<answering, handling, input>>
    BY <1>3, Asking DEF SendCommand, service
  <2>2. (handling \o input) \o Append(commands, Len(asked)) = Append(Unanswered, Len(asked))
    <3>1. PICK h \in Seq(Nat) : h = handling \o input
      BY <1>0
    <3>2. commands \in Seq(Nat) /\ Len(asked) \in Nat
      BY <1>0, <2>1
    <3>3. h \o Append(commands, Len(asked)) = Append(h \o commands, Len(asked))
      BY ONLY <3>1, <3>2, AddLast, SMTT(30)
    <3> QED
      BY <1>1, <3>1, <3>3
  <2>3. a \o Append(Unanswered, Len(asked)) = Append(a \o Unanswered, Len(asked))
    <3>1. PICK x \in Seq(Nat), u \in Seq(Nat) : x = a /\ u = Unanswered
      BY <1>0
    <3>2. Len(asked) \in Nat
      BY <2>1
    <3>3. x \o Append(u, Len(asked)) = Append(x \o u, Len(asked))
      BY ONLY <3>1, <3>2, AddLast, SMTT(30)
    <3> QED
      BY ONLY <3>1, <3>3
  <2>4. a' = a
    BY <2>1 DEF Numbers
  <2> QED
    BY <1>1, <2>1, <2>2, <2>3, <2>4
<1>4. ASSUME SendAnswer
      PROVE  /\ Undelivered # <<>> /\ Head(Undelivered) = Head(answering).n
             /\ Undelivered' = Tail(Undelivered)
  <2>1. answering # <<>> /\ answering' = <<>> /\ UNCHANGED <<handling, input, commands>>
    BY <1>4 DEF SendAnswer, Send, Answered, requests
  <2>2. answering = <<Head(answering)>> /\ a = <<Head(answering).n>> /\ Head(answering).n \in Nat
    <3>1. answering \in Seq(Item) /\ Len(answering) \in {0, 1}
      BY DEF Channels, Holds
    <3>2. answering = <<Head(answering)>> /\ Head(answering) \in Item
      BY <2>1, <3>1, Single
    <3>3. Head(answering).n \in Nat
      BY <3>2 DEF Item
    <3> QED
      BY <3>2, <3>3, Numbered
  <2>3. a # <<>> /\ Head(a) = Head(answering).n /\ Tail(a) = <<>>
    BY <2>2
  <2> HIDE DEF a
  <2>4. /\ a \o Unanswered # <<>> /\ Head(a \o Unanswered) = Head(a)
        /\ Tail(a \o Unanswered) = Tail(a) \o Unanswered
    BY <1>0, <2>3, FrontOfConcat
  <2>5. a' = <<>> /\ Unanswered' = Unanswered
    BY <1>0, <2>1 DEF a, Unanswered
  <2> QED
    BY <1>0, <1>1, <1>2, <2>3, <2>4, <2>5
<1>5. ASSUME WriteCommand PROVE UNCHANGED Undelivered
  <2>1. /\ commands # <<>> /\ input' = Append(input, Head(commands)) /\ commands' = Tail(commands)
        /\ UNCHANGED <<answering, handling>>
    BY <1>5 DEF WriteCommand, service
  <2>2. MovesOn(handling, input, commands)
    BY <1>0, <2>1, MoveOnBehind
  <2>3. a' = a
    BY <2>1 DEF Numbers
  <2> QED
    BY <1>1, <2>1, <2>2, <2>3 DEF MovesOn
<1>6. ASSUME ReadCommand PROVE UNCHANGED Undelivered
  <2>1. /\ input # <<>> /\ handling = <<>> /\ handling' = <<Head(input)>>
        /\ input' = Tail(input) /\ UNCHANGED <<answering, commands>>
    BY <1>6 DEF ReadCommand
  <2>2. <<Head(input)>> \o Tail(input) = input
    BY <1>0, <2>1, Front
  <2>3. a' = a
    BY <2>1 DEF Numbers
  <2>4. handling' \o input' = handling \o input
    BY <1>0, <1>2, <2>1, <2>2
  <2> QED
    BY <1>1, <2>1, <2>3, <2>4
<1>7. ASSUME HandleCommand PROVE UNCHANGED Undelivered
  <2>1. handling # <<>> /\ Head(handling) \in Asked /\ handling' = <<>>
        /\ answering = <<>> /\ UNCHANGED <<input, commands>>
    BY <1>7, Holding DEF HandleCommand, Channels, RequestsInv, requests
  <2>2. handling = <<Head(handling)>>
    <3>1. handling \in Seq(Asked) /\ Len(handling) \in {0, 1}
      BY DEF Channels, Holds
    <3> QED
      BY <2>1, <3>1, Single
  <2>3. PICK kind \in Replies(Head(handling)) : answering' = <<Answer(Head(handling), kind)>>
    BY <1>7 DEF HandleCommand, Reply
  <2>4. a' = handling /\ a = <<>>
    <3>1. Answer(Head(handling), kind).n = Head(handling)
      BY DEF Answer
    <3>2. Numbers(answering)' = Numbers(answering')
      BY DEF Numbers
    <3> QED
      BY <2>1, <2>2, <2>3, <3>1, <3>2, Numbered
  <2>5. Joined(Joined(handling, input), commands) = Joined(handling, Joined(input, commands))
    BY <1>0, JoinedTwice
  <2> HIDE DEF a
  <2>6. Undelivered = (handling \o input) \o commands
    BY <1>0, <1>1, <1>2, <2>4
  <2>7. Undelivered' = handling \o (input \o commands)
    BY <1>0, <1>1, <1>2, <2>1, <2>4
  <2> QED
    BY <2>5, <2>6, <2>7 DEF Joined
<1>8. ASSUME UNCHANGED <<answering, handling, input, commands>> PROVE UNCHANGED Undelivered
  BY <1>8 DEF Undelivered, Unanswered, Numbers
<1>9. \/ SendCommand \/ SendAnswer \/ WriteCommand \/ ReadCommand \/ HandleCommand
      \/ UNCHANGED <<answering, handling, input, commands>>
  BY DEF Next, vars, requests, service, events, replies, ClientStep, Request,
  Receive, NextEvent, Disconnect, ReceiverStep, Deliver,
  ReceiverEnds, ReadLoopStep, EndOfInput, Publish,
  ForwarderStep, TakeEvent, ForwarderLags, SendEvent, ResponderStep, WriteResponse,
  ResponderEnds
<1> QED
  BY <1>3, <1>4, <1>5, <1>6, <1>7, <1>8, <1>9

LEMMA RequestsNext ==
  ASSUME Channels, States, GoneInv, Bare(forwarding), RequestsInv, [Next]_vars
  PROVE  RequestsInv'
<1> SUFFICES ASSUME client' # "gone"
             PROVE  \E n \in 0 .. SentCount' :
                        /\ Ascending(Sequel', AnswersIn(Sequel'), 1 .. n)
                        /\ Undelivered' = Pending(n, SentCount')
  BY HandNext DEF RequestsInv, AnswersIn, Ascending, Pending
<1>1. client # "gone" /\ Sequel \in Seq(Item)
  BY GoneNext, SequelType
<1>2. PICK n \in 0 .. SentCount : /\ Ascending(Sequel, AnswersIn(Sequel), 1 .. n)
                                 /\ Undelivered = Pending(n, SentCount)
  BY <1>1 DEF RequestsInv
<1>3. SentCount \in Nat /\ n \in Nat /\ n <= SentCount
  <2>1. Len(asked) \in Nat /\ (client = "sending" => Len(asked) > 0)
    BY EmptySeq DEF States, Holds
  <2> QED
    BY <1>2, <2>1 DEF SentCount
<1>4. CASE SendCommand
  <2>1. SentCount' = SentCount + 1 /\ Len(asked) = SentCount + 1 /\ ~SendAnswer /\ ~SendEvent
    <3>1. /\ client = "sending" /\ client' = "waiting" /\ asked' = asked /\ Len(asked) \in Nat
          /\ commands' # commands
      <4>1. commands' = Append(commands, Len(asked)) /\ commands \in Seq(Asked)
            /\ Len(commands') = Len(commands) + 1 /\ Len(commands) \in Nat
        BY <1>4, AppendProperties DEF SendCommand, Channels, Holds
      <4> QED
        BY <1>4, <4>1, Asking DEF SendCommand
    <3> QED
      BY <3>1 DEF SentCount, SendAnswer, SendEvent, requests
  <2>2. Sequel' = Sequel /\ Undelivered' = Append(Undelivered, SentCount + 1)
    BY <1>4, <2>1, SequelNext, UndeliveredNext
  <2>3. Undelivered' = Pending(n, SentCount')
    BY <1>2, <1>3, <2>1, <2>2, PendingMore
  <2>4. n \in 0 .. SentCount'
    BY <1>3, <2>1
  <2> QED
    BY <1>2, <2>2, <2>3, <2>4
<1>5. ASSUME ~SendCommand PROVE SentCount' = SentCount
  <2>1. ASSUME NEW method \in Methods, Request(method) PROVE SentCount' = SentCount
    <3>1. /\ asked' = Append(asked, method) /\ client = "idle" /\ client' = "sending"
          /\ asked \in Seq(Methods)
      BY <2>1, Asking DEF Request
    <3>2. Len(asked') = Len(asked) + 1 /\ Len(asked) \in Nat
      BY <3>1, AppendProperties
    <3> QED
      BY <3>1, <3>2 DEF SentCount
  <2>2. CASE Receive \/ NextEvent
    BY <2>2 DEF Receive, NextEvent, requests, SentCount
  <2>3. CASE UNCHANGED <<client, asked>>
    BY <2>3 DEF SentCount
  <2>4. \/ \E method \in Methods : Request(method)
        \/ Receive \/ NextEvent \/ UNCHANGED <<client, asked>>
    BY <1>5 DEF Next, vars, requests, service, events, replies, ClientStep, Disconnect,
    WriteCommand, ReceiverStep, Deliver, ReceiverEnds, ReadLoopStep, ReadCommand,
    HandleCommand, SendAnswer, EndOfInput, Publish, ForwarderStep, TakeEvent, ForwarderLags,
    SendEvent, ResponderStep, WriteResponse, ResponderEnds
  <2> QED
    BY <2>1, <2>2, <2>3, <2>4
<1>6. CASE SendAnswer /\ ~SendCommand
  <2> DEFINE e == Head(answering)
  <2>1. answering = <<e>> /\ e \in Item /\ Sequel' = Append(Sequel, e)
    BY <1>6, SequelNext
  <2>2. IsAnswer(e)
    <3>1. 1 \in DOMAIN <<e>> /\ <<e>>[1] = e
      OBVIOUS
    <3> HIDE DEF e
    <3> QED
      BY <2>1, <3>1 DEF RequestsInv
  <2>3. /\ Undelivered # <<>> /\ Head(Undelivered) = e.n /\ Undelivered' = Tail(Undelivered)
        /\ SentCount' = SentCount
    BY <1>5, <1>6, UndeliveredNext
  <2>4. n < SentCount
    BY <1>2, <1>3, <2>3, PendingType
  <2>5. e.n = n + 1 /\ Undelivered' = Pending(n + 1, SentCount)
    BY <1>2, <1>3, <2>3, <2>4, PendingFirst
  <2>6. Ascending(Append(Sequel, e), AnswersIn(Append(Sequel, e)), 1 .. n + 1)
    BY <1>1, <1>2, <1>3, <2>1, <2>2, <2>5, AnswerAdded
  <2>7. n + 1 \in 0 .. SentCount'
    BY <1>3, <2>3, <2>4
  <2> QED
    BY <2>1, <2>3, <2>5, <2>6, <2>7
<1>7. CASE ~SendAnswer /\ ~SendCommand
  <2>1. Undelivered' = Undelivered /\ SentCount' = SentCount
    BY <1>5, <1>7, UndeliveredNext
  <2>2. CASE SendEvent
    <3>1. /\ forwarding = <<Head(forwarding)>> /\ Head(forwarding) \in Item
          /\ Sequel' = Append(Sequel, Head(forwarding))
      BY <2>2, SequelNext
    <3>2. ~IsAnswer(Head(forwarding))
      <4>1. forwarding \in Seq(Item) /\ forwarding # <<>>
        BY <2>2 DEF Channels, Holds, SendEvent, Send
      <4> QED
        BY <4>1, FrontItem
    <3>3. Ascending(Sequel', AnswersIn(Sequel'), 1 .. n)
      BY <1>1, <1>2, <3>1, <3>2, NotAdded
    <3> QED
      BY <1>2, <2>1, <3>3
  <2>3. CASE ~SendEvent
    BY <1>2, <1>7, <2>1, <2>3, SequelNext
  <2> QED
    BY <2>2, <2>3
<1> QED
  BY <1>4, <1>6, <1>7

\* RequestsInv says what RequestsConserved says, with the answer in the read
\* loop's hand among the requests.
LEMMA Conserved ==
  ASSUME Channels, States, RequestsInv
  PROVE  RequestsConserved
<1> DEFINE out == Sequel \o answering
<1> SUFFICES ASSUME client # "gone"
             PROVE  \E n \in 0 .. SentCount :
                        /\ Ascending(out, AnswersIn(out), 1 .. n)
                        /\ Unanswered = Pending(n, SentCount)
  BY DEF RequestsConserved, SentCount, Unanswered, Pending
<1>1. PICK n \in 0 .. SentCount : /\ Ascending(Sequel, AnswersIn(Sequel), 1 .. n)
                                 /\ Undelivered = Pending(n, SentCount)
  BY DEF RequestsInv
<1>2. SentCount \in Nat /\ n \in Nat /\ n <= SentCount
  <2>1. Len(asked) \in Nat /\ (client = "sending" => Len(asked) > 0)
    BY EmptySeq DEF States, Holds
  <2> QED
    BY <1>1, <2>1 DEF SentCount
<1>3. Sequel \in Seq(Item) /\ answering \in Seq(Item) /\ Len(answering) \in {0, 1}
      /\ Unanswered \in Seq(Nat)
  BY SequelType, Numbered DEF Channels, Holds
<1>4. CASE answering = <<>>
  <2>1. out = Sequel /\ Undelivered = Unanswered
    BY <1>3, <1>4, ConcatEmptySeq, Numbered DEF Undelivered
  <2> QED
    BY <1>1, <2>1
<1>5. CASE answering # <<>>
  <2>1. PICK e \in Item : answering = <<e>>
    BY <1>3, <1>5, Single
  <2>2. IsAnswer(e) /\ e.n \in Nat
    <3>1. 1 \in DOMAIN <<e>> /\ <<e>>[1] = e
      OBVIOUS
    <3> QED
      BY <2>1, <3>1 DEF RequestsInv, Item
  <2>3. out = Append(Sequel, e)
    BY <1>3, <2>1, AppendIsConcat
  <2>4. Undelivered = <<e.n>> \o Unanswered
    BY <2>1, Numbered DEF Undelivered
  <2>5. Undelivered # <<>> /\ Head(Undelivered) = e.n /\ Tail(Undelivered) = Unanswered
    <3> DEFINE h == <<e.n>>
    <3>1. h \in Seq(Nat) /\ h # <<>> /\ Head(h) = e.n /\ Tail(h) = <<>>
      BY <2>2
    <3> HIDE DEF h
    <3>2. h \o Unanswered # <<>> /\ Head(h \o Unanswered) = e.n
          /\ Tail(h \o Unanswered) = <<>> \o Unanswered
      <4>1. PICK u \in Seq(Nat) : u = Unanswered
        BY <1>3
      <4>2. /\ h \o u # <<>> /\ Head(h \o u) = Head(h) /\ Tail(h \o u) = Tail(h) \o u
        BY ONLY <3>1, FrontOfConcat
      <4> QED
        BY ONLY <3>1, <4>1, <4>2
    <3>3. <<>> \o Unanswered = Unanswered
      BY <1>3, ConcatEmptySeq
    <3> QED
      BY <2>4, <3>2, <3>3 DEF h
  <2>6. n < SentCount
    BY <1>1, <1>2, <2>5, PendingType
  <2>7. e.n = n + 1 /\ Unanswered = Pending(n + 1, SentCount)
    BY <1>1, <1>2, <2>5, <2>6, PendingFirst
  <2>8. Ascending(out, AnswersIn(out), 1 .. n + 1)
    BY <1>1, <1>2, <1>3, <2>2, <2>3, <2>7, AnswerAdded
  <2>9. n + 1 \in 0 .. SentCount
    BY <1>2, <2>6
  <2> QED
    BY <2>7, <2>8, <2>9
<1> QED
  BY <1>4, <1>5

-----------------------------------------------------------------------------
(* Which events there are. *)

LEMMA EventsNext ==
  ASSUME Channels, States, GoneInv, RequestsInv, EventsInv, [Next]_vars
  PROVE  EventsInv'
<1> SUFFICES ASSUME client' # "gone"
             PROVE  IF forwarding' = <<>>
                    THEN Ascending(Sequel', EventsIn(Sequel'), AppEvents(seen)')
                    ELSE /\ forwarding' = <<AppEvent(seen')>> /\ seen' > 0
                         /\ published'[seen'] = "app"
                         /\ Ascending(Sequel', EventsIn(Sequel'), AppEvents(seen - 1)')
  BY DEF EventsInv, EventsIn, AnswersIn, Ascending, AppEvent
<1>1. client # "gone" /\ Sequel \in Seq(Item) /\ seen \in Nat /\ Len(published) \in Nat
      /\ seen <= Len(published) /\ published \in Seq(EventKinds)
  BY GoneNext, SequelType DEF States, Holds
<1>2. IF forwarding = <<>>
      THEN Ascending(Sequel, EventsIn(Sequel), AppEvents(seen))
      ELSE /\ forwarding = <<AppEvent(seen)>> /\ seen > 0 /\ published[seen] = "app"
           /\ Ascending(Sequel, EventsIn(Sequel), AppEvents(seen - 1))
  BY <1>1 DEF EventsInv
<1>3. CASE SendAnswer
  <2>1. /\ Head(answering) \in Item /\ Sequel' = Append(Sequel, Head(answering))
        /\ answering = <<Head(answering)>>
    BY <1>3, SequelNext
  <2>2. IsAnswer(Head(answering))
    <3>1. \A e : 1 \in DOMAIN <<e>> /\ <<e>>[1] = e
      OBVIOUS
    <3> QED
      BY <2>1, <3>1 DEF RequestsInv
  <2>3. UNCHANGED <<forwarding, seen, published>>
    BY <1>3 DEF SendAnswer, events
  <2>4. \A N : Ascending(Sequel, EventsIn(Sequel), N) => Ascending(Sequel', EventsIn(Sequel'), N)
    BY <1>1, <2>1, <2>2, NotAdded
  <2> QED
    BY <1>2, <2>3, <2>4 DEF AppEvents
<1>4. CASE SendEvent
  <2>1. /\ forwarding # <<>> /\ forwarding' = <<>> /\ UNCHANGED <<seen, published>>
        /\ forwarding = <<Head(forwarding)>> /\ Head(forwarding) \in Item
        /\ Sequel' = Append(Sequel, Head(forwarding))
    BY <1>4, SequelNext DEF SendEvent, Send
  <2>2. /\ Head(forwarding) = AppEvent(seen) /\ seen > 0 /\ published[seen] = "app"
        /\ Ascending(Sequel, EventsIn(Sequel), AppEvents(seen - 1))
    BY <1>2, <2>1
  <2>3. ~IsAnswer(AppEvent(seen)) /\ AppEvent(seen).n = seen
    BY <1>1, Items DEF AppEvent
  <2>4. Ascending(Sequel', EventsIn(Sequel'), AppEvents(seen))
    BY <1>1, <2>1, <2>2, <2>3, EventAdded
  <2> QED
    BY <2>1, <2>4 DEF AppEvents
<1>5. CASE ~SendAnswer /\ ~SendEvent
  <2>1. Sequel' = Sequel
    BY <1>5, SequelNext
  <2>2. ASSUME NEW kind \in EventKinds, Publish(kind)
        PROVE  /\ UNCHANGED <<forwarding, seen>>
               /\ \A n \in 0 .. seen : AppEvents(n)' = AppEvents(n)
               /\ seen > 0 => published'[seen] = published[seen]
    <3>1. /\ UNCHANGED <<forwarding, seen>>
          /\ \A i \in 1 .. Len(published) : published'[i] = published[i]
      BY <1>1, <2>2, AppendProperties DEF Publish
    <3>2. \A n \in 0 .. seen : \A i \in 1 .. n : published'[i] = published[i]
      BY <1>1, <3>1
    <3>3. \A n \in 0 .. seen : AppEvents(n)' = {i \in 1 .. n : published'[i] = "app"}
      BY DEF AppEvents
    <3> QED
      BY <1>1, <3>1, <3>2, <3>3 DEF AppEvents
  <2>3. CASE \E kind \in EventKinds : Publish(kind)
    <3>1. seen \in 0 .. seen /\ (seen > 0 => seen - 1 \in 0 .. seen)
      BY <1>1
    <3>2. AppEvents(seen)' = AppEvents(seen) /\ (seen > 0 => AppEvents(seen - 1)' = AppEvents(seen - 1))
      <4>1. UNCHANGED seen
        BY <2>2, <2>3
      <4> QED
        BY <2>2, <2>3, <3>1, <4>1 DEF AppEvents
    <3> QED
      BY <1>1, <1>2, <2>1, <2>2, <2>3, <3>2
  <2>4. CASE TakeEvent
    <3>1. /\ forwarding = <<>> /\ seen' = seen + 1 /\ published' = published
          /\ forwarding' = IF published[seen'] = "app" THEN <<AppEvent(seen')>> ELSE <<>>
      BY <2>4 DEF TakeEvent
    <3>2. AppEvents(seen - 1)' = AppEvents(seen)
      BY <1>1, <3>1 DEF AppEvents
    <3>3. CASE published[seen'] = "app"
      BY <1>1, <1>2, <2>1, <3>1, <3>2, <3>3
    <3>4. CASE published[seen'] # "app"
      <4>1. AppEvents(seen)' = AppEvents(seen)
        BY <1>1, <3>1, <3>4 DEF AppEvents
      <4> QED
        BY <1>2, <2>1, <3>1, <3>4, <4>1
    <3> QED
      BY <3>3, <3>4
  <2>5. CASE UNCHANGED <<forwarding, seen, published>>
    BY <1>2, <2>1, <2>5 DEF AppEvents
  <2>6. \/ \E kind \in EventKinds : Publish(kind)
        \/ TakeEvent \/ UNCHANGED <<forwarding, seen, published>>
    BY <1>5 DEF Next, vars, requests, service, events, replies, ClientStep, Request,
    SendCommand, Receive, NextEvent, Disconnect, WriteCommand, ReceiverStep, Deliver,
    ReceiverEnds, ReadLoopStep, ReadCommand, HandleCommand, EndOfInput, ForwarderStep,
    ForwarderLags, AfterLag, ResponderStep, WriteResponse, ResponderEnds
  <2> QED
    BY <2>3, <2>4, <2>5, <2>6
<1> QED
  BY <1>3, <1>4, <1>5

LEMMA Contiguous ==
  ASSUME Channels, States, EventsInv
  PROVE  EventsContiguous
<1> DEFINE out == Sequel \o forwarding
<1> SUFFICES ASSUME client # "gone" PROVE Ascending(out, EventsIn(out), AppEvents(seen))
  BY DEF EventsContiguous, AppEvents
<1>1. Sequel \in Seq(Item) /\ seen \in Nat
  BY SequelType DEF States, Holds
<1>2. CASE forwarding = <<>>
  <2>1. out = Sequel
    BY <1>1, <1>2, ConcatEmptySeq
  <2> QED
    BY <1>2, <2>1 DEF EventsInv
<1>3. CASE forwarding # <<>>
  <2>1. /\ forwarding = <<AppEvent(seen)>> /\ seen > 0 /\ published[seen] = "app"
        /\ Ascending(Sequel, EventsIn(Sequel), AppEvents(seen - 1))
    BY <1>3 DEF EventsInv
  <2>2. AppEvent(seen) \in Item /\ ~IsAnswer(AppEvent(seen)) /\ AppEvent(seen).n = seen
    BY <1>1, Items DEF AppEvent
  <2>3. out = Append(Sequel, AppEvent(seen))
    BY <1>1, <2>1, <2>2, AppendIsConcat
  <2> QED
    BY <1>1, <2>1, <2>2, <2>3, EventAdded
<1> QED
  BY <1>2, <1>3

-----------------------------------------------------------------------------
(* The theorems. *)

LEMMA ConnectionInit == Init => ConnectionInv
<1> SUFFICES ASSUME Init PROVE ConnectionInv
  OBVIOUS
<1>1. /\ commands = <<>> /\ input = <<>> /\ handling = <<>> /\ answering = <<>>
      /\ forwarding = <<>> /\ responses = <<>> /\ stream = <<>> /\ inbox = <<>>
      /\ asked = <<>> /\ published = <<>> /\ taken = <<>> /\ client = "idle" /\ seen = 0
      /\ read_loop = "reads" /\ forwarder = "runs" /\ responder = "runs" /\ receiver = "runs"
  BY DEF Init
<1>2. \A S : \A n \in Nat : Holds(S, <<>>, n)
  BY EmptySeq DEF Holds
<1>3. Channels
  BY <1>1, <1>2, Bounds DEF Channels
<1>4. States
  BY <1>1, <1>2, Bounds DEF States
<1>5. Bare(<<>>) /\ DOMAIN taken = {}
  BY <1>1 DEF Bare
<1>6. Sequel = <<>>
  <2>1. [i \in DOMAIN taken |-> taken[i].item] = <<>>
    BY <1>1
  <2>2. <<>> \o <<>> = <<>>
    BY EmptySeq, ConcatEmptySeq
  <2> QED
    BY <1>1, <2>1, <2>2 DEF Sequel
<1>7. RequestsInv
  <2>1. SentCount = 0
    BY <1>1 DEF SentCount
  <2>2. Undelivered = <<>> /\ Pending(0, 0) = <<>>
    <3>1. Numbers(<<>>) = <<>> /\ <<>> \o <<>> = <<>>
      BY EmptySeq, ConcatEmptySeq DEF Numbers
    <3> QED
      BY <1>1, <3>1, PendingType DEF Undelivered, Unanswered
  <2>3. Ascending(<<>>, AnswersIn(<<>>), 1 .. 0)
    BY DEF Ascending, AnswersIn
  <2> QED
    BY <1>1, <1>6, <2>1, <2>2, <2>3 DEF RequestsInv
<1>8. EventsInv
  <2>1. AppEvents(0) = {}
    BY DEF AppEvents
  <2>2. Ascending(<<>>, EventsIn(<<>>), {})
    BY DEF Ascending, EventsIn
  <2> QED
    BY <1>1, <1>6, <2>1, <2>2 DEF EventsInv
<1> QED
  BY <1>1, <1>3, <1>4, <1>5, <1>7, <1>8
  DEF ConnectionInv, GoneInv, FlightInv, Flight, NoRequest, NoAnswer, AnswersFit

LEMMA ConnectionNext == ConnectionInv /\ [Next]_vars => ConnectionInv'
<1> SUFFICES ASSUME ConnectionInv, [Next]_vars PROVE ConnectionInv'
  OBVIOUS
<1>1. Channels /\ States /\ GoneInv /\ Bare(forwarding)
  BY DEF ConnectionInv
<1>2. Channels' /\ States'
  BY <1>1, TypesNext
<1>3. GoneInv' /\ Bare(forwarding)'
  BY <1>1, GoneNext, BareNext
<1>4. FlightInv' /\ AnswersFit'
  BY FlightNext, FitNext
<1>5. RequestsInv' /\ EventsInv'
  BY <1>1, RequestsNext, EventsNext DEF ConnectionInv
<1> QED
  BY <1>2, <1>3, <1>4, <1>5 DEF ConnectionInv

\* Every state of a connection satisfies the invariant.
THEOREM ConnectionInvariance == Spec => []ConnectionInv
  BY ConnectionInit, ConnectionNext, PTL DEF Spec

\* The channels of a connection (client/src/lib.rs, connect();
\* service/src/lib.rs, handle_connection) never hold more than their capacity,
\* and each of the service's tasks has at most one item in hand.
THEOREM ConnectionTypes == Spec => []TypeOK
<1>1. ConnectionInv => TypeOK
  <2> SUFFICES ASSUME ConnectionInv PROVE TypeOK
    OBVIOUS
  <2>0. Channels /\ States
    BY DEF ConnectionInv
  <2>1. Len(asked) \in Nat /\ Len(asked) <= MaxRequests /\ MaxRequests \in Nat
    BY <2>0, Asking, Bounds
  <2>2. Holds(1 .. MaxRequests, commands, CommandCapacity)
    BY <2>0, <2>1, MoreAsked DEF Channels, Asked
  <2>3. Holds(1 .. MaxRequests, input, SocketCapacity)
    BY <2>0, <2>1, MoreAsked DEF Channels, Asked
  <2>4. Holds(1 .. MaxRequests, handling, 1)
    BY <2>0, <2>1, MoreAsked DEF Channels, Asked
  <2>5. 0 .. 1 = {0, 1}
    OBVIOUS
  <2>6. /\ {commands, input, handling} \subseteq Seq(1 .. MaxRequests)
        /\ Len(commands) \in 0 .. CommandCapacity /\ Len(input) \in 0 .. SocketCapacity
        /\ Len(handling) \in {0, 1}
    BY <2>2, <2>3, <2>4, <2>5 DEF Holds
  <2>7. /\ {answering, forwarding, responses, stream, inbox} \subseteq Seq(Item)
        /\ {Len(answering), Len(forwarding)} \subseteq {0, 1}
        /\ Len(responses) \in 0 .. ResponseCapacity /\ Len(stream) \in 0 .. SocketCapacity
        /\ Len(inbox) \in 0 .. InboxCapacity
    BY <2>0, <2>5 DEF Channels, Holds
  <2>8. /\ asked \in Seq(Methods) /\ Len(asked) \in 0 .. MaxRequests
        /\ published \in Seq(EventKinds) /\ Len(published) \in 0 .. MaxEvents
    BY <2>0 DEF States, Holds
  <2>9. \A n \in Nat : \A k \in 0 .. n : k <= n
    OBVIOUS
  <2>10. /\ Len(commands) <= CommandCapacity /\ Len(responses) <= ResponseCapacity
         /\ Len(inbox) <= InboxCapacity /\ Len(asked) <= MaxRequests
         /\ Len(published) <= MaxEvents
    BY <2>6, <2>7, <2>8, <2>9, Bounds
  <2> QED
    BY <2>0, <2>6, <2>7, <2>8, <2>10 DEF TypeOK, States
<1> QED
  BY <1>1, ConnectionInvariance, PTL

\* As long as no request has returned an event, a method of the client returns
\* the answer to its own request, however answers and events interleave on the
\* way (request() and next_event() of client/src/lib.rs; the read loop and the
\* event forwarder of service/src/lib.rs).
THEOREM AnswersOwn == Spec => []AnswersFit
<1>1. ConnectionInv => AnswersFit
  BY DEF ConnectionInv
<1> QED
  BY <1>1, ConnectionInvariance, PTL

\* Every request the client has sent is in one place, on its way, handled, or
\* in the form of its one answer, in the order of the requests (request() of
\* client/src/lib.rs; the read loop and the response writer of
\* service/src/lib.rs).
THEOREM OneAnswerEach == Spec => []RequestsConserved
<1>1. ConnectionInv => RequestsConserved
  BY Conserved DEF ConnectionInv
<1> QED
  BY <1>1, ConnectionInvariance, PTL

\* The events a client gets have no gap, however far the forwarder fell behind
\* and whatever answers come in between (the event forwarder of
\* service/src/lib.rs).
THEOREM NoGaps == Spec => []EventsContiguous
<1>1. ConnectionInv => EventsContiguous
  BY Contiguous DEF ConnectionInv
<1> QED
  BY <1>1, ConnectionInvariance, PTL

-----------------------------------------------------------------------------
(* What RequestReturns and GoneClientServed rest on: where the client has room *)
(* for its requests, one of the tasks they have to pass can go on.             *)

CanSend == Len(commands) < CommandCapacity
CanWrite == commands # <<>> /\ Len(input) < SocketCapacity
CanRead == read_loop = "reads" /\ handling = <<>> /\ answering = <<>> /\ input # <<>>

Unjammed ==
    /\ client = "sending" /\ ~Overloaded => CanSend \/ CanWrite \/ CanRead
    /\ client = "gone" /\ UnderWay <= SocketCapacity + 1 /\ commands # <<>> => CanWrite \/ CanRead

\* The read loop has ended when there is nothing left to read.
AllRead == read_loop = "done" => client = "gone" /\ commands = <<>>

LEMMA AllReadNext ==
  ASSUME AllRead, [Next]_vars
  PROVE  AllRead'
<1> USE DEF AllRead, requests, service, events, replies
<1>1. CASE EndOfInput
  BY <1>1 DEF EndOfInput
<1>2. CASE WriteCommand
  BY <1>2 DEF WriteCommand
<1>3. CASE SendCommand
  BY <1>3 DEF SendCommand
<1>4. \/ /\ UNCHANGED <<read_loop, commands>>
         /\ client = "gone" => client' = "gone"
      \/ EndOfInput \/ WriteCommand \/ SendCommand
  BY DEF Next, ClientStep, Request, Receive, NextEvent, Take, Disconnect, ReceiverStep, Deliver,
      ReceiverEnds, ReadLoopStep, ReadCommand, HandleCommand, SendAnswer, Publish, ForwarderStep,
      TakeEvent, ForwarderLags, SendEvent, ResponderStep, WriteResponse, ResponderEnds, vars
<1> QED
  BY <1>1, <1>2, <1>3, <1>4

\* A client that makes a request finds room in its command channel, or its
\* writer finds room in the socket, or the service reads the next request,
\* however many events fill the response channels, unless it makes one request
\* more than these hold (request() and the writer task of client/src/lib.rs, the
\* read loop of service/src/lib.rs).  The same for what a client that is gone has
\* sent before.
THEOREM RequestsUnjammed == Spec => []Unjammed
<1>1. Init => AllRead
  BY DEF Init, AllRead
<1>2. AllRead /\ [Next]_vars => AllRead'
  BY AllReadNext
<1>3. TypeOK /\ AllRead => Unjammed
  <2> SUFFICES ASSUME TypeOK, AllRead PROVE Unjammed
    OBVIOUS
  <2>1. /\ Len(commands) \in Nat /\ Len(input) \in Nat /\ Len(handling) \in {0, 1}
        /\ Len(answering) \in {0, 1} /\ CommandCapacity \in Nat \ {0}
        /\ SocketCapacity \in Nat \ {0}
    BY Bounds, LenProperties DEF TypeOK
  <2>2. /\ commands = <<>> <=> Len(commands) = 0
        /\ input = <<>> <=> Len(input) = 0
        /\ handling = <<>> <=> Len(handling) = 0
        /\ answering = <<>> <=> Len(answering) = 0
    BY EmptySeq DEF TypeOK
  <2>3. read_loop = "reads" \/ read_loop = "done"
    BY DEF TypeOK
  <2>4. client = "sending" /\ ~Overloaded => CanSend \/ CanWrite \/ CanRead
    BY <2>1, <2>2, <2>3 DEF AllRead, Overloaded, UnderWay, CanSend, CanWrite, CanRead
  <2>5. client = "gone" /\ UnderWay <= SocketCapacity + 1 /\ commands # <<>>
          => CanWrite \/ CanRead
    BY <2>1, <2>2, <2>3 DEF AllRead, UnderWay, CanWrite, CanRead
  <2> QED
    BY <2>4, <2>5 DEF Unjammed
<1> QED
  BY <1>1, <1>2, <1>3, ConnectionTypes, PTL DEF Spec
=============================================================================
