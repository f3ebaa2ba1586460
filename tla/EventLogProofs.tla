--------------------------- MODULE EventLogProofs ---------------------------
(***************************************************************************)
(* What concurrent appenders cannot break in the event log, for any number *)
(* of appenders, VMs and events: module EventLog's numbering, broadcast,   *)
(* order per VM and log buffers.                                           *)
(***************************************************************************)
EXTENDS EventLog, TLAPS

\* What the appenders in the middle of append() hold.
HeldInv ==
    /\ \A a \in Appending : held[a].by = a
    /\ \A a \in At({"keep", "publish"}) : held[a] \in Stored

\* A VM that is not overlapped has one appender at most, and what it holds is
\* newer than all that is stored, or sent, about the VM.
NewestHeld ==
    \A v \in VmIds \ overlapped :
        /\ \A a, b \in Appending : held[a].vm = v /\ held[b].vm = v => a = b
        /\ \A a \in At({"store"}) : \A i \in DOMAIN events :
               held[a].vm = v /\ events[i].vm = v => events[i].seq < held[a].seq
        /\ \A a \in Appending : \A i \in DOMAIN published :
               held[a].vm = v /\ published[i].vm = v => published[i].seq < held[a].seq

Inv == TypeOK /\ HeldInv /\ SeqDense /\ PublishedOnce /\ NewestHeld /\ VmOrder

-----------------------------------------------------------------------------
LEMMA Appended ==
    ASSUME NEW S, NEW s \in Seq(S), NEW e \in S
    PROVE  /\ Append(s, e) \in Seq(S)
           /\ DOMAIN s = 1 .. Len(s)
           /\ Len(s) \in Nat
           /\ DOMAIN Append(s, e) = 1 .. Len(s) + 1
           /\ \A i \in 1 .. Len(s) : Append(s, e)[i] = s[i]
           /\ Append(s, e)[Len(s) + 1] = e
  OBVIOUS

LEMMA Elements ==
    ASSUME NEW S, NEW s \in Seq(S), NEW e \in S
    PROVE  {Append(s, e)[i] : i \in DOMAIN Append(s, e)} = {s[i] : i \in DOMAIN s} \cup {e}
  BY Appended

\* Cutting a sequence to its last lines keeps its type.
LEMMA LastType ==
    ASSUME NEW S, NEW s \in Seq(S)
    PROVE  Last(s) \in Seq(S)
  BY LogAssumption DEF Last

-----------------------------------------------------------------------------
LEMMA InitInv == Init => Inv
<1> SUFFICES ASSUME Init PROVE Inv
  OBVIOUS
<1>1. Appending = {} /\ \A stages \in SUBSET (Stages \ {"idle"}) : At(stages) = {}
  BY DEF Init, Appending, At
<1>2. At({"store"}) = {} /\ At({"keep", "publish"}) = {}
  BY <1>1 DEF Stages
<1>3. Stored = {} /\ Sent = {}
  BY DEF Init, Stored, Sent
<1>4. TypeOK
  BY <1>1 DEF Init, TypeOK, Stages
<1> QED
  BY <1>1, <1>2, <1>3, <1>4
  DEF Init, Inv, HeldInv, SeqDense, PublishedOnce, NewestHeld, VmOrder, InOrderAbout

LEMMA NumberType ==
    ASSUME TypeOK, NEW a \in Appenders, NEW v \in VmIds, NEW line \in BOOLEAN,
           Number(a, v, line)
    PROVE  /\ TypeOK'
           /\ Appending' = Appending \cup {a}
           /\ a \notin Appending
           /\ held'[a] = [seq |-> next_seq, vm |-> v, line |-> line, by |-> a]
           /\ \A b \in Appending : held'[b] = held[b]
           /\ At({"store"})' = At({"store"}) \cup {a}
           /\ At({"keep", "publish"})' = At({"keep", "publish"})
           /\ next_seq' = next_seq + 1
<1>1. stage' = [stage EXCEPT ![a] = "store"] /\ stage[a] = "idle"
  BY DEF Number, Goto
<1>2. Appending' = Appending \cup {a} /\ a \notin Appending
  BY <1>1 DEF Appending, TypeOK
<1>3. /\ At({"store"})' = At({"store"}) \cup {a}
      /\ At({"keep", "publish"})' = At({"keep", "publish"})
  BY <1>1 DEF At, TypeOK
<1>4. held' = [b \in Appending \cup {a} |->
                 IF b = a THEN [seq |-> next_seq, vm |-> v, line |-> line, by |-> a]
                          ELSE held[b]]
  BY DEF Number
<1>5. /\ held'[a] = [seq |-> next_seq, vm |-> v, line |-> line, by |-> a]
      /\ \A b \in Appending : held'[b] = held[b]
  BY <1>2, <1>4
<1>6. next_seq' = next_seq + 1
  BY DEF Number, NextSeq
<1>7. TypeOK'
  <2>1. DOMAIN held' = Appending'
    BY <1>2, <1>4
  <2>2. held' \in [DOMAIN held' -> Event]
    <3>1. held'[a] \in Event
      BY <1>5 DEF TypeOK, Event
    <3>2. \A b \in Appending : held'[b] \in Event
      BY <1>5 DEF TypeOK
    <3> QED
      BY <1>2, <1>4, <3>1, <3>2
  <2>3. stage' \in [Appenders -> Stages]
    BY <1>1 DEF TypeOK, Stages
  <2>4. overlapped' \subseteq VmIds /\ next_seq' \in Nat
    BY <1>6 DEF TypeOK, Number
  <2>5. UNCHANGED <<events, vm_logs, published>>
    BY DEF Number
  <2> QED
    BY <2>1, <2>2, <2>3, <2>4, <2>5 DEF TypeOK
<1> QED
  BY <1>2, <1>3, <1>5, <1>6, <1>7

LEMMA NumberStep ==
    ASSUME Inv, NEW a \in Appenders, NEW v \in VmIds, NEW line \in BOOLEAN,
           Number(a, v, line)
    PROVE  Inv'
<1>1. /\ TypeOK'
      /\ Appending' = Appending \cup {a}
      /\ a \notin Appending
      /\ held'[a] = [seq |-> next_seq, vm |-> v, line |-> line, by |-> a]
      /\ \A b \in Appending : held'[b] = held[b]
      /\ At({"store"})' = At({"store"}) \cup {a}
      /\ At({"keep", "publish"})' = At({"keep", "publish"})
      /\ next_seq' = next_seq + 1
  BY NumberType DEF Inv
<1>2. /\ held'[a].seq = next_seq /\ held'[a].vm = v /\ held'[a].by = a
      /\ next_seq \in Nat
      /\ At({"store"}) \subseteq Appending /\ At({"keep", "publish"}) \subseteq Appending
  BY <1>1 DEF Inv, TypeOK, At, Appending
<1>3. UNCHANGED <<events, published>> /\ Stored' = Stored /\ Sent' = Sent
  BY DEF Number, Stored, Sent
<1>4. HeldInv'
  BY <1>1, <1>2, <1>3 DEF Inv, HeldInv
<1>5. /\ \A e \in Stored : e.seq \in 0 .. next_seq - 1
      /\ \A b \in At({"store"}) : held[b].seq \in 0 .. next_seq - 1
  BY DEF Inv, SeqDense
<1>6. SeqDense'
  <2>1. \A b, c \in At({"store"})' : held'[b].seq = held'[c].seq => b = c
    BY <1>1, <1>2, <1>5 DEF Inv, SeqDense
  <2>2. \A b \in At({"store"})' : \A e \in Stored' : e.seq # held'[b].seq
    BY <1>1, <1>2, <1>3, <1>5 DEF Inv, SeqDense
  <2>3. {held'[b].seq : b \in At({"store"})'} = {held[b].seq : b \in At({"store"})} \cup {next_seq}
    BY <1>1, <1>2
  <2>4. 0 .. next_seq' - 1 = 0 .. next_seq - 1 \cup {next_seq}
    BY <1>1, <1>2
  <2> QED
    BY <2>1, <2>2, <2>3, <2>4, <1>3 DEF Inv, SeqDense
<1>7. PublishedOnce'
  <2>1. {held'[b] : b \in At({"keep", "publish"})'} = {held[b] : b \in At({"keep", "publish"})}
    BY <1>1, <1>2
  <2> QED
    BY <2>1, <1>3 DEF Inv, PublishedOnce
<1>8. /\ overlapped \subseteq overlapped'
      /\ v \notin overlapped' => \A b \in Appending : held[b].vm # v
  BY DEF Number
<1>9. NewestHeld'
  <2> SUFFICES ASSUME NEW w \in VmIds \ overlapped'
               PROVE  /\ \A b, c \in Appending' : held'[b].vm = w /\ held'[c].vm = w => b = c
                      /\ \A b \in At({"store"})' : \A i \in DOMAIN events' :
                           held'[b].vm = w /\ events'[i].vm = w => events'[i].seq < held'[b].seq
                      /\ \A b \in Appending' : \A i \in DOMAIN published' :
                           held'[b].vm = w /\ published'[i].vm = w
                             => published'[i].seq < held'[b].seq
    BY DEF NewestHeld
  <2>1. w \in VmIds \ overlapped
    BY <1>8
  <2>2. \A b, c \in Appending' : held'[b].vm = w /\ held'[c].vm = w => b = c
    BY <2>1, <1>1, <1>2, <1>8 DEF Inv, NewestHeld
  <2>3. \A i \in DOMAIN events : events[i].seq < next_seq
    BY <1>2, <1>5 DEF Stored
  <2>4. \A i \in DOMAIN published : published[i].seq < next_seq
    BY <1>2, <1>5 DEF Inv, PublishedOnce, Sent
  <2> QED
    BY <2>1, <2>2, <2>3, <2>4, <1>1, <1>2, <1>3 DEF Inv, NewestHeld
<1>10. VmOrder'
  BY <1>3, <1>8 DEF Inv, VmOrder, InOrderAbout
<1> QED
  BY <1>1, <1>4, <1>6, <1>7, <1>9, <1>10 DEF Inv

LEMMA StoreStep == ASSUME Inv, NEW a \in Appenders, Store(a) PROVE Inv'
<1> DEFINE next == IF held[a].line THEN "keep" ELSE "publish"
           e == held[a]
<1>1. /\ stage[a] = "store"
      /\ stage' = [stage EXCEPT ![a] = next]
      /\ next \in {"keep", "publish"}
      /\ UNCHANGED <<next_seq, vm_logs, published, held, overlapped>>
  BY DEF Store, Goto
<1>2. a \in At({"store"}) /\ a \in Appending /\ e \in Event
  BY <1>1 DEF At, Appending, Inv, TypeOK
<1>3. /\ Appending' = Appending
      /\ At({"store"})' = At({"store"}) \ {a}
      /\ At({"keep", "publish"})' = At({"keep", "publish"}) \cup {a}
  BY <1>1 DEF Inv, TypeOK, Appending, At
<1>4. At({"store"}) \subseteq Appending
  BY DEF At, Appending
<1>5. /\ events' = Append(events, e) /\ events' \in Seq(Event)
      /\ DOMAIN events = 1 .. Len(events) /\ Len(events) \in Nat
      /\ DOMAIN events' = 1 .. Len(events) + 1
      /\ \A i \in 1 .. Len(events) : events'[i] = events[i]
      /\ events'[Len(events) + 1] = e
  BY <1>2, Appended DEF Store, Pushed, Inv, TypeOK
<1>6. Stored' = Stored \cup {e} /\ Sent' = Sent
  BY <1>1, <1>2, <1>5, Elements DEF Stored, Sent, Inv, TypeOK
<1> HIDE DEF next, e
<1>7. held'[a] = e /\ held[a] = e
  BY <1>1 DEF e
<1>8. TypeOK'
  BY <1>1, <1>3, <1>5 DEF Inv, TypeOK, Stages
<1>9. HeldInv'
  BY <1>1, <1>3, <1>6, <1>7 DEF Inv, HeldInv
<1>10. \A f \in Stored : f.seq # e.seq
  BY <1>2, <1>7 DEF Inv, SeqDense
<1>11. SeqDense'
  <2>1. \A i, j \in DOMAIN events' : events'[i].seq = events'[j].seq => i = j
    <3>1. \A i \in DOMAIN events : events[i].seq # e.seq
      BY <1>10 DEF Stored
    <3> QED
      BY <3>1, <1>5 DEF Inv, SeqDense
  <2>2. \A b, c \in At({"store"})' : held'[b].seq = held'[c].seq => b = c
    BY <1>1, <1>3 DEF Inv, SeqDense
  <2>3. \A b \in At({"store"})' : \A f \in Stored' : f.seq # held'[b].seq
    BY <1>1, <1>2, <1>3, <1>6, <1>7 DEF Inv, SeqDense
  <2>4. {f.seq : f \in Stored'} \cup {held'[b].seq : b \in At({"store"})'}
          = {f.seq : f \in Stored} \cup {held[b].seq : b \in At({"store"})}
    BY <1>1, <1>2, <1>3, <1>6, <1>7
  <2> QED
    BY <2>1, <2>2, <2>3, <2>4, <1>1 DEF Inv, SeqDense
<1>12. PublishedOnce'
  <2>1. {held'[b] : b \in At({"keep", "publish"})'}
          = {held[b] : b \in At({"keep", "publish"})} \cup {e}
    BY <1>1, <1>3, <1>7
  <2>2. e \notin Stored
    BY <1>10
  <2> QED
    BY <2>1, <2>2, <1>1, <1>6 DEF Inv, PublishedOnce
<1>13. NewestHeld'
  <2> SUFFICES ASSUME NEW w \in VmIds \ overlapped
               PROVE  /\ \A b, c \in Appending : held[b].vm = w /\ held[c].vm = w => b = c
                      /\ \A b \in At({"store"})' : \A i \in DOMAIN events' :
                           held[b].vm = w /\ events'[i].vm = w => events'[i].seq < held[b].seq
                      /\ \A b \in Appending : \A i \in DOMAIN published :
                           held[b].vm = w /\ published[i].vm = w
                             => published[i].seq < held[b].seq
    BY <1>1, <1>3 DEF NewestHeld
  <2> QED
    BY <1>2, <1>3, <1>4, <1>5, <1>7 DEF Inv, NewestHeld
<1>14. VmOrder'
  <2> SUFFICES ASSUME NEW w \in VmIds \ overlapped
               PROVE  InOrderAbout(events, w)'
    BY <1>1 DEF Inv, VmOrder, InOrderAbout
  <2> SUFFICES ASSUME NEW i \in DOMAIN events', NEW j \in DOMAIN events', i < j,
                      events'[i].vm = w, events'[j].vm = w
               PROVE  events'[i].seq < events'[j].seq
    BY DEF InOrderAbout
  <2>1. CASE j \in DOMAIN events
    BY <2>1, <1>5 DEF Inv, VmOrder, InOrderAbout
  <2>2. CASE j = Len(events) + 1
    <3>1. i \in DOMAIN events /\ events'[i] = events[i] /\ events'[j] = e
      BY <2>2, <1>5
    <3> QED
      BY <3>1, <1>2, <1>7 DEF Inv, NewestHeld
  <2> QED
    BY <2>1, <2>2, <1>5
<1> QED
  BY <1>8, <1>9, <1>11, <1>12, <1>13, <1>14 DEF Inv

-----------------------------------------------------------------------------
\* A step that leaves all but the log buffers alone.
LEMMA BuffersOnly ==
    ASSUME Inv, UNCHANGED <<next_seq, events, published, held, overlapped>>,
           Appending' = Appending, At({"store"})' = At({"store"}),
           At({"keep", "publish"})' = At({"keep", "publish"}),
           TypeOK'
    PROVE  Inv'
<1>1. Stored' = Stored /\ Sent' = Sent
  BY DEF Stored, Sent
<1>2. HeldInv'
  BY <1>1 DEF Inv, HeldInv
<1>3. SeqDense'
  BY <1>1 DEF Inv, SeqDense
<1>4. PublishedOnce'
  BY <1>1 DEF Inv, PublishedOnce
<1>5. NewestHeld'
  BY DEF Inv, NewestHeld
<1>6. VmOrder'
  BY DEF Inv, VmOrder, InOrderAbout
<1> QED
  BY <1>2, <1>3, <1>4, <1>5, <1>6 DEF Inv

LEMMA KeepStep == ASSUME Inv, NEW a \in Appenders, Keep(a) PROVE Inv'
<1>1. /\ stage[a] = "keep" /\ stage' = [stage EXCEPT ![a] = "publish"]
      /\ UNCHANGED <<next_seq, events, published, held, overlapped>>
  BY DEF Keep, Goto
<1>2. /\ Appending' = Appending
      /\ At({"store"})' = At({"store"})
      /\ At({"keep", "publish"})' = At({"keep", "publish"})
  BY <1>1 DEF Inv, TypeOK, Appending, At
<1>3. a \in Appending /\ held[a] \in Event /\ held[a].vm \in VmIds
  BY <1>1 DEF Appending, Inv, TypeOK, Event
<1>4. Last(Append(Lines(held[a].vm), held[a])) \in Seq(Event)
  <2>1. Lines(held[a].vm) \in Seq(Event)
    BY DEF Lines, Inv, TypeOK
  <2>2. Append(Lines(held[a].vm), held[a]) \in Seq(Event)
    BY <2>1, <1>3
  <2> QED
    BY <2>2, LastType
<1>5. vm_logs' = [v \in DOMAIN vm_logs \cup {held[a].vm} |->
                    IF v = held[a].vm THEN Last(Append(Lines(held[a].vm), held[a]))
                                      ELSE vm_logs[v]]
  BY DEF Keep
<1>6. DOMAIN vm_logs' \subseteq VmIds /\ vm_logs' \in [DOMAIN vm_logs' -> Seq(Event)]
  BY <1>3, <1>4, <1>5 DEF Inv, TypeOK
<1>7. TypeOK'
  BY <1>1, <1>2, <1>6 DEF Inv, TypeOK, Stages
<1> QED
  BY <1>1, <1>2, <1>7, BuffersOnly

LEMMA PublishStep == ASSUME Inv, NEW a \in Appenders, Publish(a) PROVE Inv'
<1> DEFINE e == held[a]
<1>1. /\ stage[a] = "publish"
      /\ stage' = [stage EXCEPT ![a] = "idle"]
      /\ UNCHANGED <<next_seq, events, vm_logs, overlapped>>
  BY DEF Publish, MayPublish, Goto
<1>2. a \in At({"keep", "publish"}) /\ a \in Appending /\ e \in Event
  BY <1>1 DEF At, Appending, Inv, TypeOK
<1>3. /\ Appending' = Appending \ {a}
      /\ At({"store"})' = At({"store"})
      /\ At({"keep", "publish"})' = At({"keep", "publish"}) \ {a}
      /\ At({"store"}) \subseteq Appending \ {a}
      /\ At({"keep", "publish"}) \subseteq Appending
  BY <1>1 DEF Inv, TypeOK, Appending, At
<1>4. held' = [b \in Appending \ {a} |-> held[b]]
  BY DEF Publish, Released
<1>5. /\ published' = Append(published, e) /\ published' \in Seq(Event)
      /\ DOMAIN published = 1 .. Len(published) /\ Len(published) \in Nat
      /\ DOMAIN published' = 1 .. Len(published) + 1
      /\ \A i \in 1 .. Len(published) : published'[i] = published[i]
      /\ published'[Len(published) + 1] = e
  BY <1>2, Appended DEF Publish, Inv, TypeOK
<1>6. Stored' = Stored /\ Sent' = Sent \cup {e}
  BY <1>1, <1>2, <1>5, Elements DEF Stored, Sent, Inv, TypeOK
<1>7. TypeOK'
  <2>1. DOMAIN held' = Appending' /\ held' \in [DOMAIN held' -> Event]
    BY <1>3, <1>4 DEF Inv, TypeOK
  <2> QED
    BY <2>1, <1>1, <1>5 DEF Inv, TypeOK, Stages
<1>8. HeldInv'
  BY <1>3, <1>4, <1>6 DEF Inv, HeldInv
<1>9. SeqDense'
  <2>1. {held'[b].seq : b \in At({"store"})'} = {held[b].seq : b \in At({"store"})}
    BY <1>3, <1>4
  <2> QED
    BY <2>1, <1>1, <1>3, <1>4, <1>6 DEF Inv, SeqDense
<1>10. e \in Stored /\ e \notin Sent
  BY <1>2 DEF Inv, HeldInv, PublishedOnce
<1>11. \A f \in Sent : f.seq # e.seq
  BY <1>10 DEF Inv, SeqDense, PublishedOnce, Stored
<1> HIDE DEF e
<1>12. PublishedOnce'
  <2>1. \A i, j \in DOMAIN published' : published'[i].seq = published'[j].seq => i = j
    <3>1. \A i \in DOMAIN published : published[i].seq # e.seq
      BY <1>11 DEF Sent
    <3> QED
      BY <3>1, <1>5 DEF Inv, PublishedOnce
  <2>2. {held'[b] : b \in At({"keep", "publish"})'}
          = {held[b] : b \in At({"keep", "publish"})} \ {e}
    <3>1. \A b \in Appending : held[b] = e => b = a
      BY <1>2 DEF Inv, HeldInv, e
    <3> QED
      BY <3>1, <1>2, <1>3, <1>4 DEF e
  <2> QED
    BY <2>1, <2>2, <1>6, <1>10 DEF Inv, PublishedOnce
<1>13. NewestHeld'
  <2> SUFFICES ASSUME NEW w \in VmIds \ overlapped
               PROVE  /\ \A b, c \in Appending' : held'[b].vm = w /\ held'[c].vm = w => b = c
                      /\ \A b \in At({"store"})' : \A i \in DOMAIN events :
                           held'[b].vm = w /\ events[i].vm = w => events[i].seq < held'[b].seq
                      /\ \A b \in Appending' : \A i \in DOMAIN published' :
                           held'[b].vm = w /\ published'[i].vm = w
                             => published'[i].seq < held'[b].seq
    BY <1>1 DEF NewestHeld
  <2>1. \A b \in Appending' : b \in Appending /\ b # a /\ held'[b] = held[b]
    BY <1>3, <1>4
  <2>2. \A b \in Appending' : e.vm = w => held[b].vm # w
    BY <2>1, <1>2 DEF Inv, NewestHeld, e
  <2> QED
    BY <2>1, <2>2, <1>3, <1>5 DEF Inv, NewestHeld
<1>14. VmOrder'
  <2> SUFFICES ASSUME NEW w \in VmIds \ overlapped
               PROVE  InOrderAbout(published, w)'
    BY <1>1 DEF Inv, VmOrder, InOrderAbout
  <2> SUFFICES ASSUME NEW i \in DOMAIN published', NEW j \in DOMAIN published', i < j,
                      published'[i].vm = w, published'[j].vm = w
               PROVE  published'[i].seq < published'[j].seq
    BY DEF InOrderAbout
  <2>1. CASE j \in DOMAIN published
    BY <2>1, <1>5 DEF Inv, VmOrder, InOrderAbout
  <2>2. CASE j = Len(published) + 1
    <3>1. i \in DOMAIN published /\ published'[i] = published[i] /\ published'[j] = e
      BY <2>2, <1>5
    <3> QED
      BY <3>1, <1>2 DEF Inv, NewestHeld, e
  <2> QED
    BY <2>1, <2>2, <1>5
<1> QED
  BY <1>7, <1>8, <1>9, <1>12, <1>13, <1>14 DEF Inv

LEMMA BufferStep ==
    ASSUME Inv, NEW v \in VmIds, InitVm(v) \/ CleanupVm(v)
    PROVE  Inv'
<1>1. UNCHANGED <<next_seq, events, published, stage, held, overlapped>>
  BY DEF InitVm, CleanupVm
<1>2. /\ Appending' = Appending
      /\ At({"store"})' = At({"store"})
      /\ At({"keep", "publish"})' = At({"keep", "publish"})
  BY <1>1 DEF Appending, At
<1>3. DOMAIN vm_logs' \subseteq VmIds /\ vm_logs' \in [DOMAIN vm_logs' -> Seq(Event)]
  <2>1. CASE InitVm(v)
    BY <2>1 DEF InitVm, Lines, Inv, TypeOK
  <2>2. CASE CleanupVm(v)
    BY <2>2 DEF CleanupVm, Inv, TypeOK
  <2> QED
    BY <2>1, <2>2
<1>4. TypeOK'
  BY <1>1, <1>2, <1>3 DEF Inv, TypeOK
<1> QED
  BY <1>1, <1>2, <1>4, BuffersOnly

-----------------------------------------------------------------------------
LEMMA Invariance == Spec => []Inv
<1>1. Inv /\ [Next]_vars => Inv'
  <2> SUFFICES ASSUME Inv, [Next]_vars PROVE Inv'
    OBVIOUS
  <2>1. CASE UNCHANGED vars
    <3>1. UNCHANGED <<next_seq, events, vm_logs, published, stage, held, overlapped>>
      BY <2>1 DEF vars
    <3>2. /\ Appending' = Appending
          /\ At({"store"})' = At({"store"})
          /\ At({"keep", "publish"})' = At({"keep", "publish"})
      BY <3>1 DEF Appending, At
    <3>3. TypeOK'
      BY <3>1, <3>2 DEF Inv, TypeOK
    <3> QED
      BY <3>1, <3>2, <3>3, BuffersOnly
  <2>2. CASE Next
    BY <2>2, NumberStep, StoreStep, KeepStep, PublishStep, BufferStep DEF Next
  <2> QED
    BY <2>1, <2>2
<1> QED
  BY <1>1, InitInv, PTL DEF Spec

\* The variables of the event log keep their types.
THEOREM TypeCorrect == Spec => []TypeOK
  BY Invariance, PTL DEF Inv

\* However appenders interleave, the numbers given out are dense and each
\* belongs to one event.
THEOREM NumbersDense == Spec => []SeqDense
  BY Invariance, PTL DEF Inv

\* The broadcast gives subscribers each stored event exactly once, and no
\* event before a query can find it.
THEOREM BroadcastExact == Spec => []PublishedOnce
  BY Invariance, PTL DEF Inv

\* Appends about a VM that do not overlap are stored and broadcast in the
\* order of their numbers, whatever other appenders do.
THEOREM VmOrderKept == Spec => []VmOrder
  BY Invariance, PTL DEF Inv

-----------------------------------------------------------------------------
(* Log buffers. *)

\* What an appender holds is the newest of what it has stored.
OwnNewest == \A a \in Appending : \A e \in Stored : e.by = a => e.seq <= held[a].seq

LEMMA StoresHeld ==
    ASSUME Inv, NEW a \in Appenders, Store(a)
    PROVE  /\ a \in Appending /\ held[a] \in Event /\ held[a].by = a
           /\ Stored' = Stored \cup {held[a]}
<1>1. a \in Appending /\ held[a] \in Event /\ held[a].by = a
  BY DEF Store, Inv, TypeOK, Appending, HeldInv
<1>2. events \in Seq(Event) /\ events' = Append(events, held[a])
  BY DEF Store, Pushed, Inv, TypeOK
<1>3. {Append(events, held[a])[i] : i \in DOMAIN Append(events, held[a])}
        = {events[i] : i \in DOMAIN events} \cup {held[a]}
  BY ONLY <1>1, <1>2, Elements
<1> QED
  BY <1>1, <1>2, <1>3 DEF Stored

LEMMA OwnNewestNext == Inv /\ OwnNewest /\ [Next]_vars => OwnNewest'
<1> SUFFICES ASSUME Inv, OwnNewest, [Next]_vars PROVE OwnNewest'
  OBVIOUS
<1>1. ASSUME NEW a \in Appenders, NEW v \in VmIds, NEW line \in BOOLEAN, Number(a, v, line)
      PROVE  OwnNewest'
  <2>0. /\ Appending' = Appending \cup {a}
        /\ held'[a] = [seq |-> next_seq, vm |-> v, line |-> line, by |-> a]
        /\ \A b \in Appending : held'[b] = held[b]
    BY <1>1, NumberType DEF Inv
  <2>1. held'[a].seq = next_seq
    BY <2>0
  <2>2. next_seq \in Nat /\ \A e \in Stored : e.seq \in 0 .. next_seq - 1
    BY DEF Inv, SeqDense, TypeOK
  <2>3. \A e \in Stored : e.seq <= next_seq
    BY <2>2
  <2>4. Stored' = Stored
    BY <1>1 DEF Number, Stored
  <2> QED
    BY <2>0, <2>1, <2>3, <2>4 DEF OwnNewest
<1>2. ASSUME NEW a \in Appenders, Store(a) PROVE OwnNewest'
  <2> DEFINE e == held[a]
  <2>1. a \in Appending /\ e \in Event /\ e.by = a /\ Stored' = Stored \cup {e}
    BY <1>2, StoresHeld
  <2>2. Appending' = Appending /\ held' = held
    BY <1>2 DEF Store, Goto, Inv, TypeOK, Appending
  <2>3. e.seq <= e.seq
    BY <2>1 DEF Event
  <2> QED
    BY <2>1, <2>2, <2>3 DEF OwnNewest
<1>3. ASSUME NEW a \in Appenders, Publish(a) PROVE OwnNewest'
  <2>1. /\ Appending' \subseteq Appending /\ Stored' = Stored
        /\ \A b \in Appending' : held'[b] = held[b]
    BY <1>3 DEF Publish, Released, Goto, Inv, TypeOK, Appending, Stored
  <2> QED
    BY <2>1 DEF OwnNewest
<1>4. ASSUME UNCHANGED <<events, held>>, Appending' = Appending PROVE OwnNewest'
  BY <1>4 DEF OwnNewest, Stored
<1>5. ASSUME NEW a \in Appenders, Keep(a)
      PROVE  UNCHANGED <<events, held>> /\ Appending' = Appending
  BY <1>5 DEF Keep, Goto, Inv, TypeOK, Appending
<1>6. ASSUME NEW v \in VmIds, InitVm(v) \/ CleanupVm(v)
      PROVE  UNCHANGED <<events, held>> /\ Appending' = Appending
  BY <1>6 DEF InitVm, CleanupVm, Appending
<1>7. CASE UNCHANGED vars
  BY <1>4, <1>7 DEF vars, Appending
<1> QED
  BY <1>1, <1>2, <1>3, <1>4, <1>5, <1>6, <1>7 DEF Next

\* Cutting a sequence shifts what is left.
LEMMA LastShifts ==
    ASSUME NEW S, NEW s \in Seq(S)
    PROVE  \E d \in Nat : /\ d <= Len(s) /\ Len(Last(s)) = Len(s) - d
                          /\ Len(s) > 0 => d < Len(s)
                          /\ \A i \in 1 .. Len(s) - d : Last(s)[i] = s[i + d]
<1>0. BufferCapacity \in Nat /\ BufferCapacity > 0 /\ Len(s) \in Nat
  BY LogAssumption
<1>1. CASE Len(s) > BufferCapacity
  <2> DEFINE d == Len(s) - BufferCapacity
  <2>1. d \in Nat /\ d < Len(s) /\ Last(s) = SubSeq(s, d + 1, Len(s))
    BY <1>0, <1>1 DEF Last
  <2>2. Len(Last(s)) = Len(s) - d /\ \A i \in 1 .. Len(s) - d : Last(s)[i] = s[i + d]
    BY <1>0, <2>1
  <2> QED
    BY <1>0, <2>1, <2>2
<1>2. CASE ~(Len(s) > BufferCapacity)
  <2>1. Last(s) = s
    BY <1>2 DEF Last
  <2>2. /\ 0 <= Len(s) /\ Len(Last(s)) = Len(s) - 0 /\ (Len(s) > 0 => 0 < Len(s))
        /\ \A i \in 1 .. Len(s) - 0 : Last(s)[i] = s[i + 0]
    BY <1>0, <2>1
  <2> QED
    BY <2>2
<1> QED
  BY <1>1, <1>2

\* The lines of s have no hole as far as the event e is concerned.
Follows(s, e) ==
    \A i \in DOMAIN s : e.by = s[i].by /\ e.seq > s[i].seq => \E j \in DOMAIN s : j > i /\ s[j] = e

Kept(e, v) == e.vm = v /\ e.line /\ \A a \in At({"keep"}) : held[a] # e

LEMMA NoHolesFollows ==
    NoHoles <=> \A v \in DOMAIN vm_logs : \A e \in Stored : Kept(e, v) => Follows(vm_logs[v], e)
  BY DEF NoHoles, Kept, Follows

LEMMA NoHolesFollowsNext ==
    (\A v \in DOMAIN vm_logs' : \A e \in Stored' : Kept(e, v)' => Follows(vm_logs'[v], e)) => NoHoles'
<1>1. (\A v \in DOMAIN vm_logs : \A e \in Stored : Kept(e, v) => Follows(vm_logs[v], e)) => NoHoles
  BY NoHolesFollows
<1>2. ((\A v \in DOMAIN vm_logs : \A e \in Stored : Kept(e, v) => Follows(vm_logs[v], e))
          => NoHoles)'
  BY <1>1, PTL
<1> QED
  BY <1>2 DEF Follows

\* A new line, and the cut, leave no hole.
LEMMA PushFollows ==
    ASSUME NEW s \in Seq(Event), NEW h \in Event, NEW e \in Event,
           e # h => Follows(s, e),
           e.by = h.by => e.seq <= h.seq
    PROVE  Follows(Last(Append(s, h)), e)
<1> DEFINE t == Append(s, h)
<1>1. /\ t \in Seq(Event) /\ Len(s) \in Nat /\ Len(t) = Len(s) + 1 /\ DOMAIN s = 1 .. Len(s)
      /\ \A i \in 1 .. Len(s) : t[i] = s[i]
      /\ t[Len(s) + 1] = h
  OBVIOUS
<1> HIDE DEF t
<1>2. PICK d \in Nat : /\ d <= Len(t) /\ Len(Last(t)) = Len(t) - d
                       /\ Len(t) > 0 => d < Len(t)
                       /\ \A i \in 1 .. Len(t) - d : Last(t)[i] = t[i + d]
  BY ONLY <1>1, LastShifts
<1>3. Last(t) \in Seq(Event) /\ DOMAIN Last(t) = 1 .. Len(t) - d
  BY <1>1, <1>2, LastType
<1> SUFFICES ASSUME NEW i \in 1 .. Len(t) - d, e.by = Last(t)[i].by, e.seq > Last(t)[i].seq
             PROVE  \E j \in 1 .. Len(t) - d : j > i /\ Last(t)[j] = e
  BY <1>3 DEF Follows, t
<1>4. Last(t)[i] = t[i + d] /\ i + d \in 1 .. Len(t)
  BY <1>1, <1>2
<1>5. i + d # Len(s) + 1
  <2> SUFFICES ASSUME i + d = Len(s) + 1 PROVE FALSE
    OBVIOUS
  <2>1. e.by = h.by /\ e.seq > h.seq
    BY <1>1, <1>4
  <2> QED
    BY <2>1 DEF Event
<1>6. i + d \in 1 .. Len(s) /\ t[i + d] = s[i + d]
  BY <1>1, <1>4, <1>5
<1>7. CASE e = h
  <2>1. Len(t) - d \in 1 .. Len(t) - d /\ Len(t) - d > i /\ (Len(t) - d) + d = Len(s) + 1
    BY <1>1, <1>2, <1>6
  <2>2. Last(t)[Len(t) - d] = h
    BY <1>1, <1>2, <2>1
  <2> QED
    BY <1>7, <2>1, <2>2
<1>8. CASE e # h
  <2>1. PICK k \in 1 .. Len(s) : k > i + d /\ s[k] = e
    BY <1>1, <1>4, <1>6, <1>8 DEF Follows
  <2>2. k - d \in 1 .. Len(t) - d /\ k - d > i /\ (k - d) + d = k
    BY <1>1, <1>2, <2>1
  <2>3. Last(t)[k - d] = e
    BY <1>1, <1>2, <2>1, <2>2
  <2> QED
    BY <2>2, <2>3
<1> QED
  BY <1>7, <1>8

LEMMA NoHolesNext == Inv /\ OwnNewest /\ NoHoles /\ [Next]_vars => NoHoles'
<1> SUFFICES ASSUME Inv, OwnNewest, NoHoles, [Next]_vars PROVE NoHoles'
  OBVIOUS
<1>0. \A v \in DOMAIN vm_logs : \A e \in Stored : Kept(e, v) => Follows(vm_logs[v], e)
  BY NoHolesFollows
<1>1. ASSUME NEW a \in Appenders, Keep(a) PROVE NoHoles'
  <2> DEFINE h == held[a]
             L == Lines(h.vm)
  <2>1. /\ stage[a] = "keep" /\ a \in At({"keep"}) /\ a \in Appending /\ h \in Event
        /\ h.by = a
    BY <1>1 DEF Keep, At, Appending, Inv, TypeOK, HeldInv
  <2>2. L \in Seq(Event)
    BY DEF Lines, Inv, TypeOK
  <2>3. /\ vm_logs' = [v \in DOMAIN vm_logs \cup {h.vm} |->
                          IF v = h.vm THEN Last(Append(L, h)) ELSE vm_logs[v]]
        /\ UNCHANGED <<events, held>> /\ Stored' = Stored
        /\ At({"keep"})' = At({"keep"}) \ {a}
    BY <1>1 DEF Keep, Goto, Stored, At, Inv, TypeOK
  <2> SUFFICES ASSUME NEW v \in DOMAIN vm_logs', NEW e \in Stored, Kept(e, v)'
               PROVE  Follows(vm_logs'[v], e)
    BY <2>3, NoHolesFollowsNext
  <2>4. e.vm = v /\ (e # h => Kept(e, v)) /\ e \in Event
    BY <2>3 DEF Kept, Stored, Inv, TypeOK
  <2>5. CASE v # h.vm
    BY <1>0, <2>3, <2>4, <2>5
  <2>6. CASE v = h.vm
    <3>1. e # h => Follows(L, e)
      BY <1>0, <2>4, <2>6 DEF Lines, Follows
    <3>2. e.by = h.by => e.seq <= h.seq
      BY <2>1 DEF OwnNewest
    <3>3. Follows(Last(Append(L, h)), e)
      BY <2>1, <2>2, <2>4, <3>1, <3>2, PushFollows
    <3> QED
      BY <2>3, <2>6, <3>3
  <2> QED
    BY <2>5, <2>6
<1>2. ASSUME NEW a \in Appenders, Store(a) PROVE NoHoles'
  <2> DEFINE h == held[a]
  <2>1. /\ h \in Event /\ UNCHANGED <<vm_logs, held>>
        /\ At({"keep"})' = IF h.line THEN At({"keep"}) \cup {a} ELSE At({"keep"})
    BY <1>2 DEF Store, Goto, At, Appending, Inv, TypeOK
  <2>2. Stored' = Stored \cup {h}
    BY <1>2, StoresHeld
  <2> QED
    BY <2>1, <2>2 DEF NoHoles
<1>3. ASSUME UNCHANGED <<events, vm_logs>>, At({"keep"})' = At({"keep"}),
             \A b \in At({"keep"}) : held'[b] = held[b]
      PROVE  NoHoles'
  BY <1>3 DEF NoHoles, Stored
<1>4. ASSUME NEW a \in Appenders, NEW v \in VmIds, NEW line \in BOOLEAN, Number(a, v, line)
      PROVE  NoHoles'
  <2>1. /\ At({"keep"})' = At({"keep"}) /\ At({"keep"}) \subseteq Appending
        /\ UNCHANGED <<events, vm_logs>>
    BY <1>4 DEF Number, Goto, At, Appending, Inv, TypeOK
  <2>2. \A b \in Appending : held'[b] = held[b]
    BY <1>4, NumberType DEF Inv
  <2> QED
    BY <1>3, <2>1, <2>2
<1>5. ASSUME NEW a \in Appenders, Publish(a) PROVE NoHoles'
  <2>1. /\ At({"keep"})' = At({"keep"}) /\ At({"keep"}) \subseteq Appending \ {a}
        /\ UNCHANGED <<events, vm_logs>> /\ held' = [b \in Appending \ {a} |-> held[b]]
    BY <1>5 DEF Publish, MayPublish, Released, Goto, At, Appending, Inv, TypeOK
  <2> QED
    BY <1>3, <2>1
<1>6. ASSUME NEW v \in VmIds, InitVm(v) \/ CleanupVm(v) PROVE NoHoles'
  <2>1. UNCHANGED <<events, held, stage>> /\ Stored' = Stored /\ At({"keep"})' = At({"keep"})
    BY <1>6 DEF InitVm, CleanupVm, Stored, At
  <2>2. \A w \in DOMAIN vm_logs' :
           vm_logs'[w] = <<>> \/ (w \in DOMAIN vm_logs /\ vm_logs'[w] = vm_logs[w])
    BY <1>6 DEF InitVm, CleanupVm, Lines
  <2> QED
    BY <2>1, <2>2 DEF NoHoles
<1>7. CASE UNCHANGED vars
  BY <1>3, <1>7 DEF vars, At
<1> QED
  BY <1>1, <1>2, <1>4, <1>5, <1>6, <1>7 DEF Next

\* A line that is in a log buffer is followed there by every later line of the
\* same appender that append() has put in (EventLog::append, VmLogBuffer::push),
\* whoever else appends, and also when the buffer is dropped and made again.
THEOREM BuffersWithoutHoles == Spec => []NoHoles
<1>1. Init => OwnNewest /\ NoHoles
  BY DEF Init, OwnNewest, NoHoles, Stored, Appending
<1> QED
  BY <1>1, OwnNewestNext, NoHolesNext, Invariance, PTL DEF Spec
=============================================================================
