-------------------------- MODULE VmLogBufferProofs --------------------------
(***************************************************************************)
(* The circular buffer of module VmLogBuffer implements LogTail, for every *)
(* capacity.                                                               *)
(***************************************************************************)
EXTENDS VmLogBuffer, SequenceTheorems, TLAPS

\* The vector is as long as the number of lines, and nothing is overwritten
\* before it is full.
Inv ==
    /\ TypeOK
    /\ Len(lines) = len
    /\ len < Capacity => head = 0

\* The place of the i-th oldest line in a vector whose oldest is at h.
Slot(h, i) == IF h + i <= Capacity THEN h + i ELSE h + i - Capacity

-----------------------------------------------------------------------------
\* The remainder of a number below twice the divisor.
LEMMA Wrap ==
    ASSUME NEW c \in Nat \ {0}, NEW x \in 0 .. c + c - 1
    PROVE  x % c = IF x < c THEN x ELSE x - c
<1>1. CASE x < c
  BY <1>1, SMT
<1>2. CASE x >= c
  BY <1>2, SMT
<1> QED
  BY <1>1, <1>2

LEMMA Invariance == Spec => []Inv
<1>1. Init => Inv
  BY CapacityAssumption DEF Init, Inv, TypeOK
<1>2. Inv /\ [Next]_vars => Inv'
  <2> SUFFICES ASSUME Inv, [Next]_vars PROVE Inv'
    OBVIOUS
  <2> USE CapacityAssumption
  <2>1. CASE UNCHANGED vars
    BY <2>1 DEF Inv, TypeOK, vars
  <2>2. ASSUME NEW line \in Lines, PushGrowing(line) PROVE Inv'
    BY <2>2 DEF Inv, TypeOK, PushGrowing
  <2>3. ASSUME NEW line \in Lines, PushFull(line) PROVE Inv'
    <3>1. head + 1 \in 0 .. Capacity + Capacity - 1
      BY DEF Inv, TypeOK
    <3>2. Advanced \in 0 .. Capacity - 1
      BY <3>1, Wrap DEF Inv, TypeOK, Advanced
    <3> QED
      BY <2>3, <3>2 DEF Inv, TypeOK, PushFull
  <2> QED
    BY <2>1, <2>2, <2>3 DEF Next, Push
<1> QED
  BY <1>1, <1>2, PTL DEF Spec

\* The vector never outgrows the capacity and the write position stays in it.
THEOREM TypeCorrect == Spec => []TypeOK
  BY Invariance, PTL DEF Inv

\* The lines tail(n) returns, by their place in the vector.
LEMMA TailByPlace ==
    ASSUME Inv, NEW n \in Nat
    PROVE  LET m == IF n < len THEN n ELSE len IN
           LastLines(n) = [i \in 1 .. m |-> lines[Slot(head, len - m + i)]]
<1> DEFINE m == IF n < len THEN n ELSE len
<1> USE CapacityAssumption
<1>1. m \in 0 .. len /\ len \in 0 .. Capacity /\ head \in 0 .. Capacity - 1
  BY DEF Inv, TypeOK
<1>2. LastLines(n) = TailOf(m)
  BY DEF LastLines
<1>3. CASE len < Capacity
  <2>1. TailOf(m) = SubSeq(lines, len - m + 1, len)
    BY <1>3 DEF TailOf
  <2>2. SubSeq(lines, len - m + 1, len) = [i \in 1 .. m |-> lines[len - m + i]]
    BY <1>1 DEF Inv, TypeOK
  <2>3. \A i \in 1 .. m : Slot(head, len - m + i) = len - m + i
    BY <1>1, <1>3 DEF Inv, Slot
  <2> QED
    BY <1>2, <2>1, <2>2, <2>3
<1>4. CASE len = Capacity
  <2>1. TailOf(m) = [i \in 1 .. m |-> At((Start(m) + i - 1) % Capacity)]
    BY <1>4 DEF TailOf
  <2>2. ASSUME NEW i \in 1 .. m
        PROVE  ((Start(m) + i - 1) % Capacity) + 1 = Slot(head, len - m + i)
    <3> HIDE DEF m
    <3>1. head + Capacity - m \in 0 .. Capacity + Capacity - 1
      BY <1>1, <1>4, <2>2
    <3>2. Start(m) = IF head < m THEN head + Capacity - m ELSE head - m
      <4>1. PICK x \in 0 .. Capacity + Capacity - 1 : x = head + Capacity - m
        BY <3>1
      <4>2. x % Capacity = IF x < Capacity THEN x ELSE x - Capacity
        BY ONLY Wrap, CapacityAssumption
      <4>3. Start(m) = x % Capacity
        BY <4>1 DEF Start
      <4> QED
        BY <4>1, <4>2, <4>3, <1>1, <1>4
    <3>3. Start(m) + i - 1 \in 0 .. Capacity + Capacity - 1
      BY <3>2, <1>1, <1>4, <2>2
    <3>4. PICK x \in 0 .. Capacity + Capacity - 1 : x = Start(m) + i - 1
      BY <3>3
    <3>5. x % Capacity = IF x < Capacity THEN x ELSE x - Capacity
      BY ONLY Wrap, CapacityAssumption
    <3>6. m \in Nat /\ i \in Nat /\ i >= 1 /\ i <= m /\ m <= Capacity
      BY <1>1, <1>4, <2>2
    <3>7. (x % Capacity) + 1 = Slot(head, len - m + i)
      <4>1. CASE head < m
        BY <3>2, <3>4, <3>5, <3>6, <4>1, <1>1, <1>4 DEF Slot
      <4>2. CASE head >= m
        BY <3>2, <3>4, <3>5, <3>6, <4>2, <1>1, <1>4 DEF Slot
      <4> QED
        BY <3>6, <4>1, <4>2, <1>1
    <3> QED
      BY <3>4, <3>7
  <2> QED
    BY <1>2, <2>1, <2>2 DEF At
<1> QED
  BY <1>1, <1>3, <1>4

\* All the lines the buffer holds, by their place.
Placed ==
    /\ LastLines(Capacity) = [i \in 1 .. len |-> lines[Slot(head, i)]]
    /\ LastLines(Capacity) \in Seq(Lines)
    /\ Len(LastLines(Capacity)) = len

LEMMA AllByPlace == Inv => Placed
<1> SUFFICES ASSUME Inv PROVE Placed
  OBVIOUS
<1> USE CapacityAssumption
<1>1. len \in Nat /\ len <= Capacity
  BY DEF Inv, TypeOK
<1>2. LastLines(Capacity) = [i \in 1 .. len |-> lines[Slot(head, i)]]
  <2>1. (IF Capacity < len THEN Capacity ELSE len) = len
    BY <1>1
  <2>2. \A i \in 1 .. len : len - len + i = i
    BY <1>1
  <2> QED
    BY <2>1, <2>2, TailByPlace
<1>3. ASSUME NEW i \in 1 .. len PROVE lines[Slot(head, i)] \in Lines
  BY <1>3 DEF Inv, TypeOK, Slot
<1> QED
  BY <1>1, <1>2, <1>3 DEF Placed

-----------------------------------------------------------------------------
\* tail(n) of the buffer is the end of the lines it keeps, for every n.
THEOREM ShortTailsAgree == Spec => []ShortTails
<1>1. Inv => ShortTails
  <2> SUFFICES ASSUME Inv, NEW n \in 0 .. Capacity + 1
               PROVE  LastLines(n) = Kept!LastN(LastLines(Capacity), n)
    BY DEF ShortTails
  <2> USE CapacityAssumption
  <2> DEFINE m == IF n < len THEN n ELSE len
             all == LastLines(Capacity)
  <2>1. LastLines(n) = [i \in 1 .. m |-> lines[Slot(head, len - m + i)]]
    BY TailByPlace
  <2>2. len \in Nat /\ len <= Capacity /\ m \in 0 .. len /\ n \in Nat
    BY DEF Inv, TypeOK
  <2>3. /\ all = [i \in 1 .. len |-> lines[Slot(head, i)]]
        /\ all \in Seq(Lines)
        /\ Len(all) = len
    BY AllByPlace DEF Placed
  <2> HIDE DEF all
  <2>4. CASE n >= len
    <3>1. Kept!LastN(all, n) = all
      BY <2>3, <2>4 DEF Kept!LastN
    <3>2. LastLines(n) = [i \in 1 .. len |-> lines[Slot(head, i)]]
      BY <2>1, <2>2, <2>4
    <3> QED
      BY <3>1, <3>2, <2>3 DEF all
  <2>5. CASE n < len
    <3>1. Kept!LastN(all, n) = SubSeq(all, len - n + 1, len)
      BY <2>3, <2>5, <2>2 DEF Kept!LastN
    <3>2. SubSeq(all, len - n + 1, len) = [i \in 1 .. n |-> all[len - n + i]]
      BY <2>3, <2>5, <2>2
    <3>3. \A i \in 1 .. n : all[len - n + i] = lines[Slot(head, len - n + i)]
      BY <2>3, <2>5, <2>2
    <3>4. m = n
      BY <2>5
    <3>5. LastLines(n) = [i \in 1 .. n |-> lines[Slot(head, len - n + i)]]
      BY <2>1, <3>4
    <3> QED
      BY <3>1, <3>2, <3>3, <3>5, Zenon DEF all
  <2> QED
    BY <2>4, <2>5, <2>2 DEF all
<1> QED
  BY <1>1, Invariance, PTL

-----------------------------------------------------------------------------
\* Every push keeps the last Capacity lines, in order: the circular buffer
\* implements LogTail.
THEOREM BufferKeepsLastLines == Spec => KeepsLastLines
<1> USE CapacityAssumption
<1> DEFINE all == LastLines(Capacity)
<1>1. Init => Kept!Init
  <2> SUFFICES ASSUME Init PROVE all = <<>>
    BY DEF Kept!Init
  <2>1. Inv /\ len = 0
    BY DEF Init, Inv, TypeOK
  <2> QED
    BY <2>1, AllByPlace DEF Placed
<1>2. Inv' => Placed'
  BY AllByPlace, PTL
<1>3. ASSUME Inv, Inv', [Next]_vars PROVE [Kept!Next]_all
  <2>1. /\ all = [i \in 1 .. len |-> lines[Slot(head, i)]]
        /\ all \in Seq(Lines)
        /\ Len(all) = len
    BY <1>3, AllByPlace DEF Placed
  <2>2. /\ all' = [i \in 1 .. len' |-> lines'[Slot(head', i)]]
        /\ all' \in Seq(Lines)
        /\ Len(all') = len'
    BY <1>2, <1>3 DEF Placed, Slot
  <2>3. CASE UNCHANGED vars
    BY <2>3 DEF vars, LastLines, TailOf, At, Start
  <2> HIDE DEF all
  <2>4. ASSUME NEW line \in Lines, PushGrowing(line) PROVE all' = Kept!LastN(Append(all, line), Capacity)
    <3>1. head = 0 /\ head' = 0 /\ len' = len + 1 /\ len \in Nat /\ len < Capacity
      BY <2>4, <1>3 DEF PushGrowing, Inv, TypeOK
    <3>2. \A i \in 1 .. Capacity : Slot(head, i) = i /\ Slot(head', i) = i
      BY <3>1 DEF Slot
    <3>3. lines' = Append(lines, line) /\ lines \in Seq(Lines) /\ Len(lines) = len
      BY <2>4, <1>3 DEF PushGrowing, Inv, TypeOK
    <3>4. \A i \in 1 .. len + 1 : all'[i] = Append(all, line)[i]
      BY <3>1, <3>2, <3>3, <2>1, <2>2, <2>4
    <3>5. all' = Append(all, line)
      BY <3>1, <3>4, <2>1, <2>2, <2>4, SeqEqual
    <3> QED
      BY <3>1, <3>5, <2>1, <2>4 DEF Kept!LastN
  <2>5. ASSUME NEW line \in Lines, PushFull(line) PROVE all' = Kept!LastN(Append(all, line), Capacity)
    <3>1. /\ head \in 0 .. Capacity - 1 /\ len = Capacity /\ len' = Capacity
          /\ lines \in Seq(Lines) /\ Len(lines) = Capacity
          /\ lines' = [lines EXCEPT ![head + 1] = line]
      BY <2>5, <1>3 DEF PushFull, Inv, TypeOK
    <3>2. head' = IF head + 1 < Capacity THEN head + 1 ELSE 0
      <4>1. PICK x \in 0 .. Capacity + Capacity - 1 : x = head + 1
        BY <3>1
      <4>2. x % Capacity = IF x < Capacity THEN x ELSE x - Capacity
        BY ONLY Wrap, CapacityAssumption
      <4> QED
        BY <4>1, <4>2, <3>1, <2>5 DEF PushFull, Advanced
    <3>3. Kept!LastN(Append(all, line), Capacity) = SubSeq(Append(all, line), 2, Capacity + 1)
      BY <3>1, <2>1, <2>5 DEF Kept!LastN
    <3> DEFINE rest == SubSeq(Append(all, line), 2, Capacity + 1)
    <3>4. /\ rest \in Seq(Lines)
          /\ Len(rest) = Capacity
          /\ \A i \in 1 .. Capacity : rest[i] = IF i < Capacity THEN all[i + 1] ELSE line
      BY <3>1, <2>1, <2>5
    <3>5. ASSUME NEW i \in 1 .. Capacity, i < Capacity PROVE all'[i] = all[i + 1]
      <4>1. Slot(head', i) = Slot(head, i + 1)
        BY <3>1, <3>2, <3>5 DEF Slot
      <4>2. Slot(head, i + 1) \in 1 .. Capacity /\ Slot(head, i + 1) # head + 1
        BY <3>1, <3>5 DEF Slot
      <4> QED
        BY <4>1, <4>2, <3>1, <3>5, <2>1, <2>2
    <3>6. all'[Capacity] = line
      <4>1. Slot(head', Capacity) = head + 1
        BY <3>1, <3>2 DEF Slot
      <4> QED
        BY <4>1, <3>1, <2>2
    <3> HIDE DEF rest
    <3>7. ASSUME NEW i \in 1 .. Capacity PROVE all'[i] = rest[i]
      <4>1. CASE i < Capacity
        BY <4>1, <3>4, <3>5
      <4>2. CASE i = Capacity
        BY <4>2, <3>4, <3>6
      <4> QED
        BY <4>1, <4>2
    <3>8. all' = rest
      BY <3>1, <3>4, <3>7, <2>2, SeqEqual
    <3> QED
      BY <3>3, <3>8 DEF rest
  <2> QED
    BY <2>3, <2>4, <2>5, <1>3 DEF Next, Push, Kept!Next, Kept!Write, all
<1> QED
  BY <1>1, <1>3, Invariance, PTL DEF Spec, KeepsLastLines, Kept!Spec
=============================================================================
