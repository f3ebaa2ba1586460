---------------------------- MODULE ChannelFacts ----------------------------
(***************************************************************************)
(* Facts about sequences as channels, for the proofs about VmLink and      *)
(* Connection: what a step that moves the front of one channel to the end  *)
(* of the next does to their contents and their types.                     *)
(***************************************************************************)
EXTENDS Naturals, Sequences, TLAPS, SequenceTheorems

\* The front of a channel.
LEMMA Front ==
  ASSUME NEW S, NEW s \in Seq(S), s # <<>>
  PROVE  /\ Head(s) \in S /\ Tail(s) \in Seq(S)
         /\ Len(s) \in Nat /\ Len(s) >= 1 /\ Len(Tail(s)) = Len(s) - 1
         /\ <<Head(s)>> \in Seq(S) /\ Len(<<Head(s)>>) = 1 /\ <<Head(s)>> # <<>>
         /\ <<Head(s)>> \o Tail(s) = s
<1>1. /\ Head(s) \in S /\ Tail(s) \in Seq(S) /\ Len(Tail(s)) = Len(s) - 1
      /\ \A i \in 1 .. Len(Tail(s)) : Tail(s)[i] = s[i + 1]
      /\ Len(s) \in Nat \ {0}
  BY HeadTailProperties, EmptySeq
<1>2. <<Head(s)>> \in Seq(S) /\ Len(<<Head(s)>>) = 1 /\ <<Head(s)>> # <<>>
  BY <1>1
<1>3. <<Head(s)>> \o Tail(s) = s
  <2> DEFINE h == <<Head(s)>>
             u == h \o Tail(s)
  <2>1. /\ u \in Seq(S) /\ Len(u) = Len(s)
        /\ \A i \in 1 .. Len(s) : u[i] = IF i <= 1 THEN h[i] ELSE Tail(s)[i - 1]
    BY <1>1, <1>2, ConcatProperties
  <2>2. h[1] = s[1]
    OBVIOUS
  <2> HIDE DEF h, u
  <2>3. \A i \in 1 .. Len(s) : u[i] = s[i]
    BY <1>1, <2>1, <2>2
  <2> QED
    BY <2>1, <2>3, SeqEqual DEF u, h
<1> QED
  BY <1>1, <1>2, <1>3

\* Concatenation under another name, for steps that only regroup.
Joined(s, t) == s \o t

LEMMA JoinedType ==
  ASSUME NEW S, NEW a \in Seq(S), NEW b \in Seq(S)
  PROVE  Joined(a, b) \in Seq(S)
  BY ConcatProperties DEF Joined

LEMMA JoinedTwice ==
  ASSUME NEW S, NEW a \in Seq(S), NEW b \in Seq(S), NEW c \in Seq(S)
  PROVE  Joined(Joined(a, b), c) = Joined(a, Joined(b, c))
  BY ConcatAssociative DEF Joined

LEMMA Regroup ==
  ASSUME NEW S, NEW a \in Seq(S), NEW b \in Seq(S), NEW c \in Seq(S), NEW d \in Seq(S)
  PROVE  Joined(Joined(Joined(a, b), c), d) = Joined(a, Joined(Joined(b, c), d))
  BY JoinedType, JoinedTwice

\* The first element of b moves to the end of a.
LEMMA MoveFirst ==
  ASSUME NEW S, NEW a \in Seq(S), NEW b \in Seq(S), b # <<>>
  PROVE  (a \o <<Head(b)>>) \o Tail(b) = (a \o <<>>) \o b
<1>1. <<Head(b)>> \in Seq(S) /\ Tail(b) \in Seq(S) /\ <<Head(b)>> \o Tail(b) = b
  BY Front
<1>2. PICK h \in Seq(S), t \in Seq(S) : h = <<Head(b)>> /\ t = Tail(b)
  BY <1>1
<1>3. Joined(Joined(a, h), t) = Joined(a, Joined(h, t))
  BY JoinedTwice
<1>4. a \o <<>> = a
  BY ConcatEmptySeq
<1> QED
  BY ONLY <1>1, <1>2, <1>3, <1>4 DEF Joined

\* All of c moves to the end of b.
LEMMA MoveAll ==
  ASSUME NEW S, NEW a \in Seq(S), NEW b \in Seq(S), NEW c \in Seq(S)
  PROVE  (a \o (b \o c)) \o <<>> = (a \o b) \o c
<1>1. a \o (b \o c) \in Seq(S)
  BY ConcatProperties
<1>2. Joined(Joined(a, b), c) = Joined(a, Joined(b, c))
  BY JoinedTwice
<1>3. (a \o (b \o c)) \o <<>> = a \o (b \o c)
  BY ONLY <1>1, ConcatEmptySeq
<1> QED
  BY ONLY <1>2, <1>3 DEF Joined

LEMMA AddLast ==
  ASSUME NEW S, NEW a \in Seq(S), NEW b \in Seq(S), NEW e \in S
  PROVE  a \o Append(b, e) = Append(a \o b, e)
<1>1. a \o b \in Seq(S) /\ <<e>> \in Seq(S)
  BY ConcatProperties
<1> QED
  BY <1>1, AppendIsConcat, ConcatAssociative

\* The same with Append, and behind the channel before.
LEMMA MoveOn ==
  ASSUME NEW S, NEW b \in Seq(S), NEW c \in Seq(S), c # <<>>
  PROVE  Append(b, Head(c)) \o Tail(c) = b \o c
<1>1. Head(c) \in S /\ <<Head(c)>> \in Seq(S) /\ Tail(c) \in Seq(S) /\ <<Head(c)>> \o Tail(c) = c
  BY Front
<1>2. Append(b, Head(c)) = b \o <<Head(c)>>
  BY <1>1, AppendIsConcat
<1>3. PICK h \in Seq(S), t \in Seq(S) : h = <<Head(c)>> /\ t = Tail(c)
  BY <1>1
<1>4. Joined(Joined(b, h), t) = Joined(b, Joined(h, t))
  BY JoinedTwice
<1> QED
  BY ONLY <1>1, <1>2, <1>3, <1>4 DEF Joined

MovesOn(a, b, c) == (a \o Append(b, Head(c))) \o Tail(c) = (a \o b) \o c

LEMMA MoveOnBehind ==
  ASSUME NEW S, NEW a \in Seq(S), NEW b \in Seq(S), NEW c \in Seq(S), c # <<>>
  PROVE  MovesOn(a, b, c)
<1>1. Head(c) \in S /\ a \o b \in Seq(S)
  BY Front, ConcatProperties
<1>2. a \o Append(b, Head(c)) = Append(a \o b, Head(c))
  BY <1>1, AddLast
<1>3. Append(a \o b, Head(c)) \o Tail(c) = (a \o b) \o c
  BY <1>1, MoveOn
<1> QED
  BY ONLY <1>2, <1>3 DEF MovesOn

\* A task holds one element or none.
LEMMA Single ==
  ASSUME NEW S, NEW s \in Seq(S), Len(s) \in {0, 1}, s # <<>>
  PROVE  Head(s) \in S /\ s = <<Head(s)>>
<1>1. Len(s) = 1
  BY EmptySeq
<1>2. <<Head(s)>> \in Seq(S) /\ Len(<<Head(s)>>) = 1 /\ Head(s) \in S
  BY Front
<1> QED
  BY <1>1, <1>2, SeqEqual

LEMMA FrontOfConcat ==
  ASSUME NEW S, NEW s \in Seq(S), NEW t \in Seq(S), s # <<>>
  PROVE  /\ s \o t \in Seq(S) /\ s \o t # <<>>
         /\ Head(s \o t) = Head(s) /\ Tail(s \o t) = Tail(s) \o t
<1>1. /\ Tail(s) \in Seq(S) /\ Len(s) \in Nat /\ Len(s) >= 1 /\ Len(Tail(s)) = Len(s) - 1
      /\ \A i \in 1 .. Len(Tail(s)) : Tail(s)[i] = s[i + 1]
  BY Front, HeadTailProperties
<1>2. /\ s \o t \in Seq(S) /\ Len(s \o t) = Len(s) + Len(t) /\ Len(t) \in Nat
      /\ \A i \in 1 .. Len(s) + Len(t) : (s \o t)[i] = IF i <= Len(s) THEN s[i] ELSE t[i - Len(s)]
  BY ConcatProperties, LenProperties
<1>3. s \o t # <<>>
  BY ConcatEqualIffEmpty
<1>4. Head(s \o t) = Head(s)
  <2>1. (s \o t)[1] = s[1]
    BY <1>1, <1>2
  <2>2. Head(s \o t) = (s \o t)[1] /\ Head(s) = s[1]
    OBVIOUS
  <2> QED
    BY <2>1, <2>2
<1>5. Tail(s \o t) = Tail(s) \o t
  <2>1. /\ Tail(s \o t) \in Seq(S) /\ Len(Tail(s \o t)) = Len(s) + Len(t) - 1
        /\ \A i \in 1 .. Len(Tail(s \o t)) : Tail(s \o t)[i] = (s \o t)[i + 1]
    BY <1>2, <1>3, HeadTailProperties
  <2>2. /\ Tail(s) \o t \in Seq(S) /\ Len(Tail(s) \o t) = Len(s) - 1 + Len(t)
        /\ \A i \in 1 .. Len(s) - 1 + Len(t) :
              (Tail(s) \o t)[i] = IF i <= Len(s) - 1 THEN Tail(s)[i] ELSE t[i - (Len(s) - 1)]
    BY <1>1, ConcatProperties
  <2>3. ASSUME NEW i \in 1 .. Len(s) - 1 + Len(t) PROVE Tail(s \o t)[i] = (Tail(s) \o t)[i]
    <3>1. Tail(s \o t)[i] = (s \o t)[i + 1]
      BY <1>1, <1>2, <2>1, <2>3
    <3>2. CASE i <= Len(s) - 1
      BY <1>1, <1>2, <2>2, <3>1, <3>2
    <3>3. CASE i > Len(s) - 1
      <4>1. (s \o t)[i + 1] = t[i + 1 - Len(s)]
        BY <1>1, <1>2, <3>3
      <4>2. i + 1 - Len(s) = i - (Len(s) - 1)
        BY <1>1
      <4> QED
        BY <2>2, <3>1, <3>3, <4>1, <4>2
    <3> QED
      BY <1>1, <3>2, <3>3
  <2> QED
    BY <1>1, <1>2, <2>1, <2>2, <2>3, SeqEqual
<1> QED
  BY <1>2, <1>3, <1>4, <1>5

\* A channel or pipe of n places.
Holds(S, s, n) == s \in Seq(S) /\ Len(s) \in 0 .. n

LEMMA Holding ==
  ASSUME NEW S, NEW n \in Nat, NEW s, Holds(S, s, n)
  PROVE  /\ Holds(S, <<>>, n)
         /\ s # <<>> => Head(s) \in S /\ Holds(S, Tail(s), n) /\ Holds(S, <<Head(s)>>, 1)
         /\ Len(s) < n => \A e \in S : Holds(S, Append(s, e), n)
         /\ Len(s) < n => \A t : Holds(S, t, 1) => Holds(S, s \o t, n)
<1>0. s \in Seq(S) /\ Len(s) \in Nat /\ Len(s) <= n
  BY DEF Holds
<1>1. Holds(S, <<>>, n)
  BY EmptySeq DEF Holds
<1>2. ASSUME s # <<>>
      PROVE  Head(s) \in S /\ Holds(S, Tail(s), n) /\ Holds(S, <<Head(s)>>, 1)
  BY <1>0, <1>2, Front DEF Holds
<1>3. ASSUME Len(s) < n, NEW e \in S PROVE Holds(S, Append(s, e), n)
  BY <1>0, <1>3, AppendProperties DEF Holds
<1>4. ASSUME Len(s) < n, NEW t, Holds(S, t, 1) PROVE Holds(S, s \o t, n)
  <2>0. t \in Seq(S) /\ Len(t) \in 0 .. 1
    BY <1>4 DEF Holds
  <2>1. t \in Seq(S) /\ Len(t) \in Nat /\ Len(t) <= 1
    <3>1. \A k \in 0 .. 1 : k \in Nat /\ k <= 1
      OBVIOUS
    <3> QED
      BY ONLY <2>0, <3>1
  <2>2. s \o t \in Seq(S) /\ Len(s \o t) = Len(s) + Len(t)
    BY <1>0, <2>1, ConcatProperties
  <2> QED
    BY <1>0, <1>4, <2>1, <2>2 DEF Holds
<1> QED
  BY <1>1, <1>2, <1>3, <1>4

\* The numbers above a up to b, as they queue for service.
Pending(a, b) == [i \in 1 .. b - a |-> a + i]

LEMMA PendingType ==
  ASSUME NEW a \in Nat, NEW b \in Nat, a <= b
  PROVE  /\ Pending(a, b) \in Seq(Nat) /\ Len(Pending(a, b)) = b - a
         /\ \A i \in 1 .. b - a : Pending(a, b)[i] = a + i
         /\ a = b => Pending(a, b) = <<>>
<1>1. b - a \in Nat /\ \A i \in 1 .. b - a : a + i \in Nat
  OBVIOUS
<1>2. Pending(a, b) \in [1 .. b - a -> Nat]
  BY <1>1 DEF Pending
<1>3. Pending(a, b) \in Seq(Nat) /\ Len(Pending(a, b)) = b - a
  BY <1>1, <1>2
<1>4. \A i \in 1 .. b - a : Pending(a, b)[i] = a + i
  BY DEF Pending
<1>5. a = b => Pending(a, b) = <<>>
  BY <1>3, EmptySeq
<1> QED
  BY <1>3, <1>4, <1>5

\* One more is sent; the first one is done.
LEMMA PendingMore ==
  ASSUME NEW a \in Nat, NEW b \in Nat, a <= b
  PROVE  Append(Pending(a, b), b + 1) = Pending(a, b + 1)
<1> DEFINE p == Pending(a, b)
           q == Pending(a, b + 1)
           r == Append(p, b + 1)
<1>1. /\ p \in Seq(Nat) /\ Len(p) = b - a
      /\ \A i \in 1 .. b - a : p[i] = a + i
  BY PendingType
<1>2. /\ q \in Seq(Nat) /\ Len(q) = b + 1 - a
      /\ \A i \in 1 .. b + 1 - a : q[i] = a + i
  <2>1. b + 1 \in Nat /\ a <= b + 1
    OBVIOUS
  <2> QED
    BY <2>1, PendingType
<1>3. /\ r \in Seq(Nat) /\ Len(r) = Len(p) + 1
      /\ \A i \in 1 .. Len(p) : r[i] = p[i]
      /\ r[Len(p) + 1] = b + 1
  BY <1>1, AppendProperties
<1> HIDE DEF p, q, r
<1>4. ASSUME NEW i \in 1 .. Len(r) PROVE r[i] = q[i]
  <2>1. CASE i \in 1 .. Len(p)
    BY <1>1, <1>2, <1>3, <2>1
  <2>2. CASE i = Len(p) + 1
    BY <1>1, <1>2, <1>3, <2>2
  <2> QED
    BY <1>1, <1>3, <2>1, <2>2
<1>5. Len(r) = Len(q)
  BY <1>1, <1>2, <1>3
<1>6. r = q
  BY <1>2, <1>3, <1>4, <1>5, SeqEqual
<1> QED
  BY <1>6 DEF p, q, r

LEMMA PendingFirst ==
  ASSUME NEW a \in Nat, NEW b \in Nat, a < b
  PROVE  /\ Pending(a, b) # <<>> /\ Head(Pending(a, b)) = a + 1
         /\ Tail(Pending(a, b)) = Pending(a + 1, b)
<1> DEFINE p == Pending(a, b)
           q == Pending(a + 1, b)
<1>1. /\ p \in Seq(Nat) /\ Len(p) = b - a
      /\ \A i \in 1 .. b - a : p[i] = a + i
  BY PendingType
<1>2. /\ q \in Seq(Nat) /\ Len(q) = b - (a + 1)
      /\ \A i \in 1 .. b - (a + 1) : q[i] = a + 1 + i
  <2>1. a + 1 \in Nat /\ a + 1 <= b
    OBVIOUS
  <2> QED
    BY <2>1, PendingType
<1> HIDE DEF p, q
<1>3. p # <<>> /\ Head(p) = a + 1
  <2>1. p # <<>>
    BY <1>1, EmptySeq
  <2>2. Head(p) = p[1]
    OBVIOUS
  <2> QED
    BY <1>1, <2>1, <2>2
<1>4. /\ Tail(p) \in Seq(Nat) /\ Len(Tail(p)) = b - a - 1
      /\ \A i \in 1 .. Len(Tail(p)) : Tail(p)[i] = p[i + 1]
  BY <1>1, <1>3, HeadTailProperties
<1>5. \A i \in 1 .. Len(Tail(p)) : Tail(p)[i] = q[i]
  BY <1>1, <1>2, <1>4
<1>6. Len(Tail(p)) = Len(q)
  BY <1>2, <1>4
<1> QED
  BY <1>2, <1>3, <1>4, <1>5, <1>6, SeqEqual DEF p, q

\* What comes first in them is the first of them.
LEMMA PendingPrefix ==
  ASSUME NEW a \in Nat, NEW b \in Nat, a <= b,
         NEW s \in Seq(Nat), NEW t \in Seq(Nat), NEW u \in Seq(Nat),
         s \o t = Pending(a, b) \o u, Len(s) <= b - a
  PROVE  s = Pending(a, a + Len(s)) /\ a + Len(s) \in a .. b
<1>0. PICK n \in Nat : n = Len(s) /\ n <= b - a
  BY LenProperties
<1> DEFINE p == Pending(a, b)
           q == Pending(a, a + n)
<1>1. /\ p \in Seq(Nat) /\ Len(p) = b - a
      /\ \A i \in 1 .. b - a : p[i] = a + i
  BY PendingType
<1>2. /\ q \in Seq(Nat) /\ Len(q) = n
      /\ \A i \in 1 .. n : q[i] = a + i
  <2>1. PICK c \in Nat : c = a + n /\ a <= c /\ c - a = n
    BY <1>0
  <2>2. /\ Pending(a, c) \in Seq(Nat) /\ Len(Pending(a, c)) = c - a
        /\ \A i \in 1 .. c - a : Pending(a, c)[i] = a + i
    BY <2>1, PendingType
  <2> QED
    BY <2>1, <2>2
<1> HIDE DEF p, q
<1>3. ASSUME NEW i \in 1 .. n PROVE s[i] = q[i]
  <2>1. s \o t = p \o u
    BY DEF p
  <2>2. (s \o t)[i] = s[i]
    <3>1. i \in 1 .. Len(s) + Len(t) /\ i <= Len(s)
      BY <1>0, LenProperties
    <3> QED
      BY <3>1, ConcatProperties
  <2>3. i \in 1 .. Len(p) /\ Len(p) \in Nat
    BY <1>0, <1>1
  <2>4. (p \o u)[i] = p[i]
    <3>1. i \in 1 .. Len(p) + Len(u) /\ i <= Len(p)
      BY <2>3, LenProperties
    <3> QED
      BY <1>1, <3>1, ConcatProperties
  <2> QED
    BY <1>0, <1>1, <1>2, <2>1, <2>2, <2>3, <2>4
<1>4. s = q
  BY <1>0, <1>2, <1>3, SeqEqual
<1> QED
  BY <1>0, <1>4 DEF q
=============================================================================
