------------------------- MODULE ConversationProofs -------------------------
(***************************************************************************)
(* Proofs about Conversation for any numbers of Submissions, messages and  *)
(* ends of the process: it runs one Turn at a time, its record stays       *)
(* readable, and a Submission settles ended by the pick of its own Turn.   *)
(*                                                                         *)
(* The inductive invariant keeps books: while the process is up, every     *)
(* Submission of the record is in exactly one of the queue, the lines that *)
(* are due and the stream.  The queue is in the order of admission and the *)
(* seat is at its head, or winds down a Submission that was swept.  The    *)
(* rebuild restores the books, which takes an induction over its loop, by  *)
(* the least turn of it that could go wrong.                               *)
(***************************************************************************)
EXTENDS Conversation, FiniteSetTheorems, WellFoundedInduction, TLAPS

\* A leaf that names no prover is tried with Zenon, then with SMT.
USE ZenonT(30), SMTT(30)

-----------------------------------------------------------------------------
(* Sequences of Submissions and of events. *)

\* In the order of admission, none twice.
Increasing(q) == \A i, j \in DOMAIN q : i < j => q[i] < q[j]

\* A line of the stream that settles a Submission.
IsSettlement(e) == e.type = "submission-settled"

\* No Submission settles twice in the lines l.
Once(l) ==
  \A i, j \in DOMAIN l :
    IsSettlement(l[i]) /\ IsSettlement(l[j]) /\ l[i].sub = l[j].sub => i = j

\* What each kind of event is.
LEMMA Shapes ==
  /\ Said \in Events /\ Kill \in Events
  /\ ~IsSettlement(Said) /\ ~IsSettlement(Kill)
  /\ Said.out = "none" /\ Kill.out = "none"
  /\ \A s \in Subs, o \in Outcomes :
       /\ Settled(s, o) \in Events
       /\ IsSettlement(Settled(s, o))
       /\ Settled(s, o).sub = s /\ Settled(s, o).out = o
  /\ \A e \in Events : IsSettlement(e) =>
       e.sub \in Subs /\ e.out \in Outcomes /\ e = Settled(e.sub, e.out)
  /\ \A e \in Events : ~IsSettlement(e) => e.out = "none"
<1>1. \A e \in Events : e = Said \/ e = Kill \/ \E s \in Subs, o \in Outcomes : e = Settled(s, o)
  BY SMTT(30) DEF Events
<1>2. \A s \in Subs, o \in Outcomes :
       /\ Settled(s, o) \in Events
       /\ IsSettlement(Settled(s, o))
       /\ Settled(s, o).sub = s /\ Settled(s, o).out = o
  BY SMTT(30) DEF Events, IsSettlement, Settled
<1>3. /\ Said \in Events /\ Kill \in Events
      /\ ~IsSettlement(Said) /\ ~IsSettlement(Kill)
      /\ Said.out = "none" /\ Kill.out = "none"
  BY SMTT(30) DEF Events, IsSettlement, Said, Kill
<1>4. \A e \in Events : IsSettlement(e) =>
       e.sub \in Subs /\ e.out \in Outcomes /\ e = Settled(e.sub, e.out)
  BY <1>1, <1>2, <1>3, SMTT(30)
<1>5. \A e \in Events : ~IsSettlement(e) => e.out = "none"
  BY <1>1, <1>2, <1>3, SMTT(30)
<1> QED BY <1>2, <1>3, <1>4, <1>5

\* The elements of a sequence: none, one more, the first and the rest.
LEMMA RangeEmpty == Range(<<>>) = {}
BY SMTT(30) DEF Range

LEMMA RangeAppend ==
  ASSUME NEW S, NEW q \in Seq(S), NEW x \in S
  PROVE  /\ Append(q, x) \in Seq(S)
         /\ Range(Append(q, x)) = Range(q) \cup {x}
<1>1. Append(q, x) \in Seq(S) /\ Len(Append(q, x)) = Len(q) + 1 /\ Len(q) \in Nat
  BY SMTT(30)
<1>2. \A i \in 1..Len(q) : Append(q, x)[i] = q[i]
  BY SMTT(30)
<1>3. Append(q, x)[Len(q) + 1] = x
  BY SMTT(30)
<1>4. DOMAIN q = 1..Len(q) /\ DOMAIN Append(q, x) = 1..(Len(q) + 1)
  BY SMTT(30)
<1>5. Range(Append(q, x)) \subseteq Range(q) \cup {x}
  BY <1>1, <1>2, <1>3, <1>4, SMTT(30) DEF Range
<1>6. Range(q) \cup {x} \subseteq Range(Append(q, x))
  BY <1>1, <1>2, <1>3, <1>4, SMTT(30) DEF Range
<1> QED BY <1>1, <1>5, <1>6

LEMMA RangeTail ==
  ASSUME NEW S, NEW q \in Seq(S), q # <<>>
  PROVE  /\ Head(q) \in S /\ Tail(q) \in Seq(S)
         /\ Head(q) = q[1] /\ 1 \in DOMAIN q
         /\ Range(q) = {Head(q)} \cup Range(Tail(q))
<1>1. /\ Tail(q) \in Seq(S) /\ Len(Tail(q)) = Len(q) - 1 /\ Len(q) \in Nat \ {0}
      /\ Head(q) = q[1] /\ Head(q) \in S
  BY SMTT(30)
<1>2. \A i \in 1..(Len(q) - 1) : Tail(q)[i] = q[i + 1]
  BY SMTT(30)
<1>4. DOMAIN q = 1..Len(q) /\ DOMAIN Tail(q) = 1..(Len(q) - 1)
  BY <1>1, SMTT(30)
<1>5. Range(q) \subseteq {Head(q)} \cup Range(Tail(q))
  <2> SUFFICES ASSUME NEW i \in 1..Len(q), i # 1
               PROVE  q[i] \in Range(Tail(q))
    BY <1>1, <1>4 DEF Range
  <2>1. i - 1 \in 1..(Len(q) - 1) /\ Tail(q)[i - 1] = q[i]
    BY <1>1, <1>2, SMTT(30)
  <2> QED BY <2>1, <1>4 DEF Range
<1>6. {Head(q)} \cup Range(Tail(q)) \subseteq Range(q)
  BY <1>1, <1>2, <1>4, SMTT(30) DEF Range
<1> QED BY <1>1, <1>4, <1>5, <1>6, SMTT(30)

\* An admission is the highest number yet, and the first of a queue its lowest.
LEMMA IncreasingAppend ==
  ASSUME NEW q \in Seq(Subs), NEW x \in Subs, Increasing(q),
         \A i \in DOMAIN q : q[i] < x
  PROVE  Increasing(Append(q, x))
<1>1. Len(Append(q, x)) = Len(q) + 1 /\ Len(q) \in Nat /\ Append(q, x) \in Seq(Subs)
  BY SMTT(30)
<1>2. \A i \in 1..Len(q) : Append(q, x)[i] = q[i]
  BY SMTT(30)
<1>3. Append(q, x)[Len(q) + 1] = x
  BY SMTT(30)
<1>4. DOMAIN q = 1..Len(q) /\ DOMAIN Append(q, x) = 1..(Len(q) + 1)
  BY SMTT(30)
<1> QED BY <1>1, <1>2, <1>3, <1>4, SMTT(30) DEF Increasing

LEMMA IncreasingTail ==
  ASSUME NEW q \in Seq(Subs), Increasing(q), q # <<>>
  PROVE  /\ Increasing(Tail(q))
         /\ \A i \in DOMAIN Tail(q) : Head(q) < Tail(q)[i]
         /\ Head(q) \notin Range(Tail(q))
<1>1. /\ Tail(q) \in Seq(Subs) /\ Len(Tail(q)) = Len(q) - 1 /\ Len(q) \in Nat \ {0}
      /\ Head(q) = q[1] /\ Head(q) \in Subs
  BY SMTT(30)
<1>2. \A i \in 1..(Len(q) - 1) : Tail(q)[i] = q[i + 1] /\ Tail(q)[i] \in Subs
  BY SMTT(30)
<1>4. DOMAIN q = 1..Len(q) /\ DOMAIN Tail(q) = 1..(Len(q) - 1)
  BY <1>1, SMTT(30)
<1>5. Increasing(Tail(q))
  BY <1>1, <1>2, <1>4, SMTT(30) DEF Increasing
<1>6. \A i \in DOMAIN Tail(q) : Head(q) < Tail(q)[i]
  BY <1>1, <1>2, <1>4, SMTT(30) DEF Increasing
<1>7. Head(q) \notin Range(Tail(q))
  <2> SUFFICES ASSUME NEW i \in DOMAIN Tail(q), Tail(q)[i] = Head(q) PROVE FALSE
    BY DEF Range
  <2> QED BY <1>6, <1>1, <1>2, <1>4, ConvBounds, SMTT(30) DEF Subs
<1> QED BY <1>5, <1>6, <1>7

\* settle takes a Submission out of the queue: none that is not in it, and of
\* the first one leaves the rest.
LEMMA UnqueuedIs ==
  ASSUME queue \in Seq(Subs), NEW s
  PROVE  /\ s \notin Range(queue) => Unqueued(s) = queue
         /\ queue # <<>> /\ queue[1] = s => Unqueued(s) = Tail(queue)
<1>1. ASSUME s \notin Range(queue) PROVE Unqueued(s) = queue
  BY <1>1 DEF Unqueued
<1>2. ASSUME queue # <<>>, queue[1] = s PROVE Unqueued(s) = Tail(queue)
  <2> DEFINE First(i) == queue[i] = s /\ \A j \in 1..(i - 1) : queue[j] # s
  <2>1. 1 \in DOMAIN queue /\ First(1) /\ s \in Range(queue)
    BY <1>2, SMTT(30) DEF Range
  <2>2. \A i \in DOMAIN queue : First(i) => i = 1
    BY <1>2, SMTT(30)
  <2>3. (CHOOSE i \in DOMAIN queue : First(i)) = 1
    BY <2>1, <2>2
  <2>4. Unqueued(s) = SubSeq(queue, 1, 0) \o SubSeq(queue, 2, Len(queue))
    BY <2>1, <2>3, SMTT(30) DEF Unqueued
  <2>5. SubSeq(queue, 1, 0) \o SubSeq(queue, 2, Len(queue)) = Tail(queue)
    BY <1>2, SMTT(30)
  <2> QED BY <2>4, <2>5
<1> QED BY <1>1, <1>2

\* The Submissions that some lines settle: of no line, of one more line, of
\* the first and the rest, and of one line for each Submission of a queue.
LEMMA SettledInIs ==
  ASSUME NEW l
  PROVE  \A s : s \in SettledIn(l) <=> \E i \in DOMAIN l : IsSettlement(l[i]) /\ l[i].sub = s
BY DEF SettledIn, Range, IsSettlement

LEMMA SettledInEmpty == SettledIn(<<>>) = {} /\ Once(<<>>)
BY SMTT(30) DEF SettledIn, Range, Once

LEMMA SettledInAppend ==
  ASSUME NEW l \in Seq(Events), NEW e \in Events
  PROVE  /\ SettledIn(Append(l, e)) =
              SettledIn(l) \cup (IF IsSettlement(e) THEN {e.sub} ELSE {})
         /\ Once(l) /\ (IsSettlement(e) => e.sub \notin SettledIn(l)) => Once(Append(l, e))
<1>1. Len(Append(l, e)) = Len(l) + 1 /\ Len(l) \in Nat
  BY SMTT(30)
<1>2. \A i \in 1..Len(l) : Append(l, e)[i] = l[i]
  BY SMTT(30)
<1>3. Append(l, e)[Len(l) + 1] = e
  BY SMTT(30)
<1>4. DOMAIN l = 1..Len(l) /\ DOMAIN Append(l, e) = 1..(Len(l) + 1)
  BY SMTT(30)
<1>5. SettledIn(Append(l, e)) = SettledIn(l) \cup (IF IsSettlement(e) THEN {e.sub} ELSE {})
  <2>1. \A s : s \in SettledIn(Append(l, e)) <=> s \in SettledIn(l) \/ (IsSettlement(e) /\ e.sub = s)
    <3>1. \A s : s \in SettledIn(Append(l, e)) <=>
            \E i \in 1..(Len(l) + 1) : IsSettlement(Append(l, e)[i]) /\ Append(l, e)[i].sub = s
      BY <1>4, SettledInIs
    <3>2. \A s : s \in SettledIn(l) <=> \E i \in 1..Len(l) : IsSettlement(l[i]) /\ l[i].sub = s
      BY <1>4, SettledInIs
    <3> QED BY <3>1, <3>2, <1>1, <1>2, <1>3, SMTT(30)
  <2> QED BY <2>1
<1>6. ASSUME Once(l), IsSettlement(e) => e.sub \notin SettledIn(l) PROVE Once(Append(l, e))
  <2> SUFFICES ASSUME NEW i \in 1..(Len(l) + 1), NEW j \in 1..(Len(l) + 1), i < j,
                      IsSettlement(Append(l, e)[i]), IsSettlement(Append(l, e)[j]),
                      Append(l, e)[i].sub = Append(l, e)[j].sub
               PROVE  FALSE
    BY <1>1, <1>4, SMTT(30) DEF Once
  <2>1. i \in 1..Len(l)
    BY <1>1, SMTT(30)
  <2>2. CASE j \in 1..Len(l)
    BY <2>1, <2>2, <1>2, <1>4, <1>6, SMTT(30) DEF Once
  <2>3. CASE j = Len(l) + 1
    BY <2>1, <2>3, <1>2, <1>3, <1>4, <1>6, SettledInIs
  <2> QED BY <2>2, <2>3, <1>1, SMTT(30)
<1> QED BY <1>5, <1>6

LEMMA SettledInTail ==
  ASSUME NEW l \in Seq(Events), l # <<>>, Once(l)
  PROVE  /\ Head(l) \in Events /\ Tail(l) \in Seq(Events) /\ Once(Tail(l))
         /\ SettledIn(l) = SettledIn(Tail(l)) \cup (IF IsSettlement(Head(l)) THEN {Head(l).sub} ELSE {})
         /\ IsSettlement(Head(l)) => Head(l).sub \notin SettledIn(Tail(l))
<1>1. /\ Tail(l) \in Seq(Events) /\ Len(Tail(l)) = Len(l) - 1 /\ Len(l) \in Nat \ {0}
      /\ Head(l) = l[1] /\ Head(l) \in Events
  BY SMTT(30)
<1>2. \A i \in 1..(Len(l) - 1) : Tail(l)[i] = l[i + 1]
  BY SMTT(30)
<1>4. DOMAIN l = 1..Len(l) /\ DOMAIN Tail(l) = 1..(Len(l) - 1)
  BY <1>1, SMTT(30)
<1>5. SettledIn(l) = SettledIn(Tail(l)) \cup (IF IsSettlement(Head(l)) THEN {Head(l).sub} ELSE {})
  <2>1. ASSUME NEW s, s \in SettledIn(l)
        PROVE  s \in SettledIn(Tail(l)) \/ (IsSettlement(Head(l)) /\ Head(l).sub = s)
    <3>1. PICK i \in 1..Len(l) : IsSettlement(l[i]) /\ l[i].sub = s
      BY <2>1, <1>4, SettledInIs
    <3>2. CASE i = 1
      BY <3>1, <3>2, <1>1
    <3>3. CASE i # 1
      <4>1. i - 1 \in DOMAIN Tail(l) /\ Tail(l)[i - 1] = l[i]
        BY <3>3, <1>1, <1>2, <1>4, SMTT(30)
      <4> QED BY <4>1, <3>1, SettledInIs
    <3> QED BY <3>2, <3>3
  <2>2. ASSUME NEW s, s \in SettledIn(Tail(l)) PROVE s \in SettledIn(l)
    <3>1. PICK i \in 1..(Len(l) - 1) : IsSettlement(Tail(l)[i]) /\ Tail(l)[i].sub = s
      BY <2>2, <1>4, SettledInIs
    <3>2. i + 1 \in DOMAIN l /\ Tail(l)[i] = l[i + 1]
      BY <1>1, <1>2, <1>4, SMTT(30)
    <3> QED BY <3>1, <3>2, SettledInIs
  <2>3. IsSettlement(Head(l)) => Head(l).sub \in SettledIn(l)
    BY <1>1, <1>4, SettledInIs, SMTT(30)
  <2> QED BY <2>1, <2>2, <2>3
<1>6. Once(Tail(l))
  <2> SUFFICES ASSUME NEW i \in 1..(Len(l) - 1), NEW j \in 1..(Len(l) - 1),
                      IsSettlement(Tail(l)[i]), IsSettlement(Tail(l)[j]),
                      Tail(l)[i].sub = Tail(l)[j].sub
               PROVE  i = j
    BY <1>4 DEF Once
  <2>1. i + 1 \in DOMAIN l /\ j + 1 \in DOMAIN l /\ Tail(l)[i] = l[i + 1] /\ Tail(l)[j] = l[j + 1]
    BY <1>1, <1>2, <1>4, SMTT(30)
  <2>2. i + 1 = j + 1
    BY <2>1 DEF Once
  <2> QED BY <2>2, SMTT(30)
<1>7. ASSUME IsSettlement(Head(l)), Head(l).sub \in SettledIn(Tail(l)) PROVE FALSE
  <2>1. PICK i \in 1..(Len(l) - 1) : IsSettlement(Tail(l)[i]) /\ Tail(l)[i].sub = Head(l).sub
    <3> DEFINE h == Head(l).sub
    <3> HIDE DEF h
    <3>1. h \in SettledIn(Tail(l))
      BY <1>7 DEF h
    <3>2. \E i \in 1..(Len(l) - 1) : IsSettlement(Tail(l)[i]) /\ Tail(l)[i].sub = h
      BY <3>1, <1>4, SettledInIs
    <3> QED BY <3>2 DEF h
  <2>2. i + 1 \in DOMAIN l /\ 1 \in DOMAIN l /\ Tail(l)[i] = l[i + 1]
    BY <1>1, <1>2, <1>4, SMTT(30)
  <2>3. i + 1 = 1
    BY <2>1, <2>2, <1>1, <1>7 DEF Once
  <2> QED BY <2>3, SMTT(30)
<1> QED BY <1>1, <1>5, <1>6, <1>7

LEMMA SettledInAll ==
  ASSUME NEW q \in Seq(Subs), NEW l, l = [i \in 1..Len(q) |-> l[i]],
         \A i \in 1..Len(q) : \E o \in Outcomes : l[i] = Settled(q[i], o)
  PROVE  /\ l \in Seq(Events) /\ Len(l) = Len(q)
         /\ SettledIn(l) = Range(q)
         /\ Increasing(q) => Once(l)
<1>1. \A i \in 1..Len(q) : q[i] \in Subs /\ l[i] \in Events /\ IsSettlement(l[i]) /\ l[i].sub = q[i]
  BY Shapes, SMTT(30)
<1>2. l \in Seq(Events) /\ Len(l) = Len(q) /\ Len(q) \in Nat /\ DOMAIN l = 1..Len(q) /\ DOMAIN q = 1..Len(q)
  BY <1>1, SMTT(30)
<1>3. SettledIn(l) = Range(q)
  <2>1. \A s : s \in SettledIn(l) <=> s \in Range(q)
    BY <1>1, <1>2, SettledInIs, SMTT(30) DEF Range
  <2> QED BY <2>1
<1>4. ASSUME Increasing(q) PROVE Once(l)
  <2>1. \A i, j \in 1..Len(q) : i < j => q[i] < q[j]
    BY <1>2, <1>4 DEF Increasing
  <2>2. \A i, j \in 1..Len(q) : q[i] = q[j] => i = j
    BY <2>1, <1>1, <1>2, SMTT(30) DEF Subs
  <2> QED BY <1>1, <1>2, <2>2, SMTT(30) DEF Once
<1> QED BY <1>2, <1>3, <1>4

-----------------------------------------------------------------------------
(* The loop of the rebuild. *)

\* Every nonempty set of numbers has a least one: what the loop of the rebuild
\* is reasoned about with, by its least counterexample.
LEMMA Least ==
  ASSUME NEW T, T \subseteq Nat, T # {}
  PROVE  \E x \in T : \A y \in T : x <= y
<1>1. PICK x \in T : \A y \in T : ~ (<<y, x>> \in OpToRel(<, Nat))
  BY NatLessThanWellFounded, WFMin
<1>2. \A y \in T : ~ (y < x)
  BY <1>1 DEF OpToRel
<1> QED BY <1>2, SMTT(30)

\* The loop of the rebuild is defined at every turn.
LEMMA UnsettledUnfolds ==
  ASSUME admitted \in Seq(Subs)
  PROVE  Unsettled = [i \in 0..Len(admitted) |->
           IF i = 0 THEN <<>>
           ELSE IF admitted[i] \in SettledIn(log) THEN Unsettled[i - 1]
           ELSE Append(Unsettled[i - 1], admitted[i])]
<1> DEFINE N == Len(admitted)
           X == SettledIn(log)
           Loop(f, n) == f = [i \in 0..n |->
             IF i = 0 THEN <<>>
             ELSE IF admitted[i] \in X THEN f[i - 1] ELSE Append(f[i - 1], admitted[i])]
           Runs(n) == \E f : Loop(f, n)
           T == {n \in 0..N : ~Runs(n)}
<1>1. N \in Nat
  BY SMTT(30)
<1> HIDE DEF Runs, N, X
<1>2. T = {}
  <2> SUFFICES ASSUME T # {} PROVE FALSE
    OBVIOUS
  <2>1. PICK n \in T : \A m \in T : n <= m
    <3>1. T \subseteq Nat
      BY <1>1, SMTT(30)
    <3> HIDE DEF T
    <3> QED BY <3>1, Least
  <2>2. n \in 0..N /\ ~Runs(n)
    BY <2>1
  <2>3. CASE n = 0
    <3> DEFINE f == [i \in 0..0 |-> <<>>]
    <3>1. Loop(f, 0)
      BY SMTT(30)
    <3> QED BY <3>1, <2>2, <2>3 DEF Runs
  <2>4. CASE n > 0
    <3>1. n - 1 \in 0..N /\ ~(n <= n - 1)
      BY <2>2, <2>4, <1>1, SMTT(30)
    <3>2. PICK f : Loop(f, n - 1)
      BY <3>1, <2>1 DEF Runs
    <3> DEFINE g == [i \in 0..n |->
          IF i < n THEN f[i]
          ELSE IF admitted[n] \in X THEN f[n - 1] ELSE Append(f[n - 1], admitted[n])]
    <3>3. \A i \in 0..(n - 1) : g[i] = f[i]
      BY <2>2, <1>1, SMTT(30)
    <3>4. \A i \in 0..(n - 1) : f[i] = IF i = 0 THEN <<>>
            ELSE IF admitted[i] \in X THEN f[i - 1] ELSE Append(f[i - 1], admitted[i])
      BY <3>2
    <3>5. \A i \in 0..n : g[i] = IF i = 0 THEN <<>>
            ELSE IF admitted[i] \in X THEN g[i - 1] ELSE Append(g[i - 1], admitted[i])
      <4> SUFFICES ASSUME NEW i \in 0..n
                   PROVE  g[i] = IF i = 0 THEN <<>>
                            ELSE IF admitted[i] \in X THEN g[i - 1] ELSE Append(g[i - 1], admitted[i])
        OBVIOUS
      <4>1. i = 0 \/ i - 1 \in 0..(n - 1)
        BY <2>2, <1>1, SMTT(30)
      <4>2. CASE i < n
        <5>1. i \in 0..(n - 1)
          BY <4>2, <2>2, <1>1, SMTT(30)
        <5> QED BY <5>1, <4>1, <3>3, <3>4
      <4>3. CASE i = n
        BY <4>3, <4>1, <3>3, <2>4, <2>2, <1>1, SMTT(30)
      <4> QED BY <4>2, <4>3, <2>2, <1>1, SMTT(30)
    <3>6. Loop(g, n)
      BY <3>5
    <3> QED BY <3>6, <2>2 DEF Runs
  <2> QED BY <2>2, <2>3, <2>4, <1>1, SMTT(30)
<1>3. N \in 0..N /\ N \notin T
  BY <1>1, <1>2, SMTT(30)
<1>4. \E f : Loop(f, N)
  BY <1>3 DEF Runs
<1>5. Unsettled = CHOOSE f : Loop(f, N)
  BY DEF Unsettled, N, X
<1>6. Loop(Unsettled, N)
  BY <1>4, <1>5
<1> QED BY <1>6 DEF N, X

\* The rebuild finds, in order, exactly the Submissions that the record admits
\* and does not settle.
LEMMA UnsettledIs ==
  ASSUME admitted \in Seq(Subs), Increasing(admitted)
  PROVE  LET lost == Unsettled[Len(admitted)]
         IN  /\ lost \in Seq(Subs) /\ Increasing(lost)
             /\ Range(lost) = Range(admitted) \ SettledIn(log)
<1> DEFINE N == Len(admitted)
           X == SettledIn(log)
           U(n) == Unsettled[n]
           Good(n) == /\ U(n) \in Seq(Subs) /\ Increasing(U(n))
                      /\ Range(U(n)) = {admitted[i] : i \in 1..n} \ X
           T == {n \in 0..N : ~Good(n)}
<1>1. N \in Nat /\ \A i \in 1..N : admitted[i] \in Subs
  BY SMTT(30)
<1>2. /\ U(0) = <<>>
      /\ \A n \in 1..N : U(n) = IF admitted[n] \in X THEN U(n - 1)
                                ELSE Append(U(n - 1), admitted[n])
  <2> DEFINE F == [i \in 0..N |->
           IF i = 0 THEN <<>>
           ELSE IF admitted[i] \in X THEN Unsettled[i - 1]
           ELSE Append(Unsettled[i - 1], admitted[i])]
  <2>1. Unsettled = F
    BY UnsettledUnfolds
  <2>2. \A n \in 0..N : U(n) = F[n]
    BY <2>1
  <2> HIDE DEF U
  <2>3. F[0] = <<>> /\ \A n \in 1..N : F[n] =
          IF admitted[n] \in X THEN Unsettled[n - 1] ELSE Append(Unsettled[n - 1], admitted[n])
    BY <1>1, SMTT(30)
  <2> HIDE DEF F
  <2>4. 0 \in 0..N /\ \A n \in 1..N : n \in 0..N
    BY <1>1, SMTT(30)
  <2> QED BY <2>2, <2>3, <2>4 DEF U
<1>a. \A i, j \in 1..N : i < j => admitted[i] < admitted[j]
  BY <1>1, SMTT(30) DEF Increasing
<1> HIDE DEF U, N, X
<1>3. T = {}
  <2> SUFFICES ASSUME T # {} PROVE FALSE
    OBVIOUS
  <2>1. PICK n \in T : \A m \in T : n <= m
    <3>1. T \subseteq Nat
      BY <1>1, SMTT(30)
    <3> HIDE DEF T
    <3> QED BY <3>1, Least
  <2>2. n \in 0..N /\ ~Good(n)
    BY <2>1
  <2>3. CASE n = 0
    <3>1. U(n) \in Seq(Subs) /\ Increasing(U(n)) /\ Range(U(n)) = {}
      <4>1. <<>> \in Seq(Subs) /\ Increasing(<<>>)
        BY SMTT(30) DEF Increasing
      <4> QED BY <4>1, <2>3, <1>2, RangeEmpty
    <3>2. {admitted[i] : i \in 1..n} = {}
      BY <2>3, SMTT(30)
    <3> QED BY <3>1, <3>2, <2>2
  <2>4. CASE n > 0
    <3> DEFINE m == n - 1
    <3>1. m \in 0..N /\ n \in 1..N /\ n = m + 1 /\ Good(m)
      <4>1. m \in 0..N /\ n \in 1..N /\ n = m + 1 /\ ~(n <= m)
        BY <2>2, <2>4, <1>1, SMTT(30)
      <4>2. m \notin T
        BY <2>1, <4>1
      <4> QED BY <4>1, <4>2
    <3>2. {admitted[i] : i \in 1..n} = {admitted[i] : i \in 1..m} \cup {admitted[n]}
      <4>1. 1..n = (1..m) \cup {n}
        BY <3>1, <1>1, SMTT(30)
      <4> QED BY <4>1
    <3>3. CASE admitted[n] \in X
      <4>1. U(n) = U(m)
        BY <3>1, <3>3, <1>2
      <4> QED BY <4>1, <3>1, <3>2, <3>3, <2>2
    <3>4. CASE admitted[n] \notin X
      <4>1. U(n) = Append(U(m), admitted[n])
        BY <3>1, <3>4, <1>2
      <4>2. admitted[n] \in Subs
        BY <3>1, <1>1
      <4>3. U(n) \in Seq(Subs) /\ Range(U(n)) = Range(U(m)) \cup {admitted[n]}
        BY <4>1, <4>2, <3>1, RangeAppend, SMTT(30)
      <4>4. \A j \in DOMAIN U(m) : U(m)[j] < admitted[n]
        <5> SUFFICES ASSUME NEW j \in DOMAIN U(m) PROVE U(m)[j] < admitted[n]
          OBVIOUS
        <5>1. U(m)[j] \in Range(U(m))
          BY DEF Range
        <5>2. PICK i \in 1..m : U(m)[j] = admitted[i]
          BY <5>1, <3>1
        <5> QED BY <5>2, <1>a, <3>1, <1>1, SMTT(30)
      <4>5. Increasing(U(n))
        BY <4>1, <4>2, <4>4, <3>1, IncreasingAppend
      <4> QED BY <4>3, <4>5, <3>1, <3>2, <3>4, <2>2
    <3> QED BY <3>3, <3>4
  <2> QED BY <2>2, <2>3, <2>4, <1>1, SMTT(30)
<1>4. Good(N)
  BY <1>1, <1>3, SMTT(30)
<1>5. Range(admitted) = {admitted[i] : i \in 1..N}
  BY SMTT(30) DEF Range, N
<1> QED BY <1>4, <1>5 DEF U, N, X

-----------------------------------------------------------------------------
(* The inductive invariant. *)

\* The seat's values.
Seats == [sub : {0} \cup Subs, onPick : BOOLEAN, waiting : BOOLEAN]

\* The types of what the argument uses; a POST past its check has a number left.
Types ==
  /\ up \in BOOLEAN /\ known \in BOOLEAN
  /\ queue \in Seq(Subs) /\ admitted \in Seq(Subs) /\ active \in Seats
  /\ due \in Seq(Events) /\ log \in Seq(Events)
  /\ minted \in 0..MaxSubs /\ (post # "none" => minted < MaxSubs)
  /\ running \subseteq Subs /\ ran \subseteq Subs

\* The record: it fails to read only before its first Submission, a serving
\* Harness has in its map what it reads and no torn tail, and a conversation
\* out of the map has nothing queued, seated or due.
Record ==
  /\ dir # "ok" => admitted = <<>> /\ ~known
  /\ up /\ ~known => dir # "ok"
  /\ up /\ known => torn = "none"
  /\ ~up => ~known
  /\ ~known => queue = <<>> /\ active = NoSeat /\ due = <<>>

\* The seat: it is the lowest of the queue or one already settled that winds
\* down, nothing waits on a free seat, and only the seat's own run goes on.
Turn ==
  /\ active.sub = 0 => active = NoSeat
  /\ active = NoSeat => queue = <<>>
  /\ active # NoSeat => active.sub \in ran /\ active.sub <= minted
  /\ active.waiting => queue # <<>> /\ active.sub = queue[1] /\ ~active.onPick
  /\ \A i \in DOMAIN queue : active.sub <= queue[i]
  /\ running \subseteq {active.sub}
  /\ active = NoSeat \/ active.waiting => running = {}

\* Queue and record are in the order of admission.
Order ==
  /\ Increasing(queue) /\ Increasing(admitted)
  /\ \A s \in Range(admitted) : s <= minted

\* The books balance: while the process is up, every Submission of the record
\* is in exactly one of the queue, the lines due and the stream, and settles
\* once in both.
Books ==
  /\ up => Range(admitted) \subseteq Range(queue) \cup SettledIn(due) \cup SettledIn(log)
  /\ Range(queue) \cup SettledIn(due) \cup SettledIn(log) \subseteq Range(admitted)
  /\ Range(queue) \cap SettledIn(due) = {}
  /\ Range(queue) \cap SettledIn(log) = {}
  /\ SettledIn(due) \cap SettledIn(log) = {}
  /\ Once(due) /\ Once(log)

\* The line of a finished run is the only one due, and comes before all that
\* is queued.
Finish ==
  \A i \in DOMAIN due : due[i].out \in {"completed", "failed"} =>
    Len(due) = 1 /\ \A j \in DOMAIN queue : due[i].sub < queue[j]

\* Of the lines l, only one that ran says completed or ended.
Ran(l) == \A i \in DOMAIN l : l[i].out \in {"completed", "ended"} => l[i].sub \in ran

\* The inductive invariant.
IInv == Types /\ Record /\ Turn /\ Order /\ Books /\ Finish /\ Ran(due) /\ Ran(log)

\* The variables that the invariant and the fates depend on.
core == <<up, known, queue, active, due, dir, admitted, log, torn, minted, running, ran>>

\* The number of a Submission is positive; 0 is none.
LEMMA SubsPositive == (\A s \in Subs : s \in Nat /\ s > 0) /\ 0 \notin Subs /\ MaxSubs \in Nat
BY ConvBounds, SMTT(30) DEF Subs

\* The seats of no Submission and of one just promoted.
LEMMA SeatShapes ==
  /\ NoSeat \in Seats /\ NoSeat.sub = 0 /\ ~NoSeat.waiting /\ ~NoSeat.onPick
  /\ \A s \in Subs : /\ Seat(s) \in Seats /\ Seat(s).sub = s /\ Seat(s) # NoSeat
                     /\ ~Seat(s).waiting /\ ~Seat(s).onPick
BY SubsPositive DEF Seats, Seat, NoSeat

\* One more line, of a Submission that ran if it says so.
LEMMA SettlementsRan ==
  ASSUME NEW l \in Seq(Events), Ran(l), ran \subseteq ran', NEW e \in Events,
         e.out \in {"completed", "ended"} => e.sub \in ran'
  PROVE  \A i \in DOMAIN Append(l, e) :
           Append(l, e)[i].out \in {"completed", "ended"} => Append(l, e)[i].sub \in ran'
<1>1. \A i \in DOMAIN Append(l, e) : (i \in DOMAIN l /\ Append(l, e)[i] = l[i]) \/ Append(l, e)[i] = e
  BY SMTT(30)
<1> QED BY <1>1 DEF Ran

\* What the pump leaves of the seat.
LEMMA PumpTurn ==
  ASSUME Types, NEW a \in Seats, NEW q \in Seq(Subs), NEW still, Pump(a, q, still),
         a.sub = 0 => a = NoSeat, still \subseteq {a.sub}, still \subseteq Subs,
         a = NoSeat \/ a.waiting => still = {},
         a # NoSeat => a.sub \in ran /\ a.sub <= minted',
         a.waiting => q # <<>> /\ a.sub = q[1] /\ ~a.onPick,
         \A i \in DOMAIN q : a.sub <= q[i] /\ q[i] <= minted',
         Increasing(q)
  PROVE  /\ Turn' /\ queue' = q /\ active' \in Seats
         /\ running' \subseteq Subs /\ ran' \subseteq Subs /\ ran \subseteq ran'
<1>1. CASE a = NoSeat /\ q # <<>>
  <2>1. /\ queue' = q /\ active' = Seat(Head(q)) /\ running' = still \cup {Head(q)}
        /\ ran' = ran \cup {Head(q)} /\ still = {}
    BY <1>1 DEF Pump
  <2>2. Head(q) \in Subs /\ Head(q) = q[1] /\ 1 \in DOMAIN q
    BY <1>1, RangeTail
  <2>3. \A i \in DOMAIN q : q[1] <= q[i]
    <3>1. \A i \in DOMAIN q : i \in Nat /\ 1 <= i /\ q[i] \in Nat
      <4>1. /\ DOMAIN q = 1..Len(q) /\ Len(q) \in Nat
            /\ \A i \in 1..Len(q) : q[i] \in Subs
        BY SMTT(30)
      <4> QED BY <4>1, SubsPositive, SMTT(30)
    <3> QED BY <3>1, <2>2, SMTT(30) DEF Increasing
  <2>4. /\ active' \in Seats /\ active'.sub = q[1] /\ active' # NoSeat
        /\ ~active'.waiting /\ q[1] # 0
    BY <2>1, <2>2, SeatShapes, SubsPositive
  <2>5. Turn'
    BY <2>1, <2>2, <2>3, <2>4 DEF Turn, NoSeat, Seat
  <2> QED BY <2>1, <2>2, <2>4, <2>5 DEF Types
<1>2. CASE ~(a = NoSeat /\ q # <<>>)
  <2>1. /\ queue' = q /\ active' = a /\ running' = still /\ ran' = ran
    BY <1>2 DEF Pump
  <2>2. Turn'
    BY <2>1, <1>2, SeatShapes DEF Turn, NoSeat, Seat
  <2> QED BY <2>1, <2>2 DEF Types
<1> QED BY <1>1, <1>2

\* The invariant holds at first.
LEMMA IInvInit == Init => IInv
<1> SUFFICES ASSUME Init PROVE IInv
  OBVIOUS
<1>1. Types
  <2>1. <<>> \in Seq(Subs) /\ <<>> \in Seq(Events) /\ 0 \in 0..MaxSubs
    BY SubsPositive, SMTT(30)
  <2> QED BY <2>1, SeatShapes DEF Init, Types
<1>2. Record /\ Finish /\ Ran(due) /\ Ran(log)
  BY SMTT(30) DEF Init, Record, Finish, Ran
<1>3. Turn
  BY SeatShapes, SMTT(30) DEF Init, Turn
<1>4. Order
  BY RangeEmpty, SMTT(30) DEF Init, Order, Increasing
<1>5. Books
  BY SettledInEmpty, RangeEmpty DEF Init, Books
<1> QED BY <1>1, <1>2, <1>3, <1>4, <1>5 DEF IInv

\* A step that leaves the core alone, and mints only where it may.
LEMMA QuietKeeps ==
  ASSUME IInv, UNCHANGED core, post' # "none" => minted < MaxSubs
  PROVE  IInv'
<1>1. Types'
  BY DEF IInv, Types, core
<1>2. Record' /\ Finish' /\ Ran(due)' /\ Ran(log)'
  BY DEF IInv, Record, Finish, Ran, core, NoSeat, Seat
<1>3. Turn'
  BY DEF IInv, Turn, core
<1>4. Order'
  BY DEF IInv, Order, core
<1>5. Books'
  BY DEF IInv, Books, core
<1> QED BY <1>1, <1>2, <1>3, <1>4, <1>5 DEF IInv

-----------------------------------------------------------------------------
(* The steps of the queue and the seat. *)

\* What a step of the queue and the seat leaves alone.
aside == <<up, known, post, dir, admitted, log, torn, minted>>

\* A step of the process that moves only the queue, the seat and what is due.
LEMMA SeatStep ==
  ASSUME IInv, Steps, known, UNCHANGED aside, Turn', queue' \in Seq(Subs), active' \in Seats,
         running' \subseteq Subs, ran' \subseteq Subs, ran \subseteq ran',
         due' \in Seq(Events), Increasing(queue'), Once(due'),
         Range(queue') \cup SettledIn(due') = Range(queue),
         Range(queue') \cap SettledIn(due') = {},
         Finish', Ran(due)'
  PROVE  IInv'
<1>1. Types'
  BY DEF IInv, Types, aside
<1>2. Record'
  BY DEF IInv, Record, aside, Steps
<1>3. Order'
  BY DEF IInv, Order, aside
<1>4. Books'
  <2>1. due = <<>> /\ SettledIn(due) = {}
    BY SettledInEmpty DEF Steps
  <2> QED BY <2>1 DEF IInv, Books, aside
<1>5. Ran(log)'
  BY DEF IInv, Ran, aside
<1> QED BY <1>1, <1>2, <1>3, <1>4, <1>5 DEF IInv

\* The settled holder of the seat leaves the queue, and nothing else does.
LEMMA SeatUnqueued ==
  ASSUME IInv, active # NoSeat
  PROVE  LET s == active.sub
             q == Unqueued(s)
         IN  /\ q \in Seq(Subs) /\ Increasing(q) /\ s \notin Range(q)
             /\ Range(queue) = Range(q) \cup (IF s \in Range(queue) THEN {s} ELSE {})
<1> DEFINE s == active.sub
           q == Unqueued(s)
<1>0. Types /\ Record /\ Turn /\ Order /\ Books
  BY DEF IInv
<1>1. s \in Subs /\ queue \in Seq(Subs) /\ Increasing(queue)
  BY <1>0 DEF Types, Seats, Turn, Order
<1>2. /\ q \in Seq(Subs) /\ Increasing(q) /\ s \notin Range(q)
      /\ Range(queue) = Range(q) \cup (IF s \in Range(queue) THEN {s} ELSE {})
  <2>1. CASE s \notin Range(queue)
    BY <2>1, <1>1, UnqueuedIs
  <2>2. CASE s \in Range(queue)
    <3>1. queue # <<>>
      BY <2>2, RangeEmpty
    <3>2. queue[1] = s
      <4>1. PICK i \in DOMAIN queue : queue[i] = s
        BY <2>2 DEF Range
      <4>2. 1 \in DOMAIN queue /\ s <= queue[1] /\ queue[1] \in Nat /\ s \in Nat
        BY <1>0, <1>1, <3>1, RangeTail, SubsPositive DEF Turn
      <4>3. i = 1 \/ queue[1] < queue[i]
        BY <4>1, <4>2, <1>1, SMTT(30) DEF Increasing
      <4> QED BY <4>1, <4>2, <4>3, SMTT(30)
    <3>3. q = Tail(queue) /\ Head(queue) = s
      BY <3>1, <3>2, <1>1, UnqueuedIs, SMTT(30)
    <3> QED BY <3>1, <3>3, <2>2, <1>1, RangeTail, IncreasingTail, SMTT(30)
  <2> QED BY <2>1, <2>2
<1> QED BY <1>2

\* The holder of the seat settles and the next is promoted (release, pump).
LEMMA SeatSettles ==
  ASSUME IInv, Steps, active # NoSeat, NEW o \in {"completed", "aborted", "failed"},
         due' = Settle(active.sub, o), NEW still, still = {},
         Pump(NoSeat, Unqueued(active.sub), still), UNCHANGED aside
  PROVE  IInv'
<1> DEFINE s == active.sub
           q == Unqueued(s)
<1>0. Types /\ Record /\ Turn /\ Order /\ Books
  BY DEF IInv
<1>1. known /\ s \in Subs /\ s \in ran /\ queue \in Seq(Subs) /\ Increasing(queue)
  BY <1>0 DEF Record, Types, Seats, Turn, Order
<1>2. /\ q \in Seq(Subs) /\ Increasing(q) /\ s \notin Range(q)
      /\ Range(queue) = Range(q) \cup (IF s \in Range(queue) THEN {s} ELSE {})
  BY SeatUnqueued
<1>3. \A i \in DOMAIN q : 0 <= q[i] /\ q[i] <= minted'
  <2> SUFFICES ASSUME NEW i \in DOMAIN q PROVE 0 <= q[i] /\ q[i] <= minted'
    OBVIOUS
  <2>1. q[i] \in Range(q) /\ q[i] \in Subs
    BY <1>2, SMTT(30) DEF Range
  <2> QED BY <2>1, <1>2, <1>0, SubsPositive, SMTT(30) DEF Books, Order, aside
<1>4. /\ Turn' /\ queue' = q /\ active' \in Seats
      /\ running' \subseteq Subs /\ ran' \subseteq Subs /\ ran \subseteq ran'
  <2> HIDE DEF q
  <2> QED BY <1>0, <1>2, <1>3, SeatShapes, PumpTurn DEF q
<1>5. /\ due' \in Seq(Events) /\ Once(due')
      /\ SettledIn(due') = IF s \in Range(queue) THEN {s} ELSE {}
      /\ Finish' /\ Ran(due)'
  <2>1. CASE s \notin Range(queue)
    <3>1. due' = <<>>
      BY <2>1 DEF Settle
    <3> QED BY <3>1, <2>1, SettledInEmpty, SMTT(30) DEF Finish, Ran
  <2>2. CASE s \in Range(queue)
    <3> DEFINE e == Settled(s, o)
    <3>1. due' = <<e>>
      BY <2>2 DEF Settle
    <3>2. o \in Outcomes /\ e \in Events /\ IsSettlement(e) /\ e.sub = s
      BY <1>1, Shapes, SMTT(30) DEF Outcomes
    <3> HIDE DEF e
    <3>3. due' \in Seq(Events) /\ DOMAIN due' = {1} /\ due'[1] = e /\ Len(due') = 1
      BY <3>1, <3>2, SMTT(30)
    <3>4. Once(due') /\ SettledIn(due') = {s}
      BY <3>2, <3>3, SettledInIs, SMTT(30) DEF Once
    <3>5. Finish' /\ Ran(due)'
      <4>1. \A j \in DOMAIN q : s < q[j]
        <5> SUFFICES ASSUME NEW j \in DOMAIN q PROVE s < q[j]
          OBVIOUS
        <5>1. q[j] \in Range(q) /\ q[j] \in Subs
          BY <1>2, SMTT(30) DEF Range
        <5>2. PICK i \in DOMAIN queue : q[j] = queue[i]
          BY <5>1, <1>2 DEF Range
        <5>3. s <= q[j] /\ s # q[j]
          BY <5>1, <5>2, <1>0, <1>2 DEF Turn
        <5> QED BY <5>1, <5>3, <1>1, SubsPositive, SMTT(30)
      <4> QED BY <4>1, <3>2, <3>3, <1>1, <1>4 DEF Finish, Ran
    <3> QED BY <3>3, <3>4, <3>5, <2>2
  <2> QED BY <2>1, <2>2
<1> HIDE DEF q
<1> QED BY <1>1, <1>2, <1>4, <1>5, SeatStep

\* The run ends, or no sweep came for one that waits for it.
LEMMA RunEndsKeeps ==
  ASSUME IInv, NEW o \in {"completed", "aborted", "failed"}, RunEnds(o)
  PROVE  IInv'
<1>1. running \ {active.sub} = {}
  BY DEF IInv, Turn
<1>2. UNCHANGED aside
  BY DEF RunEnds, aside, record
<1> QED BY <1>1, <1>2, SeatSettles DEF RunEnds

LEMMA SweepWaitEndsKeeps ==
  ASSUME IInv, SweepWaitEnds
  PROVE  IInv'
<1>1. running = {} /\ active # NoSeat
  BY SeatShapes DEF IInv, Turn, SweepWaitEnds
<1>2. UNCHANGED aside
  BY DEF SweepWaitEnds, aside, record
<1> QED BY <1>1, <1>2, SeatSettles DEF SweepWaitEnds

\* The steps that settle the whole queue.
LEMMA AllSettled ==
  ASSUME IInv, Steps, known, UNCHANGED aside, NEW a \in {active, NoSeat},
         NEW still, still \subseteq running, a = NoSeat => still = {}, ~a.waiting,
         Pump(a, <<>>, still),
         due' = [i \in 1..Len(queue) |-> due'[i]],
         \A i \in 1..Len(queue) : \E o \in {"ended", "aborted", "restarted"} :
            due'[i] = Settled(queue[i], o) /\ (o = "ended" => queue[i] \in ran)
  PROVE  IInv'
<1>0. Types /\ Record /\ Turn /\ Order /\ Books
  BY DEF IInv
<1>1. queue \in Seq(Subs) /\ Increasing(queue) /\ a \in Seats
  BY <1>0, SeatShapes DEF Types, Order
<1>2. /\ due' \in Seq(Events) /\ Len(due') = Len(queue)
      /\ SettledIn(due') = Range(queue) /\ Once(due')
  <2>1. \A i \in 1..Len(queue) : \E o \in Outcomes : due'[i] = Settled(queue[i], o)
    BY DEF Outcomes
  <2> QED BY <2>1, <1>1, SettledInAll
<1>3. /\ Turn' /\ queue' = <<>> /\ active' \in Seats
      /\ running' \subseteq Subs /\ ran' \subseteq Subs /\ ran \subseteq ran'
  <2>1. /\ a.sub = 0 => a = NoSeat
        /\ still \subseteq {a.sub} /\ still \subseteq Subs
        /\ a # NoSeat => a.sub \in ran /\ a.sub <= minted'
    BY <1>0, SeatShapes DEF Turn, Types, aside
  <2>2. <<>> \in Seq(Subs) /\ Increasing(<<>>)
    BY SMTT(30) DEF Increasing
  <2>3. \A i \in DOMAIN <<>> : a.sub <= <<>>[i] /\ <<>>[i] <= minted'
    BY SMTT(30)
  <2> QED BY <2>1, <2>2, <2>3, <1>0, <1>1, PumpTurn
<1>4. Increasing(queue') /\ Range(queue') = {} /\ queue' \in Seq(Subs)
  BY <1>3, RangeEmpty, SMTT(30) DEF Increasing
<1>5. \A i \in DOMAIN due' :
        /\ due'[i].out \in {"ended", "aborted", "restarted"}
        /\ due'[i].out = "ended" => due'[i].sub \in ran
  <2> SUFFICES ASSUME NEW i \in 1..Len(queue)
               PROVE  /\ due'[i].out \in {"ended", "aborted", "restarted"}
                      /\ due'[i].out = "ended" => due'[i].sub \in ran
    BY <1>2
  <2>1. PICK o \in {"ended", "aborted", "restarted"} :
          due'[i] = Settled(queue[i], o) /\ (o = "ended" => queue[i] \in ran)
    OBVIOUS
  <2>2. due'[i].sub = queue[i] /\ due'[i].out = o
    BY <2>1, <1>1, Shapes, SMTT(30) DEF Outcomes
  <2> QED BY <2>1, <2>2
<1>6. Finish' /\ Ran(due)'
  BY <1>3, <1>5 DEF Finish, Ran
<1> QED BY <1>2, <1>3, <1>4, <1>6, SeatStep

\* abort keeps the invariant.
LEMMA SweepKeeps ==
  ASSUME IInv, NEW named, Sweep(named)
  PROVE  IInv'
<1> DEFINE a == IF active.waiting THEN NoSeat ELSE active
<1>1. UNCHANGED aside /\ Steps /\ known /\ Pump(a, <<>>, running)
  BY DEF Sweep, aside, record
<1>2. due' = [i \in 1..Len(queue) |->
       Settled(queue[i], IF Ended(named, queue[i]) THEN "ended" ELSE "aborted")]
  BY DEF Sweep
<1>3. due' = [i \in 1..Len(queue) |-> due'[i]]
  BY <1>2
<1>4. ASSUME NEW i \in 1..Len(queue)
      PROVE  \E o \in {"ended", "aborted", "restarted"} :
            due'[i] = Settled(queue[i], o) /\ (o = "ended" => queue[i] \in ran)
  <2>1. queue[i] \in Subs
    BY SMTT(30) DEF IInv, Types
  <2>2. Ended(named, queue[i]) => queue[i] \in ran
    BY <2>1, SeatShapes, SubsPositive DEF Ended, IInv, Turn
  <2> QED BY <1>2, <2>2
<1>5. a \in {active, NoSeat} /\ ~a.waiting /\ (a = NoSeat => running = {})
  BY SeatShapes DEF IInv, Turn
<1> HIDE DEF a
<1> QED BY <1>1, <1>3, <1>4, <1>5, AllSettled

\* cutIfOnPick, on the seat with its onPick as it comes to be.
LEMMA CutKeeps ==
  ASSUME IInv, Steps, UNCHANGED aside,
         NEW b \in BOOLEAN, NEW a, a = [active EXCEPT !.onPick = b],
         (active # NoSeat /\ ~active.waiting) \/ a = active, CutIfOnPick(a)
  PROVE  IInv'
<1>0. Types /\ Record /\ Turn /\ Order /\ Books
  BY DEF IInv
<1>1. a \in Seats /\ a.sub = active.sub /\ a.waiting = active.waiting /\ a.onPick = b
  BY <1>0 DEF Types, Seats
<1>2. CASE a # NoSeat /\ a.onPick
  <2>1. active # NoSeat
    BY <1>2
  <2>2. known
    BY <2>1, <1>0 DEF Record
  <2>3. due' = FailAll(queue) /\ Pump(NoSeat, <<>>, running \ {a.sub})
    BY <1>2 DEF CutIfOnPick
  <2>4. running \ {a.sub} = {}
    BY <1>0, <1>1 DEF Turn
  <2>5. due' = [i \in 1..Len(queue) |-> due'[i]]
    BY <2>3 DEF FailAll
  <2>6. \A i \in 1..Len(queue) : \E o \in {"ended", "aborted", "restarted"} :
            due'[i] = Settled(queue[i], o) /\ (o = "ended" => queue[i] \in ran)
    BY <2>3 DEF FailAll
  <2> QED BY <2>2, <2>3, <2>4, <2>5, <2>6, SeatShapes, AllSettled
<1>3. CASE ~(a # NoSeat /\ a.onPick)
  <2>1. active' = a /\ UNCHANGED <<due, queue, running, ran>>
    BY <1>3 DEF CutIfOnPick
  <2>2. CASE a = active
    <3>1. UNCHANGED core /\ post' = post
      BY <2>1, <2>2 DEF core, aside
    <3> QED BY <3>1, <1>0, QuietKeeps DEF Types
  <2>3. CASE active # NoSeat /\ ~active.waiting
    <3>1. a # NoSeat /\ a.sub # 0
      BY <2>3, <1>0, <1>1, SeatShapes DEF Turn
    <3>2. Turn'
      BY <2>1, <2>3, <1>0, <1>1, <3>1, SMTT(30) DEF Turn, aside, NoSeat, Seat
    <3>3. known /\ due = <<>>
      BY <2>3, <1>0 DEF Record, Steps
    <3> QED BY <2>1, <3>2, <3>3, <1>0, <1>1, SettledInEmpty, SeatStep DEF Types, Order, Books, IInv, Finish, Ran
  <2> QED BY <2>2, <2>3
<1> QED BY <1>2, <1>3

\* A pick's poll, and the drain.
LEMMA PickPollsKeeps ==
  ASSUME IInv, PickPolls
  PROVE  IInv'
<1> DEFINE b == ~active.onPick
           a == [active EXCEPT !.onPick = b]
<1>1. /\ Steps /\ active # NoSeat /\ ~active.waiting /\ UNCHANGED aside
      /\ b \in BOOLEAN /\ active \in Seats
  BY DEF PickPolls, aside, record, IInv, Types
<1>2. CASE stopping
  <2>1. CutIfOnPick(a)
    BY <1>2 DEF PickPolls
  <2> HIDE DEF b
  <2> QED BY <1>1, <2>1, CutKeeps
<1>3. CASE ~stopping
  <2>1. active' = a /\ UNCHANGED <<due, queue, running, ran>>
    BY <1>3 DEF PickPolls
  <2>2. /\ a \in Seats /\ a.sub = active.sub /\ a.sub # 0 /\ ~a.waiting
        /\ a # NoSeat
    BY <1>1, SeatShapes DEF Seats, IInv, Turn
  <2> HIDE DEF a
  <2>3. Turn'
    BY <2>1, <2>2, <1>1 DEF IInv, Turn, aside, NoSeat, Seat
  <2>4. known /\ due = <<>>
    BY <1>1 DEF IInv, Record, Steps
  <2> QED BY <1>1, <2>1, <2>2, <2>3, <2>4, SettledInEmpty, SeatStep DEF Types, Order, Books, IInv, Finish, Ran
<1> QED BY <1>2, <1>3

LEMMA DrainBeginsKeeps ==
  ASSUME IInv, DrainBegins
  PROVE  IInv'
<1> DEFINE b == active.onPick
<1>1. Steps /\ UNCHANGED aside /\ CutIfOnPick(active)
  BY DEF DrainBegins, aside, record
<1>2. b \in BOOLEAN /\ active = [active EXCEPT !.onPick = b]
  BY DEF IInv, Types, Seats
<1> HIDE DEF b
<1> QED BY <1>1, <1>2, CutKeeps

\* A message or a memory kill on the stream.
LEMMA SpeakKeeps ==
  ASSUME IInv, NEW e \in {Said, Kill}, Speak(e)
  PROVE  IInv'
<1>1. Steps /\ active # NoSeat /\ due' = <<e>> /\ UNCHANGED aside /\ UNCHANGED <<queue, active, running, ran>>
  BY DEF Speak, aside, record
<1>2. e \in Events /\ ~IsSettlement(e) /\ e.out = "none"
  BY Shapes
<1>3. due' \in Seq(Events) /\ DOMAIN due' = {1} /\ due'[1] = e
  BY <1>1, <1>2, SMTT(30)
<1>4. Once(due') /\ SettledIn(due') = {}
  BY <1>2, <1>3, SettledInIs DEF Once
<1>5. Finish' /\ Ran(due)'
  BY <1>2, <1>3 DEF Finish, Ran
<1>6. Turn' /\ known
  BY <1>1 DEF IInv, Turn, Record, aside
<1> QED BY <1>1, <1>3, <1>4, <1>5, <1>6, SeatStep DEF IInv, Types, Order

\* The run is over and waits in the seat for the sweep.
LEMMA RunTurnOverKeeps ==
  ASSUME IInv, RunTurnOver
  PROVE  IInv'
<1>0. Types /\ Record /\ Turn /\ Order /\ Books
  BY DEF IInv
<1>1. /\ Steps /\ active # NoSeat /\ ~active.waiting /\ ~active.onPick
      /\ active.sub \in Range(queue)
      /\ active' = [active EXCEPT !.waiting = TRUE]
      /\ running' = running \ {active.sub}
      /\ UNCHANGED <<up, known, queue, due, post, admitted, log, torn, minted, ran>>
  BY DEF RunTurnOver
<1>2. known /\ due = <<>> /\ torn = "none" /\ dir' = dir
  BY <1>0, <1>1 DEF Record, Steps, RunTurnOver, After
<1>3. /\ active' \in Seats /\ active'.sub = active.sub /\ active'.waiting /\ ~active'.onPick
  BY <1>0, <1>1 DEF Types, Seats
<1>4. active'.sub # 0 /\ active' # NoSeat
  BY <1>0, <1>1, <1>3, SeatShapes DEF Turn
<1>5. queue # <<>> /\ queue[1] = active.sub
  <2>1. queue # <<>>
    BY <1>1, RangeEmpty
  <2>2. PICK i \in DOMAIN queue : queue[i] = active.sub
    BY <1>1 DEF Range
  <2>3. 1 \in DOMAIN queue /\ queue[1] \in Nat /\ queue[i] \in Nat /\ i \in Nat /\ 1 <= i
    BY <2>1, <1>0, SubsPositive, SMTT(30) DEF Types
  <2>4. i = 1 \/ queue[1] < queue[i]
    BY <2>3, <1>0, SMTT(30) DEF Order, Increasing
  <2>5. queue[i] <= queue[1]
    BY <2>2, <2>3, <1>0 DEF Turn
  <2> QED BY <2>1, <2>2, <2>3, <2>4, <2>5, SMTT(30)
<1>6. running' = {}
  BY <1>0, <1>1 DEF Turn
<1>7. Turn'
  BY <1>0, <1>1, <1>3, <1>4, <1>5, <1>6, SMTT(30) DEF Turn, NoSeat, Seat
<1>8. UNCHANGED aside
  BY <1>1, <1>2 DEF aside
<1> QED BY <1>1, <1>2, <1>3, <1>6, <1>7, <1>8, <1>0, SettledInEmpty, SeatStep DEF Types, Order, Books, IInv, Finish, Ran

\* admit, on the conversation in the map or on a new record.
LEMMA AdmitKeeps ==
  ASSUME IInv, Admit
  PROVE  IInv'
<1> DEFINE s == minted + 1
           q == Append(queue, s)
<1>0. Types /\ Record /\ Turn /\ Order /\ Books
  BY DEF IInv
<1>1. /\ Steps /\ post # "none" /\ post' = "none" /\ minted' = s /\ known'
      /\ Pump(active, q, running) /\ UNCHANGED <<up, due>>
  BY DEF Admit
<1>2. s \in Subs /\ minted \in Nat /\ s \in 0..MaxSubs /\ due = <<>> /\ up
  BY <1>0, <1>1, SubsPositive, SMTT(30) DEF Types, Subs, Steps
<1>3. \A t \in Range(admitted) : t \in Subs /\ t <= minted
  BY <1>0, SMTT(30) DEF Types, Order, Range
<1>4. \A i \in DOMAIN queue : queue[i] \in Range(queue) /\ queue[i] \in Nat /\ queue[i] <= minted
  <2> SUFFICES ASSUME NEW i \in DOMAIN queue PROVE queue[i] \in Range(queue) /\ queue[i] \in Nat /\ queue[i] <= minted
    OBVIOUS
  <2>1. queue[i] \in Range(queue)
    BY DEF Range
  <2> QED BY <2>1, <1>3, <1>0, SubsPositive DEF Books
<1> HIDE DEF s
<1>5. /\ q \in Seq(Subs) /\ Range(q) = Range(queue) \cup {s} /\ Increasing(q)
  <2>1. \A i \in DOMAIN queue : queue[i] < s
    BY <1>2, <1>4, SMTT(30) DEF s
  <2> QED BY <2>1, <1>0, <1>2, RangeAppend, IncreasingAppend DEF Types, Order
<1>6. active.sub \in Nat /\ active.sub <= s /\ (active # NoSeat => active.sub <= minted')
  <2>1. active.sub \in {0} \cup Subs
    BY <1>0 DEF Types, Seats
  <2>2. active.sub \in Nat
    BY <2>1, SubsPositive, SMTT(30)
  <2>3. active.sub = 0 \/ active.sub <= minted
    BY <1>0, SeatShapes DEF Turn
  <2>4. active # NoSeat => active.sub <= minted
    BY <1>0 DEF Turn
  <2> QED BY <2>2, <2>3, <2>4, <1>1, <1>2, SMTT(30) DEF s
<1>7. \A i \in DOMAIN q : active.sub <= q[i] /\ q[i] <= minted'
  <2>1. DOMAIN queue = 1..Len(queue) /\ Len(queue) \in Nat /\ DOMAIN q = 1..(Len(queue) + 1)
    BY <1>0, SMTT(30) DEF Types
  <2>2. \A i \in DOMAIN queue : q[i] = queue[i] /\ active.sub <= queue[i]
    BY <1>0, SMTT(30) DEF Types, Turn
  <2>3. q[Len(queue) + 1] = s
    BY <1>0, SMTT(30) DEF Types
  <2>4. \A i \in DOMAIN q : i \in DOMAIN queue \/ i = Len(queue) + 1
    BY <2>1, SMTT(30)
  <2> HIDE DEF q
  <2> QED BY <2>2, <2>3, <2>4, <1>1, <1>2, <1>4, <1>6, SMTT(30) DEF s
<1>8. active.waiting => q # <<>> /\ active.sub = q[1] /\ ~active.onPick
  <2>1. ASSUME active.waiting PROVE 1 \in DOMAIN queue
    BY <2>1, <1>0, RangeTail DEF Turn, Types
  <2>2. \A i \in DOMAIN queue : q[i] = queue[i]
    BY <1>0, SMTT(30) DEF Types
  <2>3. q # <<>>
    BY <1>0, SMTT(30) DEF Types
  <2> HIDE DEF q
  <2> QED BY <2>1, <2>2, <2>3, <1>0 DEF Turn
<1> HIDE DEF q
<1>9. /\ Turn' /\ queue' = q /\ active' \in Seats
      /\ running' \subseteq Subs /\ ran' \subseteq Subs /\ ran \subseteq ran'
  <2>1. /\ active \in Seats /\ (active.sub = 0 => active = NoSeat)
        /\ running \subseteq {active.sub} /\ running \subseteq Subs
        /\ (active = NoSeat \/ active.waiting => running = {})
        /\ (active # NoSeat => active.sub \in ran)
    BY <1>0 DEF Types, Turn
  <2> QED BY <2>1, <1>0, <1>1, <1>5, <1>6, <1>7, <1>8, PumpTurn
<1>10. CASE known
  <2>1. /\ admitted' = Append(admitted, s) /\ dir' = After("admitted")
        /\ UNCHANGED <<log, torn>>
    BY <1>10 DEF Admit, s
  <2>2. dir' = dir /\ dir = "ok" /\ torn = "none"
    BY <2>1, <1>0, <1>2, <1>10 DEF After, Record
  <2>3. /\ admitted' \in Seq(Subs) /\ Range(admitted') = Range(admitted) \cup {s}
        /\ Increasing(admitted')
    <3>1. \A i \in DOMAIN admitted : admitted[i] < s
      <4> SUFFICES ASSUME NEW i \in DOMAIN admitted PROVE admitted[i] < s
        OBVIOUS
      <4>1. admitted[i] \in Range(admitted)
        BY DEF Range
      <4> QED BY <4>1, <1>2, <1>3, SubsPositive, SMTT(30) DEF s
    <3> QED BY <3>1, <2>1, <1>0, <1>2, RangeAppend, IncreasingAppend DEF Types, Order
  <2>4. Types'
    BY <1>0, <1>1, <1>2, <1>5, <1>9, <2>1, <2>3 DEF Types
  <2>5. Record'
    BY <1>0, <1>1, <1>2, <2>1, <2>2 DEF Record
  <2>6. Order'
    BY <1>1, <1>2, <1>3, <1>5, <1>9, <2>3, SubsPositive, SMTT(30) DEF Order, s
  <2>7. Books'
    <3>1. s \notin Range(admitted)
      BY <1>2, <1>3, SMTT(30) DEF s
    <3> QED BY <3>1, <1>0, <1>1, <1>5, <1>9, <2>1, <2>3 DEF Books
  <2>8. Finish' /\ Ran(due)' /\ Ran(log)'
    <3>1. due' = <<>>
      BY <1>1, <1>2
    <3>2. Finish' /\ Ran(due)'
      BY <3>1, SMTT(30) DEF Finish, Ran
    <3>3. Ran(log)'
      BY <1>9, <2>1 DEF IInv, Ran
    <3> QED BY <3>2, <3>3
  <2> QED BY <1>9, <2>4, <2>5, <2>6, <2>7, <2>8 DEF IInv
<1>11. CASE ~known
  <2>1. admitted' = <<s>> /\ log' = <<>> /\ dir' = "ok" /\ torn' = "none"
    BY <1>11 DEF Admit, s
  <2>2. queue = <<>> /\ due = <<>> /\ due' = <<>> /\ up'
    BY <1>0, <1>1, <1>2, <1>11 DEF Record
  <2>3. /\ admitted' \in Seq(Subs) /\ Range(admitted') = {s} /\ Increasing(admitted')
    <3>1. DOMAIN <<s>> = {1} /\ <<s>>[1] = s /\ <<s>> \in Seq(Subs)
      BY <1>2, SMTT(30)
    <3> QED BY <3>1, <2>1, SMTT(30) DEF Range, Increasing
  <2>4. Range(queue') = {s} /\ Increasing(queue')
    BY <1>5, <1>9, <2>2, RangeEmpty
  <2>5. Types'
    BY <1>0, <1>1, <1>2, <1>5, <1>9, <2>1, <2>2, <2>3 DEF Types
  <2>6. Record'
    BY <1>0, <1>1, <1>2, <2>1, <2>2 DEF Record
  <2>7. Order'
    BY <1>1, <1>2, <2>3, <2>4, SubsPositive, SMTT(30) DEF Order
  <2>8. Books'
    BY <2>1, <2>2, <2>3, <2>4, SettledInEmpty DEF Books
  <2>9. Finish' /\ Ran(due)' /\ Ran(log)'
    BY <2>1, <2>2, SMTT(30) DEF Finish, Ran
  <2> QED BY <1>9, <2>5, <2>6, <2>7, <2>8, <2>9 DEF IInv
<1> QED BY <1>10, <1>11

-----------------------------------------------------------------------------
(* The stream, the record and the process. *)

\* One line moves from what is due to the stream.
LEMMA AppendDueKeeps ==
  ASSUME IInv, AppendDue
  PROVE  IInv'
<1> DEFINE e == Head(due)
<1>0. Types /\ Record /\ Turn /\ Order /\ Books
  BY DEF IInv
<1>1. /\ up /\ due # <<>> /\ log' = Append(log, e) /\ due' = Tail(due)
      /\ UNCHANGED <<up, known, queue, active, post, admitted, torn, minted, running, ran>>
  BY DEF AppendDue
<1>2. known /\ torn = "none" /\ dir' = dir
  BY <1>0, <1>1 DEF Record, AppendDue, After
<1>3. /\ e \in Events /\ due' \in Seq(Events) /\ Once(due')
      /\ SettledIn(due) = SettledIn(due') \cup (IF IsSettlement(e) THEN {e.sub} ELSE {})
      /\ IsSettlement(e) => e.sub \notin SettledIn(due')
  BY <1>0, <1>1, SettledInTail DEF Types, Books
<1>4. /\ DOMAIN due = 1..Len(due) /\ Len(due) \in Nat \ {0}
      /\ DOMAIN due' = 1..(Len(due) - 1) /\ Len(due') = Len(due) - 1
      /\ e = due[1] /\ \A i \in 1..(Len(due) - 1) : due'[i] = due[i + 1]
  BY <1>0, <1>1, SMTT(30) DEF Types
<1> HIDE DEF e
<1>5. /\ log' \in Seq(Events)
      /\ SettledIn(log') = SettledIn(log) \cup (IF IsSettlement(e) THEN {e.sub} ELSE {})
      /\ Once(log')
  <2>1. IsSettlement(e) => e.sub \notin SettledIn(log)
    BY <1>0, <1>3 DEF Books
  <2> QED BY <2>1, <1>0, <1>1, <1>3, SettledInAppend, SMTT(30) DEF Types, Books
<1>6. Types'
  BY <1>0, <1>1, <1>3, <1>5 DEF Types
<1>7. Record'
  BY <1>0, <1>1, <1>2 DEF Record
<1>8. Turn' /\ Order'
  BY <1>0, <1>1 DEF Turn, Order
<1>9. Books'
  BY <1>0, <1>1, <1>3, <1>5 DEF Books
<1>10. Finish'
  <2> SUFFICES ASSUME NEW i \in 1..(Len(due) - 1), due'[i].out \in {"completed", "failed"}
               PROVE  FALSE
    BY <1>4 DEF Finish
  <2>1. due[i + 1].out \in {"completed", "failed"} /\ i + 1 \in DOMAIN due
    BY <1>4, SMTT(30)
  <2> QED BY <2>1, <1>4, SMTT(30) DEF IInv, Finish
<1>11. Ran(due)'
  BY <1>1, <1>4, SMTT(30) DEF IInv, Ran
<1>12. Ran(log)'
  <2>1. e.out \in {"completed", "ended"} => e.sub \in ran'
    BY <1>1, <1>4, SMTT(30) DEF IInv, Ran
  <2> QED BY <2>1, <1>0, <1>1, <1>3, SettlementsRan DEF IInv, Types, Ran
<1> QED BY <1>6, <1>7, <1>8, <1>9, <1>10, <1>11, <1>12 DEF IInv

\* A live set frees an idle conversation.
LEMMA LiveSetArrivesKeeps ==
  ASSUME IInv, LiveSetArrives
  PROVE  IInv'
<1>1. /\ Steps /\ UNCHANGED <<up, queue, active, due, post, minted, running, ran>>
  BY DEF LiveSetArrives
<1>2. CASE Busy \/ dir = "none"
  <2>1. UNCHANGED core
    BY <1>1, <1>2 DEF LiveSetArrives, core, record
  <2> QED BY <1>1, <2>1, QuietKeeps DEF IInv, Types
<1>3. CASE ~(Busy \/ dir = "none")
  <2>1. /\ known' = FALSE /\ dir' = "none" /\ admitted' = <<>> /\ log' = <<>>
        /\ torn' = "none"
    BY <1>3 DEF LiveSetArrives
  <2>2. active' = NoSeat /\ queue' = <<>> /\ due' = <<>>
    BY <1>1, <1>3 DEF Busy, Steps
  <2>3. <<>> \in Seq(Subs) /\ <<>> \in Seq(Events) /\ Increasing(<<>>)
    BY SMTT(30) DEF Increasing
  <2>4. Types'
    BY <1>1, <2>1, <2>2, <2>3 DEF IInv, Types
  <2>5. Record' /\ Finish' /\ Ran(due)' /\ Ran(log)'
    BY <1>1, <2>1, <2>2 DEF IInv, Record, Finish, Ran, NoSeat, Seat
  <2>6. Turn'
    BY <1>1 DEF IInv, Turn
  <2>7. Order' /\ Books'
    BY <2>1, <2>2, <2>3, RangeEmpty, SettledInEmpty DEF Order, Books
  <2> QED BY <2>4, <2>5, <2>6, <2>7 DEF IInv
<1> QED BY <1>2, <1>3

\* The process ends, with the record as it is or torn, or fresh and empty.
LEMMA EndsKeeps ==
  ASSUME IInv, Ends,
         \/ UNCHANGED <<dir, admitted, log>>
         \/ admitted' = <<>> /\ log' = <<>>
  PROVE  IInv'
<1>0. Types /\ Record /\ Turn /\ Order /\ Books
  BY DEF IInv
<1>1. /\ ~up' /\ up' \in BOOLEAN /\ known' = FALSE /\ queue' = <<>> /\ active' = NoSeat
      /\ due' = <<>> /\ post' = "none" /\ running' = {} /\ UNCHANGED <<minted, ran>>
  BY DEF Ends
<1>2. <<>> \in Seq(Subs) /\ <<>> \in Seq(Events) /\ Increasing(<<>>)
  BY SMTT(30) DEF Increasing
<1>3. Types'
  BY <1>0, <1>1, <1>2, SeatShapes DEF Types
<1>4. Record'
  BY <1>0, <1>1 DEF Record, NoSeat, Seat
<1>5. Turn'
  BY <1>1, <1>2, SeatShapes, SMTT(30) DEF Turn, NoSeat, Seat
<1>6. Order' /\ Books'
  BY <1>0, <1>1, <1>2, RangeEmpty, SettledInEmpty DEF Order, Books
<1>7. Finish' /\ Ran(due)' /\ Ran(log)'
  BY <1>1, SMTT(30) DEF Finish, Ran, IInv
<1> QED BY <1>3, <1>4, <1>5, <1>6, <1>7 DEF IInv

\* The rebuild makes due one line for each Submission left unsettled.
LEMMA BootKeeps ==
  ASSUME IInv, Boot
  PROVE  IInv'
<1>0. Types /\ Record /\ Turn /\ Order /\ Books
  BY DEF IInv
<1>1. /\ ~up /\ up' = TRUE
      /\ UNCHANGED <<queue, active, post, dir, admitted, log, minted, running, ran>>
  BY DEF Boot
<1>2. queue = <<>> /\ active = NoSeat /\ due = <<>> /\ ~known
  BY <1>0, <1>1 DEF Record
<1>3. Turn' /\ Order' /\ Ran(log)'
  BY <1>0, <1>1 DEF Turn, Order, Ran, IInv
<1>4. CASE dir # "ok"
  <2>1. UNCHANGED <<known, torn, due>>
    BY <1>4 DEF Boot
  <2>2. Types' /\ Record' /\ Finish' /\ Ran(due)'
    BY <1>0, <1>1, <1>2, <1>4, <2>1, SMTT(30) DEF Types, Record, Finish, Ran, NoSeat, Seat
  <2>3. Books'
    BY <1>0, <1>1, <1>4, <2>1, RangeEmpty DEF Record, Books
  <2> QED BY <2>2, <2>3, <1>3 DEF IInv
<1>5. CASE dir = "ok"
  <2> DEFINE lost == Unsettled[Len(admitted)]
  <2>1. /\ known' = TRUE /\ torn' = "none"
        /\ due' = [i \in 1..Len(lost) |->
                   Settled(lost[i], IF lost[i] \in over THEN "aborted" ELSE "restarted")]
    BY <1>5 DEF Boot, CutTornTail
  <2>2. /\ lost \in Seq(Subs) /\ Increasing(lost)
        /\ Range(lost) = Range(admitted) \ SettledIn(log)
    BY <1>0, UnsettledIs DEF Types, Order
  <2> HIDE DEF lost
  <2>3. \A i \in 1..Len(lost) : \E o \in {"aborted", "restarted"} : due'[i] = Settled(lost[i], o)
    BY <2>1
  <2>4. /\ due' \in Seq(Events) /\ Len(due') = Len(lost)
        /\ SettledIn(due') = Range(lost) /\ Once(due')
    <3>1. \A i \in 1..Len(lost) : \E o \in Outcomes : due'[i] = Settled(lost[i], o)
      BY <2>3 DEF Outcomes
    <3>2. due' = [i \in 1..Len(lost) |-> due'[i]]
      BY <2>1
    <3> QED BY <3>1, <3>2, <2>2, SettledInAll
  <2>5. \A i \in DOMAIN due' : due'[i].out \in {"aborted", "restarted"}
    <3> SUFFICES ASSUME NEW i \in 1..Len(lost) PROVE due'[i].out \in {"aborted", "restarted"}
      BY <2>4, SMTT(30)
    <3>1. lost[i] \in Subs
      BY <2>2, SMTT(30)
    <3> QED BY <3>1, <2>3, Shapes, SMTT(30) DEF Outcomes
  <2>6. Finish' /\ Ran(due)'
    BY <2>5 DEF Finish, Ran
  <2>7. Types'
    BY <1>0, <1>1, <2>1, <2>4 DEF Types
  <2>8. Record'
    BY <1>0, <1>1, <1>5, <2>1 DEF Record
  <2>9. Books'
    BY <1>0, <1>1, <1>2, <2>2, <2>4, RangeEmpty DEF Books
  <2> QED BY <2>6, <2>7, <2>8, <2>9, <1>3 DEF IInv
<1> QED BY <1>4, <1>5

\* Every step keeps the invariant.
LEMMA IInvStep == IInv /\ [Next]_vars => IInv'
<1> SUFFICES ASSUME IInv, [Next]_vars PROVE IInv'
  OBVIOUS
<1>a. post # "none" => minted < MaxSubs
  BY DEF IInv, Types
<1>1. ASSUME NEW k \in {"fresh", "kept"}, PostArrives(k) PROVE IInv'
  BY <1>1, QuietKeeps DEF PostArrives, core, record
<1>2. CASE PostRefused
  BY <1>2, QuietKeeps DEF PostRefused, core, record
<1>3. CASE Admit
  BY <1>3, AdmitKeeps
<1>4. ASSUME NEW named \in {0} \cup Subs, Sweep(named) PROVE IInv'
  BY <1>4, SweepKeeps
<1>5. CASE RunTurnOver
  BY <1>5, RunTurnOverKeeps
<1>6. ASSUME NEW o \in {"completed", "aborted", "failed"}, RunEnds(o) PROVE IInv'
  BY <1>6, RunEndsKeeps
<1>7. CASE SweepWaitEnds \/ PickPolls
  BY <1>7, SweepWaitEndsKeeps, PickPollsKeeps
<1>8. ASSUME NEW e \in {Said, Kill}, Speak(e) PROVE IInv'
  BY <1>8, SpeakKeeps
<1>9. CASE AppendDue
  BY <1>9, AppendDueKeeps
<1>10. ASSUME NEW s \in Subs, Poll(s) \/ PollTimesOut(s) \/ ReadAnswer(s) \/ Leave(s)
       PROVE  IInv'
  <2>1. UNCHANGED core /\ post' = post
    BY <1>10 DEF Poll, PollTimesOut, ReadAnswer, Leave, ClientOnly, core, record
  <2> QED BY <2>1, <1>a, QuietKeeps
<1>11. CASE RunOver \/ StateLiveSet \/ DrainEnds \/ UNCHANGED vars
  <2>1. UNCHANGED core /\ post' = post
    BY <1>11 DEF RunOver, StateLiveSet, DrainEnds, core, record, vars
  <2> QED BY <2>1, <1>a, QuietKeeps
<1>12. CASE LiveSetArrives
  BY <1>12, LiveSetArrivesKeeps
<1>13. CASE DrainBegins
  BY <1>13, DrainBeginsKeeps
<1>14. CASE Exit \/ Crash
  <2>1. Ends /\ (UNCHANGED <<dir, admitted, log>> \/ (admitted' = <<>> /\ log' = <<>>))
    BY <1>14 DEF Exit, Crash, record
  <2> QED BY <2>1, EndsKeeps
<1>15. CASE Boot
  BY <1>15, BootKeeps
<1> QED
  BY <1>1, <1>2, <1>3, <1>4, <1>5, <1>6, <1>7, <1>8, <1>9, <1>10, <1>11, <1>12, <1>13,
     <1>14, <1>15 DEF Next

\* The invariant holds throughout.
LEMMA IInvAlways == Spec => []IInv
BY IInvInit, IInvStep, PTL DEF Spec

\* A conversation never runs two Turns at once (pump, release, abort): whatever
\* still runs is the seat's own.
THEOREM OneTurnAtATimeHolds == Spec => []OneTurnAtATime
<1>1. IInv => OneTurnAtATime
  <2> SUFFICES ASSUME IInv PROVE Cardinality(running) <= 1
    BY DEF OneTurnAtATime
  <2>1. IsFiniteSet({active.sub}) /\ Cardinality({active.sub}) = 1
    BY FS_Singleton
  <2>2. running \subseteq {active.sub}
    BY DEF IInv, Turn
  <2>3. IsFiniteSet(running) /\ Cardinality(running) <= Cardinality({active.sub})
    BY <2>1, <2>2, FS_Subset
  <2> QED BY <2>1, <2>3
<1> QED BY <1>1, IInvAlways, PTL

\* A record with a Submission in it always reads (recorderAt, readRecord).
THEOREM RecordReadsHolds == Spec => []RecordReads
<1>1. IInv => RecordReads
  BY DEF IInv, Record, RecordReads
<1> QED BY <1>1, IInvAlways, PTL

\* Of the lines l, one that says ended is of a Turn that its own pick ended.
Picked(l) == \A i \in DOMAIN l : l[i].out = "ended" => l[i].sub \in picked
PickInv == Picked(due) /\ Picked(log)

\* A step keeps this when it makes no line due that says ended of another Turn.
LEMMA PickKept ==
  ASSUME PickInv, picked \subseteq picked', log' \in {log, <<>>},
         \/ due' = due
         \/ \A i \in DOMAIN due' : due'[i].out = "ended" => due'[i].sub \in picked
  PROVE  PickInv'
<1>1. Picked(due)'
  BY DEF PickInv, Picked
<1>2. CASE log' = log
  BY <1>1, <1>2 DEF PickInv, Picked
<1>3. CASE log' = <<>>
  <2>1. DOMAIN <<>> = {}
    BY SMTT(30)
  <2> QED BY <1>1, <1>3, <2>1 DEF PickInv, Picked
<1> QED BY <1>2, <1>3

\* One line moves from what is due to the stream.
LEMMA AppendDuePick ==
  ASSUME IInv, PickInv, AppendDue
  PROVE  PickInv'
<1>1. /\ due # <<>> /\ due \in Seq(Events) /\ log \in Seq(Events)
      /\ log' = Append(log, Head(due)) /\ due' = Tail(due) /\ picked' = picked
  BY DEF AppendDue, IInv, Types
<1>2. Head(due) = due[1] /\ 1 \in DOMAIN due
  BY <1>1, RangeTail
<1>3. \A i \in DOMAIN log' : (i \in DOMAIN log /\ log'[i] = log[i]) \/ log'[i] = due[1]
  BY <1>1, <1>2, SMTT(30)
<1>4. \A i \in DOMAIN due' : i + 1 \in DOMAIN due /\ due'[i] = due[i + 1]
  BY <1>1, SMTT(30)
<1>5. Picked(log)'
  BY <1>1, <1>2, <1>3 DEF PickInv, Picked
<1>6. Picked(due)'
  BY <1>1, <1>4 DEF PickInv, Picked
<1> QED BY <1>5, <1>6 DEF PickInv

\* The lines of the steps that settle: none but a sweep's says ended, and that
\* one of the Submission which the pick names.
LEMMA SettlePick ==
  ASSUME IInv, active # NoSeat, NEW o \in {"completed", "aborted", "failed"},
         NEW i \in DOMAIN Settle(active.sub, o)
  PROVE  Settle(active.sub, o)[i].out # "ended"
<1>1. active.sub \in Subs /\ o \in Outcomes /\ o # "ended"
  BY DEF IInv, Types, Seats, Turn, Outcomes
<1>2. Settle(active.sub, o) = <<Settled(active.sub, o)>> \/ Settle(active.sub, o) = <<>>
  BY DEF Settle
<1>3. Settled(active.sub, o).out = o
  BY <1>1, Shapes
<1> QED BY <1>1, <1>2, <1>3, SMTT(30)

LEMMA CutPick ==
  ASSUME IInv, NEW a, CutIfOnPick(a)
  PROVE  due' = due \/ \A i \in DOMAIN due' : due'[i].out # "ended"
<1>1. due' = FailAll(queue) \/ due' = due
  BY DEF CutIfOnPick
<1>2. \A i \in DOMAIN FailAll(queue) : FailAll(queue)[i].out # "ended"
  BY SMTT(30) DEF FailAll, Settled
<1> QED BY <1>1, <1>2

LEMMA SweepPick ==
  ASSUME IInv, NEW named, Sweep(named)
  PROVE  \A i \in DOMAIN due' : due'[i].out = "ended" => due'[i].sub \in picked
<1> SUFFICES ASSUME NEW i \in DOMAIN due', due'[i].out = "ended"
             PROVE  due'[i].sub \in picked
  OBVIOUS
<1>1. i \in 1..Len(queue) /\ queue[i] \in Subs /\ named \in {0} \cup picked
  BY SMTT(30) DEF Sweep, IInv, Types
<1>2. due'[i] = Settled(queue[i], IF Ended(named, queue[i]) THEN "ended" ELSE "aborted")
  BY <1>1 DEF Sweep
<1>3. Ended(named, queue[i]) /\ due'[i].sub = queue[i]
  BY <1>1, <1>2, Shapes DEF Outcomes
<1> QED BY <1>1, <1>3, SubsPositive DEF Ended

\* Every step keeps this.
LEMMA PickStep == IInv /\ PickInv /\ [Next]_vars => PickInv'
<1> SUFFICES ASSUME IInv, PickInv, [Next]_vars PROVE PickInv'
  OBVIOUS
<1>1. CASE UNCHANGED <<due, log, picked>>
  BY <1>1, PickKept
<1>2. CASE Admit
  BY <1>2, PickKept DEF Admit
<1>3. ASSUME NEW named \in {0} \cup Subs, Sweep(named) PROVE PickInv'
  BY <1>3, SweepPick, PickKept DEF Sweep, record, client
<1>4. ASSUME NEW o \in {"completed", "aborted", "failed"}, RunEnds(o) PROVE PickInv'
  BY <1>4, SettlePick, PickKept DEF RunEnds, record, client
<1>5. CASE SweepWaitEnds
  <2>1. active # NoSeat
    BY <1>5, SeatShapes DEF SweepWaitEnds
  <2> QED BY <1>5, <2>1, SettlePick, PickKept DEF SweepWaitEnds, record, client
<1>6. CASE PickPolls
  <2>1. \/ due' = due
        \/ \A i \in DOMAIN due' : due'[i].out # "ended"
    BY <1>6, CutPick DEF PickPolls
  <2> QED BY <1>6, <2>1, PickKept DEF PickPolls, record, client
<1>7. CASE DrainBegins
  BY <1>7, CutPick, PickKept DEF DrainBegins, record, client
<1>8. ASSUME NEW e \in {Said, Kill}, Speak(e) PROVE PickInv'
  <2>1. due' = <<e>> /\ e.out = "none" /\ UNCHANGED <<log, picked>>
    BY <1>8, Shapes DEF Speak, record, client
  <2>2. \A i \in DOMAIN due' : due'[i].out # "ended"
    BY <2>1, SMTT(30)
  <2> QED BY <2>1, <2>2, PickKept
<1>9. CASE AppendDue
  BY <1>9, AppendDuePick
<1>10. ASSUME NEW s \in Subs, Leave(s) PROVE PickInv'
  BY <1>10, PickKept DEF Leave, ClientOnly, record
<1>11. CASE LiveSetArrives
  BY <1>11, PickKept DEF LiveSetArrives, record
<1>12. CASE Exit \/ Crash
  <2>1. due' = <<>> /\ picked' = picked /\ log' \in {log, <<>>}
    BY <1>12 DEF Exit, Crash, Ends, record
  <2>2. \A i \in DOMAIN due' : due'[i].out # "ended"
    BY <2>1, SMTT(30)
  <2> QED BY <2>1, <2>2, PickKept
<1>13. CASE Boot
  <2>1. \/ due' = due
        \/ \A i \in DOMAIN due' : due'[i].out # "ended"
    BY <1>13, SMTT(30) DEF Boot, Settled
  <2> QED BY <1>13, <2>1, PickKept DEF Boot, client
<1>14. CASE RunTurnOver
  BY <1>14, <1>1 DEF RunTurnOver, client
<1>15. ASSUME NEW s \in Subs, Poll(s) \/ PollTimesOut(s) \/ ReadAnswer(s) PROVE PickInv'
  BY <1>15, <1>1 DEF Poll, PollTimesOut, ReadAnswer, ClientOnly, record
<1>16. ASSUME NEW k \in {"fresh", "kept"}, PostArrives(k) PROVE PickInv'
  BY <1>16, <1>1 DEF PostArrives, record, client
<1>17. CASE PostRefused \/ RunOver \/ StateLiveSet \/ DrainEnds \/ UNCHANGED vars
  BY <1>17, <1>1 DEF PostRefused, RunOver, StateLiveSet, DrainEnds, record, client, vars
<1> QED
  BY <1>2, <1>3, <1>4, <1>5, <1>6, <1>7, <1>8, <1>9, <1>10, <1>11, <1>12, <1>13,
     <1>14, <1>15, <1>16, <1>17 DEF Next

\* Only a Submission that ran settles completed or ended, and ended only by the
\* pick of its own Turn, however late a sweep comes (abort, rebuilt).
THEOREM EndedByItsPickHolds == Spec => []EndedByItsPick
<1>1. Init => PickInv
  BY SMTT(30) DEF Init, PickInv, Picked
<1>2. IInv /\ PickInv => EndedByItsPick
  BY DEF IInv, Ran, PickInv, Picked, EndedByItsPick
<1> QED BY <1>1, <1>2, PickStep, IInvAlways, PTL DEF Spec

-----------------------------------------------------------------------------
(***************************************************************************)
(* Conversation implements the safety of Submissions, for any numbers of   *)
(* Submissions, messages and ends of the process.                          *)
(*                                                                         *)
(* Under the invariant above each fate is a simple condition on the books  *)
(* (FateTable).  That one Submission runs at a time and none before it     *)
(* waits is a fact about states (FirstRuns); what is left of a step is     *)
(* that each fate changes as it may, and that nothing is freed while       *)
(* something is open (Allowed), shown action by action.                    *)
(***************************************************************************)

(* The fates of the Submissions. *)

\* Admitted and not settled on the stream.
Open(s) == s \in Range(admitted) /\ s \notin SettledIn(log)
\* In the seat, and at work.
Seated(s) == s \in Range(queue) /\ active.sub = s /\ ~active.waiting /\ Finishing = {}
\* Out of the queue, or in the seat with its run over.
Idle(s) == s \notin Range(queue) \/ (active.sub = s /\ active.waiting)

\* Fate, one fate at a time.
FateTable ==
  \A s \in Subs :
    /\ Fate(s) = "none" <=> s > minted
    /\ Fate(s) = "gone" <=> s <= minted /\ s \notin Range(admitted)
    /\ Fate(s) \in Outcomes <=> s \in SettledIn(log)
    /\ Fate(s) = "running" <=> Open(s) /\ (s \in Finishing \/ Seated(s))
    /\ Fate(s) = "cut" <=> Open(s) /\ s \notin Finishing /\ Idle(s)
    /\ Fate(s) = "queued" <=> Open(s) /\ s \notin Finishing /\ ~Idle(s) /\ ~Seated(s)
    /\ Fate(s) \in {"none", "gone", "running", "cut", "queued"} \cup Outcomes

\* The runs that finished and whose line is due.
LEMMA FinishingIs ==
  ASSUME due \in Seq(Events)
  PROVE  /\ \A s : s \in Finishing <=> \E i \in DOMAIN due : due[i].out \in {"completed", "failed"} /\ due[i].sub = s
         /\ Finishing \subseteq SettledIn(due)
<1>1. \A s : s \in Finishing <=> \E i \in DOMAIN due : due[i].out \in {"completed", "failed"} /\ due[i].sub = s
  BY DEF Finishing, Range
<1>2. \A i \in DOMAIN due : due[i].out \in {"completed", "failed"} => IsSettlement(due[i])
  BY Shapes, SMTT(30)
<1>3. Finishing \subseteq SettledIn(due)
  BY <1>1, <1>2, SettledInIs
<1> QED BY <1>1, <1>3

\* A settled Submission has one outcome on the stream.
LEMMA OutcomesInIs ==
  ASSUME NEW l \in Seq(Events), Once(l), NEW i \in DOMAIN l, IsSettlement(l[i])
  PROVE  OutcomesIn(l, l[i].sub) = {l[i].out} /\ l[i].out \in Outcomes
<1> DEFINE s == l[i].sub
<1>1. l[i] \in Events /\ l[i] = Settled(s, l[i].out) /\ l[i].out \in Outcomes
  BY Shapes, SMTT(30)
<1>2. ASSUME NEW j \in DOMAIN l, l[j] = Settled(s, l[j].out) PROVE j = i
  <2>1. l[j].sub = s /\ IsSettlement(l[j])
    BY <1>2, SMTT(30) DEF Settled, IsSettlement
  <2> QED BY <2>1 DEF Once
<1>3. \A o : o \in OutcomesIn(l, s) <=> \E j \in DOMAIN l : l[j] = Settled(s, l[j].out) /\ o = l[j].out
  BY DEF OutcomesIn, Range
<1>4. \A o : o \in OutcomesIn(l, s) <=> o = l[i].out
  BY <1>1, <1>2, <1>3
<1> QED BY <1>1, <1>4

\* The table is what Fate says, now and after a step.
LEMMA FateTableHolds == IInv => FateTable
<1> SUFFICES ASSUME IInv, NEW s \in Subs
             PROVE
    /\ Fate(s) = "none" <=> s > minted
    /\ Fate(s) = "gone" <=> s <= minted /\ s \notin Range(admitted)
    /\ Fate(s) \in Outcomes <=> s \in SettledIn(log)
    /\ Fate(s) = "running" <=> Open(s) /\ (s \in Finishing \/ Seated(s))
    /\ Fate(s) = "cut" <=> Open(s) /\ s \notin Finishing /\ Idle(s)
    /\ Fate(s) = "queued" <=> Open(s) /\ s \notin Finishing /\ ~Idle(s) /\ ~Seated(s)
    /\ Fate(s) \in {"none", "gone", "running", "cut", "queued"} \cup Outcomes
  BY DEF FateTable
<1>1. s \in Range(admitted) => s <= minted
  BY DEF IInv, Order
<1>2. s \in Nat /\ minted \in Nat /\ (s > minted <=> ~(s <= minted))
  BY SubsPositive, SMTT(30) DEF IInv, Types
<1>3. SettledIn(log) \subseteq Range(admitted)
  BY DEF IInv, Books
<1>4. s \in SettledIn(log) => (CHOOSE o \in OutcomesIn(log, s) : TRUE) \in Outcomes
  <2> SUFFICES ASSUME s \in SettledIn(log) PROVE (CHOOSE o \in OutcomesIn(log, s) : TRUE) \in Outcomes
    OBVIOUS
  <2>1. PICK i \in DOMAIN log : IsSettlement(log[i]) /\ log[i].sub = s
    BY SettledInIs
  <2>2. OutcomesIn(log, s) = {log[i].out} /\ log[i].out \in Outcomes
    BY <2>1, OutcomesInIs DEF IInv, Types, Books
  <2> QED BY <2>2
<1>5. active = [Seat(s) EXCEPT !.waiting = TRUE] <=> active.sub = s /\ active.waiting
  <2> DEFINE x == [Seat(s) EXCEPT !.waiting = TRUE]
  <2>1. x \in Seats /\ x.sub = s /\ ~x.onPick /\ x.waiting
    BY SeatShapes DEF Seats
  <2>2. active \in Seats /\ (active.waiting => ~active.onPick)
    BY DEF IInv, Types, Turn
  <2> HIDE DEF x
  <2>3. x = active <=> x.sub = active.sub /\ x.onPick = active.onPick /\ x.waiting = active.waiting
    <3>1. active = [sub |-> active.sub, onPick |-> active.onPick, waiting |-> active.waiting]
      BY <2>2 DEF Seats
    <3>2. x = [sub |-> x.sub, onPick |-> x.onPick, waiting |-> x.waiting]
      BY <2>1 DEF Seats
    <3> QED BY <3>1, <3>2
  <2>4. active.waiting \in BOOLEAN /\ active.onPick \in BOOLEAN /\ x.waiting \in BOOLEAN /\ x.onPick \in BOOLEAN
    BY <2>1, <2>2 DEF Seats
  <2>5. x = active <=> active.sub = s /\ active.waiting
    BY <2>1, <2>2, <2>3, <2>4
  <2> QED BY <2>5 DEF x
<1>6. \A x \in {"none", "gone", "running", "cut", "queued"} : x \notin Outcomes
  BY DEF Outcomes
<1>7. CASE s > minted
  BY <1>1, <1>2, <1>3, <1>6, <1>7 DEF Fate, Open
<1>8. CASE s <= minted /\ s \notin Range(admitted)
  BY <1>2, <1>3, <1>6, <1>8 DEF Fate, Open
<1>9. CASE s \in SettledIn(log)
  BY <1>1, <1>2, <1>3, <1>4, <1>6, <1>9 DEF Fate, Open
<1>10. CASE s \in Range(admitted) /\ s \notin SettledIn(log)
  <2>1. Fate(s) = IF s \in Finishing THEN "running"
          ELSE IF s \notin Range(queue) \/ (active.sub = s /\ active.waiting) THEN "cut"
          ELSE IF Finishing = {} /\ active.sub = s THEN "running" ELSE "queued"
    BY <1>1, <1>2, <1>5, <1>10 DEF Fate
  <2> QED BY <2>1, <1>1, <1>2, <1>6, <1>10 DEF Open, Seated, Idle
<1> QED BY <1>2, <1>7, <1>8, <1>9, <1>10

LEMMA FateTableNext == IInv' => FateTable'
BY FateTableHolds, PTL

\* What may follow each fate.
LEMMA AfterIs ==
  /\ Promise!After("none") = {"queued", "running"}
  /\ Promise!After("queued") = {"running", "cut", "aborted"}
  /\ Promise!After("running") = {"cut", "completed", "failed", "ended", "aborted"}
  /\ Promise!After("cut") = {"ended", "aborted", "restarted"}
  /\ \A o \in Outcomes : Promise!After(o) = {"gone"}
<1>1. Promise!After("none") = {"queued", "running"}
  BY DEF Promise!After, Promise!Ends
<1>2. Promise!After("queued") = {"running", "cut", "aborted"}
  BY DEF Promise!After, Promise!Ends
<1>3. Promise!After("running") = {"cut", "completed", "failed", "ended", "aborted"}
  BY DEF Promise!After, Promise!Ends
<1>4. Promise!After("cut") = {"ended", "aborted", "restarted"}
  BY DEF Promise!After, Promise!Ends
<1>5. \A o \in Outcomes : Promise!After(o) = {"gone"}
  BY DEF Promise!After, Outcomes, Promise!Ends
<1> QED BY <1>1, <1>2, <1>3, <1>4, <1>5

-----------------------------------------------------------------------------
(* The promise, step by step. *)

\* The refinement mapping.
Fates == [s \in Subs |-> Fate(s)]

\* A step of the fates as the promise allows it, short of what each state has anyway.
Allowed ==
  /\ \A s \in Subs : Fate(s)' = Fate(s) \/ Fate(s)' \in Promise!After(Fate(s))
  /\ (\E s \in Subs : Fate(s)' = "gone" /\ Fate(s) # "gone") =>
       \A s \in Subs : Fate(s) \notin {"queued", "running", "cut"} /\ Fate(s)' \in {"none", "gone"}

\* One runs, and nothing before it waits.
FirstRuns ==
  /\ \A s, t \in Subs : Fate(s) = "running" /\ Fate(t) = "running" => s = t
  /\ \A s, t \in Subs : Fate(s) = "running" /\ t < s => Fate(t) \notin {"none", "queued"}

\* In every state of the invariant, and after a step.
LEMMA FirstRunsHolds == IInv => FirstRuns
<1> SUFFICES ASSUME IInv PROVE FirstRuns
  OBVIOUS
<1>0. FateTable /\ Types /\ Turn /\ Order /\ Finish
  BY FateTableHolds DEF IInv
<1>1. due \in Seq(Events) /\ queue \in Seq(Subs)
  BY <1>0 DEF Types
<1>2. \A s, t \in Finishing : s = t
  <2> SUFFICES ASSUME NEW s \in Finishing, NEW t \in Finishing PROVE s = t
    OBVIOUS
  <2>1. PICK i \in DOMAIN due : due[i].out \in {"completed", "failed"} /\ due[i].sub = s
    BY <1>1, FinishingIs
  <2>2. PICK j \in DOMAIN due : due[j].out \in {"completed", "failed"} /\ due[j].sub = t
    BY <1>1, FinishingIs
  <2>3. Len(due) = 1 /\ DOMAIN due = 1..Len(due)
    BY <1>0, <1>1, <2>1, SMTT(30) DEF Finish
  <2> QED BY <2>1, <2>2, <2>3, SMTT(30)
<1>3. \A s \in Subs : Fate(s) = "running" => s \in Finishing \/ (Finishing = {} /\ s = active.sub)
  BY <1>0 DEF FateTable, Seated
<1>4. \A s, t \in Subs : Fate(s) = "running" /\ Fate(t) = "running" => s = t
  <2>1. CASE Finishing = {}
    BY <2>1, <1>3
  <2>2. CASE Finishing # {}
    BY <2>2, <1>2, <1>3
  <2> QED BY <2>1, <2>2
<1>5. ASSUME NEW s \in Subs, NEW t \in Subs, Fate(s) = "running", t < s,
             Fate(t) \in {"none", "queued"}
      PROVE  FALSE
  <2>1. s \in Range(admitted) /\ s <= minted /\ s \in Nat /\ t \in Nat /\ minted \in Nat
    BY <1>0, <1>5, SubsPositive, SMTT(30) DEF FateTable, Open, Order, Types
  <2>2. ~(t > minted)
    BY <2>1, <1>5, SMTT(30)
  <2>3. Fate(t) = "queued"
    BY <2>2, <1>0, <1>5 DEF FateTable
  <2>4. t \in Range(queue)
    BY <2>3, <1>0 DEF FateTable, Idle
  <2>5. PICK j \in DOMAIN queue : queue[j] = t
    BY <2>4 DEF Range
  <2>6. CASE s \in Finishing
    <3>1. PICK i \in DOMAIN due : due[i].out \in {"completed", "failed"} /\ due[i].sub = s
      BY <2>6, <1>1, FinishingIs
    <3>2. s < queue[j]
      BY <3>1, <1>0 DEF Finish
    <3> QED BY <3>2, <2>1, <2>5, <1>5, SMTT(30)
  <2>7. CASE s = active.sub
    <3>1. s <= queue[j]
      BY <2>7, <1>0 DEF Turn
    <3> QED BY <3>1, <2>1, <2>5, <1>5, SMTT(30)
  <2> QED BY <2>6, <2>7, <1>3, <1>5
<1> QED BY <1>4, <1>5 DEF FirstRuns

LEMMA FirstRunsNext == IInv' => FirstRuns'
BY FirstRunsHolds, PTL

\* So an allowed step of the fates is a step of the promise.
LEMMA AllowedIsStep ==
  ASSUME IInv, IInv', Allowed
  PROVE  Promise!Next
<1> DEFINE f == Fates
           g == Fates'
<1>1. \A s \in Subs : f[s] = Fate(s) /\ g[s] = Fate(s)'
  BY DEF Fates
<1>2. FirstRuns'
  BY FirstRunsNext
<1>3. Promise!Subs = Subs
  BY DEF Promise!Subs, Subs
<1>4. Promise!Next <=> Promise!Step(f, g)
  BY DEF Promise!Next, Fates
<1> HIDE DEF f, g
<1>5. \A s \in Subs : g[s] = f[s] \/ g[s] \in Promise!After(f[s])
  BY <1>1 DEF Allowed
<1>6. \A s, t \in Promise!Running(g) : s = t
  BY <1>1, <1>2, <1>3 DEF FirstRuns, Promise!Running
<1>7. \A s \in Promise!Running(g) \ Promise!Running(f) :
        \A t \in 1..(s - 1) : g[t] \notin {"none", "queued"}
  <2> SUFFICES ASSUME NEW s \in Subs, g[s] = "running", NEW t \in 1..(s - 1)
               PROVE  g[t] \notin {"none", "queued"}
    BY <1>3 DEF Promise!Running
  <2>1. t \in Subs /\ t < s
    BY SubsPositive, SMTT(30) DEF Subs
  <2> QED BY <2>1, <1>1, <1>2 DEF FirstRuns
<1>8. (\E s \in Subs : g[s] = "gone" /\ f[s] # "gone") =>
        Promise!Open(f) = {} /\ \A s \in Subs : g[s] \in {"none", "gone"}
  BY <1>1, <1>3 DEF Allowed, Promise!Open
<1>9. Promise!Step(f, g)
  <2>1. \A s \in Promise!Subs : g[s] = f[s] \/ g[s] \in Promise!After(f[s])
    BY <1>3, <1>5
  <2>2. (\E s \in Promise!Subs : g[s] = "gone" /\ f[s] # "gone") =>
          Promise!Open(f) = {} /\ \A s \in Promise!Subs : g[s] \in {"none", "gone"}
    BY <1>3, <1>8
  <2> QED BY <2>1, <2>2, <1>6, <1>7 DEF Promise!Step
<1> QED BY <1>4, <1>9

\* The steps that write no line of the stream and admit nothing.
LEMMA SeatFates ==
  ASSUME IInv, IInv', UNCHANGED <<admitted, minted, log>>, Finishing = {},
         Range(queue') \subseteq Range(queue),
         \A s \in Finishing' : s \in Subs => Fate(s) = "running",
         active.sub \in Range(queue') =>
            /\ active'.sub = active.sub /\ (active.waiting => active'.waiting)
            /\ Finishing' = {}
  PROVE  Allowed
<1>0. FateTable /\ FateTable'
  BY FateTableHolds, FateTableNext
<1>1. \A s \in Subs : (Fate(s)' = "gone" <=> Fate(s) = "gone") /\ (Fate(s)' = "none" <=> Fate(s) = "none")
  BY <1>0 DEF FateTable
<1>2. ASSUME NEW s \in Subs
      PROVE  Fate(s)' = Fate(s) \/ Fate(s)' \in Promise!After(Fate(s))
  <2>1. CASE Fate(s) \in {"none", "gone"}
    BY <2>1, <1>1
  <2>2. CASE Fate(s) \in Outcomes
    <3>1. s \in SettledIn(log) /\ ~(s > minted) /\ s \in Range(admitted)
      BY <2>2, <1>0 DEF FateTable, IInv, Books, Outcomes
    <3>2. Fate(s)' = Fate(s)
      BY <3>1, SMTT(30) DEF Fate
    <3> QED BY <3>2
  <2>3. CASE Fate(s) \in {"running", "cut", "queued"}
    <3>1. Open(s) /\ Open(s)'
      BY <2>3, <1>0 DEF FateTable, Open
    <3>2. Fate(s)' \in {"running", "cut", "queued"}
      <4>1. s \notin SettledIn(log') /\ ~(s > minted') /\ s \in Range(admitted')
        BY <3>1, <1>1, <2>3, <1>0 DEF Open, FateTable
      <4> QED BY <4>1, <1>0 DEF FateTable
    <3>3. CASE Fate(s) = "cut"
      <4>1. Idle(s) /\ s \notin Finishing /\ s \notin Finishing'
        BY <3>3, <1>0 DEF FateTable
      <4>2. Idle(s)'
        BY <4>1 DEF Idle
      <4> QED BY <4>1, <4>2, <3>1, <3>3, <1>0 DEF FateTable
    <3>4. CASE Fate(s) = "queued"
      BY <3>2, <3>4, AfterIs
    <3>5. CASE Fate(s) = "running"
      <4>1. Seated(s)
        BY <3>5, <1>0 DEF FateTable
      <4>2. Fate(s)' # "queued"
        <5> SUFFICES ASSUME Fate(s)' = "queued" PROVE FALSE
          OBVIOUS
        <5>1. ~Idle(s)' /\ ~Seated(s)' /\ s \notin Finishing'
          BY <1>0 DEF FateTable
        <5> QED BY <4>1, <5>1 DEF Seated, Idle
      <4> QED BY <4>2, <3>2, <3>5, AfterIs
    <3> QED BY <2>3, <3>3, <3>4, <3>5
  <2> QED BY <2>1, <2>2, <2>3, <1>0 DEF FateTable
<1> QED BY <1>1, <1>2 DEF Allowed

\* Lines that say neither completed nor failed finish no run.
LEMMA NoneFinishing ==
  ASSUME \A i \in DOMAIN due' : due'[i].out \notin {"completed", "failed"}
  PROVE  Finishing' = {}
BY DEF Finishing, Range

LEMMA StepsFinishNone == Steps => Finishing = {}
BY SMTT(30) DEF Steps, Finishing, Range

\* The holder of the seat settles: it runs on in the promise's eyes until its
\* line is written, or is cut.
LEMMA SettleFates ==
  ASSUME IInv, IInv', Steps, active # NoSeat, NEW o \in {"completed", "aborted", "failed"},
         active.waiting => o = "aborted",
         due' = Settle(active.sub, o), queue' = Unqueued(active.sub),
         UNCHANGED <<admitted, minted, log>>
  PROVE  Allowed
<1> DEFINE s == active.sub
<1>1. /\ s \notin Range(queue')
      /\ Range(queue) = Range(queue') \cup (IF s \in Range(queue) THEN {s} ELSE {})
  BY SeatUnqueued
<1>2. Finishing = {}
  BY StepsFinishNone
<1>3. ASSUME NEW t \in Finishing', t \in Subs PROVE Fate(t) = "running"
  <2>1. s \in Subs /\ due' \in Seq(Events)
    BY DEF IInv, Types, Turn, Seats
  <2>2. \E e \in Range(due') : e.out \in {"completed", "failed"} /\ e.sub = t
    BY <1>3 DEF Finishing
  <2>3. s \in Range(queue) /\ due' = <<Settled(s, o)>>
    BY <2>2, SMTT(30) DEF Settle, Range
  <2>4. Range(due') = {Settled(s, o)}
    BY <2>3, SMTT(30) DEF Range
  <2>5. Settled(s, o).sub = s /\ Settled(s, o).out = o
    BY DEF Settled
  <2>6. t = s /\ o \in {"completed", "failed"}
    BY <2>2, <2>4, <2>5
  <2>7. Open(s) /\ Seated(s)
    BY <2>3, <2>6, <1>2 DEF Open, Seated, IInv, Books
  <2> QED BY <2>1, <2>6, <2>7, FateTableHolds DEF FateTable
<1> QED BY <1>1, <1>2, <1>3, SeatFates

\* Everything queued is cut: by a sweep, or by the drain and the pick's poll.
LEMMA SweptFates ==
  ASSUME IInv, IInv', Steps, UNCHANGED <<admitted, minted, log>>, queue' = <<>>,
         due' = [i \in 1..Len(queue) |-> due'[i]],
         \A i \in 1..Len(queue) : \E o \in {"ended", "aborted", "restarted"} :
            due'[i] = Settled(queue[i], o)
  PROVE  Allowed
<1>1. Finishing = {}
  BY StepsFinishNone
<1>2. \A i \in DOMAIN due' : due'[i].out \notin {"completed", "failed"}
  BY SMTT(30) DEF Settled
<1>3. Finishing' = {} /\ Range(queue') = {}
  BY <1>2, NoneFinishing, RangeEmpty
<1> QED BY <1>1, <1>3, SeatFates

LEMMA CutFates ==
  ASSUME IInv, IInv', Steps, UNCHANGED <<admitted, minted, log>>,
         NEW a, a.sub = active.sub, a.waiting = active.waiting, CutIfOnPick(a)
  PROVE  Allowed
<1>1. CASE a # NoSeat /\ a.onPick
  <2>1. due' = FailAll(queue) /\ queue' = <<>>
    BY <1>1 DEF CutIfOnPick, Pump
  <2>2. due' = [i \in 1..Len(queue) |-> due'[i]]
    BY <2>1 DEF FailAll
  <2>3. \A i \in 1..Len(queue) : \E o \in {"ended", "aborted", "restarted"} :
            due'[i] = Settled(queue[i], o)
    BY <2>1 DEF FailAll
  <2> QED BY <2>1, <2>2, <2>3, SweptFates
<1>2. CASE ~(a # NoSeat /\ a.onPick)
  <2>1. active' = a /\ UNCHANGED <<due, queue>>
    BY <1>2 DEF CutIfOnPick
  <2>2. Finishing = {} /\ Finishing' = {}
    BY <2>1, StepsFinishNone DEF Finishing
  <2> QED BY <2>1, <2>2, SeatFates
<1> QED BY <1>1, <1>2

\* A line is written: its Submission settles, and the next one runs.
LEMMA AppendDueFates ==
  ASSUME IInv, IInv', AppendDue
  PROVE  Allowed
<1> DEFINE e == Head(due)
<1>0. FateTable /\ FateTable' /\ Types /\ Books /\ Finish
  BY FateTableHolds, FateTableNext DEF IInv
<1>1. /\ due # <<>> /\ log' = Append(log, e) /\ due' = Tail(due)
      /\ UNCHANGED <<queue, active, admitted, minted>>
  BY DEF AppendDue
<1>2. /\ e \in Events /\ e = due[1] /\ DOMAIN due = 1..Len(due) /\ Len(due) \in Nat \ {0}
      /\ due' \in Seq(Events) /\ DOMAIN due' = 1..(Len(due) - 1)
      /\ \A i \in DOMAIN due' : i + 1 \in DOMAIN due /\ due'[i] = due[i + 1]
  BY <1>0, <1>1, SMTT(30) DEF Types
<1> HIDE DEF e
<1>3. /\ SettledIn(log') = SettledIn(log) \cup (IF IsSettlement(e) THEN {e.sub} ELSE {})
      /\ IsSettlement(e) => e.sub \in SettledIn(due)
  <2>1. log \in Seq(Events)
    BY <1>0 DEF Types
  <2>2. IsSettlement(e) => e.sub \in SettledIn(due)
    BY <1>2, SettledInIs, SMTT(30)
  <2> QED BY <2>1, <2>2, <1>1, <1>2, SettledInAppend
<1>4. Finishing' = {}
  <2>1. ASSUME NEW i \in DOMAIN due', due'[i].out \in {"completed", "failed"} PROVE FALSE
    <3>1. i + 1 \in DOMAIN due /\ due[i + 1].out \in {"completed", "failed"}
      BY <2>1, <1>2
    <3>2. Len(due) = 1
      BY <3>1, <1>0 DEF Finish
    <3> QED BY <3>2, <1>2, SMTT(30)
  <2> QED BY <2>1, NoneFinishing
<1>5. ASSUME NEW s \in Finishing PROVE IsSettlement(e) /\ e.sub = s
  <2>1. PICK i \in DOMAIN due : due[i].out \in {"completed", "failed"} /\ due[i].sub = s
    BY <1>0, FinishingIs DEF Types
  <2>2. Len(due) = 1
    BY <2>1, <1>0 DEF Finish
  <2>3. i = 1
    BY <2>2, <1>2, SMTT(30)
  <2> QED BY <2>1, <2>3, <1>2, Shapes
<1>6. \A s \in Subs : (Fate(s)' = "gone" <=> Fate(s) = "gone") /\ (Fate(s)' = "none" <=> Fate(s) = "none")
  BY <1>0, <1>1 DEF FateTable
<1>7. ASSUME NEW s \in Subs, IsSettlement(e), e.sub = s
      PROVE  Fate(s)' \in Promise!After(Fate(s))
  <2>1. s \in Range(admitted) /\ s \notin SettledIn(log) /\ s \notin Range(queue)
    BY <1>0, <1>3, <1>7 DEF Books
  <2>2. Fate(s)' = e.out /\ e.out \in Outcomes
    <3>1. log' \in Seq(Events) /\ Once(log') /\ Len(log) + 1 \in DOMAIN log' /\ log'[Len(log) + 1] = e
      BY <1>0, <1>1, <1>2, SMTT(30) DEF IInv, Books, Types
    <3>2. OutcomesIn(log', s) = {e.out} /\ e.out \in Outcomes
      BY <3>1, <1>7, OutcomesInIs
    <3>3. s \in SettledIn(log') /\ s \in Range(admitted') /\ ~(s > minted')
      <4>1. s \in SettledIn(log')
        BY <1>3, <1>7
      <4>2. Fate(s)' \in Outcomes
        BY <4>1, <1>0 DEF FateTable
      <4>3. Fate(s)' # "none"
        BY <4>2 DEF Outcomes
      <4> QED BY <4>1, <4>3, <1>0, <1>1, <2>1 DEF FateTable
    <3>4. Fate(s)' = CHOOSE o \in OutcomesIn(log', s) : TRUE
      BY <3>3 DEF Fate
    <3> QED BY <3>2, <3>4
  <2>3. CASE e.out \in {"completed", "failed"}
    <3>1. s \in Finishing
      BY <2>3, <1>0, <1>2, <1>7, FinishingIs, SMTT(30) DEF Types
    <3>2. Fate(s) = "running"
      BY <3>1, <2>1, <1>0 DEF FateTable, Open
    <3> QED BY <3>2, <2>2, <2>3, AfterIs
  <2>4. CASE e.out \notin {"completed", "failed"}
    <3>1. s \notin Finishing
      <4> SUFFICES ASSUME s \in Finishing PROVE FALSE
        OBVIOUS
      <4>1. PICK i \in DOMAIN due : due[i].out \in {"completed", "failed"} /\ due[i].sub = s
        BY <1>0, FinishingIs DEF Types
      <4>2. Len(due) = 1
        BY <4>1, <1>0 DEF Finish
      <4>3. i = 1
        BY <4>2, <1>2, SMTT(30)
      <4> QED BY <4>1, <4>3, <1>2, <2>4
    <3>2. Fate(s) = "cut"
      BY <3>1, <2>1, <1>0 DEF FateTable, Open, Idle
    <3> QED BY <3>2, <2>2, <2>4, AfterIs DEF Outcomes
  <2> QED BY <2>3, <2>4
<1>8. ASSUME NEW s \in Subs, ~(IsSettlement(e) /\ e.sub = s)
      PROVE  Fate(s)' = Fate(s) \/ Fate(s)' \in Promise!After(Fate(s))
  <2>1. s \notin Finishing /\ (s \in SettledIn(log') <=> s \in SettledIn(log))
    BY <1>3, <1>5, <1>8
  <2>2. CASE s \in SettledIn(log)
    <3>1. PICK i \in DOMAIN log : IsSettlement(log[i]) /\ log[i].sub = s
      BY <2>2, SettledInIs
    <3>2. log' \in Seq(Events) /\ Once(log') /\ i \in DOMAIN log' /\ log'[i] = log[i]
      BY <1>0, <1>1, <1>2, SMTT(30) DEF IInv, Books, Types
    <3>3. OutcomesIn(log', s) = {log[i].out} /\ OutcomesIn(log, s) = {log[i].out}
      BY <3>1, <3>2, <1>0, OutcomesInIs DEF Types, Books
    <3>4. s \in Range(admitted)
      BY <2>2, <1>0 DEF Books
    <3>5. Fate(s)' = Fate(s)
      BY <3>3, <3>4, <2>1, <2>2, <1>1 DEF Fate
    <3> QED BY <3>5
  <2>3. CASE s \notin SettledIn(log)
    <3>1. (Open(s)' <=> Open(s)) /\ (Idle(s)' <=> Idle(s)) /\ s \notin Finishing' /\ (Seated(s) => Seated(s)')
      BY <2>1, <2>3, <1>1, <1>4 DEF Open, Idle, Seated
    <3>2. Fate(s) \notin Outcomes /\ Fate(s)' \notin Outcomes
      BY <2>1, <2>3, <1>0 DEF FateTable
    <3>3. CASE Fate(s) = "queued"
      <4>1. Open(s)' /\ ~Idle(s)'
        BY <3>1, <3>3, <1>0 DEF FateTable
      <4>2. Fate(s)' = "queued" \/ Fate(s)' = "running"
        BY <4>1, <3>1, <1>0 DEF FateTable
      <4> QED BY <4>2, <3>3, AfterIs
    <3>4. CASE Fate(s) # "queued"
      <4>1. Fate(s)' = Fate(s)
        BY <3>1, <3>2, <3>4, <2>1, <1>0, <1>6 DEF FateTable
      <4> QED BY <4>1
    <3> QED BY <3>3, <3>4
  <2> QED BY <2>2, <2>3
<1> QED BY <1>6, <1>7, <1>8 DEF Allowed

\* A new Submission is queued, or runs at once.
LEMMA AdmitFates ==
  ASSUME IInv, IInv', Admit
  PROVE  Allowed
<1>a. minted + 1 \in Subs /\ minted \in Nat
  BY SubsPositive, SMTT(30) DEF Admit, IInv, Types, Subs
<1>b. PICK s \in Subs : s = minted + 1
  BY <1>a
<1>0. FateTable /\ FateTable' /\ Types /\ Record /\ Turn /\ Order /\ Books
  BY FateTableHolds, FateTableNext DEF IInv
<1>1. /\ Steps /\ minted' = s /\ Pump(active, Append(queue, s), running)
      /\ due' = due /\ due = <<>> /\ post # "none"
  BY <1>b DEF Admit, Steps
<1>2. s \in Subs /\ minted \in Nat
  BY <1>a
<1>3. Range(queue') = Range(queue) \cup {s}
  BY <1>0, <1>1, <1>2, RangeAppend DEF Types, Pump
<1>4. Finishing = {} /\ Finishing' = {}
  BY <1>1, StepsFinishNone DEF Finishing
<1>5. /\ Range(admitted') = Range(admitted) \cup {s}
      /\ \A t : t \in SettledIn(log') <=> t \in SettledIn(log)
      /\ SettledIn(log) # {} => log' = log
  <2>1. CASE known
    <3>1. admitted' = Append(admitted, s) /\ log' = log
      BY <2>1, <1>b DEF Admit
    <3> QED BY <3>1, <1>0, <1>2, RangeAppend DEF Types
  <2>2. CASE ~known
    <3>1. admitted' = <<s>> /\ log' = <<>>
      BY <2>2, <1>b DEF Admit
    <3>2. admitted = <<>> /\ Range(admitted) = {} /\ SettledIn(log) = {}
      BY <2>2, <1>0, <1>1, RangeEmpty DEF Steps, Record, Books
    <3>3. Range(<<s>>) = {s}
      BY SMTT(30) DEF Range
    <3> QED BY <3>1, <3>2, <3>3, SettledInEmpty
  <2> QED BY <2>1, <2>2
<1>6. s \notin Range(admitted) /\ s \notin SettledIn(log)
  <2>1. s \in Range(admitted) => s <= minted
    BY <1>0 DEF Order
  <2>2. s \notin Range(admitted)
    BY <2>1, <1>2, <1>b, SMTT(30)
  <2> QED BY <2>2, <1>0 DEF Books
<1>7. \/ active' = active
      \/ active = NoSeat /\ queue = <<>>
  BY <1>0, <1>1 DEF Pump, Turn
<1>8. Fate(s) = "none" /\ Fate(s)' \in Promise!After(Fate(s)) /\ Fate(s)' # "gone"
  <2>1. Fate(s) = "none"
    BY <1>0, <1>2, <1>b, SMTT(30) DEF FateTable
  <2>2. Open(s)' /\ s \in Range(queue')
    BY <1>3, <1>5, <1>6 DEF Open
  <2>3. ~(active'.sub = s /\ active'.waiting)
    <3>1. CASE active' = active
      <4>1. active = NoSeat \/ active.sub <= minted
        BY <1>0 DEF Turn
      <4> QED BY <4>1, <3>1, <1>2, <1>b, SeatShapes, SubsPositive, SMTT(30)
    <3>2. CASE active = NoSeat /\ queue = <<>>
      <4>1. active' = Seat(Head(Append(queue, s)))
        BY <3>2, <1>1, SMTT(30) DEF Pump
      <4>2. Head(Append(queue, s)) = s
        BY <3>2, SMTT(30)
      <4> QED BY <4>1, <4>2, <1>2, SeatShapes
    <3> QED BY <1>7, <3>1, <3>2
  <2>4. Fate(s)' \in {"running", "queued"}
    BY <2>2, <2>3, <1>0, <1>2, <1>4 DEF FateTable, Idle, Seated
  <2> QED BY <2>1, <2>4, AfterIs
<1>9. ASSUME NEW t \in Subs, t # s PROVE Fate(t)' = Fate(t)
  <2>1. t > minted' <=> t > minted
    BY <1>1, <1>2, <1>9, SubsPositive, <1>b, SMTT(30)
  <2>2. (t \in Range(admitted') <=> t \in Range(admitted)) /\ (t \in Range(queue') <=> t \in Range(queue))
    BY <1>3, <1>5, <1>9
  <2>3. CASE t \in SettledIn(log)
    <3>1. log' = log
      BY <2>3, <1>5
    <3> QED BY <3>1, <2>1, <2>2, <2>3, SMTT(30) DEF Fate
  <2>4. CASE t \notin SettledIn(log)
    <3>1. (t \in Range(queue)) => active' = active
      BY <1>7, RangeEmpty
    <3>2. (Open(t)' <=> Open(t)) /\ (Idle(t)' <=> Idle(t)) /\ (Seated(t)' <=> Seated(t))
      BY <3>1, <2>2, <1>4, <1>5 DEF Open, Idle, Seated
    <3>3. Fate(t) \notin Outcomes /\ Fate(t)' \notin Outcomes
      BY <2>4, <1>0, <1>5 DEF FateTable
    <3>4. /\ Fate(t)' = "none" <=> Fate(t) = "none"
          /\ Fate(t)' = "gone" <=> Fate(t) = "gone"
      <4>1. t \in Nat /\ minted' \in Nat /\ minted \in Nat
        BY <1>2, SubsPositive, <1>1, <1>b
      <4> QED BY <4>1, <2>1, <2>2, <1>0, SMTT(30) DEF FateTable
    <3> QED BY <3>2, <3>3, <3>4, <1>4, <1>0 DEF FateTable
  <2> QED BY <2>3, <2>4
<1> QED BY <1>8, <1>9 DEF Allowed

\* A conversation is freed with everything settled.
LEMMA FreedFates ==
  ASSUME IInv, IInv', Steps, ~Busy, UNCHANGED minted, admitted' = <<>>
  PROVE  Allowed
<1>0. FateTable /\ FateTable' /\ Types /\ Books
  BY FateTableHolds, FateTableNext DEF IInv
<1>1. queue = <<>> /\ due = <<>> /\ up
  BY DEF Busy, Steps
<1>2. Range(admitted) \subseteq SettledIn(log)
  BY <1>0, <1>1, RangeEmpty, SettledInEmpty DEF Books
<1>3. \A s \in Subs : Fate(s) \in {"none", "gone"} \cup Outcomes
  BY <1>0, <1>2 DEF FateTable, Open
<1>4. ASSUME NEW s \in Subs PROVE Fate(s)' \in {"none", "gone"} /\ (Fate(s) = "none" <=> Fate(s)' = "none")
  <2>1. s \notin Range(admitted')
    BY RangeEmpty
  <2>2. s \in Nat /\ minted \in Nat /\ (s > minted \/ s <= minted)
    BY <1>0, SubsPositive, SMTT(30) DEF Types
  <2> QED BY <2>1, <2>2, <1>0 DEF FateTable
<1>5. \A s \in Subs : Fate(s)' = Fate(s) \/ Fate(s)' \in Promise!After(Fate(s))
  BY <1>3, <1>4, AfterIs
<1>6. \A s \in Subs : Fate(s) \notin {"queued", "running", "cut"}
  BY <1>3 DEF Outcomes
<1> QED BY <1>4, <1>5, <1>6 DEF Allowed

\* Whatever is open when the process ends is cut.
LEMMA EndsFates ==
  ASSUME IInv, IInv', Ends, \/ UNCHANGED <<admitted, log>>
                            \/ admitted = <<>> /\ admitted' = <<>>
  PROVE  Allowed
<1>0. FateTable /\ FateTable' /\ Types /\ Books
  BY FateTableHolds, FateTableNext DEF IInv
<1>1. queue' = <<>> /\ due' = <<>> /\ minted' = minted
  BY DEF Ends
<1>2. Finishing' = {} /\ Range(queue') = {} /\ Range(admitted') = Range(admitted)
  BY <1>1, RangeEmpty, NoneFinishing, SMTT(30)
<1>3. \A s \in Subs : (Fate(s)' = "gone" <=> Fate(s) = "gone") /\ (Fate(s)' = "none" <=> Fate(s) = "none")
  BY <1>0, <1>1, <1>2 DEF FateTable
<1>4. ASSUME NEW s \in Subs, Open(s)
      PROVE  Fate(s)' = "cut" /\ Fate(s) \in {"queued", "running", "cut"}
  <2>1. log' = log
    BY <1>4, RangeEmpty DEF Open
  <2>2. Open(s)' /\ Idle(s)'
    BY <1>2, <1>4, <2>1 DEF Open, Idle
  <2> QED BY <2>2, <1>2, <1>4, <1>0 DEF FateTable
<1>5. ASSUME NEW s \in Subs, s \in SettledIn(log) PROVE Fate(s)' = Fate(s)
  <2>1. s \in Range(admitted) /\ log' = log
    BY <1>0, <1>5, RangeEmpty DEF Books
  <2> QED BY <2>1, <1>1, <1>2, <1>5, SMTT(30) DEF Fate
<1>6. \A s \in Subs : Fate(s)' = Fate(s) \/ Fate(s)' \in Promise!After(Fate(s))
  <2> SUFFICES ASSUME NEW s \in Subs PROVE Fate(s)' = Fate(s) \/ Fate(s)' \in Promise!After(Fate(s))
    OBVIOUS
  <2>1. CASE Fate(s) \in {"none", "gone"}
    BY <2>1, <1>3
  <2>2. CASE Fate(s) \in Outcomes
    BY <2>2, <1>0, <1>5 DEF FateTable
  <2>3. CASE Fate(s) \in {"queued", "running", "cut"}
    <3>1. Fate(s)' = "cut"
      BY <2>3, <1>0, <1>4 DEF FateTable
    <3> QED BY <3>1, <2>3, AfterIs
  <2> QED BY <2>1, <2>2, <2>3, <1>0 DEF FateTable
<1> QED BY <1>3, <1>6 DEF Allowed

\* The rebuild changes no fate: what it settles was cut when the process ended.
LEMMA BootFates ==
  ASSUME IInv, IInv', Boot
  PROVE  Allowed
<1>1. UNCHANGED <<queue, active, admitted, minted, log>> /\ ~up
  BY DEF Boot
<1>2. due = <<>> /\ queue = <<>>
  BY <1>1 DEF IInv, Record
<1>3. Finishing = {}
  BY <1>2, SMTT(30) DEF Finishing, Range
<1>4. \A i \in DOMAIN due' : due'[i].out \notin {"completed", "failed"}
  BY <1>2, SMTT(30) DEF Boot, Settled
<1>5. Finishing' = {}
  BY <1>4, NoneFinishing
<1> QED BY <1>1, <1>3, <1>5, SeatFates

\* Nothing else changes a fate.
LEMMA QuietFates == UNCHANGED core => UNCHANGED Fates
BY SMTT(30) DEF core, Fates, Fate, Finishing, Range, Seat

\* Every step of a conversation is a step of the promise, or changes no fate.
LEMMA NextKeepsPromise == IInv /\ IInv' /\ [Next]_vars => [Promise!Next]_Fates
<1> SUFFICES ASSUME IInv, IInv', [Next]_vars PROVE Allowed \/ UNCHANGED Fates
  BY AllowedIsStep
<1>1. CASE UNCHANGED core
  BY <1>1, QuietFates
<1>2. CASE Admit
  BY <1>2, AdmitFates
<1>3. ASSUME NEW named \in {0} \cup Subs, Sweep(named) PROVE Allowed
  <2>1. due' = [i \in 1..Len(queue) |->
       Settled(queue[i], IF Ended(named, queue[i]) THEN "ended" ELSE "aborted")]
    BY <1>3 DEF Sweep
  <2>2. due' = [i \in 1..Len(queue) |-> due'[i]]
    BY <2>1
  <2>3. \A i \in 1..Len(queue) : \E o \in {"ended", "aborted", "restarted"} :
            due'[i] = Settled(queue[i], o)
    BY <2>1
  <2>4. Steps /\ queue' = <<>> /\ UNCHANGED <<admitted, minted, log>>
    BY <1>3 DEF Sweep, Pump, record
  <2> QED BY <2>2, <2>3, <2>4, SweptFates
<1>4. CASE RunTurnOver
  <2>1. /\ Steps /\ active \in Seats /\ active' = [active EXCEPT !.waiting = TRUE]
        /\ UNCHANGED <<queue, due, admitted, log, minted>>
    BY <1>4 DEF RunTurnOver, IInv, Types
  <2>2. active'.sub = active.sub /\ active'.waiting
    BY <2>1 DEF Seats
  <2>3. Finishing = {} /\ Finishing' = {}
    BY <2>1, StepsFinishNone DEF Finishing
  <2> QED BY <2>1, <2>2, <2>3, SeatFates
<1>5. ASSUME NEW o \in {"completed", "aborted", "failed"}, RunEnds(o) PROVE Allowed
  BY <1>5, SettleFates DEF RunEnds, Pump, record
<1>6. CASE SweepWaitEnds
  <2>1. active # NoSeat
    BY <1>6, SeatShapes DEF SweepWaitEnds
  <2> QED BY <1>6, <2>1, SettleFates DEF SweepWaitEnds, Pump, record
<1>7. CASE PickPolls
  <2> DEFINE a == [active EXCEPT !.onPick = ~active.onPick]
  <2>1. Steps /\ UNCHANGED <<admitted, minted, log>> /\ active \in Seats
    BY <1>7 DEF PickPolls, record, IInv, Types
  <2>2. a.sub = active.sub /\ a.waiting = active.waiting
    BY <2>1 DEF Seats
  <2>3. CASE stopping
    <3>1. CutIfOnPick(a)
      BY <1>7, <2>3 DEF PickPolls
    <3> HIDE DEF a
    <3> QED BY <2>1, <2>2, <3>1, CutFates
  <2>4. CASE ~stopping
    <3>1. active' = a /\ UNCHANGED <<due, queue>>
      BY <1>7, <2>4 DEF PickPolls
    <3>2. Finishing = {} /\ Finishing' = {}
      BY <2>1, <3>1, StepsFinishNone DEF Finishing
    <3> HIDE DEF a
    <3> QED BY <2>1, <2>2, <3>1, <3>2, SeatFates
  <2> QED BY <2>3, <2>4
<1>8. ASSUME NEW e \in {Said, Kill}, Speak(e) PROVE Allowed
  <2>1. Steps /\ due' = <<e>> /\ UNCHANGED <<queue, active, admitted, minted, log>>
    BY <1>8 DEF Speak, record
  <2>2. e.out = "none"
    BY Shapes
  <2>3. Finishing = {} /\ Finishing' = {}
    BY <2>1, <2>2, StepsFinishNone, NoneFinishing, SMTT(30)
  <2> QED BY <2>1, <2>3, SeatFates
<1>9. CASE AppendDue
  BY <1>9, AppendDueFates
<1>10. CASE LiveSetArrives
  <2>1. CASE Busy \/ dir = "none"
    <3>1. UNCHANGED core
      BY <1>10, <2>1 DEF LiveSetArrives, core, record
    <3> QED BY <3>1, <1>1
  <2>2. CASE ~(Busy \/ dir = "none")
    BY <1>10, <2>2, FreedFates DEF LiveSetArrives
  <2> QED BY <2>1, <2>2
<1>11. CASE DrainBegins
  BY <1>11, CutFates DEF DrainBegins, record
<1>12. CASE Exit \/ Crash
  <2>1. Ends /\ (UNCHANGED <<admitted, log>> \/ (admitted' = <<>> /\ up /\ ~known))
    BY <1>12 DEF Exit, Crash, record
  <2>2. up /\ ~known => admitted = <<>>
    BY DEF IInv, Record
  <2> QED BY <2>1, <2>2, EndsFates
<1>13. CASE Boot
  BY <1>13, BootFates
<1>14. ASSUME NEW s \in Subs, Poll(s) \/ PollTimesOut(s) \/ ReadAnswer(s) \/ Leave(s)
       PROVE  UNCHANGED core
  BY <1>14 DEF Poll, PollTimesOut, ReadAnswer, Leave, ClientOnly, core, record
<1>15. ASSUME NEW k \in {"fresh", "kept"}, PostArrives(k) PROVE UNCHANGED core
  BY <1>15 DEF PostArrives, core, record
<1>16. CASE PostRefused \/ RunOver \/ StateLiveSet \/ DrainEnds \/ UNCHANGED vars
  <2>1. UNCHANGED core
    BY <1>16 DEF PostRefused, RunOver, StateLiveSet, DrainEnds, core, record, vars
  <2> QED BY <2>1, <1>1
<1> QED
  BY <1>1, <1>2, <1>3, <1>4, <1>5, <1>6, <1>7, <1>8, <1>9, <1>10, <1>11, <1>12, <1>13,
     <1>14, <1>15, <1>16 DEF Next

\* At first there is no Submission.
LEMMA InitKeepsPromise == Init => Promise!Init
<1> SUFFICES ASSUME Init PROVE Fates = [s \in Subs |-> "none"]
  BY DEF Promise!Init, Promise!Subs, Subs, Fates
<1>1. \A s \in Subs : Fate(s) = "none"
  BY SubsPositive DEF Init, Fate
<1> QED BY <1>1 DEF Fates

\* A conversation implements the safety of what a Harness promises: Submissions
\* are taken in order and one at a time, each settles once and only as its fate
\* allows, and the conversation is freed only with everything settled, over
\* every interleaving of sweeps, drains, crashes and reboots (pump, release,
\* settle, abort, cutIfOnPick, rebuilt, PUT /agents).
THEOREM PromiseKept == Spec => Promise!SafeSpec
<1>1. Init => Promise!Init
  BY InitKeepsPromise
<1>2. IInv /\ IInv' /\ [Next]_vars => [Promise!Next]_Fates
  BY NextKeepsPromise
<1>3. Promise!SafeSpec <=> Promise!Init /\ [][Promise!Next]_Fates
  BY DEF Promise!SafeSpec, Fates
<1> QED BY <1>1, <1>2, <1>3, IInvAlways, PTL DEF Spec

=============================================================================
