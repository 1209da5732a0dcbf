--------------------------- MODULE EdgeNetworkProofs ---------------------------
(***************************************************************************)
(* Theorems about the traffic of EdgeNetwork, for any number of nodes,     *)
(* slots and requests, any rates, packets and pauses.                      *)
(***************************************************************************)
EXTENDS EdgeNetworkProperties, ListProofs

-----------------------------------------------------------------------------
(* The queue of the simulator. *)

Doings == {"start", "stop", "on", "off", "send", "end"}
Ev == [at : Nat, app : Nat, do : Doings]

\* An application has one timer for going on and off (m_startStopEvent).
Kind(d) == IF d \in {"on", "off"} THEN "pause" ELSE d

Ordered(q) == \A i, j \in DOMAIN q : i < j => q[i].at <= q[j].at

OnlyOne(q) ==
  \A i, j \in DOMAIN q : q[i].app = q[j].app /\ Kind(q[i].do) = Kind(q[j].do) => i = j

\* An event of an application that is due when it stops, or later, comes after
\* the stop, which was scheduled first.
StopsFirst(q) ==
  \A i, j \in DOMAIN q :
    q[i].app = q[j].app /\ q[i].do \in Own /\ q[j].do = "stop" /\ q[j].at <= q[i].at => j < i

Queue(q) == q \in Seq(Ev) /\ Ordered(q) /\ OnlyOne(q) /\ StopsFirst(q)

Waiting(q) == {q[i] : i \in DOMAIN q}

\* What waits is an event, of one kind with those its timer allows.
LEMMA QueueHasEvents ==
  ASSUME NEW q, Queue(q), NEW e \in Waiting(q)
  PROVE  /\ e \in Ev
         /\ Kind(e.do) = Kind("on") <=> e.do \in {"on", "off"}
         /\ Kind(e.do) = Kind("off") <=> e.do \in {"on", "off"}
         /\ Kind(e.do) = Kind("send") <=> e.do = "send"
         /\ Kind(e.do) = Kind("start") <=> e.do = "start"
         /\ Kind(e.do) = Kind("stop") <=> e.do = "stop"
<1>1. q \in Seq(Ev)
  BY DEF Queue
<1>2. e \in Ev
  BY <1>1, ElementOfSeq, LenProperties DEF Waiting
<1>3. e.do \in Doings
  BY <1>2 DEF Ev
<1> QED
  BY <1>2, <1>3 DEF Kind, Doings

\* A part of a queue, in the same order, is a queue.
LEMMA SubQueue ==
  ASSUME NEW q, Queue(q), NEW w \in Seq(Ev), NEW to \in [DOMAIN w -> DOMAIN q],
         \A p \in DOMAIN w : w[p] = q[to[p]],
         \A p, r \in DOMAIN w : p < r => to[p] < to[r]
  PROVE  Queue(w)
<1>1. DOMAIN w \subseteq Nat /\ DOMAIN q \subseteq Nat
  <2>1. q \in Seq(Ev)
    BY DEF Queue
  <2> QED
    BY <2>1, LenProperties
<1>2. \A p, r \in DOMAIN w : to[p] = to[r] => p = r
  <2> SUFFICES ASSUME NEW p \in DOMAIN w, NEW r \in DOMAIN w, to[p] = to[r], p # r
               PROVE  FALSE
    OBVIOUS
  <2>1. to[p] \in Int /\ p \in Int /\ r \in Int
    BY <1>1
  <2> QED
    BY <2>1
<1>3. Ordered(w)
  BY DEF Queue, Ordered
<1>4. OnlyOne(w)
  BY <1>2 DEF Queue, OnlyOne
<1>5. StopsFirst(w)
  <2> SUFFICES ASSUME NEW i \in DOMAIN w, NEW j \in DOMAIN w, w[i].app = w[j].app,
                      w[i].do \in Own, w[j].do = "stop", w[j].at <= w[i].at
               PROVE  j < i
    BY DEF StopsFirst
  <2>1. to[j] < to[i]
    BY DEF Queue, StopsFirst
  <2>2. i \in Int /\ j \in Int /\ to[i] \in Int /\ to[j] \in Int
    BY <1>1
  <2>3. i # j /\ ~ (i < j)
    BY <2>1, <2>2
  <2> QED
    BY <2>2, <2>3
<1> QED
  BY <1>3, <1>4, <1>5 DEF Queue

\* Taking the next event: it is the first of all, and no other is its equal.
LEMMA TailIs ==
  ASSUME NEW q, Queue(q), q # <<>>
  PROVE  /\ Queue(Tail(q)) /\ Head(q) \in Waiting(q) /\ Head(q) \in Ev
         /\ Waiting(Tail(q)) = Waiting(q) \ {Head(q)}
         /\ \A e \in Waiting(q) :
              /\ Head(q).at <= e.at
              /\ e.app = Head(q).app /\ Kind(e.do) = Kind(Head(q).do) => e = Head(q)
              /\ (e.app = Head(q).app /\ e.do = "stop" /\ Head(q).do \in Own)
                   => Head(q).at < e.at
<1>1. q \in Seq(Ev) /\ Len(q) \in Nat /\ Len(q) # 0 /\ DOMAIN q = 1 .. Len(q)
  <2>1. q \in Seq(Ev)
    BY DEF Queue
  <2> QED
    BY <2>1, LenProperties, EmptySeq
<1>2. /\ Tail(q) \in Seq(Ev) /\ Len(Tail(q)) = Len(q) - 1 /\ Head(q) = q[1]
      /\ \A i \in 1 .. Len(q) - 1 : Tail(q)[i] = q[i + 1]
  BY <1>1, HeadTailProperties
<1> DEFINE w == Tail(q)
           to == [p \in DOMAIN w |-> p + 1]
<1>3. DOMAIN w = 1 .. Len(q) - 1
  BY <1>2, LenProperties
<1>4. Queue(w)
  <2>1. to \in [DOMAIN w -> DOMAIN q] /\ \A p \in DOMAIN w : to[p] = p + 1
    BY <1>1, <1>3
  <2>2. \A p \in DOMAIN w : w[p] = q[to[p]]
    BY <1>2, <1>3, <2>1
  <2>3. \A p, r \in DOMAIN w : p < r => to[p] < to[r]
    BY <1>3, <2>1
  <2>4. w \in Seq(Ev)
    BY <1>2
  <2> HIDE DEF w, to
  <2> QED
    BY <2>1, <2>2, <2>3, <2>4, SubQueue
<1>5. Head(q) \in Waiting(q) /\ Head(q) \in Ev
  <2>1. 1 \in DOMAIN q
    BY <1>1
  <2>2. q[1] \in Ev
    BY <1>1, <2>1, ElementOfSeq
  <2> QED
    BY <1>2, <2>1, <2>2 DEF Waiting
<1>6. Waiting(w) = Waiting(q) \ {Head(q)}
  <2>1. ASSUME NEW i \in DOMAIN w
        PROVE  w[i] \in Waiting(q) /\ w[i] # Head(q)
    <3>1. i + 1 \in DOMAIN q /\ 1 \in DOMAIN q /\ w[i] = q[i + 1] /\ i + 1 # 1
      BY <1>1, <1>2, <1>3, <2>1
    <3>2. q[i + 1] # q[1]
      BY <3>1 DEF Queue, OnlyOne
    <3> QED
      BY <1>2, <3>1, <3>2 DEF Waiting
  <2>2. ASSUME NEW i \in DOMAIN q, q[i] # Head(q)
        PROVE  q[i] \in Waiting(w)
    <3>1. i - 1 \in DOMAIN w /\ w[i - 1] = q[i]
      <4>1. i \in 1 .. Len(q) /\ i # 1
        BY <1>1, <1>2, <2>2
      <4>2. i - 1 \in 1 .. Len(q) - 1
        BY <1>1, <4>1
      <4>3. w[i - 1] = q[(i - 1) + 1]
        BY <1>2, <4>2
      <4>4. (i - 1) + 1 = i
        BY <4>1
      <4> QED
        BY <1>3, <4>2, <4>3, <4>4
    <3> QED
      BY <3>1 DEF Waiting
  <2> HIDE DEF w
  <2> QED
    BY <2>1, <2>2 DEF Waiting
<1>7. ASSUME NEW e \in Waiting(q)
      PROVE  /\ Head(q).at <= e.at
             /\ e.app = Head(q).app /\ Kind(e.do) = Kind(Head(q).do) => e = Head(q)
             /\ (e.app = Head(q).app /\ e.do = "stop" /\ Head(q).do \in Own)
                  => Head(q).at < e.at
  <2>1. PICK i \in DOMAIN q : e = q[i]
    BY DEF Waiting
  <2>2. i \in Nat /\ 1 \in DOMAIN q /\ 1 <= i /\ q[i] \in Ev /\ q[1] \in Ev
    <3>1. i \in 1 .. Len(q) /\ 1 \in 1 .. Len(q)
      BY <1>1, <2>1
    <3> QED
      BY <1>1, <3>1, ElementOfSeq
  <2>3. q[1].at <= q[i].at
    <3>1. CASE i = 1
      BY <3>1, <2>2 DEF Ev
    <3>2. CASE i # 1
      BY <3>2, <2>1, <2>2 DEF Queue, Ordered
    <3> QED
      BY <3>1, <3>2
  <2>4. ASSUME e.app = Head(q).app, Kind(e.do) = Kind(Head(q).do)
        PROVE  e = Head(q)
    BY <1>2, <2>1, <2>2, <2>4 DEF Queue, OnlyOne
  <2>5. ASSUME e.app = Head(q).app, e.do = "stop", Head(q).do \in Own
        PROVE  Head(q).at < e.at
    <3>1. ASSUME e.at <= Head(q).at
          PROVE  FALSE
      <4>1. i < 1
        BY <1>2, <2>1, <2>2, <2>5, <3>1 DEF Queue, StopsFirst
      <4> QED
        BY <2>2, <4>1
    <3>2. e.at \in Nat /\ Head(q).at \in Nat
      BY <1>2, <2>1, <2>2 DEF Ev
    <3> QED
      BY <3>1, <3>2
  <2> QED
    BY <1>2, <2>1, <2>3, <2>4, <2>5
<1> QED
  BY <1>4, <1>5, <1>6, <1>7

\* Cancelling takes the own events of one application out and leaves the rest.
LEMMA CancelIs ==
  ASSUME NEW q, Queue(q), NEW a
  PROVE  /\ Queue(Cancel(q, a))
         /\ Waiting(Cancel(q, a)) = {e \in Waiting(q) : ~ (e.app = a /\ e.do \in Own)}
<1> DEFINE P == {i \in DOMAIN q : ~ (q[i].app = a /\ q[i].do \in Own)}
           w == Picked(q, P)
           n == Cardinality(P)
<1>1. q \in Seq(Ev)
  BY DEF Queue
<1>2. Cancel(q, a) = w
  BY DEF Cancel, Cancelled
<1>3. P \in SUBSET DOMAIN q
  OBVIOUS
<1> HIDE DEF P
<1>0. PartOf(Picked(q, P), q, P, Ev)
  BY <1>1, <1>3, PickedIs
<1>4. /\ IsFiniteSet(P) /\ n \in Nat
      /\ w \in Seq(Ev) /\ Len(w) = n
      /\ DOMAIN w = 1 .. n
      /\ \E to \in [1 .. n -> P] :
              /\ \A p \in 1 .. n : w[p] = q[to[p]]
              /\ \A p, r \in 1 .. n : p < r => to[p] < to[r]
              /\ \A i \in P : \E p \in 1 .. n : to[p] = i
  BY <1>0 DEF PartOf
<1> HIDE DEF w, n
<1>5. PICK to \in [1 .. n -> P] :
              /\ \A p \in 1 .. n : w[p] = q[to[p]]
              /\ \A p, r \in 1 .. n : p < r => to[p] < to[r]
              /\ \A i \in P : \E p \in 1 .. n : to[p] = i
  BY <1>4
<1>6. to \in [DOMAIN w -> DOMAIN q]
  BY <1>3, <1>4, <1>5
<1>7. Queue(w)
  <2>1. \A p \in DOMAIN w : w[p] = q[to[p]]
    BY <1>4, <1>5
  <2>2. \A p, r \in DOMAIN w : p < r => to[p] < to[r]
    BY <1>4, <1>5
  <2>3. w \in Seq(Ev)
    BY <1>4
  <2> QED
    BY <1>6, <2>1, <2>2, <2>3, SubQueue
<1>8. Waiting(w) = {q[i] : i \in P}
  <2>1. \A p \in DOMAIN w : w[p] = q[to[p]] /\ to[p] \in P
    BY <1>4, <1>5
  <2>2. ASSUME NEW i \in P
        PROVE  \E p \in DOMAIN w : q[i] = w[p]
    <3>1. PICK p \in 1 .. n : to[p] = i
      BY <1>5
    <3>2. w[p] = q[i] /\ p \in DOMAIN w
      BY <1>4, <1>5, <3>1
    <3> QED
      BY <3>2
  <2> QED
    BY <2>1, <2>2 DEF Waiting
<1>9. {q[i] : i \in P} = {e \in Waiting(q) : ~ (e.app = a /\ e.do \in Own)}
  BY DEF P, Waiting
<1> QED
  BY <1>2, <1>7, <1>8, <1>9

\* Scheduling puts an event behind all that are due no later.
LEMMA ScheduleIs ==
  ASSUME NEW q \in Seq(Ev), Ordered(q), NEW e \in Ev
  PROVE  /\ Schedule(q, e) \in Seq(Ev) /\ DOMAIN Schedule(q, e) = 1 .. Len(q) + 1
         /\ \E p \in 1 .. Len(q) + 1 :
              /\ Schedule(q, e)[p] = e
              /\ \A i \in 1 .. Len(q) :
                   /\ q[i].at <= e.at <=> i < p
                   /\ i < p => Schedule(q, e)[i] = q[i]
                   /\ i >= p => Schedule(q, e)[i + 1] = q[i]
<1> DEFINE I == {i \in 1 .. Len(q) : q[i].at <= e.at}
           l == IF I # {} THEN Max(I) ELSE 0
           p == l + 1
           s == Schedule(q, e)
<1>1. Len(q) \in Nat /\ DOMAIN q = 1 .. Len(q)
  BY LenProperties
<1>2. \A i \in 1 .. Len(q) : q[i] \in Ev /\ q[i].at \in Nat
  <2>1. \A i \in 1 .. Len(q) : q[i] \in Ev
    BY ElementOfSeq
  <2> QED
    BY <2>1 DEF Ev
<1>3. l \in 0 .. Len(q) /\ \A i \in 1 .. Len(q) : q[i].at <= e.at <=> i <= l
  <2>1. CASE I = {}
    <3>1. l = 0
      BY <2>1
    <3> QED
      BY <1>1, <2>1, <3>1
  <2>2. CASE I # {}
    <3>1. Max(I) \in I /\ \A i \in I : i <= Max(I)
      <4>1. I \in SUBSET (1 .. Len(q))
        OBVIOUS
      <4> HIDE DEF I
      <4> QED
        BY <1>1, <2>2, <4>1, LastPlace
    <3>2. l = Max(I)
      BY <2>2
    <3> HIDE DEF l
    <3>3. l \in 1 .. Len(q) /\ q[l].at <= e.at /\ \A i \in I : i <= l
      BY <3>1, <3>2
    <3>4. ASSUME NEW i \in 1 .. Len(q), i <= l
          PROVE  q[i].at <= e.at
      <4>1. q[i].at <= q[l].at
        <5>1. CASE i = l
          BY <5>1, <1>2, <3>3
        <5>2. CASE i # l
          BY <1>1, <3>3, <3>4, <5>2 DEF Ordered
        <5> QED
          BY <5>1, <5>2
      <4>2. e.at \in Nat
        BY DEF Ev
      <4> QED
        BY <1>2, <3>3, <4>1, <4>2
    <3> QED
      BY <1>1, <3>3, <3>4
  <2> QED
    BY <2>1, <2>2
<1>4. s = SubSeq(q, 1, l) \o <<e>> \o SubSeq(q, p, Len(q))
  <2>1. SelectLastInSeq(q, LAMBDA x : x.at <= e.at) = l
    BY DEF SelectLastInSeq
  <2>2. s = InsertAt(q, p, e)
    BY <2>1 DEF Schedule
  <2>3. p - 1 = l
    BY <1>3
  <2> HIDE DEF l, s
  <2> QED
    BY <2>2, <2>3 DEF InsertAt
<1> HIDE DEF l, s
<1> DEFINE x == SubSeq(q, 1, l)
           y == SubSeq(q, p, Len(q))
<1>5. x \in Seq(Ev) /\ Len(x) = l /\ \A i \in 1 .. l : x[i] = q[i]
  <2>1. x \in Seq(Ev) /\ Len(x) = IF 1 <= l THEN l - 1 + 1 ELSE 0
    BY <1>1, <1>3, SubSeqProperties
  <2>2. \A i \in 1 .. l - 1 + 1 : x[i] = q[1 + i - 1]
    BY <1>1, <1>3, SubSeqProperties
  <2> HIDE DEF x
  <2> QED
    BY <1>3, <2>1, <2>2
<1>6. y \in Seq(Ev) /\ Len(y) = Len(q) - l /\ \A i \in 1 .. Len(q) - l : y[i] = q[l + i]
  <2>1. y \in Seq(Ev) /\ Len(y) = IF p <= Len(q) THEN Len(q) - p + 1 ELSE 0
    BY <1>1, <1>3, SubSeqProperties
  <2>2. \A i \in 1 .. Len(q) - p + 1 : y[i] = q[p + i - 1]
    BY <1>1, <1>3, SubSeqProperties
  <2> HIDE DEF y
  <2>3. Len(y) = Len(q) - l
    <3>1. l \in Int /\ Len(q) \in Int /\ l <= Len(q) /\ p = l + 1
      BY <1>1, <1>3
    <3> HIDE DEF p
    <3>2. CASE p <= Len(q)
      BY <2>1, <3>1, <3>2
    <3>3. CASE ~ (p <= Len(q))
      BY <2>1, <3>1, <3>3
    <3> QED
      BY <3>2, <3>3
  <2>4. ASSUME NEW i \in 1 .. Len(q) - l
        PROVE  y[i] = q[l + i]
    <3>1. i \in 1 .. Len(q) - p + 1 /\ p + i - 1 = l + i
      BY <1>1, <1>3
    <3> QED
      BY <2>2, <3>1
  <2> QED
    BY <2>1, <2>3, <2>4
<1>7. s = (x \o <<e>>) \o y
  BY <1>4
<1> HIDE DEF x, y
<1>8. /\ <<e>> \in Seq(Ev) /\ Len(<<e>>) = 1 /\ <<e>>[1] = e
      /\ x \o <<e>> \in Seq(Ev) /\ Len(x \o <<e>>) = l + 1
      /\ \A i \in 1 .. l : (x \o <<e>>)[i] = q[i]
      /\ (x \o <<e>>)[l + 1] = e
  <2>1. <<e>> \in Seq(Ev) /\ Len(<<e>>) = 1 /\ <<e>>[1] = e
    OBVIOUS
  <2> DEFINE one == <<e>>
  <2>2. one \in Seq(Ev) /\ Len(one) = 1 /\ one[1] = e
    BY <2>1
  <2> HIDE DEF one
  <2>3. /\ x \o one \in Seq(Ev) /\ Len(x \o one) = Len(x) + Len(one)
        /\ \A i \in 1 .. Len(x) + Len(one) :
             (x \o one)[i] = IF i <= Len(x) THEN x[i] ELSE one[i - Len(x)]
    BY <1>5, <2>2, ConcatProperties
  <2>4. x \o one \in Seq(Ev) /\ Len(x \o one) = l + 1
    BY <1>5, <2>2, <2>3
  <2>5. \A i \in 1 .. l : (x \o one)[i] = q[i]
    BY <1>3, <1>5, <2>2, <2>3
  <2>6. (x \o one)[l + 1] = e
    <3>1. l + 1 \in 1 .. Len(x) + Len(one) /\ ~ (l + 1 <= Len(x)) /\ l + 1 - Len(x) = 1
      BY <1>3, <1>5, <2>2
    <3> QED
      BY <2>2, <2>3, <3>1
  <2> QED
    BY <2>1, <2>4, <2>5, <2>6 DEF one
<1> DEFINE z == x \o <<e>>
<1>9. /\ z \in Seq(Ev) /\ Len(z) = l + 1 /\ \A i \in 1 .. l : z[i] = q[i]
      /\ z[l + 1] = e /\ s = z \o y
  BY <1>7, <1>8
<1> HIDE DEF z
<1>10. /\ s \in Seq(Ev) /\ Len(s) = Len(z) + Len(y)
       /\ \A i \in 1 .. Len(z) + Len(y) :
            s[i] = IF i <= Len(z) THEN z[i] ELSE y[i - Len(z)]
  <2>1. /\ z \o y \in Seq(Ev) /\ Len(z \o y) = Len(z) + Len(y)
        /\ \A i \in 1 .. Len(z) + Len(y) :
             (z \o y)[i] = IF i <= Len(z) THEN z[i] ELSE y[i - Len(z)]
    BY <1>6, <1>9, ConcatProperties
  <2> QED
    BY <1>9, <2>1
<1>11. Len(z) + Len(y) = Len(q) + 1
  BY <1>1, <1>3, <1>6, <1>9
<1>12. DOMAIN s = 1 .. Len(q) + 1
  BY <1>10, <1>11, LenProperties
<1>13. p \in 1 .. Len(q) + 1 /\ s[p] = e
  <2>1. p \in 1 .. Len(q) + 1 /\ p <= Len(z)
    BY <1>1, <1>3, <1>9
  <2> QED
    BY <1>9, <1>10, <1>11, <2>1
<1>14. ASSUME NEW i \in 1 .. Len(q)
       PROVE  /\ q[i].at <= e.at <=> i < p
              /\ i < p => s[i] = q[i]
              /\ i >= p => s[i + 1] = q[i]
  <2>1. q[i].at <= e.at <=> i < p
    BY <1>1, <1>3
  <2>2. ASSUME i < p
        PROVE  s[i] = q[i]
    <3>1. i \in 1 .. l /\ i \in 1 .. Len(z) + Len(y) /\ i <= Len(z)
      BY <1>1, <1>3, <1>9, <1>11, <2>2
    <3> QED
      BY <1>9, <1>10, <3>1
  <2>3. ASSUME i >= p
        PROVE  s[i + 1] = q[i]
    <3>1. i + 1 \in 1 .. Len(z) + Len(y) /\ ~ (i + 1 <= Len(z))
      BY <1>1, <1>3, <1>9, <1>11, <2>3
    <3>2. s[i + 1] = y[(i + 1) - Len(z)]
      BY <1>10, <3>1
    <3>3. (i + 1) - Len(z) = i - l /\ i - l \in 1 .. Len(q) - l /\ l + (i - l) = i
      BY <1>1, <1>3, <1>9, <2>3
    <3>4. y[i - l] = q[l + (i - l)]
      BY <1>6, <3>3
    <3> QED
      BY <3>2, <3>3, <3>4
  <2> QED
    BY <2>1, <2>2, <2>3
<1> HIDE DEF p
<1>15. \E p_1 \in 1 .. Len(q) + 1 :
              /\ s[p_1] = e
              /\ \A i \in 1 .. Len(q) :
                   /\ q[i].at <= e.at <=> i < p_1
                   /\ i < p_1 => s[i] = q[i]
                   /\ i >= p_1 => s[i + 1] = q[i]
  BY <1>13, <1>14
<1> QED
  BY <1>10, <1>12, <1>15 DEF s

\* A queue stays one when an event is scheduled of which there is none yet; a
\* stop is scheduled before the application schedules anything.
LEMMA ScheduleKeeps ==
  ASSUME NEW q, Queue(q), NEW e \in Ev,
         \A w \in Waiting(q) : ~ (w.app = e.app /\ Kind(w.do) = Kind(e.do)),
         e.do = "stop" => \A w \in Waiting(q) : ~ (w.app = e.app /\ w.do \in Own)
  PROVE  /\ Queue(Schedule(q, e))
         /\ Waiting(Schedule(q, e)) = Waiting(q) \cup {e}
<1> DEFINE s == Schedule(q, e)
           l == Len(q)
<1>1. q \in Seq(Ev) /\ Ordered(q) /\ l \in Nat /\ DOMAIN q = 1 .. l
  <2>1. q \in Seq(Ev) /\ Ordered(q)
    BY DEF Queue
  <2> QED
    BY <2>1, LenProperties
<1>2. /\ s \in Seq(Ev) /\ DOMAIN s = 1 .. l + 1
      /\ \E p \in 1 .. l + 1 :
              /\ s[p] = e
              /\ \A i \in 1 .. l :
                   /\ q[i].at <= e.at <=> i < p
                   /\ i < p => s[i] = q[i]
                   /\ i >= p => s[i + 1] = q[i]
  BY <1>1, ScheduleIs
<1> HIDE DEF s, l
<1>3. PICK p \in 1 .. l + 1 :
              /\ s[p] = e
              /\ \A i \in 1 .. l :
                   /\ q[i].at <= e.at <=> i < p
                   /\ i < p => s[i] = q[i]
                   /\ i >= p => s[i + 1] = q[i]
  BY <1>2
<1> DEFINE old(i) == IF i < p THEN i ELSE i - 1
<1>4. \A i \in DOMAIN s : i \in Int /\ (i # p => old(i) \in 1 .. l /\ s[i] = q[old(i)])
  <2> SUFFICES ASSUME NEW i \in DOMAIN s, i # p
               PROVE  old(i) \in 1 .. l /\ s[i] = q[old(i)]
    BY <1>1, <1>2
  <2>1. CASE i < p
    <3>1. i \in 1 .. l /\ old(i) = i
      BY <1>1, <1>2, <2>1
    <3> QED
      BY <1>3, <2>1, <3>1
  <2>2. CASE ~ (i < p)
    <3>1. i - 1 \in 1 .. l /\ i - 1 >= p /\ old(i) = i - 1 /\ (i - 1) + 1 = i
      BY <1>1, <1>2, <2>2
    <3> HIDE DEF old
    <3>2. s[(i - 1) + 1] = q[i - 1]
      BY <1>3, <3>1
    <3> QED
      BY <3>1, <3>2
  <2> QED
    BY <2>1, <2>2
<1>5. \A i, j \in DOMAIN s : i # p /\ j # p => (i < j <=> old(i) < old(j))
  BY <1>1, <1>2
<1>6. \A i \in DOMAIN s : i # p => (i < p <=> q[old(i)].at <= e.at)
  <2> SUFFICES ASSUME NEW i \in DOMAIN s, i # p
               PROVE  i < p <=> q[old(i)].at <= e.at
    OBVIOUS
  <2>1. i < p <=> old(i) < p
    BY <1>1, <1>2
  <2>2. old(i) \in 1 .. l
    BY <1>4
  <2> HIDE DEF old
  <2> QED
    BY <1>3, <2>1, <2>2
<1> HIDE DEF old
<1>7. e.at \in Nat /\ \A i \in 1 .. l : q[i].at \in Nat
  <2>1. \A i \in 1 .. l : q[i] \in Ev
    BY <1>1, ElementOfSeq
  <2> QED
    BY <2>1 DEF Ev
<1>8. Ordered(s)
  <2> SUFFICES ASSUME NEW i \in DOMAIN s, NEW j \in DOMAIN s, i < j
               PROVE  s[i].at <= s[j].at
    BY DEF Ordered
  <2>1. CASE i # p /\ j # p
    <3>1. old(i) \in DOMAIN q /\ old(j) \in DOMAIN q /\ old(i) < old(j)
      BY <1>1, <1>4, <1>5, <2>1
    <3>2. q[old(i)].at <= q[old(j)].at
      BY <1>1, <3>1 DEF Ordered
    <3> QED
      BY <1>4, <2>1, <3>2
  <2>2. CASE i = p
    <3>1. j # p /\ ~ (j < p) /\ old(j) \in 1 .. l /\ s[j] = q[old(j)]
      BY <1>4, <2>2
    <3>2. ~ (q[old(j)].at <= e.at)
      BY <1>6, <3>1
    <3> QED
      BY <1>3, <1>7, <2>2, <3>1, <3>2
  <2>3. CASE j = p
    <3>1. i # p /\ old(i) \in 1 .. l /\ s[i] = q[old(i)]
      BY <1>4, <2>3
    <3>2. q[old(i)].at <= e.at
      BY <1>6, <2>3, <3>1
    <3> QED
      BY <1>3, <2>3, <3>1, <3>2
  <2> QED
    BY <2>1, <2>2, <2>3
<1>9. \A i \in DOMAIN s : i # p => s[i] \in Waiting(q)
  BY <1>1, <1>4 DEF Waiting
<1>10. OnlyOne(s)
  <2> SUFFICES ASSUME NEW i \in DOMAIN s, NEW j \in DOMAIN s,
                      s[i].app = s[j].app, Kind(s[i].do) = Kind(s[j].do)
               PROVE  i = j
    BY DEF OnlyOne
  <2>1. CASE i # p /\ j # p
    <3>1. old(i) = old(j)
      BY <1>1, <1>4, <2>1 DEF Queue, OnlyOne
    <3>2. ~ (i < j) /\ ~ (j < i)
      <4>1. old(i) \in Int
        BY <1>1, <1>4, <2>1
      <4>2. ~ (old(i) < old(j)) /\ ~ (old(j) < old(i))
        BY <3>1, <4>1
      <4> QED
        BY <1>5, <2>1, <4>2
    <3> QED
      BY <1>4, <3>2
  <2>2. CASE i = p /\ j # p
    BY <1>3, <1>9, <2>2
  <2>3. CASE j = p /\ i # p
    BY <1>3, <1>9, <2>3
  <2> QED
    BY <2>1, <2>2, <2>3
<1>11. StopsFirst(s)
  <2> SUFFICES ASSUME NEW i \in DOMAIN s, NEW j \in DOMAIN s, s[i].app = s[j].app,
                      s[i].do \in Own, s[j].do = "stop", s[j].at <= s[i].at
               PROVE  j < i
    BY DEF StopsFirst
  <2>1. CASE i # p /\ j # p
    <3>1. old(j) < old(i)
      BY <1>1, <1>4, <2>1 DEF Queue, StopsFirst
    <3> QED
      BY <1>5, <2>1, <3>1
  <2>2. CASE i = p /\ j # p
    <3>1. s[j] = q[old(j)] /\ q[old(j)].at <= e.at
      BY <1>3, <1>4, <2>2
    <3> QED
      BY <1>6, <2>2, <3>1
  <2>3. CASE j = p /\ i # p
    BY <1>3, <1>9, <2>3
  <2>4. CASE i = p /\ j = p
    BY <1>3, <2>4 DEF Own
  <2> QED
    BY <2>1, <2>2, <2>3, <2>4
<1>12. Waiting(s) = Waiting(q) \cup {e}
  <2>1. \A i \in DOMAIN s : s[i] \in Waiting(q) \cup {e}
    BY <1>3, <1>9
  <2>2. e \in Waiting(s)
    BY <1>2, <1>3 DEF Waiting
  <2>3. ASSUME NEW i \in DOMAIN q
        PROVE  q[i] \in Waiting(s)
    <3>1. i \in 1 .. l /\ i \in DOMAIN s /\ i + 1 \in DOMAIN s
      BY <1>1, <1>2
    <3>2. q[i] = s[i] \/ q[i] = s[i + 1]
      BY <1>3, <3>1
    <3> QED
      BY <3>1, <3>2 DEF Waiting
  <2>4. \A x \in Waiting(s) : x \in Waiting(q) \cup {e}
    BY <2>1 DEF Waiting
  <2>5. \A x \in Waiting(q) : x \in Waiting(s)
    BY <2>3 DEF Waiting
  <2> QED
    BY <2>2, <2>4, <2>5
<1>13. Queue(s)
  BY <1>2, <1>8, <1>10, <1>11 DEF Queue
<1> QED
  BY <1>12, <1>13 DEF s

-----------------------------------------------------------------------------
(* The events that genTraffic leaves in the queue. *)

Request == [id : Nat, ingress : Nat, deploy : Nat, slot : Nat, served : BOOLEAN]

EndEvent == Event(End, 0, "end")

\* The end, and the start and the stop of every request up to the nth that has
\* traffic.
First(m, n) ==
  {EndEvent} \cup {Event(StartAt(m[i]), i, "start") : i \in {j \in 1 .. n : HasTraffic(m, j)}}
             \cup {Event(StopAt(m[i]), i, "stop") : i \in {j \in 1 .. n : HasTraffic(m, j)}}

\* f holds the queues that the loop of genTraffic goes through.
Adds(f, m, n) ==
  f = [i \in 0 .. n |-> IF i = 0 THEN <<EndEvent>> ELSE WithTraffic(f[i - 1], m, i)]

\* The times of the set-up are times, and a slot is between them.
LEMMA TimesAreNat ==
  /\ End \in Nat /\ SlotTicks \in Nat /\ SlotTicks # 0 /\ PktBits \in Nat /\ PktBits # 0
  /\ \A r \in Request : StartAt(r) \in Nat /\ StopAt(r) = StartAt(r) + SlotTicks
<1>1. /\ SlotNum \in Nat /\ SlotTicks \in Nat /\ SlotTicks # 0
      /\ PktBits \in Nat /\ PktBits # 0
  BY NetworkAssumption
<1>2. End \in Nat
  BY <1>1 DEF End
<1>3. ASSUME NEW r \in Request
      PROVE  StartAt(r) \in Nat /\ StopAt(r) = StartAt(r) + SlotTicks
  <2>1. r.slot \in Nat
    BY DEF Request
  <2>2. r.slot * SlotTicks \in Nat
    BY <1>1, <2>1
  <2>3. (r.slot + 1) * SlotTicks = r.slot * SlotTicks + SlotTicks
    BY <1>1, <2>1
  <2> QED
    BY <2>2, <2>3 DEF StartAt, StopAt
<1> QED
  BY <1>1, <1>2, <1>3

LEMMA LaterIsTime ==
  ASSUME NEW t \in Nat, NEW d \in Nat
  PROVE  t + d \in Nat /\ t <= t + d
OBVIOUS

\* The requests of a map are records, with names of their own.
LEMMA MapIsList ==
  ASSUME NEW m \in RequestMaps
  PROVE  /\ m \in Seq(Request) /\ Len(m) \in Nat /\ DOMAIN m = 1 .. Len(m)
         /\ \A i \in DOMAIN m : m[i] \in Request
         /\ \A i, j \in DOMAIN m : i < j => m[i].id # m[j].id
<1>1. m \in Seq(Request)
  BY NetworkAssumption DEF Request
<1>2. Len(m) \in Nat /\ DOMAIN m = 1 .. Len(m)
  BY <1>1, LenProperties
<1>3. \A i \in DOMAIN m : m[i] \in Request
  BY <1>1, <1>2, ElementOfSeq
<1>4. \A i, j \in DOMAIN m : i < j => m[i].id # m[j].id
  BY NetworkAssumption
<1> QED
  BY <1>1, <1>2, <1>3, <1>4

\* The loop has a sequence of queues, however many requests there are.
LEMMA AddsExist ==
  ASSUME NEW m, NEW n \in Nat
  PROVE  \E f : Adds(f, m, n)
<1> DEFINE S == {i \in 1 .. n : ~ \E f : Adds(f, m, i)}
<1>1. \E f : Adds(f, m, 0)
  <2> DEFINE f == [i \in 0 .. 0 |-> <<EndEvent>>]
  <2>1. \A i \in 0 .. 0 : i = 0
    OBVIOUS
  <2>2. Adds(f, m, 0)
    BY <2>1 DEF Adds
  <2> QED
    BY <2>2
<1>2. SUFFICES ASSUME S # {}
               PROVE  FALSE
  BY <1>1
<1>3. PICK i \in S : \A j \in S : i <= j
  <2>1. S \in SUBSET (1 .. n)
    OBVIOUS
  <2> HIDE DEF S
  <2> QED
    BY <1>2, <2>1, FirstPlace
<1>4. PICK f : Adds(f, m, i - 1)
  <2>1. CASE i = 1
    <3>1. i - 1 = 0
      BY <2>1
    <3> QED
      BY <1>1, <3>1
  <2>2. CASE i # 1
    <3>1. i - 1 \in 1 .. n /\ i - 1 < i
      BY <2>2
    <3>2. i - 1 \notin S
      BY <1>3, <3>1
    <3> QED
      BY <3>1, <3>2
  <2> QED
    BY <2>1, <2>2
<1> DEFINE g == [j \in 0 .. i |-> IF j = i THEN WithTraffic(f[i - 1], m, i) ELSE f[j]]
<1>5. \A j \in 0 .. i : g[j] = IF j = 0 THEN <<EndEvent>> ELSE WithTraffic(g[j - 1], m, j)
  <2> SUFFICES ASSUME NEW j \in 0 .. i
               PROVE  g[j] = IF j = 0 THEN <<EndEvent>> ELSE WithTraffic(g[j - 1], m, j)
    OBVIOUS
  <2>1. i \in Nat /\ i # 0
    OBVIOUS
  <2>2. CASE j = i
    <3>1. j # 0 /\ j - 1 \in 0 .. i /\ j - 1 # i
      BY <2>1, <2>2
    <3>2. g[j - 1] = f[i - 1] /\ g[j] = WithTraffic(f[i - 1], m, i)
      BY <2>2, <3>1
    <3> QED
      BY <2>2, <3>1, <3>2
  <2>3. CASE j # i
    <3>1. j \in 0 .. (i - 1) /\ g[j] = f[j]
      BY <2>1, <2>3
    <3>2. f[j] = IF j = 0 THEN <<EndEvent>> ELSE WithTraffic(f[j - 1], m, j)
      BY <1>4, <3>1 DEF Adds
    <3>3. j # 0 => j - 1 \in 0 .. i /\ j - 1 # i
      BY <2>1, <2>3
    <3>4. j # 0 => g[j - 1] = f[j - 1]
      BY <3>3
    <3> HIDE DEF g
    <3> QED
      BY <3>1, <3>2, <3>4
  <2> QED
    BY <2>2, <2>3
<1>6. g = [j \in 0 .. i |-> g[j]]
  OBVIOUS
<1>7. Adds(g, m, i)
  <2> HIDE DEF g
  <2> QED
    BY <1>5, <1>6 DEF Adds
<1>8. i \notin S
  BY <1>7
<1> QED
  BY <1>3, <1>8

\* The events of one more request: a queue stays a queue.
LEMMA WithTrafficKeeps ==
  ASSUME NEW m \in RequestMaps, NEW n \in DOMAIN m,
         NEW q, Queue(q), Waiting(q) = First(m, n - 1)
  PROVE  /\ Queue(WithTraffic(q, m, n))
         /\ Waiting(WithTraffic(q, m, n)) = First(m, n)
<1>1. n \in Nat \ {0} /\ m[n] \in Request
  BY MapIsList
<1>2. \A e \in Waiting(q) : e.app # n
  BY <1>1 DEF First, Event, EndEvent
<1>3. \A i \in 1 .. n : i = n \/ i \in 1 .. n - 1
  BY <1>1
<1>4. \A i \in 1 .. n - 1 : i \in 1 .. n
  BY <1>1
<1>5. CASE ~ HasTraffic(m, n)
  <2>1. WithTraffic(q, m, n) = q
    BY <1>5 DEF WithTraffic
  <2>2. \A j : j \in 1 .. n /\ HasTraffic(m, j) <=> j \in 1 .. n - 1 /\ HasTraffic(m, j)
    BY <1>3, <1>4, <1>5
  <2>3. {j \in 1 .. n : HasTraffic(m, j)} = {j \in 1 .. n - 1 : HasTraffic(m, j)}
    BY <2>2
  <2>4. First(m, n) = First(m, n - 1)
    BY <2>3 DEF First
  <2> QED
    BY <2>1, <2>4
<1>6. CASE HasTraffic(m, n)
  <2> DEFINE b == Event(StartAt(m[n]), n, "start")
             e == Event(StopAt(m[n]), n, "stop")
             w == Schedule(q, b)
  <2>1. b \in Ev /\ e \in Ev
    BY <1>1, TimesAreNat DEF Event, Ev, Doings
  <2>2. b.app = n /\ b.do = "start" /\ e.app = n /\ e.do = "stop"
    BY DEF Event
  <2>3. WithTraffic(q, m, n) = Schedule(w, e)
    BY <1>6 DEF WithTraffic
  <2> HIDE DEF b, e
  <2>4. Queue(w) /\ Waiting(w) = Waiting(q) \cup {b}
    <3>1. \A x \in Waiting(q) : ~ (x.app = b.app /\ Kind(x.do) = Kind(b.do))
      BY <1>2, <2>2
    <3>2. b.do = "stop" => \A x \in Waiting(q) : ~ (x.app = b.app /\ x.do \in Own)
      BY <2>2
    <3> QED
      BY <2>1, <3>1, <3>2, ScheduleKeeps
  <2> HIDE DEF w
  <2>5. Queue(Schedule(w, e)) /\ Waiting(Schedule(w, e)) = Waiting(w) \cup {e}
    <3>1. \A x \in Waiting(w) : ~ (x.app = e.app /\ Kind(x.do) = Kind(e.do))
      BY <1>2, <2>2, <2>4 DEF Kind
    <3>2. e.do = "stop" => \A x \in Waiting(w) : ~ (x.app = e.app /\ x.do \in Own)
      BY <1>2, <2>2, <2>4 DEF Own
    <3> QED
      BY <2>1, <2>4, <3>1, <3>2, ScheduleKeeps
  <2>6. {j \in 1 .. n : HasTraffic(m, j)} = {j \in 1 .. n - 1 : HasTraffic(m, j)} \cup {n}
    <3>1. \A j : j \in 1 .. n /\ HasTraffic(m, j)
                 <=> (j \in 1 .. n - 1 /\ HasTraffic(m, j)) \/ j = n
      BY <1>1, <1>3, <1>4, <1>6
    <3> QED
      BY <3>1
  <2>7. First(m, n) = (First(m, n - 1) \cup {b}) \cup {e}
    <3> DEFINE Q == {j \in 1 .. n - 1 : HasTraffic(m, j)}
               R == {j \in 1 .. n : HasTraffic(m, j)}
               starts(T) == {Event(StartAt(m[i]), i, "start") : i \in T}
               stops(T) == {Event(StopAt(m[i]), i, "stop") : i \in T}
    <3>1. R = Q \cup {n}
      BY <2>6
    <3>2. First(m, n) = {EndEvent} \cup starts(R) \cup stops(R)
      BY DEF First
    <3>3. First(m, n - 1) = {EndEvent} \cup starts(Q) \cup stops(Q)
      BY DEF First
    <3> HIDE DEF Q, R
    <3>4. starts(R) = starts(Q) \cup {b} /\ stops(R) = stops(Q) \cup {e}
      BY <3>1 DEF b, e
    <3> HIDE DEF starts, stops
    <3> QED
      BY <3>2, <3>3, <3>4
  <2> QED
    BY <2>3, <2>4, <2>5, <2>7
<1> QED
  BY <1>5, <1>6

\* What genTraffic leaves behind is a queue with the end of the simulation, and
\* the start and the stop of every request that has traffic.
LEMMA FirstEventsAre ==
  ASSUME NEW m \in RequestMaps
  PROVE  Queue(FirstEvents(m)) /\ Waiting(FirstEvents(m)) = First(m, Len(m))
<1> DEFINE L == Len(m)
           f == CHOOSE g : Adds(g, m, L)
<1>1. L \in Nat /\ DOMAIN m = 1 .. L
  BY MapIsList
<1>2. FirstEvents(m) = f[L]
  BY DEF FirstEvents, Adds, EndEvent
<1>3. Adds(f, m, L)
  BY <1>1, AddsExist
<1> HIDE DEF f, L
<1>4. \A n \in 0 .. L : f[n] = IF n = 0 THEN <<EndEvent>> ELSE WithTraffic(f[n - 1], m, n)
  BY <1>3 DEF Adds
<1> DEFINE P(n) == Queue(f[n]) /\ Waiting(f[n]) = First(m, n)
<1>5. P(0)
  <2> DEFINE q == <<EndEvent>>
  <2>1. f[0] = q
    BY <1>1, <1>4
  <2>2. EndEvent \in Ev
    BY TimesAreNat DEF EndEvent, Event, Ev, Doings
  <2>3. q \in Seq(Ev) /\ DOMAIN q = {1} /\ q[1] = EndEvent
    BY <2>2
  <2> HIDE DEF q
  <2>4. Queue(q)
    <3>1. \A i, j \in DOMAIN q : i = j /\ ~ (i < j) /\ q[i] = EndEvent
      BY <2>3
    <3>2. EndEvent.do \notin Own
      BY DEF EndEvent, Event, Own
    <3> QED
      BY <2>3, <3>1, <3>2 DEF Queue, Ordered, OnlyOne, StopsFirst
  <2>5. Waiting(q) = {EndEvent}
    BY <2>3 DEF Waiting
  <2>6. First(m, 0) = {EndEvent}
    <3>1. {j \in 1 .. 0 : HasTraffic(m, j)} = {}
      OBVIOUS
    <3> QED
      BY <3>1 DEF First
  <2> QED
    BY <2>1, <2>4, <2>5, <2>6
<1>6. ASSUME NEW n \in 1 .. L, P(n - 1)
      PROVE  P(n)
  <2>1. n \in DOMAIN m /\ f[n] = WithTraffic(f[n - 1], m, n)
    BY <1>1, <1>4
  <2> DEFINE q == f[n - 1]
  <2>2. Queue(q) /\ Waiting(q) = First(m, n - 1)
    BY <1>6
  <2> HIDE DEF q
  <2>3. Queue(WithTraffic(q, m, n)) /\ Waiting(WithTraffic(q, m, n)) = First(m, n)
    BY <2>1, <2>2, WithTrafficKeeps
  <2> QED
    BY <2>1, <2>3 DEF q
<1> DEFINE S == {n \in 1 .. L : ~ P(n)}
<1>7. S = {}
  <2> SUFFICES ASSUME S # {}
               PROVE  FALSE
    OBVIOUS
  <2>1. PICK n \in S : \A j \in S : n <= j
    <3>1. S \in SUBSET (1 .. L)
      OBVIOUS
    <3> HIDE DEF S
    <3> QED
      BY <1>1, <3>1, FirstPlace
  <2>2. n \in 1 .. L /\ ~ P(n)
    OBVIOUS
  <2>3. P(n - 1)
    <3>1. CASE n = 1
      BY <1>5, <3>1
    <3>2. CASE n # 1
      <4>1. n - 1 \in 1 .. L /\ n - 1 < n /\ n \in Int
        BY <1>1, <2>2, <3>2
      <4>2. n - 1 \notin S
        BY <2>1, <4>1
      <4> HIDE DEF P
      <4> QED
        BY <4>1, <4>2
    <3> QED
      BY <3>1, <3>2
  <2> HIDE DEF P
  <2> QED
    BY <1>6, <2>2, <2>3
<1>8. P(L)
  <2>1. CASE L = 0
    BY <1>5, <2>1
  <2>2. CASE L # 0
    <3>1. L \in 1 .. L
      BY <1>1, <2>2
    <3> HIDE DEF P
    <3> QED
      BY <1>7, <3>1
  <2> QED
    BY <2>1, <2>2
<1> QED
  BY <1>2, <1>8 DEF L

-----------------------------------------------------------------------------
(* The inductive invariant. *)

AppState ==
  [socket : {"none", "open", "closed"}, residual : Nat, lastStart : Nat, sent : Nat,
   unsent : BOOLEAN]

NetTypes ==
  /\ requests \in RequestMaps
  /\ onTime \in Nat \ {0} /\ offTime \in Nat /\ maxBits \in Nat
  /\ now \in Nat /\ now <= End
  /\ app \in [Apps -> AppState]
  /\ wire \in [Apps -> Nat]
  /\ pc \in {"running", "stopped", "exited"}

\* The queue holds nothing of the past, and the end until it has come.
QueueInv ==
  /\ Queue(events)
  /\ pc = "running" => EndEvent \in Waiting(events)
  /\ \A e \in Waiting(events) : now <= e.at /\ (e = EndEvent \/ e.app \in Apps)

\* What waits for application a agrees with its state.
EventOK(a, e) ==
  /\ HasTraffic(requests, a)
  /\ e.do # "end"
  /\ e.do = "start" => /\ e.at = StartAt(requests[a]) /\ app[a] = NoApp
                       /\ Event(StopAt(requests[a]), a, "stop") \in Waiting(events)
  /\ e.do = "stop" => e.at = StopAt(requests[a])
  /\ e.do \in Own => app[a].socket = "open"
  /\ e.do = "send" => e.at = app[a].lastStart + PktBits - app[a].residual
  /\ e.do = "on" => \A w \in Waiting(events) : ~ (w.app = a /\ w.do = "send")

\* An open application was started and will be stopped, and the bits it carries
\* over are less than a packet or one.
AppOK(a) ==
  /\ \A e \in Waiting(events) : e.app = a => EventOK(a, e)
  /\ app[a].lastStart <= now /\ app[a].residual <= PktBits
  /\ app[a].socket = "open" => StartAt(requests[a]) <= now
  /\ app[a].socket = "open" /\ pc # "stopped" =>
       Event(StopAt(requests[a]), a, "stop") \in Waiting(events)
  /\ wire[a] > 0 => HasTraffic(requests, a)

NetInv == NetTypes /\ QueueInv /\ \A a \in Apps : AppOK(a)

\* An application that will be stopped was started or will be; one that never
\* pauses and has sent nothing, though nothing was refused, waits for its first
\* packet.
Waits(a) ==
  pc = "running" =>
    /\ Event(StopAt(requests[a]), a, "stop") \in Waiting(events) =>
         \/ app[a].socket = "open"
         \/ Event(StartAt(requests[a]), a, "start") \in Waiting(events)
    /\ (offTime = 0 /\ onTime >= SlotTicks) =>
         /\ \A e \in Waiting(events) :
              e.app = a /\ e.do = "off" => e.at >= StopAt(requests[a])
         /\ (app[a].socket = "open" /\ app[a].sent = 0 /\ ~ app[a].unsent) =>
              /\ app[a].residual = 0
              /\ \/ Event(StartAt(requests[a]), a, "on") \in Waiting(events)
                 \/ Event(StartAt(requests[a]) + PktBits, a, "send") \in Waiting(events)

WaitsInv == \A a \in Apps : Waits(a)

\* At the start nothing is under way.
LEMMA NetInvInit == Init => NetInv /\ WaitsInv
<1> SUFFICES ASSUME Init
             PROVE  NetInv /\ WaitsInv
  OBVIOUS
<1> DEFINE L == Len(requests)
           R == {j \in 1 .. L : HasTraffic(requests, j)}
<1>1. /\ requests \in RequestMaps /\ Apps = 1 .. L /\ L \in Nat
      /\ \A i \in Apps : requests[i] \in Request
  BY MapIsList DEF Init, Apps
<1>2. Queue(events) /\ Waiting(events) = First(requests, L)
  BY <1>1, FirstEventsAre DEF Init
<1>3. NetTypes
  <2>1. NoApp \in AppState
    BY DEF NoApp, AppState
  <2>2. onTime \in Nat \ {0} /\ offTime \in Nat /\ maxBits \in Nat
    BY NetworkAssumption DEF Init
  <2>3. now \in Nat /\ now <= End
    BY TimesAreNat DEF Init
  <2>4. app \in [Apps -> AppState] /\ wire \in [Apps -> Nat]
    BY <2>1 DEF Init, Apps
  <2>5. pc = "running"
    BY DEF Init
  <2> QED
    BY <1>1, <2>2, <2>3, <2>4, <2>5 DEF NetTypes
<1>4. /\ Waiting(events) = {EndEvent} \cup {Event(StartAt(requests[i]), i, "start") : i \in R}
                              \cup {Event(StopAt(requests[i]), i, "stop") : i \in R}
      /\ R \subseteq Apps
  BY <1>1, <1>2 DEF First
<1> HIDE DEF R, L
<1>5. ASSUME NEW e \in Waiting(events), e # EndEvent
      PROVE  /\ e.app \in Apps /\ HasTraffic(requests, e.app)
             /\ \/ e = Event(StartAt(requests[e.app]), e.app, "start")
                \/ e = Event(StopAt(requests[e.app]), e.app, "stop")
             /\ Event(StopAt(requests[e.app]), e.app, "stop") \in Waiting(events)
  <2>1. PICK i \in R : \/ e = Event(StartAt(requests[i]), i, "start")
                       \/ e = Event(StopAt(requests[i]), i, "stop")
    BY <1>4, <1>5
  <2>2. e.app = i
    BY <2>1 DEF Event
  <2>3. HasTraffic(requests, i)
    BY <2>1 DEF R
  <2> QED
    BY <1>4, <2>1, <2>2, <2>3
<1>6. EndEvent \in Waiting(events) /\ EndEvent.app = 0 /\ 0 \notin Apps
  BY <1>1, <1>4 DEF EndEvent, Event
<1>7. QueueInv
  <2>1. ASSUME NEW e \in Waiting(events)
        PROVE  now <= e.at /\ (e = EndEvent \/ e.app \in Apps)
    <3>1. e.at \in Nat
      <4>1. events \in Seq(Ev)
        BY <1>2 DEF Queue
      <4>2. e \in Ev
        BY <4>1, ElementOfSeq, LenProperties DEF Waiting
      <4> QED
        BY <4>2 DEF Ev
    <3>2. now = 0
      BY DEF Init
    <3> QED
      BY <1>5, <3>1, <3>2
  <2> QED
    BY <1>2, <1>6, <2>1 DEF QueueInv
<1>8. ASSUME NEW a \in Apps
      PROVE  AppOK(a)
  <2>1. app[a] = NoApp /\ wire[a] = 0 /\ now = 0
    BY <1>1, <1>8 DEF Init, Apps
  <2>2. ASSUME NEW e \in Waiting(events), e.app = a
        PROVE  EventOK(a, e)
    <3>1. e # EndEvent
      BY <1>6, <2>2
    <3>2. /\ HasTraffic(requests, a)
          /\ \/ e = Event(StartAt(requests[a]), a, "start")
             \/ e = Event(StopAt(requests[a]), a, "stop")
          /\ Event(StopAt(requests[a]), a, "stop") \in Waiting(events)
      BY <1>5, <2>2, <3>1
    <3> QED
      BY <2>1, <3>2 DEF EventOK, Event, Own
  <2> QED
    BY <2>1, <2>2, TimesAreNat DEF AppOK, NoApp
<1>9. ASSUME NEW a \in Apps
      PROVE  Waits(a)
  <2>1. app[a].socket = "none"
    BY <1>1, <1>9 DEF Init, Apps, NoApp
  <2>2. ASSUME NEW e \in Waiting(events)
        PROVE  e.do # "off"
    <3>1. CASE e = EndEvent
      BY <3>1 DEF Event, EndEvent
    <3>2. CASE e # EndEvent
      <4>1. \/ e = Event(StartAt(requests[e.app]), e.app, "start")
            \/ e = Event(StopAt(requests[e.app]), e.app, "stop")
        BY <1>5, <3>2
      <4> QED
        BY <4>1 DEF Event
    <3> QED
      BY <3>1, <3>2
  <2>3. Event(StopAt(requests[a]), a, "stop") \in Waiting(events) =>
          Event(StartAt(requests[a]), a, "start") \in Waiting(events)
    <3> SUFFICES ASSUME Event(StopAt(requests[a]), a, "stop") \in Waiting(events)
                 PROVE  Event(StartAt(requests[a]), a, "start") \in Waiting(events)
      OBVIOUS
    <3> DEFINE z == Event(StopAt(requests[a]), a, "stop")
    <3>1. z.app = a /\ z.do = "stop" /\ EndEvent.do = "end"
      BY DEF Event, EndEvent
    <3>2. PICK i \in R : \/ z = Event(StartAt(requests[i]), i, "start")
                         \/ z = Event(StopAt(requests[i]), i, "stop")
      BY <1>4, <3>1
    <3>3. i = a
      BY <3>1, <3>2 DEF Event
    <3> QED
      BY <1>4, <3>3
  <2> QED
    BY <2>1, <2>2, <2>3 DEF Waits
<1> QED
  BY <1>3, <1>7, <1>8, <1>9 DEF NetInv, WaitsInv

-----------------------------------------------------------------------------
(* What the handlers do to the queue. *)

\* The event that is due is the first to wait for, and no other is of its kind.
LEMMA DueIs ==
  ASSUME NetInv, NEW a, NEW what, Due(a, what)
  PROVE  /\ pc = "running" /\ now' \in Nat /\ now <= now' /\ now' <= End
         /\ Event(now', a, what) \in Waiting(events) /\ Event(now', a, what) \in Ev
         /\ Queue(Tail(events))
         /\ Waiting(Tail(events)) = Waiting(events) \ {Event(now', a, what)}
         /\ \A w \in Waiting(events) :
              /\ now' <= w.at
              /\ w.app = a /\ Kind(w.do) = Kind(what) => w = Event(now', a, what)
              /\ w.app = a /\ w.do = "stop" /\ what \in Own => now' < w.at
<1> DEFINE h == Head(events)
<1>1. pc = "running" /\ h.app = a /\ h.do = what /\ now' = h.at
  BY DEF Due
<1>2. Queue(events) /\ EndEvent \in Waiting(events)
  BY <1>1 DEF NetInv, QueueInv
<1>3. events # <<>>
  <2>1. DOMAIN events # {}
    BY <1>2 DEF Waiting
  <2>2. DOMAIN <<>> = {}
    OBVIOUS
  <2> QED
    BY <2>1, <2>2
<1>4. /\ Queue(Tail(events)) /\ h \in Waiting(events) /\ h \in Ev
      /\ Waiting(Tail(events)) = Waiting(events) \ {h}
      /\ \A e \in Waiting(events) :
              /\ h.at <= e.at
              /\ e.app = h.app /\ Kind(e.do) = Kind(h.do) => e = h
              /\ (e.app = h.app /\ e.do = "stop" /\ h.do \in Own) => h.at < e.at
  BY <1>2, <1>3, TailIs
<1> HIDE DEF h
<1>5. h = Event(now', a, what)
  BY <1>1, <1>4 DEF Ev, Event
<1>6. now' \in Nat /\ now <= now' /\ now' <= End
  <2>1. EndEvent.at = End
    BY DEF EndEvent, Event
  <2>2. now <= h.at /\ h.at <= End
    BY <1>2, <1>4, <2>1 DEF NetInv, QueueInv
  <2>3. h.at \in Nat
    BY <1>4 DEF Ev
  <2> QED
    BY <1>1, <2>2, <2>3
<1> QED
  BY <1>1, <1>4, <1>5, <1>6

\* The events of one application.
Of(q, a) == {e \in Waiting(q) : e.app = a}

\* What a handler of application a leaves alone.
Moved(a) ==
  /\ now' \in Nat /\ now <= now' /\ now' <= End
  /\ Queue(events')
  /\ \A e \in Waiting(events) : now' <= e.at
  /\ \A e \in Waiting(events') : now' <= e.at
  /\ \A b : b # a => Of(events', b) = Of(events, b)
  /\ \A b \in Apps : b # a => app'[b] = app[b]
  /\ app' \in [Apps -> AppState]
  /\ UNCHANGED <<choices, results>>

\* CancelEvents, field by field.
LEMMA CancelEventsIs ==
  ASSUME NetInv, NEW a \in Apps, NEW t \in Nat, now <= t
  PROVE  /\ CancelEvents(a, t) \in AppState
         /\ CancelEvents(a, t).socket = app[a].socket
         /\ CancelEvents(a, t).lastStart = app[a].lastStart
         /\ CancelEvents(a, t).sent = app[a].sent
         /\ CancelEvents(a, t).unsent = FALSE
         /\ CancelEvents(a, t).residual =
              app[a].residual + IF \E e \in Of(events, a) : e.do = "send"
                                THEN t - app[a].lastStart ELSE 0
<1> DEFINE x == IF Pending(events, a, "send") THEN t - app[a].lastStart ELSE 0
           c == CancelEvents(a, t)
<1>1. app[a] \in AppState /\ app[a].lastStart <= now /\ now \in Nat
  BY DEF NetInv, NetTypes, AppOK
<1>2. c = [app[a] EXCEPT !.residual = @ + x, !.unsent = FALSE]
  BY DEF CancelEvents, Begun
<1>3. x \in Nat
  BY <1>1 DEF AppState
<1>4. Pending(events, a, "send") <=> \E e \in Of(events, a) : e.do = "send"
  BY DEF Pending, Of, Waiting
<1> HIDE DEF x, c
<1>5. /\ c.socket = app[a].socket /\ c.lastStart = app[a].lastStart /\ c.sent = app[a].sent
      /\ c.unsent = FALSE /\ c.residual = app[a].residual + x
  BY <1>1, <1>2 DEF AppState
<1>6. c \in AppState
  <2>1. app[a].residual + x \in Nat
    BY <1>1, <1>3 DEF AppState
  <2> QED
    BY <1>1, <1>2, <2>1 DEF AppState
<1> QED
  BY <1>4, <1>5, <1>6 DEF x, c

\* What is due for an application agrees with its state.
LEMMA DueEventOK ==
  ASSUME NetInv, NEW a \in Apps, NEW what, Due(a, what)
  PROVE  EventOK(a, Event(now', a, what)) /\ 0 \notin Apps /\ a # 0
<1>1. Event(now', a, what) \in Waiting(events) /\ Event(now', a, what).app = a
  BY DueIs DEF Event
<1>2. 0 \notin Apps
  BY MapIsList DEF NetInv, NetTypes, Apps
<1> QED
  BY <1>1, <1>2 DEF NetInv, AppOK

LEMMA StartEffect ==
  ASSUME NetInv, NEW a \in Apps, StartApplication(a)
  PROVE  /\ Moved(a) /\ pc = "running" /\ pc' = pc /\ wire' = wire
         /\ now' = StartAt(requests[a]) /\ app[a] = NoApp
         /\ app'[a] = [socket |-> "open", residual |-> 0, lastStart |-> 0,
                       sent |-> 0, unsent |-> FALSE]
         /\ Of(events', a) = {e \in Of(events, a) : e.do \notin Own \cup {"start"}}
                               \cup {Event(now' + offTime, a, "on")}
         /\ HasTraffic(requests, a)
<1> DEFINE b == Event(now', a, "start")
           e == Event(now' + offTime, a, "on")
           q == Cancel(Tail(events), a)
<1>1. Due(a, "start")
  BY DEF StartApplication
<1>2. /\ pc = "running" /\ now' \in Nat /\ now <= now' /\ now' <= End
      /\ b \in Waiting(events) /\ b \in Ev
      /\ Queue(Tail(events))
      /\ Waiting(Tail(events)) = Waiting(events) \ {b}
      /\ \A w \in Waiting(events) :
              /\ now' <= w.at
              /\ w.app = a /\ Kind(w.do) = Kind("start") => w = b
              /\ w.app = a /\ w.do = "stop" /\ "start" \in Own => now' < w.at
  BY <1>1, DueIs
<1>3. EventOK(a, b) /\ b.do = "start" /\ b.app = a /\ b.at = now'
  BY <1>1, DueEventOK DEF Event
<1>4. now' = StartAt(requests[a]) /\ app[a] = NoApp /\ HasTraffic(requests, a)
  BY <1>3 DEF EventOK
<1>5. /\ Queue(q)
      /\ Waiting(q) = {w \in Waiting(Tail(events)) : ~ (w.app = a /\ w.do \in Own)}
  BY <1>2, CancelIs
<1>6. e \in Ev /\ e.app = a /\ e.do = "on" /\ e.at = now' + offTime /\ now' <= e.at
  <2>1. now' + offTime \in Nat /\ now' <= now' + offTime
    <3>1. now' \in Nat /\ offTime \in Nat
      BY <1>2 DEF NetInv, NetTypes
    <3> QED
      BY <3>1, LaterIsTime
  <2>2. a \in Nat
    BY <1>2 DEF Ev, Event
  <2> QED
    BY <2>1, <2>2 DEF Ev, Event, Doings
<1>7. events' = Schedule(q, e)
  BY DEF StartApplication
<1> HIDE DEF b, e, q
<1>8. Queue(Schedule(q, e)) /\ Waiting(Schedule(q, e)) = Waiting(q) \cup {e}
  <2>1. \A w \in Waiting(q) : ~ (w.app = e.app /\ Kind(w.do) = Kind(e.do))
    <3>1. \A w \in Waiting(q) : Kind(w.do) = Kind("on") <=> w.do \in {"on", "off"}
      BY <1>5, QueueHasEvents
    <3> QED
      BY <1>5, <1>6, <3>1 DEF Own
  <2>2. e.do = "stop" => \A w \in Waiting(q) : ~ (w.app = e.app /\ w.do \in Own)
    BY <1>6
  <2> QED
    BY <1>5, <1>6, <2>1, <2>2, ScheduleKeeps
<1>9. Queue(events') /\ Waiting(events') = Waiting(q) \cup {e}
  BY <1>7, <1>8
<1>10. \A w \in Waiting(events') : now' <= w.at
  BY <1>2, <1>5, <1>6, <1>9
<1>11. \A c : c # a => Of(events', c) = Of(events, c)
  BY <1>2, <1>3, <1>5, <1>6, <1>9 DEF Of
<1>12. Of(events', a) = {w \in Of(events, a) : w.do \notin Own \cup {"start"}} \cup {e}
  <2>1. \A w \in Waiting(events) : w.app = a => (w.do = "start" <=> w = b)
    BY <1>2, <1>3
  <2> QED
    BY <1>2, <1>5, <1>6, <1>9, <2>1 DEF Of
<1>13. app' = [app EXCEPT ![a] = [CancelEvents(a, now') EXCEPT !.socket = "open"]]
  BY DEF StartApplication
<1>14. app'[a] = [socket |-> "open", residual |-> 0, lastStart |-> 0,
                  sent |-> 0, unsent |-> FALSE]
  <2>1. ~ \E w \in Of(events, a) : w.do = "send"
    <3>1. \A w \in Of(events, a) : EventOK(a, w)
      BY DEF NetInv, AppOK, Of
    <3> QED
      BY <1>4, <3>1 DEF EventOK, Own, NoApp
  <2> DEFINE c == CancelEvents(a, now')
  <2>2. /\ c \in AppState /\ c.lastStart = app[a].lastStart /\ c.sent = app[a].sent
        /\ c.unsent = FALSE /\ c.residual = app[a].residual + 0
    BY <1>2, <2>1, CancelEventsIs
  <2>3. app'[a] = [c EXCEPT !.socket = "open"]
    BY <1>13 DEF NetInv, NetTypes
  <2> HIDE DEF c
  <2>4. c.residual = 0 /\ c.lastStart = 0 /\ c.sent = 0
    BY <1>4, <2>2 DEF NoApp
  <2> QED
    BY <2>2, <2>3, <2>4 DEF AppState
<1>15. app' \in [Apps -> AppState] /\ \A c \in Apps : c # a => app'[c] = app[c]
  <2>1. app'[a] \in AppState
    BY <1>14 DEF AppState
  <2>2. app \in [Apps -> AppState]
    BY DEF NetInv, NetTypes
  <2>3. app' \in [Apps -> AppState]
    BY <1>13, <2>1, <2>2
  <2> QED
    BY <1>13, <2>2, <2>3
<1>16. UNCHANGED <<choices, results>> /\ pc' = pc /\ wire' = wire
  BY DEF StartApplication
<1> QED
  BY <1>2, <1>4, <1>9, <1>10, <1>11, <1>12, <1>14, <1>15, <1>16 DEF Moved, e

LEMMA StopEffect ==
  ASSUME NetInv, NEW a \in Apps, StopApplication(a)
  PROVE  /\ Moved(a) /\ pc = "running" /\ pc' = pc /\ wire' = wire
         /\ now' = StopAt(requests[a])
         /\ app'[a].socket = "closed" /\ app'[a].lastStart = app[a].lastStart
         /\ app'[a].sent = app[a].sent
         /\ app'[a].residual =
              app[a].residual + IF \E e \in Of(events, a) : e.do = "send"
                                THEN now' - app[a].lastStart ELSE 0
         /\ Of(events', a) = {e \in Of(events, a) : e.do \notin Own \cup {"stop"}}
         /\ HasTraffic(requests, a)
<1> DEFINE b == Event(now', a, "stop")
           q == Cancel(Tail(events), a)
<1>1. Due(a, "stop")
  BY DEF StopApplication
<1>2. /\ pc = "running" /\ now' \in Nat /\ now <= now' /\ now' <= End
      /\ b \in Waiting(events) /\ b \in Ev
      /\ Queue(Tail(events))
      /\ Waiting(Tail(events)) = Waiting(events) \ {b}
      /\ \A w \in Waiting(events) :
              /\ now' <= w.at
              /\ w.app = a /\ Kind(w.do) = Kind("stop") => w = b
              /\ w.app = a /\ w.do = "stop" /\ "stop" \in Own => now' < w.at
  BY <1>1, DueIs
<1>3. EventOK(a, b) /\ b.do = "stop" /\ b.app = a /\ b.at = now'
  BY <1>1, DueEventOK DEF Event
<1>4. now' = StopAt(requests[a]) /\ HasTraffic(requests, a)
  BY <1>3 DEF EventOK
<1>5. /\ Queue(q)
      /\ Waiting(q) = {w \in Waiting(Tail(events)) : ~ (w.app = a /\ w.do \in Own)}
  BY <1>2, CancelIs
<1>6. events' = q
  BY DEF StopApplication
<1> HIDE DEF b, q
<1>7. Queue(events') /\ Waiting(events') = Waiting(q)
  BY <1>5, <1>6
<1>8. \A w \in Waiting(events') : now' <= w.at
  BY <1>2, <1>5, <1>7
<1>9. \A c : c # a => Of(events', c) = Of(events, c)
  BY <1>2, <1>3, <1>5, <1>7 DEF Of
<1>10. Of(events', a) = {w \in Of(events, a) : w.do \notin Own \cup {"stop"}}
  <2>1. \A w \in Waiting(events) : w.app = a => (w.do = "stop" <=> w = b)
    BY <1>2, <1>3
  <2> QED
    BY <1>2, <1>5, <1>7, <2>1 DEF Of
<1>11. app' = [app EXCEPT ![a] = [CancelEvents(a, now') EXCEPT !.socket = "closed"]]
  BY DEF StopApplication
<1> DEFINE s == CancelEvents(a, now')
<1>12. /\ s \in AppState /\ s.lastStart = app[a].lastStart /\ s.sent = app[a].sent
       /\ s.residual = app[a].residual + IF \E e \in Of(events, a) : e.do = "send"
                                         THEN now' - app[a].lastStart ELSE 0
  BY <1>2, CancelEventsIs
<1>13. app'[a] = [s EXCEPT !.socket = "closed"]
  BY <1>11 DEF NetInv, NetTypes
<1> HIDE DEF s
<1>14. /\ app'[a].socket = "closed" /\ app'[a].lastStart = s.lastStart
       /\ app'[a].residual = s.residual /\ app'[a].sent = s.sent /\ app'[a] \in AppState
  BY <1>12, <1>13 DEF AppState
<1>15. app' \in [Apps -> AppState] /\ \A c \in Apps : c # a => app'[c] = app[c]
  <2>1. app \in [Apps -> AppState]
    BY DEF NetInv, NetTypes
  <2>2. app' \in [Apps -> AppState]
    BY <1>11, <1>13, <1>14, <2>1
  <2> QED
    BY <1>11, <2>1, <2>2
<1>16. UNCHANGED <<choices, results>> /\ pc' = pc /\ wire' = wire
  BY DEF StopApplication
<1> QED
  BY <1>2, <1>4, <1>7, <1>8, <1>9, <1>10, <1>12, <1>14, <1>15, <1>16 DEF Moved

LEMMA OffEffect ==
  ASSUME NetInv, NEW a \in Apps, StopSending(a)
  PROVE  /\ Moved(a) /\ pc = "running" /\ pc' = pc /\ wire' = wire
         /\ Event(now', a, "off") \in Of(events, a)
         /\ app[a].socket = "open"
         /\ \E e \in Waiting(events) :
              e = Event(StopAt(requests[a]), a, "stop") /\ now' < e.at
         /\ app'[a].socket = "open" /\ app'[a].lastStart = app[a].lastStart
         /\ app'[a].sent = app[a].sent /\ app'[a].unsent = FALSE
         /\ app'[a].residual =
              app[a].residual + IF \E e \in Of(events, a) : e.do = "send"
                                THEN now' - app[a].lastStart ELSE 0
         /\ Of(events', a) = {e \in Of(events, a) : e.do \notin Own}
                               \cup {Event(now' + offTime, a, "on")}
<1> DEFINE b == Event(now', a, "off")
           e == Event(now' + offTime, a, "on")
           q == Cancel(Tail(events), a)
           z == Event(StopAt(requests[a]), a, "stop")
<1>1. Due(a, "off")
  BY DEF StopSending
<1>2. /\ pc = "running" /\ now' \in Nat /\ now <= now' /\ now' <= End
      /\ b \in Waiting(events) /\ b \in Ev
      /\ Queue(Tail(events))
      /\ Waiting(Tail(events)) = Waiting(events) \ {b}
      /\ \A w \in Waiting(events) :
              /\ now' <= w.at
              /\ w.app = a /\ Kind(w.do) = Kind("off") => w = b
              /\ w.app = a /\ w.do = "stop" /\ "off" \in Own => now' < w.at
  BY <1>1, DueIs
<1>3. EventOK(a, b) /\ b.do = "off" /\ b.app = a /\ b.at = now'
  BY <1>1, DueEventOK DEF Event
<1>4. app[a].socket = "open"
  BY <1>3 DEF EventOK, Own
<1>5. z \in Waiting(events) /\ z.app = a /\ z.do = "stop" /\ now' < z.at
  <2>1. z \in Waiting(events) /\ z.app = a /\ z.do = "stop"
    BY <1>2, <1>4 DEF NetInv, AppOK, Event
  <2>2. "off" \in Own
    BY DEF Own
  <2> HIDE DEF z, b
  <2> QED
    BY <1>2, <2>1, <2>2
<1>6. /\ Queue(q)
      /\ Waiting(q) = {w \in Waiting(Tail(events)) : ~ (w.app = a /\ w.do \in Own)}
  BY <1>2, CancelIs
<1>7. e \in Ev /\ e.app = a /\ e.do = "on" /\ e.at = now' + offTime /\ now' <= e.at
  <2>1. now' + offTime \in Nat /\ now' <= now' + offTime
    <3>1. now' \in Nat /\ offTime \in Nat
      BY <1>2 DEF NetInv, NetTypes
    <3> QED
      BY <3>1, LaterIsTime
  <2>2. a \in Nat
    BY <1>2 DEF Ev, Event
  <2> QED
    BY <2>1, <2>2 DEF Ev, Event, Doings
<1>8. events' = Schedule(q, e)
  BY DEF StopSending
<1> HIDE DEF b, e, q, z
<1>9. Queue(Schedule(q, e)) /\ Waiting(Schedule(q, e)) = Waiting(q) \cup {e}
  <2>1. \A w \in Waiting(q) : ~ (w.app = e.app /\ Kind(w.do) = Kind(e.do))
    <3>1. \A w \in Waiting(q) : Kind(w.do) = Kind("on") <=> w.do \in {"on", "off"}
      BY <1>6, QueueHasEvents
    <3> QED
      BY <1>6, <1>7, <3>1 DEF Own
  <2>2. e.do = "stop" => \A w \in Waiting(q) : ~ (w.app = e.app /\ w.do \in Own)
    BY <1>7
  <2> QED
    BY <1>6, <1>7, <2>1, <2>2, ScheduleKeeps
<1>10. Queue(events') /\ Waiting(events') = Waiting(q) \cup {e}
  BY <1>8, <1>9
<1>11. \A w \in Waiting(events') : now' <= w.at
  BY <1>2, <1>6, <1>7, <1>10
<1>12. \A c : c # a => Of(events', c) = Of(events, c)
  BY <1>2, <1>3, <1>6, <1>7, <1>10 DEF Of
<1>13. Of(events', a) = {w \in Of(events, a) : w.do \notin Own} \cup {e}
  BY <1>2, <1>3, <1>6, <1>7, <1>10 DEF Of, Own
<1>14. app' = [app EXCEPT ![a] = CancelEvents(a, now')]
  BY DEF StopSending
<1> DEFINE s == CancelEvents(a, now')
<1>15. /\ s \in AppState /\ s.lastStart = app[a].lastStart /\ s.sent = app[a].sent
       /\ s.socket = app[a].socket /\ s.unsent = FALSE
       /\ s.residual = app[a].residual + IF \E w \in Of(events, a) : w.do = "send"
                                         THEN now' - app[a].lastStart ELSE 0
  BY <1>2, CancelEventsIs
<1>16. app'[a] = s
  BY <1>14 DEF NetInv, NetTypes
<1> HIDE DEF s
<1>17. app' \in [Apps -> AppState] /\ \A c \in Apps : c # a => app'[c] = app[c]
  <2>1. app \in [Apps -> AppState]
    BY DEF NetInv, NetTypes
  <2>2. app' \in [Apps -> AppState]
    BY <1>14, <1>15, <1>16, <2>1
  <2> QED
    BY <1>14, <2>1, <2>2
<1>18. UNCHANGED <<choices, results>> /\ pc' = pc /\ wire' = wire
  BY DEF StopSending
<1>19. Event(now', a, "off") \in Of(events, a)
  BY <1>2, <1>3 DEF Of, b
<1>20. \E w \in Waiting(events) : w = Event(StopAt(requests[a]), a, "stop") /\ now' < w.at
  BY <1>5 DEF z
<1> QED
  BY <1>2, <1>4, <1>10, <1>11, <1>12, <1>13, <1>15, <1>16, <1>17, <1>18, <1>19, <1>20
  DEF Moved, e

\* ScheduleNextTx of an application whose bits fit into a packet: it never aborts.
LEMMA NextTxIs ==
  ASSUME NetInv, pc = "running", NEW a \in Apps, NEW s \in AppState, s.residual <= PktBits,
         NEW q, NEW t, NEW more, ScheduleNextTx(a, s, q, t, more)
  PROVE  /\ app' \in [Apps -> AppState] /\ \A c \in Apps : c # a => app'[c] = app[c]
         /\ app'[a].residual = s.residual /\ app'[a].lastStart = s.lastStart
         /\ app'[a].sent = s.sent /\ app'[a].unsent = s.unsent
         /\ \/ /\ MayGoOn(s) /\ pc' = pc /\ app'[a] = s
               /\ events' = LET sending == Schedule(q, Event(t + PktBits - s.residual, a, "send"))
                            IN IF more = <<>> THEN sending ELSE Schedule(sending, Head(more))
            \/ /\ ~ MayGoOn(s) /\ pc' = "exited" /\ app'[a].socket = "closed"
               /\ events' = Cancel(q, a)
<1>1. ~ Overflows(s)
  <2>1. s.residual \in Nat /\ PktBits \in Nat
    BY TimesAreNat DEF AppState
  <2> QED
    BY <2>1 DEF Overflows
<1>2. app \in [Apps -> AppState]
  BY DEF NetInv, NetTypes
<1> DEFINE u == IF MayGoOn(s) THEN s ELSE [s EXCEPT !.socket = "closed"]
<1>3. app' = [app EXCEPT ![a] = u]
  BY DEF ScheduleNextTx
<1>4. /\ u \in AppState /\ u.residual = s.residual /\ u.lastStart = s.lastStart
      /\ u.sent = s.sent /\ u.unsent = s.unsent
      /\ MayGoOn(s) => u = s
      /\ ~ MayGoOn(s) => u.socket = "closed"
  <2>1. CASE MayGoOn(s)
    BY <2>1
  <2>2. CASE ~ MayGoOn(s)
    <3>1. u = [s EXCEPT !.socket = "closed"]
      BY <2>2
    <3> HIDE DEF u
    <3> QED
      BY <2>2, <3>1 DEF AppState
  <2> QED
    BY <2>1, <2>2
<1> HIDE DEF u
<1>5. /\ app' \in [Apps -> AppState] /\ app'[a] = u
      /\ \A c \in Apps : c # a => app'[c] = app[c]
  BY <1>2, <1>3, <1>4
<1>6. pc' = IF MayGoOn(s) THEN pc ELSE "exited"
  BY <1>1 DEF ScheduleNextTx
<1>7. CASE MayGoOn(s)
  <2>1. pc' = "running"
    BY <1>6, <1>7
  <2>2. events' = LET sending == Schedule(q, Event(t + PktBits - s.residual, a, "send"))
                  IN IF more = <<>> THEN sending ELSE Schedule(sending, Head(more))
    BY <2>1 DEF ScheduleNextTx
  <2> QED
    BY <1>4, <1>5, <1>6, <1>7, <2>2
<1>8. CASE ~ MayGoOn(s)
  <2>1. pc' = "exited"
    BY <1>6, <1>8
  <2>2. events' = Cancel(q, a)
    BY <2>1 DEF ScheduleNextTx
  <2> QED
    BY <1>4, <1>5, <1>8, <2>1, <2>2
<1> QED
  BY <1>7, <1>8

LEMMA OnEffect ==
  ASSUME NetInv, NEW a \in Apps, StartSending(a)
  PROVE  /\ Moved(a) /\ pc = "running" /\ wire' = wire
         /\ Event(now', a, "on") \in Of(events, a)
         /\ \A e \in Of(events, a) : e.do # "send"
         /\ app[a].socket = "open"
         /\ app'[a].residual = app[a].residual /\ app'[a].lastStart = now'
         /\ app'[a].sent = app[a].sent /\ app'[a].unsent = app[a].unsent
         /\ \/ /\ pc' = pc /\ app'[a].socket = "open"
               /\ Of(events', a) =
                    {e \in Of(events, a) : e.do \notin {"on", "off"}}
                      \cup {Event(now' + PktBits - app[a].residual, a, "send"),
                            Event(now' + onTime, a, "off")}
            \/ /\ pc' = "exited" /\ app'[a].socket = "closed"
               /\ Of(events', a) = {e \in Of(events, a) : e.do \notin Own}
<1> DEFINE b == Event(now', a, "on")
           s == Restarted(app[a], now')
           d == Event(now' + PktBits - s.residual, a, "send")
           e == Event(now' + onTime, a, "off")
           q == Tail(events)
           more == <<e>>
<1>1. Due(a, "on") /\ ScheduleNextTx(a, s, q, now', more)
  BY DEF StartSending
<1>2. /\ pc = "running" /\ now' \in Nat /\ now <= now' /\ now' <= End
      /\ b \in Waiting(events) /\ b \in Ev
      /\ Queue(q)
      /\ Waiting(q) = Waiting(events) \ {b}
      /\ \A w \in Waiting(events) :
              /\ now' <= w.at
              /\ w.app = a /\ Kind(w.do) = Kind("on") => w = b
              /\ w.app = a /\ w.do = "stop" /\ "on" \in Own => now' < w.at
  BY <1>1, DueIs
<1>3. EventOK(a, b) /\ b.do = "on" /\ b.app = a /\ b.at = now'
  BY <1>1, DueEventOK DEF Event
<1>4. app[a].socket = "open" /\ \A w \in Waiting(events) : ~ (w.app = a /\ w.do = "send")
  BY <1>3 DEF EventOK, Own
<1>5. /\ s \in AppState /\ s.residual = app[a].residual /\ s.lastStart = now'
      /\ s.sent = app[a].sent /\ s.unsent = app[a].unsent /\ s.socket = app[a].socket
      /\ s.residual <= PktBits
  <2>1. app[a] \in AppState /\ app[a].residual <= PktBits
    BY DEF NetInv, NetTypes, AppOK
  <2>2. s = [app[a] EXCEPT !.lastStart = now']
    BY DEF Restarted
  <2> HIDE DEF s
  <2> QED
    BY <1>2, <2>1, <2>2 DEF AppState
<1>6. d \in Ev /\ d.app = a /\ d.do = "send" /\ d.at = now' + PktBits - s.residual /\ now' <= d.at
  <2>1. s.residual \in Nat /\ PktBits \in Nat /\ now' \in Nat /\ a \in Nat
    BY <1>2, <1>5, TimesAreNat DEF AppState, Ev, Event
  <2> HIDE DEF s
  <2>2. PktBits - s.residual \in Nat /\ now' + PktBits - s.residual = now' + (PktBits - s.residual)
    BY <1>5, <2>1
  <2>3. now' + PktBits - s.residual \in Nat /\ now' <= now' + PktBits - s.residual
    BY <2>1, <2>2, LaterIsTime
  <2> QED
    BY <2>1, <2>3 DEF Ev, Event, Doings
<1>7. e \in Ev /\ e.app = a /\ e.do = "off" /\ e.at = now' + onTime /\ now' <= e.at
  <2>1. onTime \in Nat /\ now' \in Nat /\ a \in Nat
    BY <1>2 DEF NetInv, NetTypes, Ev, Event
  <2>2. now' + onTime \in Nat /\ now' <= now' + onTime
    BY <2>1, LaterIsTime
  <2> QED
    BY <2>1, <2>2 DEF Ev, Event, Doings
<1>8. more # <<>> /\ Head(more) = e
  OBVIOUS
<1> DEFINE sending == Schedule(q, d)
<1>9. /\ app' \in [Apps -> AppState] /\ \A c \in Apps : c # a => app'[c] = app[c]
      /\ app'[a].residual = s.residual /\ app'[a].lastStart = s.lastStart
      /\ app'[a].sent = s.sent /\ app'[a].unsent = s.unsent
      /\ \/ /\ pc' = pc /\ app'[a] = s /\ events' = Schedule(sending, e)
         \/ /\ pc' = "exited" /\ app'[a].socket = "closed" /\ events' = Cancel(q, a)
  <2> DEFINE t == now'
  <2>1. ScheduleNextTx(a, s, q, t, more)
    BY <1>1
  <2>2. /\ app' \in [Apps -> AppState] /\ \A c \in Apps : c # a => app'[c] = app[c]
        /\ app'[a].residual = s.residual /\ app'[a].lastStart = s.lastStart
        /\ app'[a].sent = s.sent /\ app'[a].unsent = s.unsent
        /\ \/ /\ MayGoOn(s) /\ pc' = pc /\ app'[a] = s
              /\ events' = LET sg == Schedule(q, Event(t + PktBits - s.residual, a, "send"))
                           IN IF more = <<>> THEN sg ELSE Schedule(sg, Head(more))
           \/ /\ ~ MayGoOn(s) /\ pc' = "exited" /\ app'[a].socket = "closed"
              /\ events' = Cancel(q, a)
    <3> HIDE DEF s, q, more
    <3> QED
      BY <1>2, <1>5, <2>1, NextTxIs
  <2> HIDE DEF s, q, more, e
  <2> QED
    BY <1>8, <2>2
<1> HIDE DEF b, s, e, d, q, more
<1>10. \A w \in Waiting(q) :
         w.app = a => w.do # "send" /\ Kind(w.do) # Kind("off") /\ w.do \notin {"on", "off"}
  <2>1. \A w \in Waiting(q) : w.app = a => Kind(w.do) # Kind("on")
    BY <1>2
  <2>2. \A w \in Waiting(q) : /\ Kind(w.do) = Kind("on") <=> w.do \in {"on", "off"}
                              /\ Kind(w.do) = Kind("off") <=> w.do \in {"on", "off"}
    BY <1>2, QueueHasEvents
  <2> QED
    BY <1>2, <1>4, <2>1, <2>2
<1>11. Queue(sending) /\ Waiting(sending) = Waiting(q) \cup {d}
  <2>1. \A w \in Waiting(q) : ~ (w.app = d.app /\ Kind(w.do) = Kind(d.do))
    <3>1. \A w \in Waiting(q) : Kind(w.do) = Kind("send") <=> w.do = "send"
      BY <1>2, QueueHasEvents
    <3> QED
      BY <1>6, <1>10, <3>1
  <2>2. d.do = "stop" => \A w \in Waiting(q) : ~ (w.app = d.app /\ w.do \in Own)
    BY <1>6
  <2> QED
    BY <1>2, <1>6, <2>1, <2>2, ScheduleKeeps
<1> HIDE DEF sending
<1>12. Queue(Schedule(sending, e)) /\ Waiting(Schedule(sending, e)) = Waiting(sending) \cup {e}
  <2>1. \A w \in Waiting(sending) : ~ (w.app = e.app /\ Kind(w.do) = Kind(e.do))
    <3>1. Kind(d.do) # Kind(e.do)
      BY <1>6, <1>7 DEF Kind
    <3> QED
      BY <1>7, <1>10, <1>11, <3>1
  <2>2. e.do = "stop" => \A w \in Waiting(sending) : ~ (w.app = e.app /\ w.do \in Own)
    BY <1>7
  <2> QED
    BY <1>7, <1>11, <2>1, <2>2, ScheduleKeeps
<1>13. /\ Queue(Cancel(q, a))
       /\ Waiting(Cancel(q, a)) = {w \in Waiting(q) : ~ (w.app = a /\ w.do \in Own)}
  BY <1>2, CancelIs
<1>14. UNCHANGED <<choices, results>> /\ wire' = wire
  BY DEF StartSending
<1>15. Event(now', a, "on") \in Of(events, a) /\ \A w \in Of(events, a) : w.do # "send"
  BY <1>2, <1>3, <1>4 DEF Of, b
<1>16. CASE pc' = pc /\ app'[a] = s /\ events' = Schedule(sending, e)
  <2>1. Queue(events') /\ Waiting(events') = ((Waiting(events) \ {b}) \cup {d}) \cup {e}
    BY <1>2, <1>11, <1>12, <1>16
  <2>2. \A w \in Waiting(events') : now' <= w.at
    BY <1>2, <1>6, <1>7, <2>1
  <2>3. \A c : c # a => Of(events', c) = Of(events, c)
    BY <1>3, <1>6, <1>7, <2>1 DEF Of
  <2>4. Of(events', a) = {w \in Of(events, a) : w.do \notin {"on", "off"}} \cup {d, e}
    <3>1. \A w \in Waiting(events) : w.app = a => (w.do \in {"on", "off"} <=> w = b)
      BY <1>2, <1>3, <1>10
    <3> QED
      BY <1>6, <1>7, <2>1, <3>1 DEF Of
  <2>5. app'[a].socket = "open"
    BY <1>4, <1>5, <1>16
  <2>6. d = Event(now' + PktBits - app[a].residual, a, "send") /\ e = Event(now' + onTime, a, "off")
    BY <1>5 DEF d, e
  <2>7. Moved(a)
    BY <1>2, <1>9, <1>14, <2>1, <2>2, <2>3 DEF Moved
  <2> QED
    BY <1>2, <1>4, <1>5, <1>9, <1>14, <1>15, <1>16, <2>4, <2>5, <2>6, <2>7
<1>17. CASE pc' = "exited" /\ app'[a].socket = "closed" /\ events' = Cancel(q, a)
  <2>1. /\ Queue(events')
        /\ Waiting(events') = {w \in Waiting(events) \ {b} : ~ (w.app = a /\ w.do \in Own)}
    BY <1>2, <1>13, <1>17
  <2>2. \A w \in Waiting(events') : now' <= w.at
    BY <1>2, <2>1
  <2>3. \A c : c # a => Of(events', c) = Of(events, c)
    BY <1>3, <2>1 DEF Of
  <2>4. Of(events', a) = {w \in Of(events, a) : w.do \notin Own}
    BY <1>3, <2>1 DEF Of, Own
  <2>5. Moved(a)
    BY <1>2, <1>9, <1>14, <2>1, <2>2, <2>3 DEF Moved
  <2> QED
    BY <1>2, <1>4, <1>5, <1>9, <1>14, <1>15, <1>17, <2>4, <2>5
<1> QED
  BY <1>9, <1>16, <1>17

LEMMA SendEffect ==
  ASSUME NetInv, NEW a \in Apps, SendPacket(a)
  PROVE  /\ Moved(a) /\ pc = "running"
         /\ Event(now', a, "send") \in Of(events, a)
         /\ HasTraffic(requests, a)
         /\ app[a].socket = "open"
         /\ \E e \in Waiting(events) :
              e = Event(StopAt(requests[a]), a, "stop") /\ now' < e.at
         /\ now' = app[a].lastStart + PktBits - app[a].residual
         /\ app'[a].residual = 0 /\ app'[a].lastStart = now'
         /\ \E taken \in BOOLEAN :
              /\ app'[a].unsent = ~ taken
              /\ app'[a].sent = app[a].sent + IF taken THEN PktBits ELSE 0
              /\ wire' = [wire EXCEPT ![a] = @ + IF taken THEN PktBits ELSE 0]
         /\ \/ /\ pc' = pc /\ app'[a].socket = "open"
               /\ Of(events', a) = {e \in Of(events, a) : e.do # "send"}
                                     \cup {Event(now' + PktBits, a, "send")}
            \/ /\ pc' = "exited" /\ app'[a].socket = "closed"
               /\ Of(events', a) = {e \in Of(events, a) : e.do \notin Own}
<1>1. PICK taken \in BOOLEAN :
       /\ wire' = [wire EXCEPT ![a] = @ + IF taken THEN PktBits ELSE 0]
       /\ ScheduleNextTx(a, AfterSend(app[a], now', taken), Tail(events), now', <<>>)
  BY DEF SendPacket
<1> DEFINE b == Event(now', a, "send")
           s == AfterSend(app[a], now', taken)
           d == Event(now' + PktBits - s.residual, a, "send")
           q == Tail(events)
           more == <<>>
           z == Event(StopAt(requests[a]), a, "stop")
<1>2. Due(a, "send")
  BY DEF SendPacket
<1>3. /\ pc = "running" /\ now' \in Nat /\ now <= now' /\ now' <= End
      /\ b \in Waiting(events) /\ b \in Ev
      /\ Queue(q)
      /\ Waiting(q) = Waiting(events) \ {b}
      /\ \A w \in Waiting(events) :
              /\ now' <= w.at
              /\ w.app = a /\ Kind(w.do) = Kind("send") => w = b
              /\ w.app = a /\ w.do = "stop" /\ "send" \in Own => now' < w.at
  BY <1>2, DueIs
<1>4. EventOK(a, b) /\ b.do = "send" /\ b.app = a /\ b.at = now'
  BY <1>2, DueEventOK DEF Event
<1>5. /\ app[a].socket = "open" /\ HasTraffic(requests, a)
      /\ now' = app[a].lastStart + PktBits - app[a].residual
  BY <1>4 DEF EventOK, Own
<1>6. z \in Waiting(events) /\ z.app = a /\ z.do = "stop" /\ now' < z.at
  <2>1. z \in Waiting(events) /\ z.app = a /\ z.do = "stop"
    BY <1>3, <1>5 DEF NetInv, AppOK, Event
  <2>2. "send" \in Own
    BY DEF Own
  <2> HIDE DEF z, b
  <2> QED
    BY <1>3, <2>1, <2>2
<1>7. /\ s \in AppState /\ s.residual = 0 /\ s.lastStart = now'
      /\ s.sent = app[a].sent + IF taken THEN PktBits ELSE 0
      /\ s.unsent = ~ taken /\ s.socket = app[a].socket
      /\ s.residual <= PktBits
  <2>1. app[a] \in AppState
    BY DEF NetInv, NetTypes
  <2> DEFINE x == IF taken THEN PktBits ELSE 0
  <2>2. x \in Nat /\ PktBits \in Nat
    BY TimesAreNat
  <2>3. s = [app[a] EXCEPT !.residual = 0, !.lastStart = now', !.unsent = ~ taken, !.sent = @ + x]
    BY DEF AfterSend
  <2> HIDE DEF s, x
  <2>4. /\ s.residual = 0 /\ s.lastStart = now' /\ s.sent = app[a].sent + x
        /\ s.unsent = ~ taken /\ s.socket = app[a].socket
    BY <2>1, <2>3 DEF AppState
  <2>5. app[a].sent + x \in Nat
    BY <2>1, <2>2 DEF AppState
  <2>6. s \in AppState
    BY <1>3, <2>1, <2>3, <2>5 DEF AppState
  <2> QED
    BY <2>2, <2>4, <2>6 DEF x
<1>8. /\ d \in Ev /\ d.app = a /\ d.do = "send" /\ now' <= d.at
      /\ d = Event(now' + PktBits, a, "send")
  <2>1. PktBits \in Nat /\ now' \in Nat /\ a \in Nat
    BY <1>3, TimesAreNat DEF Ev, Event
  <2> HIDE DEF s
  <2>2. now' + PktBits \in Nat /\ now' <= now' + PktBits
    BY <2>1, LaterIsTime
  <2>3. now' + PktBits - s.residual = now' + PktBits
    BY <1>7, <2>1, <2>2
  <2>4. d = Event(now' + PktBits, a, "send")
    BY <2>3
  <2> HIDE DEF d
  <2> QED
    BY <2>1, <2>2, <2>4 DEF Ev, Event, Doings
<1> DEFINE sending == Schedule(q, d)
<1>9. /\ app' \in [Apps -> AppState] /\ \A c \in Apps : c # a => app'[c] = app[c]
      /\ app'[a].residual = s.residual /\ app'[a].lastStart = s.lastStart
      /\ app'[a].sent = s.sent /\ app'[a].unsent = s.unsent
      /\ \/ /\ pc' = pc /\ app'[a] = s /\ events' = sending
         \/ /\ pc' = "exited" /\ app'[a].socket = "closed" /\ events' = Cancel(q, a)
  <2> DEFINE t == now'
  <2>1. ScheduleNextTx(a, s, q, t, more)
    BY <1>1
  <2>2. /\ app' \in [Apps -> AppState] /\ \A c \in Apps : c # a => app'[c] = app[c]
        /\ app'[a].residual = s.residual /\ app'[a].lastStart = s.lastStart
        /\ app'[a].sent = s.sent /\ app'[a].unsent = s.unsent
        /\ \/ /\ MayGoOn(s) /\ pc' = pc /\ app'[a] = s
              /\ events' = LET sg == Schedule(q, Event(t + PktBits - s.residual, a, "send"))
                           IN IF more = <<>> THEN sg ELSE Schedule(sg, Head(more))
           \/ /\ ~ MayGoOn(s) /\ pc' = "exited" /\ app'[a].socket = "closed"
              /\ events' = Cancel(q, a)
    <3> HIDE DEF s, q, more
    <3> QED
      BY <1>3, <1>7, <2>1, NextTxIs
  <2> HIDE DEF s, q
  <2> QED
    BY <2>2
<1> HIDE DEF b, s, d, q, z, more
<1>10. \A w \in Waiting(events) : w.app = a => (w.do = "send" <=> w = b)
  BY <1>3, <1>4
<1>11. Queue(sending) /\ Waiting(sending) = Waiting(q) \cup {d}
  <2>1. \A w \in Waiting(q) : ~ (w.app = d.app /\ Kind(w.do) = Kind(d.do))
    BY <1>3, <1>8
  <2>2. d.do = "stop" => \A w \in Waiting(q) : ~ (w.app = d.app /\ w.do \in Own)
    BY <1>8
  <2> QED
    BY <1>3, <1>8, <2>1, <2>2, ScheduleKeeps
<1> HIDE DEF sending
<1>12. /\ Queue(Cancel(q, a))
       /\ Waiting(Cancel(q, a)) = {w \in Waiting(q) : ~ (w.app = a /\ w.do \in Own)}
  BY <1>3, CancelIs
<1>13. UNCHANGED <<choices, results>>
  BY DEF SendPacket
<1>14. Event(now', a, "send") \in Of(events, a)
  BY <1>3, <1>4 DEF Of, b
<1>15. \E w \in Waiting(events) : w = Event(StopAt(requests[a]), a, "stop") /\ now' < w.at
  BY <1>6 DEF z
<1>16. \E tk \in BOOLEAN :
              /\ app'[a].unsent = ~ tk
              /\ app'[a].sent = app[a].sent + IF tk THEN PktBits ELSE 0
              /\ wire' = [wire EXCEPT ![a] = @ + IF tk THEN PktBits ELSE 0]
  BY <1>1, <1>7, <1>9
<1>17. CASE pc' = pc /\ app'[a] = s /\ events' = sending
  <2>1. Queue(events') /\ Waiting(events') = (Waiting(events) \ {b}) \cup {d}
    BY <1>3, <1>11, <1>17
  <2>2. \A w \in Waiting(events') : now' <= w.at
    BY <1>3, <1>8, <2>1
  <2>3. \A c : c # a => Of(events', c) = Of(events, c)
    BY <1>4, <1>8, <2>1 DEF Of
  <2>4. Of(events', a) = {w \in Of(events, a) : w.do # "send"} \cup {d}
    BY <1>8, <1>10, <2>1 DEF Of
  <2>5. app'[a].socket = "open"
    BY <1>5, <1>7, <1>17
  <2>6. Moved(a)
    BY <1>3, <1>9, <1>13, <2>1, <2>2, <2>3 DEF Moved
  <2> QED
    BY <1>3, <1>5, <1>7, <1>8, <1>9, <1>14, <1>15, <1>16, <1>17, <2>4, <2>5, <2>6
<1>18. CASE pc' = "exited" /\ app'[a].socket = "closed" /\ events' = Cancel(q, a)
  <2>1. /\ Queue(events')
        /\ Waiting(events') = {w \in Waiting(events) \ {b} : ~ (w.app = a /\ w.do \in Own)}
    BY <1>3, <1>12, <1>18
  <2>2. \A w \in Waiting(events') : now' <= w.at
    BY <1>3, <2>1
  <2>3. \A c : c # a => Of(events', c) = Of(events, c)
    BY <1>4, <2>1 DEF Of
  <2>4. Of(events', a) = {w \in Of(events, a) : w.do \notin Own}
    BY <1>4, <2>1 DEF Of, Own
  <2>5. Moved(a)
    BY <1>3, <1>9, <1>13, <2>1, <2>2, <2>3 DEF Moved
  <2> QED
    BY <1>3, <1>5, <1>7, <1>9, <1>14, <1>15, <1>16, <1>18, <2>4, <2>5
<1> QED
  BY <1>9, <1>17, <1>18

LEMMA EndEffect ==
  ASSUME NetInv, EndSimulation
  PROVE  /\ now' \in Nat /\ now <= now' /\ now' <= End /\ pc = "running" /\ pc' = "stopped"
         /\ Queue(events') /\ Waiting(events') = {}
         /\ UNCHANGED <<choices, app, wire, results>>
<1>1. Due(0, "end") /\ pc' = "stopped" /\ events' = <<>> /\ UNCHANGED <<choices, app, wire, results>>
  BY DEF EndSimulation
<1>2. now' \in Nat /\ now <= now' /\ now' <= End /\ pc = "running"
  BY <1>1, DueIs
<1>3. Queue(<<>>) /\ Waiting(<<>>) = {}
  <2> DEFINE n == <<>>
  <2>1. n \in Seq(Ev) /\ DOMAIN n = {}
    OBVIOUS
  <2> HIDE DEF n
  <2>2. Queue(n) /\ Waiting(n) = {}
    BY <2>1 DEF Queue, Ordered, OnlyOne, StopsFirst, Waiting
  <2> QED
    BY <2>2 DEF n
<1> QED
  BY <1>1, <1>2, <1>3

-----------------------------------------------------------------------------
(* The invariant is inductive. *)

\* A handler of one application leaves those of the others as they were.
LEMMA OthersStay ==
  ASSUME NetInv, NEW a, Moved(a), pc = "running",
         NEW b \in Apps, b # a, wire'[b] = wire[b]
  PROVE  AppOK(b)'
<1>1. /\ \A e \in Waiting(events) : e.app = b => EventOK(b, e)
      /\ app[b].lastStart <= now /\ app[b].residual <= PktBits
      /\ app[b].socket = "open" => StartAt(requests[b]) <= now
      /\ app[b].socket = "open" =>
           Event(StopAt(requests[b]), b, "stop") \in Waiting(events)
      /\ wire[b] > 0 => HasTraffic(requests, b)
  BY DEF NetInv, AppOK
<1>2. /\ now' \in Nat /\ now <= now' /\ Of(events', b) = Of(events, b) /\ app'[b] = app[b]
      /\ requests' = requests
  BY DEF Moved, choices
<1>3. \A e : e.app = b => (e \in Waiting(events') <=> e \in Waiting(events))
  BY <1>2 DEF Of
<1>4. ASSUME NEW e \in Waiting(events'), e.app = b
      PROVE  EventOK(b, e)'
  <2>1. EventOK(b, e)
    BY <1>1, <1>3, <1>4
  <2>2. Event(StopAt(requests[b]), b, "stop").app = b
    BY DEF Event
  <2> QED
    BY <1>2, <1>3, <2>1, <2>2 DEF EventOK
<1>5. app'[b].lastStart <= now'
  <2>1. app[b].lastStart \in Nat /\ now \in Nat
    BY DEF NetInv, NetTypes, AppState
  <2> QED
    BY <1>1, <1>2, <2>1
<1>6. app[b].socket = "open" => StartAt(requests[b]) <= now'
  <2>1. StartAt(requests[b]) \in Nat /\ now \in Nat
    BY MapIsList, TimesAreNat DEF NetInv, NetTypes, Apps
  <2> QED
    BY <1>1, <1>2, <2>1
<1>7. app[b].socket = "open" => Event(StopAt(requests[b]), b, "stop") \in Waiting(events')
  <2>1. Event(StopAt(requests[b]), b, "stop").app = b
    BY DEF Event
  <2> QED
    BY <1>1, <1>3, <2>1
<1> QED
  BY <1>1, <1>2, <1>4, <1>5, <1>6, <1>7 DEF AppOK

\* The queue after a handler.
LEMMA QueueMoved ==
  ASSUME NetInv, NEW a \in Apps, Moved(a), pc = "running"
  PROVE  QueueInv'
<1>1. /\ Queue(events') /\ requests' = requests
      /\ \A e \in Waiting(events') : now' <= e.at
      /\ \A b : b # a => Of(events', b) = Of(events, b)
  BY DEF Moved, choices
<1>2. EndEvent \in Waiting(events) /\ EndEvent.app = 0 /\ a # 0
  <2>1. 0 \notin Apps
    BY MapIsList DEF NetInv, NetTypes, Apps
  <2> QED
    BY <2>1 DEF NetInv, QueueInv, EndEvent, Event
<1>3. EndEvent \in Waiting(events')
  BY <1>1, <1>2 DEF Of
<1>4. ASSUME NEW e \in Waiting(events')
      PROVE  e = EndEvent \/ e.app \in Apps
  <2>1. CASE e.app = a
    BY <2>1
  <2>2. CASE e.app # a
    <3>1. e \in Waiting(events)
      BY <1>1, <2>2 DEF Of
    <3> QED
      BY <3>1 DEF NetInv, QueueInv
  <2> QED
    BY <2>1, <2>2
<1>5. Apps' = Apps
  BY <1>1 DEF Apps
<1> QED
  BY <1>1, <1>3, <1>4, <1>5 DEF QueueInv

LEMMA TypesMoved ==
  ASSUME NetInv, NEW a \in Apps, Moved(a), wire' \in [Apps -> Nat],
         pc' \in {"running", "stopped", "exited"}
  PROVE  NetTypes'
<1>1. /\ requests' = requests /\ onTime' = onTime /\ offTime' = offTime /\ maxBits' = maxBits
      /\ now' \in Nat /\ now' <= End /\ app' \in [Apps -> AppState]
  BY DEF Moved, choices
<1>2. Apps' = Apps
  BY <1>1 DEF Apps
<1> QED
  BY <1>1, <1>2 DEF NetInv, NetTypes

\* The bits begun fit into the packet that is due.
LEMMA BitsFit ==
  ASSUME NetInv, NEW a \in Apps, Moved(a)
  PROVE  /\ app[a].residual \in Nat /\ app[a].lastStart \in Nat /\ now \in Nat
         /\ app[a].lastStart <= now' /\ app[a].lastStart <= now
         /\ \A e \in Of(events, a) :
              e.do = "send" => app[a].residual + (now' - app[a].lastStart) <= PktBits
         /\ app[a].residual + (IF \E e \in Of(events, a) : e.do = "send"
                               THEN now' - app[a].lastStart ELSE 0) <= PktBits
<1>1. /\ app[a].residual \in Nat /\ app[a].lastStart \in Nat /\ app[a].lastStart <= now
      /\ app[a].residual <= PktBits /\ now \in Nat /\ PktBits \in Nat
      /\ now' \in Nat /\ now <= now'
  BY TimesAreNat DEF NetInv, NetTypes, AppState, AppOK, Moved
<1>2. ASSUME NEW e \in Of(events, a), e.do = "send"
      PROVE  app[a].residual + (now' - app[a].lastStart) <= PktBits
  <2>1. e.at = app[a].lastStart + PktBits - app[a].residual /\ now' <= e.at
    BY <1>2 DEF NetInv, AppOK, EventOK, Of, Moved
  <2> QED
    BY <1>1, <2>1
<1>3. app[a].lastStart <= now'
  BY <1>1
<1>4. CASE \E e \in Of(events, a) : e.do = "send"
  BY <1>1, <1>2, <1>3, <1>4
<1>5. CASE ~ \E e \in Of(events, a) : e.do = "send"
  BY <1>1, <1>2, <1>3, <1>5
<1> QED
  BY <1>1, <1>2, <1>3, <1>4, <1>5

\* What waits for an application is one of its own events, or its start or stop.
LEMMA OfIs ==
  ASSUME NetInv, NEW a \in Apps, NEW e \in Of(events, a)
  PROVE  /\ EventOK(a, e) /\ e \in Ev
         /\ e.do \in Own \cup {"start", "stop"}
         /\ app[a].socket # "none" => e.do # "start"
         /\ e.app = a
<1>1. EventOK(a, e) /\ e.app = a
  BY DEF NetInv, AppOK, Of
<1>2. e \in Ev
  BY QueueHasEvents DEF NetInv, QueueInv, Of
<1>3. e.do \in Doings /\ e.do # "end"
  BY <1>1, <1>2 DEF Ev, EventOK
<1>4. e.do = "start" => app[a].socket = "none"
  BY <1>1 DEF EventOK, NoApp
<1> QED
  BY <1>1, <1>2, <1>3, <1>4 DEF Doings, Own

LEMMA StartKeeps ==
  ASSUME NetInv, NEW a \in Apps, StartApplication(a)
  PROVE  AppOK(a)'
<1> DEFINE on == Event(now' + offTime, a, "on")
           z == Event(StopAt(requests[a]), a, "stop")
<1>1. /\ Moved(a) /\ pc = "running" /\ pc' = pc /\ wire' = wire
      /\ now' = StartAt(requests[a]) /\ app[a] = NoApp
      /\ app'[a] = [socket |-> "open", residual |-> 0, lastStart |-> 0,
                    sent |-> 0, unsent |-> FALSE]
      /\ Of(events', a) = {e \in Of(events, a) : e.do \notin Own \cup {"start"}} \cup {on}
      /\ HasTraffic(requests, a)
  BY StartEffect
<1>2. requests' = requests /\ now' \in Nat /\ PktBits \in Nat
  BY <1>1, TimesAreNat DEF Moved, choices
<1>3. on.app = a /\ on.do = "on" /\ z.app = a /\ z.do = "stop"
  BY DEF Event
<1>4. z \in Waiting(events)
  <2>1. Due(a, "start")
    BY DEF StartApplication
  <2>2. EventOK(a, Event(now', a, "start")) /\ Event(now', a, "start").do = "start"
    BY <2>1, DueEventOK DEF Event
  <2> QED
    BY <2>2 DEF EventOK
<1> HIDE DEF on
<1>5. z \in Waiting(events')
  BY <1>1, <1>3, <1>4 DEF Of, Own
<1>6. ASSUME NEW e \in Waiting(events'), e.app = a
      PROVE  EventOK(a, e)'
  <2>1. e \in Of(events', a)
    BY <1>6 DEF Of
  <2>2. CASE e = on
    <3>1. \A w \in Of(events', a) : w.do # "send"
      BY <1>1, <1>3 DEF Own
    <3>2. \A w \in Waiting(events') : ~ (w.app = a /\ w.do = "send")
      BY <3>1 DEF Of
    <3> QED
      BY <1>1, <1>2, <1>3, <2>2, <3>2 DEF EventOK
  <2>3. CASE e # on
    <3>1. e \in Of(events, a) /\ e.do \notin Own \cup {"start"}
      BY <1>1, <2>1, <2>3
    <3>2. EventOK(a, e) /\ e.do = "stop"
      BY <3>1, OfIs
    <3> QED
      BY <1>1, <1>2, <3>2 DEF EventOK, Own
  <2> QED
    BY <2>2, <2>3
<1>7. app'[a].lastStart <= now' /\ app'[a].residual <= PktBits
  BY <1>1, <1>2
<1>8. app'[a].socket = "open" => StartAt(requests[a]) <= now'
  BY <1>1, <1>2
<1> QED
  BY <1>1, <1>2, <1>5, <1>6, <1>7, <1>8 DEF AppOK

LEMMA StopKeeps ==
  ASSUME NetInv, NEW a \in Apps, StopApplication(a)
  PROVE  AppOK(a)' /\ Of(events', a) = {}
<1>1. /\ Moved(a) /\ pc = "running" /\ pc' = pc /\ wire' = wire
      /\ now' = StopAt(requests[a])
      /\ app'[a].socket = "closed" /\ app'[a].lastStart = app[a].lastStart
      /\ app'[a].residual =
           app[a].residual + IF \E e \in Of(events, a) : e.do = "send"
                             THEN now' - app[a].lastStart ELSE 0
      /\ Of(events', a) = {e \in Of(events, a) : e.do \notin Own \cup {"stop"}}
      /\ HasTraffic(requests, a)
  BY StopEffect
<1>2. requests' = requests
  BY <1>1 DEF Moved, choices
<1>3. ASSUME NEW e \in Of(events', a)
      PROVE  FALSE
  <2>1. e \in Of(events, a) /\ e.do = "start"
    BY <1>1, <1>3, OfIs
  <2>2. e.at = StartAt(requests[a])
    BY <2>1, OfIs DEF EventOK
  <2>3. now' <= e.at
    BY <1>1, <2>1 DEF Moved, Of
  <2>4. StartAt(requests[a]) \in Nat /\ StopAt(requests[a]) = StartAt(requests[a]) + SlotTicks
        /\ SlotTicks \in Nat /\ SlotTicks # 0
    BY MapIsList, TimesAreNat DEF NetInv, NetTypes, Apps
  <2> QED
    BY <1>1, <2>2, <2>3, <2>4
<1>4. \A e \in Waiting(events') : e.app # a
  BY <1>3 DEF Of
<1>5. app'[a].lastStart <= now' /\ app'[a].residual <= PktBits
  BY <1>1, BitsFit
<1> QED
  BY <1>1, <1>2, <1>3, <1>4, <1>5 DEF AppOK

LEMMA OffKeeps ==
  ASSUME NetInv, NEW a \in Apps, StopSending(a)
  PROVE  AppOK(a)'
<1> DEFINE on == Event(now' + offTime, a, "on")
           z == Event(StopAt(requests[a]), a, "stop")
<1>1. /\ Moved(a) /\ pc = "running" /\ pc' = pc /\ wire' = wire
      /\ Event(now', a, "off") \in Of(events, a)
      /\ app[a].socket = "open"
      /\ app'[a].socket = "open" /\ app'[a].lastStart = app[a].lastStart
      /\ app'[a].residual =
           app[a].residual + IF \E e \in Of(events, a) : e.do = "send"
                             THEN now' - app[a].lastStart ELSE 0
      /\ Of(events', a) = {e \in Of(events, a) : e.do \notin Own} \cup {on}
  BY OffEffect
<1>2. requests' = requests /\ now' \in Nat /\ now <= now' /\ now \in Nat
  BY <1>1 DEF Moved, choices, NetInv, NetTypes
<1>3. on.app = a /\ on.do = "on" /\ z.app = a /\ z.do = "stop"
  BY DEF Event
<1> HIDE DEF on
<1>4. z \in Waiting(events) /\ HasTraffic(requests, a)
  BY <1>1, OfIs DEF NetInv, AppOK, EventOK
<1>5. z \in Waiting(events')
  BY <1>1, <1>3, <1>4 DEF Of, Own
<1>6. ASSUME NEW e \in Waiting(events'), e.app = a
      PROVE  EventOK(a, e)'
  <2>1. e \in Of(events', a)
    BY <1>6 DEF Of
  <2>2. CASE e = on
    <3>1. \A w \in Of(events', a) : w.do # "send"
      BY <1>1, <1>3 DEF Own
    <3>2. \A w \in Waiting(events') : ~ (w.app = a /\ w.do = "send")
      BY <3>1 DEF Of
    <3> QED
      BY <1>1, <1>2, <1>3, <1>4, <2>2, <3>2 DEF EventOK
  <2>3. CASE e # on
    <3>1. e \in Of(events, a) /\ e.do \notin Own
      BY <1>1, <2>1, <2>3
    <3>2. EventOK(a, e) /\ e.do = "stop"
      BY <1>1, <3>1, OfIs
    <3> QED
      BY <1>1, <1>2, <1>4, <3>2 DEF EventOK, Own
  <2> QED
    BY <2>2, <2>3
<1>7. app'[a].lastStart <= now' /\ app'[a].residual <= PktBits
  BY <1>1, BitsFit
<1>8. StartAt(requests[a]) <= now'
  <2>1. StartAt(requests[a]) \in Nat /\ StartAt(requests[a]) <= now
    BY <1>1, MapIsList, TimesAreNat DEF NetInv, NetTypes, Apps, AppOK
  <2> QED
    BY <1>2, <2>1
<1> QED
  BY <1>1, <1>2, <1>4, <1>5, <1>6, <1>7, <1>8 DEF AppOK

LEMMA OnKeeps ==
  ASSUME NetInv, NEW a \in Apps, StartSending(a)
  PROVE  AppOK(a)'
<1> DEFINE send == Event(now' + PktBits - app[a].residual, a, "send")
           off == Event(now' + onTime, a, "off")
           z == Event(StopAt(requests[a]), a, "stop")
<1>1. /\ Moved(a) /\ pc = "running" /\ wire' = wire
      /\ Event(now', a, "on") \in Of(events, a)
      /\ \A e \in Of(events, a) : e.do # "send"
      /\ app[a].socket = "open"
      /\ app'[a].residual = app[a].residual /\ app'[a].lastStart = now'
      /\ app'[a].sent = app[a].sent /\ app'[a].unsent = app[a].unsent
      /\ \/ /\ pc' = pc /\ app'[a].socket = "open"
            /\ Of(events', a) =
                 {e \in Of(events, a) : e.do \notin {"on", "off"}} \cup {send, off}
         \/ /\ pc' = "exited" /\ app'[a].socket = "closed"
            /\ Of(events', a) = {e \in Of(events, a) : e.do \notin Own}
  BY OnEffect
<1>2. requests' = requests /\ now' \in Nat /\ now <= now' /\ now \in Nat
  BY <1>1 DEF Moved, choices, NetInv, NetTypes
<1>3. /\ send.app = a /\ send.do = "send" /\ z.app = a /\ z.do = "stop"
      /\ off.app = a /\ off.do = "off"
      /\ send.at = app'[a].lastStart + PktBits - app'[a].residual
  BY <1>1 DEF Event
<1> HIDE DEF send, off
<1>4. z \in Waiting(events) /\ HasTraffic(requests, a)
  BY <1>1, OfIs DEF NetInv, AppOK, EventOK
<1>5. z \in Waiting(events')
  BY <1>1, <1>3, <1>4 DEF Of, Own
<1>6. ASSUME NEW e \in Waiting(events'), e.app = a
      PROVE  EventOK(a, e)'
  <2>1. e \in Of(events', a)
    BY <1>6 DEF Of
  <2>2. ASSUME e \in Of(events, a), e.do \notin {"on", "off"}
        PROVE  EventOK(a, e)'
    <3>1. EventOK(a, e) /\ e.do = "stop"
      BY <1>1, <2>2, OfIs DEF Own
    <3> QED
      BY <1>1, <1>2, <1>4, <3>1 DEF EventOK, Own
  <2>3. CASE pc' = "exited" /\ Of(events', a) = {w \in Of(events, a) : w.do \notin Own}
    BY <2>1, <2>2, <2>3 DEF Own
  <2>4. CASE /\ app'[a].socket = "open"
             /\ Of(events', a) =
                  {w \in Of(events, a) : w.do \notin {"on", "off"}} \cup {send, off}
    <3>1. CASE e = send
      BY <1>2, <1>3, <1>4, <2>4, <3>1 DEF EventOK
    <3>2. CASE e = off
      BY <1>2, <1>3, <1>4, <2>4, <3>2 DEF EventOK
    <3> QED
      BY <2>1, <2>2, <2>4, <3>1, <3>2
  <2> QED
    BY <1>1, <2>3, <2>4
<1>7. app'[a].lastStart <= now' /\ app'[a].residual <= PktBits
  BY <1>1, <1>2 DEF NetInv, AppOK
<1>8. StartAt(requests[a]) <= now'
  <2>1. StartAt(requests[a]) \in Nat /\ StartAt(requests[a]) <= now
    BY <1>1, MapIsList, TimesAreNat DEF NetInv, NetTypes, Apps, AppOK
  <2> QED
    BY <1>2, <2>1
<1> QED
  BY <1>1, <1>2, <1>4, <1>5, <1>6, <1>7, <1>8 DEF AppOK

LEMMA SendKeeps ==
  ASSUME NetInv, NEW a \in Apps, SendPacket(a)
  PROVE  AppOK(a)'
<1> DEFINE send == Event(now' + PktBits, a, "send")
           z == Event(StopAt(requests[a]), a, "stop")
<1>1. /\ Moved(a) /\ pc = "running"
      /\ Event(now', a, "send") \in Of(events, a)
      /\ HasTraffic(requests, a)
      /\ app[a].socket = "open"
      /\ app'[a].residual = 0 /\ app'[a].lastStart = now'
      /\ \/ /\ pc' = pc /\ app'[a].socket = "open"
            /\ Of(events', a) = {e \in Of(events, a) : e.do # "send"} \cup {send}
         \/ /\ pc' = "exited" /\ app'[a].socket = "closed"
            /\ Of(events', a) = {e \in Of(events, a) : e.do \notin Own}
  BY SendEffect
<1>2. /\ requests' = requests /\ now' \in Nat /\ now <= now' /\ now \in Nat
      /\ PktBits \in Nat
  BY <1>1, TimesAreNat DEF Moved, choices, NetInv, NetTypes
<1>3. /\ send.app = a /\ send.do = "send" /\ z.app = a /\ z.do = "stop"
      /\ send.at = app'[a].lastStart + PktBits - app'[a].residual
  <2>1. send.app = a /\ send.do = "send" /\ z.app = a /\ z.do = "stop"
        /\ send.at = now' + PktBits
    BY DEF Event
  <2>2. now' + PktBits = now' + PktBits - 0
    <3>1. \A t \in Nat, d \in Nat : t + d = t + d - 0
      OBVIOUS
    <3> QED
      BY <1>2, <3>1
  <2> QED
    BY <1>1, <2>1, <2>2
<1> HIDE DEF send
<1>4. z \in Waiting(events)
  BY <1>1 DEF NetInv, AppOK
<1>5. z \in Waiting(events')
  BY <1>1, <1>3, <1>4 DEF Of, Own
<1>6. \A e \in Of(events, a) : e.do # "on"
  <2> SUFFICES ASSUME NEW e \in Of(events, a), e.do = "on"
               PROVE  FALSE
    OBVIOUS
  <2>1. \A w \in Waiting(events) : ~ (w.app = a /\ w.do = "send")
    BY OfIs DEF EventOK
  <2>2. Event(now', a, "send") \in Waiting(events)
    BY <1>1 DEF Of
  <2> QED
    BY <2>1, <2>2 DEF Event
<1>7. ASSUME NEW e \in Waiting(events'), e.app = a
      PROVE  EventOK(a, e)'
  <2>1. e \in Of(events', a)
    BY <1>7 DEF Of
  <2>2. ASSUME e \in Of(events, a), e.do \notin Own
        PROVE  EventOK(a, e)'
    <3>1. EventOK(a, e) /\ e.do = "stop"
      BY <1>1, <2>2, OfIs
    <3> QED
      BY <1>1, <1>2, <3>1 DEF EventOK, Own
  <2>3. CASE pc' = "exited" /\ Of(events', a) = {w \in Of(events, a) : w.do \notin Own}
    BY <2>1, <2>2, <2>3
  <2>4. CASE /\ app'[a].socket = "open"
             /\ Of(events', a) = {w \in Of(events, a) : w.do # "send"} \cup {send}
    <3>1. CASE e = send
      BY <1>1, <1>2, <1>3, <2>4, <3>1 DEF EventOK
    <3>2. ASSUME e \in Of(events, a), e.do # "send"
          PROVE  EventOK(a, e)'
      <4>1. CASE e.do = "off"
        BY <1>1, <1>2, <2>4, <4>1 DEF EventOK
      <4>2. CASE e.do # "off"
        BY <1>6, <2>2, <3>2, <4>2 DEF Own
      <4> QED
        BY <4>1, <4>2
    <3> QED
      BY <2>1, <2>4, <3>1, <3>2
  <2> QED
    BY <1>1, <2>3, <2>4
<1>8. app'[a].lastStart <= now' /\ app'[a].residual <= PktBits
  BY <1>1, <1>2
<1>9. StartAt(requests[a]) <= now'
  <2>1. StartAt(requests[a]) \in Nat /\ StartAt(requests[a]) <= now
    BY <1>1, MapIsList, TimesAreNat DEF NetInv, NetTypes, Apps, AppOK
  <2> QED
    BY <1>2, <2>1
<1> QED
  BY <1>1, <1>2, <1>5, <1>7, <1>8, <1>9 DEF AppOK

\* Every step keeps the invariant.
LEMMA NetInvNext == NetInv /\ [Next]_vars => NetInv'
<1> SUFFICES ASSUME NetInv, [Next]_vars
             PROVE  NetInv'
  OBVIOUS
<1>1. wire \in [Apps -> Nat] /\ pc \in {"running", "stopped", "exited"} /\ PktBits \in Nat
  BY TimesAreNat DEF NetInv, NetTypes
<1>2. ASSUME NEW a \in Apps, Moved(a), pc = "running", AppOK(a)', wire' \in [Apps -> Nat],
             \A b \in Apps : b # a => wire'[b] = wire[b],
             pc' \in {"running", "stopped", "exited"}
      PROVE  NetInv'
  <2>1. requests' = requests
    BY <1>2 DEF Moved, choices
  <2>2. Apps' = Apps
    BY <2>1 DEF Apps
  <2>3. NetTypes'
    BY <1>2, TypesMoved
  <2>4. QueueInv'
    BY <1>2, QueueMoved
  <2>5. \A b \in Apps : AppOK(b)'
    BY <1>2, OthersStay
  <2> QED
    BY <2>2, <2>3, <2>4, <2>5 DEF NetInv
<1>3. ASSUME NEW a \in Apps, StartApplication(a)
      PROVE  NetInv'
  BY <1>1, <1>2, <1>3, StartEffect, StartKeeps
<1>4. ASSUME NEW a \in Apps, StopApplication(a)
      PROVE  NetInv'
  BY <1>1, <1>2, <1>4, StopEffect, StopKeeps
<1>5. ASSUME NEW a \in Apps, StartSending(a)
      PROVE  NetInv'
  <2>1. Moved(a) /\ pc = "running" /\ wire' = wire /\ (pc' = pc \/ pc' = "exited")
    BY <1>5, OnEffect
  <2> QED
    BY <1>1, <1>2, <1>5, <2>1, OnKeeps
<1>6. ASSUME NEW a \in Apps, StopSending(a)
      PROVE  NetInv'
  BY <1>1, <1>2, <1>6, OffEffect, OffKeeps
<1>7. ASSUME NEW a \in Apps, SendPacket(a)
      PROVE  NetInv'
  <2>1. /\ Moved(a) /\ pc = "running" /\ (pc' = pc \/ pc' = "exited")
        /\ \E taken \in BOOLEAN :
             wire' = [wire EXCEPT ![a] = @ + IF taken THEN PktBits ELSE 0]
    BY <1>7, SendEffect
  <2>2. wire' \in [Apps -> Nat] /\ \A b \in Apps : b # a => wire'[b] = wire[b]
    <3>1. PICK taken \in BOOLEAN :
             wire' = [wire EXCEPT ![a] = @ + IF taken THEN PktBits ELSE 0]
      BY <2>1
    <3>2. wire[a] + (IF taken THEN PktBits ELSE 0) \in Nat
      BY <1>1
    <3> QED
      BY <1>1, <3>1, <3>2
  <2> QED
    BY <1>1, <1>2, <1>7, <2>1, <2>2, SendKeeps
<1>8. CASE EndSimulation
  <2>1. /\ now' \in Nat /\ now <= now' /\ now' <= End /\ pc = "running" /\ pc' = "stopped"
        /\ Queue(events') /\ Waiting(events') = {}
        /\ UNCHANGED <<choices, app, wire, results>>
    BY <1>8, EndEffect
  <2>2. requests' = requests /\ app' = app /\ wire' = wire
    BY <2>1 DEF choices
  <2>3. Apps' = Apps
    BY <2>2 DEF Apps
  <2>4. NetTypes'
    BY <2>1, <2>2, <2>3 DEF NetInv, NetTypes, choices
  <2>5. QueueInv'
    BY <2>1 DEF QueueInv
  <2>6. ASSUME NEW b \in Apps
        PROVE  AppOK(b)'
    <3>1. /\ app[b].lastStart <= now /\ app[b].residual <= PktBits
          /\ app[b].socket = "open" => StartAt(requests[b]) <= now
          /\ wire[b] > 0 => HasTraffic(requests, b)
      BY DEF NetInv, AppOK
    <3>2. app[b].lastStart \in Nat /\ now \in Nat /\ StartAt(requests[b]) \in Nat
      BY MapIsList, TimesAreNat DEF NetInv, NetTypes, AppState, Apps
    <3>3. app[b].lastStart <= now' /\ (app[b].socket = "open" => StartAt(requests[b]) <= now')
      BY <2>1, <3>1, <3>2
    <3> QED
      BY <2>1, <2>2, <3>1, <3>3 DEF AppOK
  <2> QED
    BY <2>3, <2>4, <2>5, <2>6 DEF NetInv
<1>9. ASSUME NEW a \in Apps, HandleRead(a)
      PROVE  NetInv'
  <2>1. /\ UNCHANGED <<choices, now, events, app, pc>> /\ pc = "running"
        /\ \E n \in 1 .. wire[a] : wire' = [wire EXCEPT ![a] = @ - n]
    BY <1>9 DEF HandleRead
  <2>2. requests' = requests /\ app' = app /\ now' = now /\ events' = events /\ pc' = pc
    BY <2>1 DEF choices
  <2>3. /\ wire' \in [Apps -> Nat]
        /\ \A b \in Apps : wire'[b] > 0 => wire[b] > 0
    <3>1. PICK n \in 1 .. wire[a] : wire' = [wire EXCEPT ![a] = @ - n]
      BY <2>1
    <3>2. wire[a] \in Nat /\ wire[a] - n \in Nat /\ wire[a] > 0
      BY <1>1, <1>9, <3>1
    <3> QED
      BY <1>1, <3>1, <3>2
  <2>4. Apps' = Apps
    BY <2>2 DEF Apps
  <2>5. NetTypes'
    BY <2>1, <2>2, <2>3, <2>4 DEF NetInv, NetTypes, choices
  <2>6. QueueInv'
    BY <2>2, <2>4 DEF NetInv, QueueInv
  <2>7. ASSUME NEW b \in Apps
        PROVE  AppOK(b)'
    BY <2>2, <2>3 DEF NetInv, AppOK, EventOK
  <2> QED
    BY <2>4, <2>5, <2>6, <2>7 DEF NetInv
<1>10. CASE UNCHANGED vars
  <2>1. /\ requests' = requests /\ app' = app /\ now' = now /\ events' = events /\ pc' = pc
        /\ wire' = wire /\ onTime' = onTime /\ offTime' = offTime /\ maxBits' = maxBits
    BY <1>10 DEF vars, choices
  <2>2. Apps' = Apps
    BY <2>1 DEF Apps
  <2>3. NetTypes' /\ QueueInv'
    BY <2>1, <2>2 DEF NetInv, NetTypes, QueueInv
  <2>4. ASSUME NEW b \in Apps
        PROVE  AppOK(b)'
    BY <2>1 DEF NetInv, AppOK, EventOK
  <2> QED
    BY <2>2, <2>3, <2>4 DEF NetInv
<1> QED
  BY <1>3, <1>4, <1>5, <1>6, <1>7, <1>8, <1>9, <1>10 DEF Next, Apps

\* The invariant holds in every reachable state.
LEMMA NetInvHolds == Spec => []NetInv
<1>1. Init => NetInv
  BY NetInvInit
<1> QED
  BY <1>1, NetInvNext, PTL DEF Spec

-----------------------------------------------------------------------------
(* The theorems. *)

\* The variables of EdgeNetwork have their types in every reachable state: no
\* event lies in the past, no more bits are carried over than a packet has, and
\* NS_ABORT is never reached (traffic_gen_application.cc:293).
THEOREM NetTypesCorrect == Spec => []NetTypeOK
<1>1. NetInv => NetTypeOK
  <2> SUFFICES ASSUME NetInv
               PROVE  NetTypeOK
    OBVIOUS
  <2>1. now \in 0 .. End /\ wire \in [Apps -> Nat] /\ pc \in {"running", "stopped", "exited"}
    BY TimesAreNat DEF NetInv, NetTypes
  <2>2. ASSUME NEW i \in DOMAIN events
        PROVE  events[i].at >= now /\ events[i].app \in {0} \cup Apps
    <3>1. events[i] \in Waiting(events)
      BY DEF Waiting
    <3>2. /\ events[i] \in Ev /\ now <= events[i].at
          /\ events[i] = EndEvent \/ events[i].app \in Apps
      BY <3>1, QueueHasEvents DEF NetInv, QueueInv
    <3>3. EndEvent.app = 0
      BY DEF EndEvent, Event
    <3>4. events[i].at \in Nat /\ now \in Nat
      BY <3>2 DEF Ev, NetInv, NetTypes
    <3> QED
      BY <3>2, <3>3, <3>4
  <2> DEFINE S == [socket : {"none", "open", "closed"}, residual : 0 .. PktBits,
                   lastStart : 0 .. End, sent : Nat, unsent : BOOLEAN]
  <2>3. ASSUME NEW a \in Apps
        PROVE  app[a] \in S
    <3>1. /\ app[a] \in AppState /\ app[a].residual <= PktBits /\ app[a].lastStart <= now
          /\ now \in Nat /\ now <= End /\ End \in Nat /\ PktBits \in Nat
      BY TimesAreNat DEF NetInv, NetTypes, AppOK
    <3>2. app[a].residual \in 0 .. PktBits /\ app[a].lastStart \in 0 .. End
      BY <3>1 DEF AppState
    <3> QED
      BY <3>1, <3>2 DEF AppState
  <2>4. app \in [Apps -> S]
    <3>1. app = [a \in Apps |-> app[a]]
      BY DEF NetInv, NetTypes
    <3> HIDE DEF S
    <3> QED
      BY <2>3, <3>1
  <2> QED
    BY <2>1, <2>2, <2>4 DEF NetTypeOK
<1> QED
  BY <1>1, NetInvHolds, PTL

\* The events of these kinds that wait are at the places of PendingOf.
LEMMA PendingIsOf ==
  ASSUME NEW a, NEW kinds
  PROVE  PendingOf(a, kinds) = {} <=> ~ \E e \in Of(events, a) : e.do \in kinds
BY DEF PendingOf, Of, Waiting

\* An application has one packet and one change between on and off pending at
\* most, and nothing of its own unless it is open (CancelEvents,
\* traffic_gen_application.cc:246-267).
THEOREM OneOfEachHolds == Spec => []OneOfEach
<1>1. NetInv => OneOfEach
  <2> SUFFICES ASSUME NetInv, NEW a \in Apps
               PROVE  /\ Cardinality(PendingOf(a, {"send"})) <= 1
                      /\ Cardinality(PendingOf(a, {"on", "off"})) <= 1
                      /\ app[a].socket # "open" => PendingOf(a, {"send", "on", "off"}) = {}
    BY DEF OneOfEach
  <2>1. ASSUME NEW P, \A i, j \in P : i = j
        PROVE  Cardinality(P) <= 1
    <3>1. CASE P = {}
      BY <3>1, FS_EmptySet
    <3>2. CASE P # {}
      <4>1. PICK x \in P : TRUE
        BY <3>2
      <4>2. P = {x}
        BY <2>1, <4>1
      <4>3. Cardinality({x}) = 1
        BY FS_Singleton
      <4> QED
        BY <4>2, <4>3
    <3> QED
      BY <3>1, <3>2
  <2>2. OnlyOne(events)
    BY DEF NetInv, QueueInv, Queue
  <2>3. \A i, j \in PendingOf(a, {"send"}) : i = j
    BY <2>2 DEF PendingOf, OnlyOne
  <2>4. \A i, j \in PendingOf(a, {"on", "off"}) : i = j
    BY <2>2 DEF PendingOf, OnlyOne, Kind
  <2>5. app[a].socket # "open" => PendingOf(a, {"send", "on", "off"}) = {}
    <3>1. \A e \in Of(events, a) : e.do \in Own => app[a].socket = "open"
      BY OfIs DEF EventOK
    <3> QED
      BY <3>1, PendingIsOf DEF Own
  <2> QED
    BY <2>1, <2>3, <2>4, <2>5
<1> QED
  BY <1>1, NetInvHolds, PTL

\* The bits of an application that is open fit into the time since its slot began.
Fits(a) ==
  app[a].socket = "open" =>
    app[a].sent + app[a].residual
      + (IF \E e \in Of(events, a) : e.do = "send" THEN now - app[a].lastStart ELSE 0)
      <= now - StartAt(requests[a])

FitsInv == \A a \in Apps : Fits(a)

LEMMA FitsIsNeverFaster == FitsInv <=> NeverFaster
<1>1. ASSUME NEW a \in Apps
      PROVE  PendingOf(a, {"send"}) = {} <=> ~ \E e \in Of(events, a) : e.do = "send"
  BY PendingIsOf
<1> QED
  BY <1>1 DEF FitsInv, Fits, NeverFaster, StartAt

LEMMA FitsInit == Init => FitsInv
BY DEF Init, FitsInv, Fits, NoApp, Apps

LEMMA FitsNext == NetInv /\ FitsInv /\ [Next]_vars => FitsInv'
<1> SUFFICES ASSUME NetInv, FitsInv, [Next]_vars
             PROVE  FitsInv'
  OBVIOUS
<1>1. ASSUME NEW a \in Apps
      PROVE  /\ app[a].sent \in Nat /\ app[a].residual \in Nat /\ app[a].lastStart \in Nat
             /\ now \in Nat /\ StartAt(requests[a]) \in Nat /\ PktBits \in Nat
             /\ app[a].lastStart <= now
  BY MapIsList, TimesAreNat DEF NetInv, NetTypes, AppState, AppOK, Apps
<1>2. ASSUME NEW a \in Apps, Moved(a), Fits(a)'
      PROVE  FitsInv'
  <2>1. requests' = requests /\ now' \in Nat /\ now <= now'
    BY <1>2 DEF Moved, choices
  <2>2. Apps' = Apps
    BY <2>1 DEF Apps
  <2>3. ASSUME NEW b \in Apps, b # a
        PROVE  Fits(b)'
    <3>1. Of(events', b) = Of(events, b) /\ app'[b] = app[b]
      BY <1>2, <2>3 DEF Moved
    <3>2. Fits(b)
      BY DEF FitsInv
    <3> DEFINE p == \E e \in Of(events, b) : e.do = "send"
    <3>3. app[b].socket = "open" =>
             app[b].sent + app[b].residual + (IF p THEN now' - app[b].lastStart ELSE 0)
               <= now' - StartAt(requests[b])
      <4>1. app[b].socket = "open" =>
              app[b].sent + app[b].residual + (IF p THEN now - app[b].lastStart ELSE 0)
                <= now - StartAt(requests[b])
        BY <3>2 DEF Fits
      <4> HIDE DEF p
      <4> QED
        BY <1>1, <2>1, <4>1
    <3> QED
      BY <2>1, <3>1, <3>3 DEF Fits
  <2> QED
    BY <1>2, <2>2, <2>3 DEF FitsInv
<1>3. ASSUME NEW a \in Apps, StartApplication(a)
      PROVE  FitsInv'
  <2>1. /\ Moved(a) /\ now' = StartAt(requests[a])
        /\ app'[a] = [socket |-> "open", residual |-> 0, lastStart |-> 0,
                      sent |-> 0, unsent |-> FALSE]
        /\ Of(events', a) = {e \in Of(events, a) : e.do \notin Own \cup {"start"}}
                              \cup {Event(now' + offTime, a, "on")}
    BY <1>3, StartEffect
  <2>2. requests' = requests
    BY <2>1 DEF Moved, choices
  <2>3. ~ \E e \in Of(events', a) : e.do = "send"
    BY <2>1 DEF Own, Event
  <2>4. Fits(a)'
    BY <1>1, <2>1, <2>2, <2>3 DEF Fits
  <2> QED
    BY <1>2, <2>1, <2>4
<1>4. ASSUME NEW a \in Apps, StopApplication(a)
      PROVE  FitsInv'
  <2>1. Moved(a) /\ app'[a].socket = "closed"
    BY <1>4, StopEffect
  <2>2. Fits(a)'
    BY <2>1 DEF Fits
  <2> QED
    BY <1>2, <2>1, <2>2
<1>5. ASSUME NEW a \in Apps, StartSending(a)
      PROVE  FitsInv'
  <2>1. /\ Moved(a) /\ app[a].socket = "open"
        /\ \A e \in Of(events, a) : e.do # "send"
        /\ app'[a].residual = app[a].residual /\ app'[a].lastStart = now'
        /\ app'[a].sent = app[a].sent
    BY <1>5, OnEffect
  <2>2. requests' = requests /\ now' \in Nat /\ now <= now'
    BY <2>1 DEF Moved, choices
  <2>3. app[a].sent + app[a].residual <= now - StartAt(requests[a])
    <3>1. app[a].sent + app[a].residual + 0 <= now - StartAt(requests[a])
      BY <2>1 DEF FitsInv, Fits
    <3> QED
      BY <1>1, <3>1
  <2>4. app[a].sent + app[a].residual + 0 <= now' - StartAt(requests[a])
    BY <1>1, <2>2, <2>3
  <2>5. now' - app'[a].lastStart = 0
    <3>1. \A t \in Nat : t - t = 0
      OBVIOUS
    <3>2. now' - now' = 0
      BY <2>2, <3>1
    <3>3. app'[a].lastStart = now'
      BY <2>1
    <3> QED
      BY <3>2, <3>3
  <2>6. Fits(a)'
    BY <2>1, <2>2, <2>4, <2>5 DEF Fits
  <2> QED
    BY <1>2, <2>1, <2>6
<1>6. ASSUME NEW a \in Apps, StopSending(a)
      PROVE  FitsInv'
  <2> DEFINE p == \E e \in Of(events, a) : e.do = "send"
  <2>1. /\ Moved(a) /\ app[a].socket = "open" /\ app'[a].lastStart = app[a].lastStart
        /\ app'[a].sent = app[a].sent
        /\ app'[a].residual = app[a].residual + IF p THEN now' - app[a].lastStart ELSE 0
        /\ Of(events', a) = {e \in Of(events, a) : e.do \notin Own}
                              \cup {Event(now' + offTime, a, "on")}
    BY <1>6, OffEffect
  <2>2. requests' = requests /\ now' \in Nat /\ now <= now'
    BY <2>1 DEF Moved, choices
  <2>3. app[a].sent + app[a].residual + (IF p THEN now - app[a].lastStart ELSE 0)
          <= now - StartAt(requests[a])
    BY <2>1 DEF FitsInv, Fits
  <2>4. ~ \E e \in Of(events', a) : e.do = "send"
    BY <2>1 DEF Own, Event
  <2> HIDE DEF p
  <2>5. app[a].sent + (app[a].residual + IF p THEN now' - app[a].lastStart ELSE 0) + 0
          <= now' - StartAt(requests[a])
    BY <1>1, <2>2, <2>3
  <2>6. Fits(a)'
    BY <2>1, <2>2, <2>4, <2>5 DEF Fits
  <2> QED
    BY <1>2, <2>1, <2>6
<1>7. ASSUME NEW a \in Apps, SendPacket(a)
      PROVE  FitsInv'
  <2>1. /\ Moved(a) /\ app[a].socket = "open"
        /\ Event(now', a, "send") \in Of(events, a)
        /\ now' = app[a].lastStart + PktBits - app[a].residual
        /\ app'[a].residual = 0 /\ app'[a].lastStart = now'
        /\ \E taken \in BOOLEAN : app'[a].sent = app[a].sent + IF taken THEN PktBits ELSE 0
    BY <1>7, SendEffect
  <2>2. requests' = requests /\ now' \in Nat /\ now <= now'
    BY <2>1 DEF Moved, choices
  <2>3. app[a].sent + app[a].residual + (now - app[a].lastStart) <= now - StartAt(requests[a])
    <3>1. Event(now', a, "send").do = "send"
      BY DEF Event
    <3> QED
      BY <2>1, <3>1 DEF FitsInv, Fits
  <2>4. app'[a].sent \in Nat /\ app'[a].sent <= app[a].sent + PktBits
    BY <1>1, <2>1
  <2>5. app'[a].sent + 0 + 0 <= now' - StartAt(requests[a])
    BY <1>1, <2>1, <2>2, <2>3, <2>4
  <2>6. now' - app'[a].lastStart = 0
    BY <2>1, <2>2
  <2>7. Fits(a)'
    BY <2>1, <2>2, <2>5, <2>6 DEF Fits
  <2> QED
    BY <1>2, <2>1, <2>7
<1>8. CASE EndSimulation
  <2>1. /\ now' \in Nat /\ now <= now' /\ Waiting(events') = {}
        /\ requests' = requests /\ app' = app
    BY <1>8, EndEffect DEF choices
  <2>2. Apps' = Apps
    BY <2>1 DEF Apps
  <2>3. ASSUME NEW b \in Apps
        PROVE  Fits(b)'
    <3>1. Of(events', b) = {}
      BY <2>1 DEF Of
    <3>2. Fits(b)
      BY DEF FitsInv
    <3> DEFINE x == IF \E e \in Of(events, b) : e.do = "send" THEN now - app[b].lastStart ELSE 0
    <3>3. app[b].socket = "open" => app[b].sent + app[b].residual + x <= now - StartAt(requests[b])
      BY <3>2 DEF Fits
    <3>4. x >= 0 /\ x \in Int
      BY <1>1
    <3> HIDE DEF x
    <3>5. app[b].socket = "open" => app[b].sent + app[b].residual + 0 <= now' - StartAt(requests[b])
      BY <1>1, <2>1, <3>3, <3>4
    <3> QED
      BY <2>1, <3>1, <3>5 DEF Fits
  <2> QED
    BY <2>2, <2>3 DEF FitsInv
<1>9. ASSUME UNCHANGED <<choices, now, events, app, pc>>
      PROVE  FitsInv'
  <2>1. requests' = requests /\ now' = now /\ events' = events /\ app' = app
    BY <1>9 DEF choices
  <2>2. Apps' = Apps
    BY <2>1 DEF Apps
  <2> QED
    BY <2>1, <2>2 DEF FitsInv, Fits
<1>10. ASSUME NEW a \in Apps, HandleRead(a)
       PROVE  FitsInv'
  BY <1>9, <1>10 DEF HandleRead
<1>11. CASE UNCHANGED vars
  BY <1>9, <1>11 DEF vars, choices
<1> QED
  BY <1>3, <1>4, <1>5, <1>6, <1>7, <1>8, <1>10, <1>11 DEF Next, Apps

\* However it goes on and off and whatever the socket refuses, an application
\* sends no faster than its rate: bits that are carried over a pause are counted
\* once (traffic_gen_application.cc:250-255, 412).
THEOREM NeverFasterHolds == Spec => []NeverFaster
<1>1. NetInv /\ FitsInv /\ [Next]_vars => FitsInv'
  BY FitsNext
<1>2. FitsInv => NeverFaster
  BY FitsIsNeverFaster
<1> QED
  BY <1>1, <1>2, FitsInit, NetInvHolds, PTL DEF Spec

\* A packet leaves in the slot of its request: an application sends from when it
\* was started until it is stopped, and the stop of the same tick comes first
\* (create_request_traffic, network_controller.cc:271-289).
Sends ==
  \A a \in Apps : app'[a].sent > app[a].sent =>
    /\ now' >= requests[a].slot * SlotTicks
    /\ now' < (requests[a].slot + 1) * SlotTicks

LEMMA SendsInItsSlot == NetInv /\ [Next]_vars => [Sends]_vars
<1> SUFFICES ASSUME NetInv, Next
             PROVE  Sends
  BY DEF vars
<1>1. ASSUME NEW a \in Apps
      PROVE  app[a].sent \in Nat
  BY DEF NetInv, NetTypes, AppState
<1>2. ASSUME NEW a \in Apps, Moved(a), app'[a].sent <= app[a].sent, app'[a].sent \in Nat
      PROVE  Sends
  <2>1. ASSUME NEW b \in Apps
        PROVE  ~ (app'[b].sent > app[b].sent)
    <3>1. CASE b = a
      BY <1>1, <1>2, <3>1
    <3>2. CASE b # a
      <4>1. app'[b] = app[b] /\ app[b].sent \in Nat
        BY <1>1, <1>2, <3>2 DEF Moved
      <4> QED
        BY <4>1
    <3> QED
      BY <3>1, <3>2
  <2> QED
    BY <2>1 DEF Sends
<1>3. ASSUME NEW a \in Apps, StartApplication(a)
      PROVE  Sends
  <2>1. Moved(a) /\ app'[a].sent = 0
    BY <1>3, StartEffect
  <2> QED
    BY <1>1, <1>2, <2>1
<1>4. ASSUME NEW a \in Apps, StopApplication(a)
      PROVE  Sends
  <2>1. Moved(a) /\ app'[a].sent = app[a].sent
    BY <1>4, StopEffect
  <2> QED
    BY <1>1, <1>2, <2>1
<1>5. ASSUME NEW a \in Apps, StartSending(a)
      PROVE  Sends
  <2>1. Moved(a) /\ app'[a].sent = app[a].sent
    BY <1>5, OnEffect
  <2> QED
    BY <1>1, <1>2, <2>1
<1>6. ASSUME NEW a \in Apps, StopSending(a)
      PROVE  Sends
  <2>1. Moved(a) /\ app'[a].sent = app[a].sent
    BY <1>6, OffEffect
  <2> QED
    BY <1>1, <1>2, <2>1
<1>7. ASSUME NEW a \in Apps, SendPacket(a)
      PROVE  Sends
  <2>1. /\ Moved(a) /\ app[a].socket = "open"
        /\ \E e \in Waiting(events) :
              e = Event(StopAt(requests[a]), a, "stop") /\ now' < e.at
    BY <1>7, SendEffect
  <2>2. now' < StopAt(requests[a])
    BY <2>1 DEF Event
  <2>3. /\ now \in Nat /\ now' \in Nat /\ now <= now'
        /\ StartAt(requests[a]) \in Nat /\ StartAt(requests[a]) <= now
    BY <2>1, MapIsList, TimesAreNat DEF NetInv, NetTypes, AppOK, Apps, Moved
  <2>4. StartAt(requests[a]) <= now'
    BY <2>3
  <2>5. now' >= requests[a].slot * SlotTicks /\ now' < (requests[a].slot + 1) * SlotTicks
    BY <2>2, <2>3, <2>4 DEF StartAt, StopAt
  <2>6. ASSUME NEW b \in Apps, b # a
        PROVE  ~ (app'[b].sent > app[b].sent)
    <3>1. app'[b] = app[b] /\ app[b].sent \in Nat
      BY <1>1, <2>1, <2>6 DEF Moved
    <3> QED
      BY <3>1
  <2> QED
    BY <2>5, <2>6 DEF Sends
<1>8. ASSUME app' = app
      PROVE  Sends
  <2>1. ASSUME NEW b \in Apps
        PROVE  ~ (app'[b].sent > app[b].sent)
    BY <1>1, <1>8
  <2> QED
    BY <2>1 DEF Sends
<1>9. ASSUME NEW a \in Apps, HandleRead(a)
      PROVE  Sends
  BY <1>8, <1>9 DEF HandleRead
<1>10. CASE EndSimulation
  BY <1>8, <1>10 DEF EndSimulation
<1> QED
  BY <1>3, <1>4, <1>5, <1>6, <1>7, <1>9, <1>10 DEF Next, Apps

\* No packet of a request leaves before its slot or after it
\* (create_request_traffic: "all reuqest are finished in one sec").
THEOREM SentInItsSlotHolds == Spec => SentInItsSlot
<1>1. NetInv /\ [Next]_vars => [Sends]_vars
  BY SendsInItsSlot
<1> QED
  BY <1>1, NetInvHolds, PTL DEF Spec, SentInItsSlot, Sends

LEMMA WaitsNext == NetInv /\ WaitsInv /\ [Next]_vars => WaitsInv'
<1> SUFFICES ASSUME NetInv, WaitsInv, [Next]_vars
             PROVE  WaitsInv'
  OBVIOUS
<1> DEFINE begin(a) == StartAt(requests[a])
           end(a) == StopAt(requests[a])
           steady == offTime = 0 /\ onTime >= SlotTicks
<1>1. ASSUME NEW a \in Apps
      PROVE  /\ begin(a) \in Nat /\ end(a) = begin(a) + SlotTicks
             /\ SlotTicks \in Nat /\ SlotTicks # 0 /\ PktBits \in Nat /\ PktBits # 0
             /\ app[a].sent \in Nat /\ now \in Nat /\ onTime \in Nat
  BY MapIsList, TimesAreNat DEF NetInv, NetTypes, AppState, Apps
<1>2. ASSUME NEW a \in Apps, Moved(a), pc = "running", Waits(a)'
      PROVE  WaitsInv'
  <2>1. requests' = requests /\ onTime' = onTime /\ offTime' = offTime
    BY <1>2 DEF Moved, choices
  <2>2. Apps' = Apps
    BY <2>1 DEF Apps
  <2>3. ASSUME NEW b \in Apps, b # a
        PROVE  Waits(b)'
    <3>1. Of(events', b) = Of(events, b) /\ app'[b] = app[b]
      BY <1>2, <2>3 DEF Moved
    <3>2. \A e : e.app = b => (e \in Waiting(events') <=> e \in Waiting(events))
      BY <3>1 DEF Of
    <3>3. \A t, what : Event(t, b, what) \in Waiting(events')
                         <=> Event(t, b, what) \in Waiting(events)
      BY <3>2 DEF Event
    <3>4. Waits(b) /\ pc = "running"
      BY <1>2 DEF WaitsInv
    <3> QED
      BY <2>1, <3>1, <3>2, <3>3, <3>4 DEF Waits
  <2> QED
    BY <1>2, <2>2, <2>3 DEF WaitsInv
<1>3. ASSUME NEW a \in Apps, StartApplication(a)
      PROVE  WaitsInv'
  <2>1. /\ Moved(a) /\ pc = "running" /\ now' = begin(a)
        /\ app'[a] = [socket |-> "open", residual |-> 0, lastStart |-> 0,
                      sent |-> 0, unsent |-> FALSE]
        /\ Of(events', a) = {e \in Of(events, a) : e.do \notin Own \cup {"start"}}
                              \cup {Event(now' + offTime, a, "on")}
    BY <1>3, StartEffect
  <2>2. requests' = requests /\ offTime' = offTime
    BY <2>1 DEF Moved, choices
  <2>3. \A e \in Waiting(events') : ~ (e.app = a /\ e.do = "off")
    BY <2>1 DEF Of, Own, Event
  <2>4. offTime = 0 => Event(begin(a), a, "on") \in Waiting(events')
    <3>1. offTime = 0 => now' + offTime = begin(a)
      BY <1>1, <2>1
    <3>2. Event(now' + offTime, a, "on") \in Waiting(events')
      BY <2>1 DEF Of
    <3> QED
      BY <3>1, <3>2
  <2>5. Waits(a)'
    BY <2>1, <2>2, <2>3, <2>4 DEF Waits
  <2> QED
    BY <1>2, <2>1, <2>5
<1>4. ASSUME NEW a \in Apps, StopApplication(a)
      PROVE  WaitsInv'
  <2>1. /\ Moved(a) /\ pc = "running" /\ app'[a].socket = "closed"
        /\ Of(events', a) = {e \in Of(events, a) : e.do \notin Own \cup {"stop"}}
    BY <1>4, StopEffect
  <2>2. \A e \in Waiting(events') : ~ (e.app = a /\ e.do \in {"off", "stop"})
    BY <2>1 DEF Of, Own
  <2>3. \A t : Event(t, a, "stop") \notin Waiting(events')
    BY <2>2 DEF Event
  <2>4. Waits(a)'
    BY <2>1, <2>2, <2>3 DEF Waits
  <2> QED
    BY <1>2, <2>1, <2>4
<1>5. ASSUME NEW a \in Apps, StartSending(a)
      PROVE  WaitsInv'
  <2> DEFINE b == Event(now', a, "on")
             d == Event(now' + PktBits - app[a].residual, a, "send")
             f == Event(now' + onTime, a, "off")
  <2>1. /\ Moved(a) /\ pc = "running" /\ b \in Of(events, a)
        /\ \A e \in Of(events, a) : e.do # "send"
        /\ app[a].socket = "open"
        /\ app'[a].residual = app[a].residual /\ app'[a].lastStart = now'
        /\ app'[a].sent = app[a].sent /\ app'[a].unsent = app[a].unsent
        /\ \/ /\ pc' = pc /\ app'[a].socket = "open"
              /\ Of(events', a) = {e \in Of(events, a) : e.do \notin {"on", "off"}} \cup {d, f}
           \/ /\ pc' = "exited" /\ app'[a].socket = "closed"
              /\ Of(events', a) = {e \in Of(events, a) : e.do \notin Own}
    BY <1>5, OnEffect
  <2>2. /\ requests' = requests /\ offTime' = offTime /\ onTime' = onTime
        /\ now' \in Nat /\ now <= now'
    BY <2>1 DEF Moved, choices
  <2>3. CASE pc' = "exited"
    BY <1>2, <2>1, <2>3 DEF Waits
  <2>4. CASE pc' # "exited"
    <3>1. /\ app'[a].socket = "open"
          /\ Of(events', a) = {e \in Of(events, a) : e.do \notin {"on", "off"}} \cup {d, f}
      BY <2>1, <2>4
    <3>2. begin(a) <= now'
      <4>1. begin(a) <= now
        BY <2>1 DEF NetInv, AppOK
      <4> QED
        BY <1>1, <2>2, <4>1
    <3>3. steady => now' + onTime >= end(a)
      BY <1>1, <2>2, <3>2
    <3>4. ASSUME NEW e \in Waiting(events'), e.app = a, e.do = "off", steady
          PROVE  e.at >= end(a)
      <4>1. e \in Of(events', a) /\ d.do = "send"
        BY <3>4 DEF Of, Event
      <4>2. e = f
        BY <3>1, <3>4, <4>1
      <4> QED
        BY <3>3, <3>4, <4>2 DEF Event
    <3>5. ASSUME steady, app[a].sent = 0, ~ app[a].unsent
          PROVE  /\ app[a].residual = 0
                 /\ Event(begin(a) + PktBits, a, "send") \in Waiting(events')
      <4>1. /\ app[a].residual = 0
            /\ \/ Event(begin(a), a, "on") \in Waiting(events)
               \/ Event(begin(a) + PktBits, a, "send") \in Waiting(events)
        BY <2>1, <3>5 DEF WaitsInv, Waits
      <4>2. Event(begin(a) + PktBits, a, "send") \notin Waiting(events)
        BY <2>1 DEF Of, Event
      <4>3. Due(a, "on")
        BY <1>5 DEF StartSending
      <4>4. \A w \in Waiting(events) :
              w.app = a /\ Kind(w.do) = Kind("on") => w = b
        BY <4>3, DueIs
      <4>5. Event(begin(a), a, "on") = b
        <5>1. Event(begin(a), a, "on").app = a /\ Event(begin(a), a, "on").do = "on"
          BY DEF Event
        <5> QED
          BY <4>1, <4>2, <4>4, <5>1
      <4>6. begin(a) = now'
        BY <4>5 DEF Event
      <4>7. now' + PktBits - app[a].residual = begin(a) + PktBits
        BY <1>1, <4>1, <4>6
      <4>8. d \in Waiting(events')
        BY <3>1 DEF Of
      <4> QED
        BY <4>1, <4>7, <4>8
    <3>6. Waits(a)'
      BY <2>1, <2>2, <3>1, <3>4, <3>5 DEF Waits
    <3> QED
      BY <1>2, <2>1, <3>6
  <2> QED
    BY <2>3, <2>4
<1>6. ASSUME NEW a \in Apps, StopSending(a)
      PROVE  WaitsInv'
  <2>1. /\ Moved(a) /\ pc = "running" /\ Event(now', a, "off") \in Of(events, a)
        /\ \E e \in Waiting(events) :
              e = Event(StopAt(requests[a]), a, "stop") /\ now' < e.at
        /\ app'[a].socket = "open"
    BY <1>6, OffEffect
  <2>2. requests' = requests /\ offTime' = offTime /\ onTime' = onTime /\ now' \in Nat
    BY <2>1 DEF Moved, choices
  <2>3. now' < end(a)
    BY <2>1 DEF Event
  <2>4. ~ steady
    <3> SUFFICES ASSUME steady
                 PROVE  FALSE
      OBVIOUS
    <3>1. \A e \in Waiting(events) : e.app = a /\ e.do = "off" => e.at >= end(a)
      BY <2>1 DEF WaitsInv, Waits
    <3>2. now' >= end(a)
      BY <2>1, <3>1 DEF Of, Event
    <3> QED
      BY <1>1, <2>2, <2>3, <3>2
  <2>5. Waits(a)'
    BY <2>1, <2>2, <2>4 DEF Waits
  <2> QED
    BY <1>2, <2>1, <2>5
<1>7. ASSUME NEW a \in Apps, SendPacket(a)
      PROVE  WaitsInv'
  <2>1. /\ Moved(a) /\ pc = "running"
        /\ \E taken \in BOOLEAN :
              /\ app'[a].unsent = ~ taken
              /\ app'[a].sent = app[a].sent + IF taken THEN PktBits ELSE 0
        /\ \/ /\ pc' = pc /\ app'[a].socket = "open"
              /\ Of(events', a) = {e \in Of(events, a) : e.do # "send"}
                                     \cup {Event(now' + PktBits, a, "send")}
           \/ /\ pc' = "exited" /\ app'[a].socket = "closed"
              /\ Of(events', a) = {e \in Of(events, a) : e.do \notin Own}
    BY <1>7, SendEffect
  <2>2. requests' = requests /\ offTime' = offTime /\ onTime' = onTime
    BY <2>1 DEF Moved, choices
  <2>3. ~ (app'[a].sent = 0 /\ ~ app'[a].unsent)
    <3>1. PICK taken \in BOOLEAN :
            /\ app'[a].unsent = ~ taken
            /\ app'[a].sent = app[a].sent + IF taken THEN PktBits ELSE 0
      BY <2>1
    <3>2. taken => app'[a].sent # 0
      BY <1>1, <3>1
    <3> QED
      BY <3>1, <3>2
  <2>4. CASE pc' = "exited"
    BY <1>2, <2>1, <2>4 DEF Waits
  <2>5. CASE pc' # "exited"
    <3>1. app'[a].socket = "open"
      BY <2>1, <2>5
    <3>2. \A e \in Waiting(events') :
            e.app = a /\ e.do = "off" => e \in Waiting(events)
      <4>1. Of(events', a) = {e \in Of(events, a) : e.do # "send"}
                               \cup {Event(now' + PktBits, a, "send")}
        BY <2>1, <2>5
      <4> QED
        BY <4>1 DEF Of, Event
    <3>3. steady => \A e \in Waiting(events') :
                      e.app = a /\ e.do = "off" => e.at >= end(a)
      BY <2>1, <3>2 DEF WaitsInv, Waits
    <3>4. Waits(a)'
      BY <2>2, <2>3, <3>1, <3>3 DEF Waits
    <3> QED
      BY <1>2, <2>1, <3>4
  <2> QED
    BY <2>4, <2>5
<1>8. CASE EndSimulation
  <2>1. pc' = "stopped"
    BY <1>8, EndEffect
  <2> QED
    BY <2>1 DEF WaitsInv, Waits
<1>9. ASSUME UNCHANGED <<choices, now, events, app, pc>>
      PROVE  WaitsInv'
  <2>1. /\ requests' = requests /\ onTime' = onTime /\ offTime' = offTime
        /\ events' = events /\ app' = app /\ pc' = pc
    BY <1>9 DEF choices
  <2>2. Apps' = Apps
    BY <2>1 DEF Apps
  <2> QED
    BY <2>1, <2>2 DEF WaitsInv, Waits
<1>10. ASSUME NEW a \in Apps, HandleRead(a)
       PROVE  WaitsInv'
  BY <1>9, <1>10 DEF HandleRead
<1>11. CASE UNCHANGED vars
  BY <1>9, <1>11 DEF vars, choices
<1> QED
  BY <1>3, <1>4, <1>5, <1>6, <1>7, <1>8, <1>10, <1>11 DEF Next, Apps

\* An application whose node is reached has sent when its slot is over, unless
\* the socket refused its last packet (create_request_traffic,
\* network_controller.cc:271-289): said of packets shorter than a slot, sent without
\* pauses.
FirstSent ==
  \A a \in Apps :
    (StopApplication(a) /\ Reached(requests[a]) /\ PktBits < SlotTicks
       /\ offTime = 0 /\ onTime >= SlotTicks /\ ~ app[a].unsent)
      => app[a].sent > 0

LEMMA StoppedHaveSent == NetInv /\ WaitsInv /\ [Next]_vars => [FirstSent]_vars
<1> SUFFICES ASSUME NetInv, WaitsInv, NEW a \in Apps, StopApplication(a),
                    PktBits < SlotTicks, offTime = 0, onTime >= SlotTicks, ~ app[a].unsent
             PROVE  app[a].sent > 0
  BY DEF FirstSent
<1> DEFINE begin == StartAt(requests[a])
           on == Event(begin, a, "on")
           send == Event(begin + PktBits, a, "send")
           start == Event(begin, a, "start")
<1>1. /\ begin \in Nat /\ StopAt(requests[a]) = begin + SlotTicks
      /\ SlotTicks \in Nat /\ SlotTicks # 0 /\ PktBits \in Nat /\ app[a].sent \in Nat
  BY MapIsList, TimesAreNat DEF NetInv, NetTypes, AppState, Apps
<1>2. pc = "running" /\ now' = StopAt(requests[a])
  BY StopEffect
<1>3. Due(a, "stop")
  BY DEF StopApplication
<1>4. /\ Event(now', a, "stop") \in Waiting(events)
      /\ \A w \in Waiting(events) : now' <= w.at
  BY <1>3, DueIs
<1>5. on.at = begin /\ send.at = begin + PktBits /\ start.at = begin
  BY DEF Event
<1>6. on \notin Waiting(events) /\ send \notin Waiting(events) /\ start \notin Waiting(events)
  <2> HIDE DEF on, send, start, begin
  <2> QED
    BY <1>1, <1>2, <1>4, <1>5
<1>7. Waits(a) /\ Event(StopAt(requests[a]), a, "stop") \in Waiting(events)
  BY <1>2, <1>4 DEF WaitsInv
<1>8. app[a].socket = "open"
  BY <1>2, <1>6, <1>7 DEF Waits
<1>9. app[a].sent # 0
  BY <1>2, <1>6, <1>7, <1>8 DEF Waits
<1> QED
  BY <1>1, <1>9

\* Every request whose node is reached has sent something when it is stopped
\* (genTraffic: "data rate can not be too small otherwise the packet will not arrive").
THEOREM EveryRequestHasSent == Spec => EveryRequestSends
<1>1. NetInv /\ WaitsInv /\ [Next]_vars => WaitsInv'
  BY WaitsNext
<1>2. NetInv /\ WaitsInv /\ [Next]_vars => [FirstSent]_vars
  BY StoppedHaveSent
<1>3. Init => WaitsInv
  BY NetInvInit
<1> QED
  BY <1>1, <1>2, <1>3, NetInvHolds, PTL DEF Spec, EveryRequestSends, FirstSent

-----------------------------------------------------------------------------
(* The tag and the sinks. *)

\* The address that is looked up for a node is on that node.
LEMMA AddressIsOwn ==
  ASSUME NEW d \in Nat, HasAddress(d)
  PROVE  Owner(Address(d)) = d
<1>1. CASE <<d - 1, d>> \in Links
  BY <1>1 DEF Address, Owner
<1>2. CASE <<d - 1, d>> \notin Links /\ <<d, d - 1>> \in Links
  <2>1. Address(d) = [link |-> <<d, d - 1>>, side |-> 0]
    BY <1>2 DEF Address
  <2> QED
    BY <2>1 DEF Owner
<1>3. CASE <<d - 1, d>> \notin Links /\ <<d, d - 1>> \notin Links
  <2>1. Address(d) = [link |-> <<>>, side |-> 0]
    BY <1>3 DEF Address
  <2> QED
    BY <2>1 DEF HasAddress
<1> QED
  BY <1>1, <1>2, <1>3

\* The bytes of two lists, one after the other.
LEMMA JoinedIs ==
  ASSUME NEW s \in Seq(Nat), NEW t \in Seq(Nat)
  PROVE  /\ s \o t \in Seq(Nat) /\ Len(s \o t) = Len(s) + Len(t)
         /\ \A i \in 1 .. Len(s) : (s \o t)[i] = s[i]
         /\ \A i \in 1 .. Len(t) : (s \o t)[Len(s) + i] = t[i]
<1> DEFINE u == s \o t
<1>1. /\ u \in Seq(Nat) /\ Len(u) = Len(s) + Len(t)
      /\ \A i \in 1 .. Len(s) + Len(t) : u[i] =
           IF i <= Len(s) THEN s[i] ELSE t[i - Len(s)]
  BY ConcatProperties
<1>2. Len(s) \in Nat /\ Len(t) \in Nat
  BY LenProperties
<1> HIDE DEF u
<1>3. \A i \in 1 .. Len(s) : u[i] = s[i]
  BY <1>1, <1>2
<1>4. ASSUME NEW i \in 1 .. Len(t)
      PROVE  u[Len(s) + i] = t[i]
  <2> DEFINE k == Len(s) + i
  <2>1. k \in 1 .. Len(s) + Len(t) /\ ~ (k <= Len(s)) /\ k - Len(s) = i
    BY <1>2
  <2> HIDE DEF k
  <2>2. u[k] = t[k - Len(s)]
    BY <1>1, <2>1
  <2> QED
    BY <2>1, <2>2 DEF k
<1> QED
  BY <1>1, <1>3, <1>4 DEF u

\* The first and the last of what is picked.
LEMMA EndsPicked ==
  ASSUME NEW E, NEW s \in Seq(E), NEW P \in SUBSET DOMAIN s, NEW f \in P, NEW l \in P,
         \A i \in P : f <= i /\ i <= l
  PROVE  Head(Picked(s, P)) = s[f] /\ Last(Picked(s, P)) = s[l]
<1> DEFINE n == Cardinality(P)
           read == Picked(s, P)
<1>0. PartOf(Picked(s, P), s, P, E)
  BY PickedIs
<1>1. /\ IsFiniteSet(P) /\ n \in Nat
      /\ read \in Seq(E) /\ Len(read) = n
      /\ DOMAIN read = 1 .. n
      /\ \E to \in [1 .. n -> P] :
            /\ \A p \in 1 .. n : read[p] = s[to[p]]
            /\ \A p, q \in 1 .. n : p < q => to[p] < to[q]
            /\ \A i \in P : \E p \in 1 .. n : to[p] = i
  BY <1>0 DEF PartOf
<1> HIDE DEF n, read
<1>2. PICK to \in [1 .. n -> P] :
            /\ \A p \in 1 .. n : read[p] = s[to[p]]
            /\ \A p, q \in 1 .. n : p < q => to[p] < to[q]
            /\ \A i \in P : \E p \in 1 .. n : to[p] = i
  BY <1>1
<1>3. P \subseteq Nat
  BY LenProperties
<1>4. n # 0 /\ to[1] = f
  <2>1. PICK p \in 1 .. n : to[p] = f
    BY <1>2
  <2>2. 1 \in 1 .. n /\ to[1] \in P
    BY <1>1, <2>1
  <2>3. ~ (1 < p)
    <3> SUFFICES ASSUME 1 < p
                 PROVE  FALSE
      OBVIOUS
    <3>1. to[1] < f /\ f <= to[1]
      BY <1>2, <2>1, <2>2
    <3> QED
      BY <1>3, <2>2, <3>1
  <2> QED
    BY <1>1, <2>1, <2>3
<1>5. to[n] = l
  <2>1. PICK p \in 1 .. n : to[p] = l
    BY <1>2
  <2>2. n \in 1 .. n /\ to[n] \in P
    BY <1>1, <1>4
  <2>3. ~ (p < n)
    <3> SUFFICES ASSUME p < n
                 PROVE  FALSE
      OBVIOUS
    <3>1. l < to[n] /\ to[n] <= l
      BY <1>2, <2>1, <2>2
    <3> QED
      BY <1>3, <2>2, <3>1
  <2> QED
    BY <1>1, <2>1, <2>3
<1>6. 1 \in 1 .. n /\ n \in 1 .. n
  BY <1>1, <1>4
<1>7. read[1] = s[f] /\ read[n] = s[l]
  BY <1>2, <1>4, <1>5, <1>6
<1>8. Head(read) = read[1]
  <2>1. read # <<>>
    BY <1>1, <1>4
  <2> QED
    BY <1>1, <2>1, HeadTailProperties
<1> QED
  BY <1>1, <1>7, <1>8 DEF Last, read

\* What is written under 255 in the first byte and in the last one is read from
\* them again, whatever the bytes between them hold.
LEMMA TagIsRead ==
  ASSUME NEW r \in Request, r.id < 255, r.slot < 255, NEW junk \in [1 .. 5 -> JunkBytes]
  PROVE  ReadTag(r, junk) = [id |-> r.id, slot |-> r.slot]
<1> DEFINE fill == [i \in 1 .. 13 |-> 255]
           first == <<r.id % 256>>
           last == <<r.slot % 256>>
           tag == TagBytes(r, junk)
           bytes == Filled(tag)
           P == {i \in DOMAIN bytes : bytes[i] # 255}
           read == Picked(bytes, P)
<1>1. r.id \in Nat /\ r.slot \in Nat /\ r.id % 256 = r.id /\ r.slot % 256 = r.slot
  BY DEF Request
<1>2. /\ first \in Seq(Nat) /\ Len(first) = 1 /\ first[1] = r.id
      /\ last \in Seq(Nat) /\ Len(last) = 1 /\ last[1] = r.slot
  BY <1>1
<1>3. junk \in Seq(Nat) /\ Len(junk) = 5
  <2>1. JunkBytes \subseteq Nat
    BY NetworkAssumption
  <2>2. junk \in [1 .. 5 -> Nat]
    BY <2>1
  <2>3. junk \in Seq(Nat)
    BY <2>2, SeqDef
  <2>4. DOMAIN junk = 1 .. Len(junk) /\ Len(junk) \in Nat /\ DOMAIN junk = 1 .. 5
    BY <2>2, <2>3, LenProperties
  <2>5. 5 \in 1 .. Len(junk) /\ Len(junk) \in 1 .. 5
    BY <2>4
  <2> QED
    BY <2>3, <2>5
<1> DEFINE begun == first \o junk
<1>4. begun \in Seq(Nat) /\ Len(begun) = 6 /\ begun[1] = r.id
  <2> HIDE DEF first
  <2>1. /\ begun \in Seq(Nat) /\ Len(begun) = Len(first) + Len(junk)
        /\ \A i \in 1 .. Len(first) : begun[i] = first[i]
        /\ \A i \in 1 .. Len(junk) : begun[Len(first) + i] = junk[i]
    <3>1. first \in Seq(Nat) /\ junk \in Seq(Nat)
      BY <1>2, <1>3
    <3> QED
      BY <3>1, JoinedIs
  <2> HIDE DEF begun
  <2> QED
    BY <1>2, <1>3, <2>1
<1>5. tag \in Seq(Nat) /\ Len(tag) = 7 /\ tag[1] = r.id /\ tag[7] = r.slot
  <2>1. tag = begun \o last
    BY DEF TagBytes
  <2> HIDE DEF begun, last, tag
  <2>2. /\ begun \o last \in Seq(Nat) /\ Len(begun \o last) = Len(begun) + Len(last)
        /\ \A i \in 1 .. Len(begun) : (begun \o last)[i] = begun[i]
        /\ \A i \in 1 .. Len(last) : (begun \o last)[Len(begun) + i] = last[i]
    <3>1. begun \in Seq(Nat) /\ last \in Seq(Nat)
      BY <1>2, <1>4
    <3> QED
      BY <3>1, JoinedIs
  <2>3. 1 \in 1 .. Len(begun) /\ 1 \in 1 .. Len(last) /\ Len(begun) + 1 = 7
    BY <1>2, <1>4
  <2>4. tag[1] = begun[1] /\ tag[7] = last[1]
    BY <2>1, <2>2, <2>3
  <2> QED
    BY <1>2, <1>4, <2>1, <2>2, <2>4
<1>6. fill \in Seq(Nat) /\ Len(fill) = 13 /\ \A i \in 1 .. 13 : fill[i] = 255
  OBVIOUS
<1>7. /\ bytes \in Seq(Nat) /\ Len(bytes) = 20 /\ bytes[1] = r.id /\ bytes[7] = r.slot
      /\ \A i \in 8 .. 20 : bytes[i] = 255
  <2> HIDE DEF tag
  <2>1. bytes = tag \o fill
    <3>1. 20 - Len(tag) = 13
      BY <1>5
    <3> QED
      BY <3>1 DEF Filled
  <2> HIDE DEF bytes, fill
  <2>2. /\ tag \o fill \in Seq(Nat) /\ Len(tag \o fill) = Len(tag) + Len(fill)
        /\ \A i \in 1 .. Len(tag) : (tag \o fill)[i] = tag[i]
        /\ \A i \in 1 .. Len(fill) : (tag \o fill)[Len(tag) + i] = fill[i]
    <3>1. tag \in Seq(Nat) /\ fill \in Seq(Nat)
      BY <1>5, <1>6
    <3> QED
      BY <3>1, JoinedIs
  <2>3. /\ bytes \in Seq(Nat) /\ Len(bytes) = Len(tag) + Len(fill)
        /\ \A i \in 1 .. Len(tag) : bytes[i] = tag[i]
        /\ \A i \in 1 .. Len(fill) : bytes[Len(tag) + i] = fill[i]
    BY <2>1, <2>2
  <2>4. ASSUME NEW i \in 8 .. 20
        PROVE  bytes[i] = 255
    <3> DEFINE k == i - 7
    <3>1. k \in 1 .. 13 /\ 7 + k = i
      OBVIOUS
    <3> HIDE DEF k
    <3>2. bytes[7 + k] = fill[k]
      BY <1>5, <1>6, <2>3, <3>1
    <3> QED
      BY <1>6, <3>1, <3>2
  <2>5. Len(bytes) = 20 /\ bytes[1] = tag[1] /\ bytes[7] = tag[7]
    BY <1>5, <1>6, <2>3
  <2> QED
    BY <1>5, <2>3, <2>4, <2>5
<1> HIDE DEF bytes
<1>8. DOMAIN bytes = 1 .. 20
  BY <1>7, LenProperties
<1>9. P \subseteq 1 .. 7 /\ 1 \in P /\ 7 \in P /\ P \subseteq DOMAIN bytes
  <2>1. 1 \in P /\ 7 \in P
    BY <1>1, <1>7, <1>8
  <2>2. ASSUME NEW i \in P
        PROVE  i \in 1 .. 7
    BY <1>7, <1>8
  <2> QED
    BY <2>1, <2>2
<1> HIDE DEF P
<1>10. Head(read) = bytes[1] /\ Last(read) = bytes[7]
  <2>1. \A i \in P : 1 <= i /\ i <= 7
    BY <1>9
  <2> DEFINE B == Nat
  <2>2. bytes \in Seq(B)
    BY <1>7
  <2>3. P \in SUBSET DOMAIN bytes
    BY <1>9
  <2>4. 1 \in P /\ 7 \in P
    BY <1>9
  <2> HIDE DEF B
  <2> QED
    BY <2>1, <2>2, <2>3, <2>4, EndsPicked
<1>11. Head(read) = r.id /\ Last(read) = r.slot
  BY <1>7, <1>10
<1>12. ReadTag(r, junk) = [id |-> Head(read), slot |-> Last(read)]
  BY DEF ReadTag, Deserialize, read, P, bytes
<1> QED
  BY <1>11, <1>12

\* No one but its own application is found under the id of a request.
LEMMA FoundIsOwn ==
  ASSUME requests \in RequestMaps, NEW a \in Apps
  PROVE  Find(requests[a].id) \in {0, a}
<1> DEFINE found == {i \in DOMAIN requests : FirstOfSlot(i) /\ requests[i].id = requests[a].id}
<1>1. /\ DOMAIN requests = 1 .. Len(requests) /\ Len(requests) \in Nat
      /\ \A i, j \in DOMAIN requests : i < j => requests[i].id # requests[j].id
  BY MapIsList
<1>2. found \subseteq {a}
  <2> SUFFICES ASSUME NEW i \in found, i # a
               PROVE  FALSE
    OBVIOUS
  <2>1. i \in Nat /\ a \in Nat /\ i \in DOMAIN requests /\ a \in DOMAIN requests
    BY <1>1 DEF Apps
  <2>2. i < a \/ a < i
    BY <2>1
  <2> QED
    BY <1>1, <2>1, <2>2
<1>3. Find(requests[a].id) =
        IF found = {} THEN 0 ELSE CHOOSE i \in found : \A j \in found : i <= j
  BY DEF Find
<1> HIDE DEF found
<1>4. CASE found = {}
  BY <1>3, <1>4
<1>5. CASE found # {}
  <2>1. found = {a} /\ a \in Nat
    BY <1>1, <1>2, <1>5 DEF Apps
  <2>2. \E i \in found : \A j \in found : i <= j
    BY <2>1
  <2>3. (CHOOSE i \in found : \A j \in found : i <= j) \in found
    BY <2>2
  <2> QED
    BY <1>3, <2>1, <2>3
<1> QED
  BY <1>4, <1>5

LEMMA TagTellsNext == NetInv /\ TagTellsRequest /\ [Next]_vars => TagTellsRequest'
<1> SUFFICES ASSUME NetInv, TagTellsRequest, [Next]_vars
             PROVE  TagTellsRequest'
  OBVIOUS
<1> DEFINE told(r) ==
             LET q == requests[r.from]
             IN /\ q.served /\ q.deploy = r.node
                /\ q.id < 255 /\ q.slot < 255 =>
                     r.id = q.id /\ r.slot = q.slot /\ r.found \in {0, r.from}
<1>1. requests' = requests
  BY DEF Next, vars, choices, StartApplication, StopApplication, StartSending, StopSending,
         SendPacket, HandleRead, EndSimulation
<1>2. ASSUME results' = results
      PROVE  TagTellsRequest'
  BY <1>1, <1>2 DEF TagTellsRequest
<1>3. ASSUME NEW a \in Apps, HandleRead(a)
      PROVE  TagTellsRequest'
  <2> DEFINE book(tag) == [from |-> a, node |-> Owner(Address(requests[a].deploy)),
                           id |-> tag.id, slot |-> tag.slot, found |-> Find(tag.id)]
  <2>1. PICK junk \in [1 .. 5 -> JunkBytes] :
          results' = results \cup {book(ReadTag(requests[a], junk))}
    BY <1>3 DEF HandleRead
  <2>2. /\ requests \in RequestMaps /\ requests[a] \in Request
        /\ HasTraffic(requests, a)
    <3>1. wire[a] > 0
      BY <1>3 DEF HandleRead
    <3> QED
      BY <3>1, MapIsList DEF NetInv, NetTypes, AppOK, Apps
  <2>3. requests[a].served /\ Owner(Address(requests[a].deploy)) = requests[a].deploy
    <3>1. requests[a].served /\ HasAddress(requests[a].deploy) /\ requests[a].deploy \in Nat
      BY <2>2 DEF HasTraffic, Request
    <3> QED
      BY <3>1, AddressIsOwn
  <2> DEFINE tag == ReadTag(requests[a], junk)
  <2>4. ASSUME requests[a].id < 255, requests[a].slot < 255
        PROVE  /\ tag.id = requests[a].id /\ tag.slot = requests[a].slot
               /\ Find(tag.id) \in {0, a}
    <3>1. tag = [id |-> requests[a].id, slot |-> requests[a].slot]
      BY <2>2, <2>4, TagIsRead
    <3>2. tag.id = requests[a].id /\ tag.slot = requests[a].slot
      BY <3>1
    <3>3. Find(requests[a].id) \in {0, a}
      BY <2>2, FoundIsOwn
    <3> QED
      BY <3>2, <3>3
  <2> HIDE DEF tag
  <2>5. told(book(tag))
    <3> DEFINE b == book(tag)
    <3>1. /\ b.from = a /\ b.node = requests[a].deploy /\ b.id = tag.id /\ b.slot = tag.slot
          /\ b.found = Find(tag.id)
      BY <2>3
    <3> HIDE DEF b
    <3>2. told(b)
      BY <2>3, <2>4, <3>1
    <3> QED
      BY <3>2 DEF b
  <2> HIDE DEF book
  <2>6. \A r \in results : told(r)
    BY DEF TagTellsRequest
  <2>7. results' = results \cup {book(tag)}
    BY <2>1 DEF tag
  <2> HIDE DEF told
  <2>8. \A r \in results' : told(r)
    BY <2>5, <2>6, <2>7
  <2> QED
    BY <1>1, <2>8 DEF TagTellsRequest, told
<1> QED
  BY <1>2, <1>3 DEF Next, vars, Apps, StartApplication, StopApplication, StartSending,
     StopSending, SendPacket, EndSimulation

\* A sink books what comes from a request that was deployed to its node, and while
\* ids and slots are below 255 the tag names that request (sfc_tag.cc, sfc_sink.cc).
THEOREM TagsAreRead == Spec => []TagTellsRequest
<1>1. Init => TagTellsRequest
  BY DEF Init, TagTellsRequest
<1>2. NetInv /\ TagTellsRequest /\ [Next]_vars => TagTellsRequest'
  BY TagTellsNext
<1> QED
  BY <1>1, <1>2, NetInvHolds, PTL DEF Spec
=============================================================================
