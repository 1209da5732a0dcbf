------------------------- MODULE EdgeSimulationProofs -------------------------
(***************************************************************************)
(* Proofs about EdgeSimulation: the lists of the nodes, what each of the   *)
(* eight programs does with them, memory, turns and the report.            *)
(***************************************************************************)
EXTENDS EdgeSimulationProperties, ListProofs

-----------------------------------------------------------------------------
(* Lists and what they take. *)

\* One element more.
LEMMA AppendIs ==
  ASSUME NEW E, NEW s \in Seq(E), NEW e \in E
  PROVE  /\ Append(s, e) \in Seq(E) /\ Len(Append(s, e)) = Len(s) + 1
         /\ DOMAIN Append(s, e) = 1 .. Len(s) + 1
         /\ \A i \in 1 .. Len(s) : Append(s, e)[i] = s[i]
         /\ Append(s, e)[Len(s) + 1] = e
OBVIOUS

\* One element less: the others keep their order.
LEMMA RemoveAtIs ==
  ASSUME NEW E, NEW s \in Seq(E), NEW i \in DOMAIN s
  PROVE  /\ RemoveAt(s, i) \in Seq(E) /\ Len(RemoveAt(s, i)) = Len(s) - 1
         /\ DOMAIN RemoveAt(s, i) = 1 .. Len(s) - 1
         /\ \A p \in 1 .. Len(s) - 1 :
              /\ RemoveAt(s, i)[p] = s[IF p < i THEN p ELSE p + 1]
              /\ (IF p < i THEN p ELSE p + 1) \in DOMAIN s
<1>1. DeleteAt(s, i) = RemoveAt(s, i)
  BY DEF DeleteAt
<1>2. /\ RemoveAt(s, i) \in Seq(E) /\ Len(RemoveAt(s, i)) = Len(s) - 1
      /\ \A p \in 1 .. Len(s) - 1 : RemoveAt(s, i)[p] = s[IF p < i THEN p ELSE p + 1]
  BY <1>1, DeleteAtProperties
<1>3. DOMAIN s = 1 .. Len(s) /\ Len(s) \in Nat
  BY LenProperties
<1> QED
  BY <1>2, <1>3, LenProperties

\* The first element less.
LEMMA TailIsRemoveAt ==
  ASSUME NEW E, NEW s \in Seq(E), s # <<>>
  PROVE  /\ Tail(s) = RemoveAt(s, 1) /\ Head(s) = s[1] /\ 1 \in DOMAIN s
<1>1. Len(s) \in Nat \ {0} /\ DOMAIN s = 1 .. Len(s)
  BY LenProperties, EmptySeq
<1>2. 1 \in DOMAIN s /\ Head(s) = s[1]
  BY <1>1
<1>3. /\ RemoveAt(s, 1) \in Seq(E) /\ Len(RemoveAt(s, 1)) = Len(s) - 1
      /\ \A p \in 1 .. Len(s) - 1 : RemoveAt(s, 1)[p] = s[IF p < 1 THEN p ELSE p + 1]
  BY <1>2, RemoveAtIs
<1>4. /\ Tail(s) \in Seq(E) /\ Len(Tail(s)) = Len(s) - 1
      /\ \A p \in 1 .. Len(s) - 1 : Tail(s)[p] = s[p + 1]
  BY HeadTailProperties
<1>5. \A p \in 1 .. Len(s) - 1 : Tail(s)[p] = RemoveAt(s, 1)[p]
  BY <1>1, <1>3, <1>4
<1>6. Tail(s) = RemoveAt(s, 1)
  <2> DEFINE a == Tail(s)
             b == RemoveAt(s, 1)
  <2>1. a \in Seq(E) /\ b \in Seq(E) /\ Len(a) = Len(b) /\ \A p \in 1 .. Len(a) : a[p] = b[p]
    BY <1>3, <1>4, <1>5
  <2> HIDE DEF a, b
  <2>2. a = b
    BY <2>1, SeqEqual
  <2> QED
    BY <2>2 DEF a, b
<1> QED
  BY <1>2, <1>6

\* What the elements of a list take.
Sizes(cs) == [i \in DOMAIN cs |-> Size[cs[i].type]]

LEMMA SizesAre ==
  ASSUME NEW cs \in Seq(Container)
  PROVE  /\ SizeOf(cs) = SumOf(Sizes(cs), DOMAIN cs)
         /\ Sizes(cs) \in [DOMAIN cs -> Nat] /\ IsFiniteSet(DOMAIN cs)
         /\ SizeOf(cs) \in Nat
<1>1. DOMAIN Sizes(cs) = DOMAIN cs
  BY DEF Sizes
<1>2. SizeOf(cs) = SumOf(Sizes(cs), DOMAIN cs)
  <2>1. SizeOf(cs) = SumFunction(Sizes(cs))
    BY DEF SizeOf, Sizes
  <2> QED
    BY <1>1, <2>1, SumFunctionIs
<1>3. Sizes(cs) \in [DOMAIN cs -> Nat]
  <2>1. \A i \in DOMAIN cs : cs[i].type \in Types
    <3>1. \A i \in DOMAIN cs : cs[i] \in Container
      BY LenProperties
    <3> QED
      BY <3>1 DEF Container
  <2>2. \A t \in Types : Size[t] \in Nat
    BY SimulationConstantsOK
  <2> QED
    BY <2>1, <2>2 DEF Sizes
<1>4. IsFiniteSet(DOMAIN cs)
  <2>1. DOMAIN cs = 1 .. Len(cs) /\ Len(cs) \in Int /\ 1 \in Int
    BY LenProperties
  <2> QED
    BY <2>1, FS_Interval
<1>5. SizeOf(cs) \in Nat
  <2> DEFINE D == DOMAIN cs
             F == Sizes(cs)
  <2>1. D \in SUBSET D /\ F \in [D -> Nat] /\ IsFiniteSet(D)
    BY <1>3, <1>4
  <2> HIDE DEF D, F
  <2>2. SumOf(F, D) \in Nat
    BY <2>1, SumOfType
  <2> QED
    BY <1>2, <2>2 DEF D, F
<1> QED
  BY <1>2, <1>3, <1>4, <1>5

LEMMA SizeOfEmpty == SizeOf(<<>>) = 0
<1>1. <<>> \in Seq(Container) /\ DOMAIN <<>> = {}
  OBVIOUS
<1>2. SizeOf(<<>>) = SumOf(Sizes(<<>>), {})
  BY <1>1, SizesAre
<1> QED
  BY <1>2, FS_EmptySet, SumOfRecursion

LEMMA SizeOfAppend ==
  ASSUME NEW cs \in Seq(Container), NEW c \in Container
  PROVE  SizeOf(Append(cs, c)) = SizeOf(cs) + Size[c.type]
<1> DEFINE l == Append(cs, c)
           D == 1 .. Len(cs) + 1
           S == 1 .. Len(cs)
           x == Len(cs) + 1
           F == Sizes(l)
           G == Sizes(cs)
<1>1. /\ l \in Seq(Container) /\ DOMAIN l = D /\ DOMAIN cs = S
      /\ \A i \in S : l[i] = cs[i]
      /\ l[x] = c
  BY AppendIs, LenProperties
<1>2. /\ SizeOf(l) = SumOf(F, D) /\ F \in [D -> Nat]
      /\ SizeOf(cs) = SumOf(G, S) /\ G \in [S -> Nat] /\ IsFiniteSet(S)
      /\ SizeOf(cs) \in Nat
  BY <1>1, SizesAre
<1>3. S \in SUBSET D /\ S \in SUBSET (D \cap S) /\ x \in D \ S /\ D = S \cup {x}
  BY LenProperties
<1>4. (\A i \in S : F[i] = G[i]) /\ F[x] = Size[c.type]
  BY <1>1, <1>3 DEF Sizes
<1> HIDE DEF D, S, x, F, G, l
<1>5. SumOf(F, S \cup {x}) = F[x] + SumOf(F, S)
  BY <1>2, <1>3, SumOfAdd
<1>6. SumOf(F, S) = SumOf(G, S)
  BY <1>2, <1>3, <1>4, SumOfSame
<1>7. Size[c.type] \in Nat
  BY SimulationConstantsOK DEF Container
<1>8. SizeOf(l) = SizeOf(cs) + Size[c.type]
  BY <1>2, <1>3, <1>4, <1>5, <1>6, <1>7
<1> QED
  BY <1>8 DEF l

LEMMA SizeOfRemove ==
  ASSUME NEW cs \in Seq(Container), NEW i \in DOMAIN cs
  PROVE  SizeOf(RemoveAt(cs, i)) = SizeOf(cs) - Size[cs[i].type]
<1> DEFINE l == RemoveAt(cs, i)
           D == 1 .. Len(cs)
           S == 1 .. Len(cs) - 1
           F == Sizes(l)
           G == Sizes(cs)
           b == [p \in S |-> IF p < i THEN p ELSE p + 1]
<1>1. /\ l \in Seq(Container) /\ DOMAIN l = S /\ DOMAIN cs = D /\ i \in D
      /\ \A p \in S : l[p] = cs[b[p]] /\ b[p] \in D
      /\ Len(cs) \in Nat
  BY RemoveAtIs, LenProperties
<1>2. /\ SizeOf(l) = SumOf(F, S) /\ F \in [S -> Nat] /\ IsFiniteSet(S)
      /\ SizeOf(cs) = SumOf(G, D) /\ G \in [D -> Nat] /\ IsFiniteSet(D)
      /\ SizeOf(l) \in Nat
  BY <1>1, SizesAre
<1>3. \A p, q \in S : b[p] = b[q] => p = q
  BY <1>1
<1>4. {b[p] : p \in S} = D \ {i}
  <2>1. \A p \in S : b[p] \in D \ {i}
    BY <1>1
  <2>2. ASSUME NEW j \in D \ {i}
        PROVE  \E p \in S : b[p] = j
    <3>1. CASE j < i
      <4>1. j \in S /\ b[j] = j
        BY <1>1, <3>1
      <4> QED
        BY <4>1
    <3>2. CASE ~ (j < i)
      <4>1. j - 1 \in S /\ b[j - 1] = j
        BY <1>1, <3>2
      <4> QED
        BY <4>1
    <3> QED
      BY <3>1, <3>2
  <2> HIDE DEF b
  <2> QED
    BY <2>1, <2>2
<1>5. \A p \in S : F[p] = G[b[p]]
  BY <1>1 DEF Sizes
<1>6. b \in [S -> D] /\ S \in SUBSET S
  BY <1>1
<1>7. G[i] = Size[cs[i].type] /\ D \in SUBSET D /\ i \in D
  BY <1>1 DEF Sizes
<1> HIDE DEF D, S, F, G, l, b
<1>8. SumOf(F, S) = SumOf(G, D \ {i})
  <2>1. Renames(b, F, S, G, D)
    BY <1>2, <1>3, <1>5, <1>6 DEF Renames
  <2>2. SumOf(F, S) = SumOf(G, {b[p] : p \in S})
    BY <2>1, SumOfRenamed
  <2> QED
    BY <1>4, <2>2
<1>9. SumOf(G, D) = G[i] + SumOf(G, D \ {i})
  BY <1>2, <1>7, SumOfRemove
<1>10. Size[cs[i].type] \in Nat
  BY <1>2, <1>7
<1>11. SizeOf(l) = SizeOf(cs) - Size[cs[i].type]
  BY <1>2, <1>4, <1>7, <1>8, <1>9, <1>10
<1> QED
  BY <1>11 DEF l

-----------------------------------------------------------------------------
(* What each program may do, and the constants it does it with. *)

LEMMA RulesAre ==
  ASSUME program \in Programs
  PROVE  /\ Rule.rounds \in Nat
         /\ Rule.robin \in BOOLEAN /\ Rule.warm \in BOOLEAN /\ Rule.ages \in BOOLEAN
         /\ Rule.forgets \in BOOLEAN /\ Rule.predicts \in BOOLEAN
         /\ Rule.base \in BOOLEAN
         /\ Rule.value \in {"any", "unset", "prio", "hot"}
         /\ Rule.order \in {"prio", "last", "life", "hot"}
         /\ Rule.charge \in {"new", "victim"}
         /\ Rule.cold \in {"cold", "cold_not_predicted", "not_predicted"}
         /\ ~Rule.warm => Rule.rounds = 0 /\ ~Rule.ages
         /\ Rule.forgets => ~Rule.warm
         /\ program \notin {"lru", "hist"} => Rule.charge = "new" \/ Rule.value = "unset"
<1>1. program \in {"myAlgorithm", "lru", "fixedcaching", "hist", "flame", "faascache",
                   "proactive", "onlypred"}
  BY SimulationConstantsOK DEF Rules
<1>2. CASE program = "myAlgorithm"
  <2>1. Rule = MyRules
    BY <1>2 DEF Rule, Rules
  <2> QED
    BY <1>2, <2>1 DEF MyRules
<1>3. CASE program = "lru"
  <2>1. Rule = LruRules
    BY <1>3 DEF Rule, Rules
  <2> QED
    BY <1>3, <2>1 DEF LruRules
<1>4. CASE program = "fixedcaching"
  <2>1. Rule = FixedRules
    BY <1>4 DEF Rule, Rules
  <2> QED
    BY <1>4, <2>1 DEF FixedRules
<1>5. CASE program = "hist"
  <2>1. Rule = HistRules
    BY <1>5 DEF Rule, Rules
  <2> QED
    BY <1>5, <2>1 DEF HistRules
<1>6. CASE program = "flame"
  <2>1. Rule = FlameRules
    BY <1>6 DEF Rule, Rules
  <2> QED
    BY <1>6, <2>1 DEF FlameRules
<1>7. CASE program = "faascache"
  <2>1. Rule = FaascacheRules
    BY <1>7 DEF Rule, Rules
  <2> QED
    BY <1>7, <2>1 DEF FaascacheRules
<1>8. CASE program = "proactive"
  <2>1. Rule = ProactiveRules
    BY <1>8 DEF Rule, Rules
  <2> QED
    BY <1>8, <2>1 DEF ProactiveRules
<1>9. CASE program = "onlypred"
  <2>1. Rule = OnlypredRules
    BY <1>9 DEF Rule, Rules
  <2> QED
    BY <1>9, <2>1 DEF OnlypredRules
<1> QED
  BY <1>1, <1>2, <1>3, <1>4, <1>5, <1>6, <1>7, <1>8, <1>9

\* No program ever counts a use, so that the priorities are naturals.
LEMMA PrioritiesAreNat ==
  ASSUME freq = <<>>, clock \in Nat, NEW t \in Types
  PROVE  /\ FreqGet(freq, t) = 0 /\ FreqAdd(freq, t) = freq
         /\ Priority(t, freq) \in Nat /\ Priority(t, FreqAdd(freq, t)) \in Nat
<1>1. DOMAIN freq = {}
  OBVIOUS
<1>2. FreqGet(freq, t) = 0 /\ FreqAdd(freq, t) = freq
  BY <1>1 DEF FreqGet, FreqAdd
<1>3. Weight[t] \in Nat
  BY SimulationConstantsOK
<1> QED
  BY <1>2, <1>3 DEF Priority

\* All containers are equally hot then.
LEMMA HotScoreIs ==
  ASSUME freq = <<>>, clock \in Nat, NEW t \in Types
  PROVE  HotScore(t, freq) = 0
<1>1. FreqGet(freq, t) = 0
  BY PrioritiesAreNat
<1>2. 2 ^ (1 - 0) \in Int
  OBVIOUS
<1> QED
  BY <1>1, <1>2 DEF HotScore

\* What the lists are sorted by is a number.
LEMMA SortKeyIsInt ==
  ASSUME program \in Programs, freq = <<>>, clock \in Nat, NEW c \in Container
  PROVE  SortKey(c) \in Int
<1>1. Rule.order \in {"prio", "last", "life", "hot"}
  BY RulesAre
<1>2. c.prio \in Nat /\ c.last \in Nat /\ c.life \in Int /\ c.type \in Types
  BY DEF Container
<1>3. HotScore(c.type, freq) = 0
  BY <1>2, HotScoreIs
<1> QED
  BY <1>1, <1>2, <1>3 DEF SortKey

-----------------------------------------------------------------------------
(* The requests of a row of the file. *)

\* f holds what the first lists of ss make together.
Flattens(f, ss, n) ==
  f = [i \in 1 .. n |-> IF i = 1 THEN ss[i] ELSE f[i - 1] \o ss[i]]

\* There is such a function for any number of lists.
LEMMA FlattensExists ==
  ASSUME NEW ss, NEW n \in Nat
  PROVE  \E f : Flattens(f, ss, n)
<1> DEFINE S == {i \in 1 .. n : ~ \E f : Flattens(f, ss, i)}
<1>1. \E f : Flattens(f, ss, 0)
  <2>1. 1 .. 0 = {}
    OBVIOUS
  <2>2. Flattens([i \in 1 .. 0 |-> 0], ss, 0)
    BY <2>1 DEF Flattens
  <2> QED
    BY <2>2
<1>2. SUFFICES ASSUME S # {}
               PROVE  FALSE
  BY <1>1
<1>3. PICK i \in S : \A j \in S : i <= j
  <2>1. S \in SUBSET (1 .. n)
    OBVIOUS
  <2> HIDE DEF S
  <2> QED
    BY <1>2, <2>1, FirstPlace
<1>4. PICK f : Flattens(f, ss, i - 1)
  <2>1. CASE i = 1
    <3>1. i - 1 = 0
      BY <2>1
    <3> QED
      BY <1>1, <3>1
  <2>2. CASE i # 1
    <3>1. i - 1 \in 1 .. n /\ i - 1 < i
      BY <2>2
    <3>2. i - 1 \notin S
      BY <1>3, <3>1
    <3> QED
      BY <3>1, <3>2
  <2> QED
    BY <2>1, <2>2
<1> DEFINE g == [j \in 1 .. i |-> IF j # i THEN f[j] ELSE
                                  IF i = 1 THEN ss[i] ELSE f[i - 1] \o ss[i]]
<1>5. \A j \in 1 .. i : g[j] = IF j = 1 THEN ss[j] ELSE g[j - 1] \o ss[j]
  <2> SUFFICES ASSUME NEW j \in 1 .. i
               PROVE  g[j] = IF j = 1 THEN ss[j] ELSE g[j - 1] \o ss[j]
    OBVIOUS
  <2>1. i \in Nat /\ i # 0
    OBVIOUS
  <2>2. CASE j = i
    <3>1. i # 1 => i - 1 \in 1 .. i /\ i - 1 # i
      BY <2>1
    <3>2. i # 1 => g[i - 1] = f[i - 1]
      BY <3>1
    <3>3. g[i] = IF i = 1 THEN ss[i] ELSE f[i - 1] \o ss[i]
      BY <2>1
    <3> HIDE DEF g
    <3> QED
      BY <2>2, <3>2, <3>3
  <2>3. CASE j # i
    <3>1. j \in 1 .. (i - 1) /\ g[j] = f[j]
      BY <2>1, <2>3
    <3>2. f[j] = IF j = 1 THEN ss[j] ELSE f[j - 1] \o ss[j]
      BY <1>4, <3>1 DEF Flattens
    <3>3. j # 1 => j - 1 \in 1 .. i /\ j - 1 # i
      BY <2>1, <2>3
    <3>4. j # 1 => g[j - 1] = f[j - 1]
      BY <3>3
    <3> HIDE DEF g
    <3> QED
      BY <3>1, <3>2, <3>4
  <2> QED
    BY <2>2, <2>3
<1>6. g = [j \in 1 .. i |-> g[j]]
  OBVIOUS
<1>7. Flattens(g, ss, i)
  <2> HIDE DEF g
  <2> QED
    BY <1>5, <1>6 DEF Flattens
<1>8. i \notin S
  BY <1>7
<1> QED
  BY <1>3, <1>8

\* Lists of elements of one kind make a list of that kind.
LEMMA FlattenIsList ==
  ASSUME NEW E, NEW n \in Nat \ {0}, NEW ss, Len(ss) = n,
         \A i \in 1 .. n : ss[i] \in Seq(E)
  PROVE  FlattenSeq(ss) \in Seq(E)
<1> DEFINE f == CHOOSE f : Flattens(f, ss, n)
           S == {i \in 1 .. n : f[i] \notin Seq(E)}
<1>1. FlattenSeq(ss) = f[n]
  BY DEF FlattenSeq, Flattens
<1>2. Flattens(f, ss, n)
  BY FlattensExists
<1> HIDE DEF f
<1>3. \A i \in 1 .. n : f[i] = IF i = 1 THEN ss[i] ELSE f[i - 1] \o ss[i]
  BY <1>2 DEF Flattens
<1>4. S = {}
  <2> SUFFICES ASSUME S # {}
               PROVE  FALSE
    OBVIOUS
  <2>1. PICK i \in S : \A j \in S : i <= j
    <3>1. S \in SUBSET (1 .. n)
      OBVIOUS
    <3> HIDE DEF S
    <3> QED
      BY <3>1, FirstPlace
  <2>2. CASE i = 1
    BY <1>3, <2>2
  <2>3. CASE i # 1
    <3>1. i - 1 \in 1 .. n /\ i - 1 < i
      BY <2>3
    <3>2. i - 1 \notin S
      BY <2>1, <3>1
    <3>3. f[i - 1] \in Seq(E) /\ ss[i] \in Seq(E)
      BY <3>1, <3>2
    <3>4. f[i - 1] \o ss[i] \in Seq(E)
      BY <3>3, ConcatProperties
    <3>5. f[i] = f[i - 1] \o ss[i]
      BY <1>3, <2>3
    <3> QED
      BY <3>4, <3>5
  <2> QED
    BY <2>2, <2>3
<1> QED
  BY <1>1, <1>4

\* A quotient of integers is one, and a natural for a natural.
LEMMA TruncatedIs ==
  ASSUME NEW d \in Int
  PROVE  Truncated(d) \in Int /\ (d >= 0 => Truncated(d) \in Nat)
<1>1. ReduFactor \in Nat /\ ReduFactor > 0
  BY SimulationConstantsOK
<1>2. \A e \in Nat : e \div ReduFactor \in Nat
  BY <1>1
<1> QED
  BY <1>2 DEF Truncated

\* Requests that nobody has looked at.
Untouched == {r \in Request : ~r.served /\ ~r.cold}

LEMMA RequestsOfAre ==
  ASSUME NEW t \in Types, NEW num \in NumRows, NEW pred \in [Nodes -> Nums]
  PROVE  RequestsOf(t, num, pred) \in Seq(Untouched)
<1> DEFINE of(n) == [i \in 1 .. Truncated(num[n]) |->
                       NewRequest(t, n, i - 1, Truncated(pred[n] - num[n]))]
           ss == [n \in Nodes |-> of(n)]
<1>1. NodeNum \in Nat \ {0} /\ Nodes = 1 .. NodeNum
  BY SimulationConstantsOK DEF Nodes
<1>2. \A n \in Nodes : num[n] \in Nat /\ pred[n] \in Nat
  BY SimulationConstantsOK DEF NumRows
<1>3. ASSUME NEW n \in Nodes
      PROVE  of(n) \in Seq(Untouched)
  <2>1. Truncated(num[n]) \in Nat
    BY <1>2, TruncatedIs
  <2>2. \A i \in 1 .. Truncated(num[n]) :
          NewRequest(t, n, i - 1, Truncated(pred[n] - num[n])) \in Untouched
    BY DEF NewRequest, Request, Untouched
  <2> DEFINE k == Truncated(num[n])
             e(i) == NewRequest(t, n, i - 1, Truncated(pred[n] - num[n]))
  <2>3. k \in Nat /\ \A i \in 1 .. k : e(i) \in Untouched
    BY <2>1, <2>2
  <2> HIDE DEF k, e
  <2>4. [i \in 1 .. k |-> e(i)] \in Seq(Untouched)
    BY <2>3
  <2> QED
    BY <2>4 DEF k, e
<1>4. \A n \in 1 .. NodeNum : ss[n] \in Seq(Untouched)
  BY <1>1, <1>3
<1>5. Len(ss) = NodeNum
  BY <1>1
<1>6. RequestsOf(t, num, pred) = FlattenSeq(ss)
  BY DEF RequestsOf
<1> HIDE DEF ss
<1>7. FlattenSeq(ss) \in Seq(Untouched)
  BY <1>1, <1>4, <1>5, FlattenIsList
<1> QED
  BY <1>6, <1>7

LEMMA RequestsOfType ==
  ASSUME NEW t \in Types, NEW num \in NumRows, NEW pred \in [Nodes -> Nums]
  PROVE  RequestsOf(t, num, pred) \in Seq(Request)
<1>1. Untouched \subseteq Request
  BY DEF Untouched
<1>2. RequestsOf(t, num, pred) \in Seq(Untouched)
  BY RequestsOfAre
<1> QED
  BY <1>1, <1>2, SeqMonotonic

-----------------------------------------------------------------------------
(* The inductive invariant. *)

\* The containers that the lists of node n may hold: they say that they are on n,
\* and where they expire their life is their age.
InUse(n) ==
  {c \in Container : c.node = n /\ (Rule.ages => c.life = LifeTime - (slot - c.born))}
IdleOn(n) == {c \in InUse(n) : Rule.ages => c.life >= 1}

Ascending(l) == \A i, j \in DOMAIN l : i < j => SortKey(l[i]) <= SortKey(l[j])

ListInv ==
  \A n \in Nodes : /\ active[n] \in Seq(InUse(n)) /\ cache[n] \in Seq(IdleOn(n))
                   /\ Ascending(cache[n])

\* While containers are evicted for a request, the last of them fits.
RoundInv ==
  rounds > 0 => Deploying /\ Rule.warm /\ Rule.value # "unset" /\ freed <= mem[Target]

SimInv == SimTypeOK /\ freq = <<>> /\ ListInv /\ RoundInv

-----------------------------------------------------------------------------
(* The request that is placed, and where. *)

LEMMA TargetIsNode ==
  ASSUME SimTypeOK, Deploying
  PROVE  /\ slot \in Slots /\ requestMap[slot] \in Seq(Request)
         /\ cur \in DOMAIN requestMap[slot] /\ Req = requestMap[slot][cur]
         /\ Req \in Request /\ Req.type \in Types /\ Req.ingress \in Nodes
         /\ Size[Req.type] \in Nat \ {0}
         /\ Robin \in Nodes /\ Target \in Nodes
<1>1. cur \in Nat \ {0} /\ cur <= Len(RequestsInSlot)
  BY DEF SimTypeOK, Deploying
<1>2. slot \in Slots
  <2>1. slot \notin Slots => Len(RequestsInSlot) = 0
    BY DEF RequestsInSlot
  <2> QED
    BY <1>1, <2>1
<1>3. RequestsInSlot = requestMap[slot] /\ requestMap[slot] \in Seq(Request)
  BY <1>2 DEF RequestsInSlot, SimTypeOK
<1>4. cur \in DOMAIN requestMap[slot] /\ Req = requestMap[slot][cur]
  BY <1>1, <1>3, LenProperties DEF Req
<1>5. Req \in Request
  BY <1>3, <1>4, LenProperties
<1>6. Req.type \in Types /\ Req.ingress \in Nodes
  BY <1>5 DEF Request
<1>7. Robin \in Nodes
  BY SimulationConstantsOK DEF Robin, SimTypeOK, Nodes
<1>8. Size[Req.type] \in Nat \ {0}
  BY <1>6, SimulationConstantsOK
<1> QED
  BY <1>2, <1>3, <1>4, <1>5, <1>6, <1>7, <1>8 DEF Target

\* The first idle container of a type is one of the list.
LEMMA FirstIdleIs ==
  ASSUME SimTypeOK, NEW n \in Nodes, NEW t, HasIdle(n, t)
  PROVE  /\ FirstIdle(n, t) \in DOMAIN cache[n] /\ cache[n][FirstIdle(n, t)] \in Container
         /\ cache[n][FirstIdle(n, t)].type = t
<1> DEFINE S == IdleIndexes(n, t)
<1>1. cache[n] \in Seq(Container)
  BY DEF SimTypeOK
<1>2. S \in SUBSET (1 .. Len(cache[n])) /\ Len(cache[n]) \in Nat /\ S # {}
      /\ S \subseteq DOMAIN cache[n]
  BY <1>1, LenProperties DEF HasIdle, IdleIndexes
<1>3. \A i \in S : cache[n][i].type = t
  BY DEF IdleIndexes
<1> HIDE DEF S
<1>4. Min(S) \in S
  <2>1. \E i \in S : \A j \in S : i <= j
    BY <1>2, FirstPlace
  <2> QED
    BY <2>1 DEF Min
<1>5. cache[n][Min(S)] \in Container
  BY <1>1, <1>2, <1>4, LenProperties
<1> QED
  BY <1>2, <1>3, <1>4, <1>5 DEF FirstIdle, S

\* A container stays what it is when it is put in use on n.
LEMMA ActivatedIs ==
  ASSUME SimTypeOK, freq = <<>>, NEW n \in Nodes, NEW c \in InUse(n)
  PROVE  Activated(Used(c)) \in InUse(n) /\ Activated(Used(c)).type = c.type
<1> DEFINE u == Used(c)
<1>1. c \in Container /\ c.node = n /\ c.type \in Types
  BY DEF InUse, Container
<1>2. slot \in Nat /\ clock \in Nat
  BY DEF SimTypeOK
<1>3. /\ u \in Container /\ u.node = c.node /\ u.life = c.life /\ u.born = c.born
      /\ u.type = c.type
  BY <1>1, <1>2 DEF Used, Container
<1>4. Priority(u.type, FreqAdd(freq, u.type)) \in Nat
  BY <1>1, <1>2, <1>3, PrioritiesAreNat
<1> DEFINE a == Activated(u)
<1> HIDE DEF u
<1>5. /\ a \in Container /\ a.node = u.node /\ a.life = u.life /\ a.born = u.born
      /\ a.type = u.type
  BY <1>3, <1>4 DEF Activated, Container
<1> HIDE DEF a
<1>6. a \in InUse(n) /\ a.type = c.type
  BY <1>1, <1>3, <1>5 DEF InUse
<1> QED
  BY <1>6 DEF a, u

\* Serving a request changes that one.
LEMMA ServeIs ==
  ASSUME SimTypeOK, Deploying, NEW b \in BOOLEAN, Serve(b)
  PROVE  /\ requestMap' \in [Slots -> Seq(Request)]
         /\ \A s \in Slots : DOMAIN requestMap'[s] = DOMAIN requestMap[s]
         /\ \A s \in Slots : \A i \in DOMAIN requestMap[s] :
              requestMap'[s][i] = IF s = slot /\ i = cur
                                  THEN [Req EXCEPT !.served = TRUE, !.cold = b]
                                  ELSE requestMap[s][i]
<1> DEFINE r == [Req EXCEPT !.served = TRUE, !.cold = b]
           q == requestMap[slot]
<1>1. /\ slot \in Slots /\ q \in Seq(Request) /\ cur \in DOMAIN q
      /\ Req = q[cur] /\ Req \in Request
  BY TargetIsNode
<1>2. r \in Request
  BY <1>1 DEF Request
<1>3. requestMap \in [Slots -> Seq(Request)]
  BY DEF SimTypeOK
<1>4. requestMap' = [requestMap EXCEPT ![slot] = [q EXCEPT ![cur] = r]]
  BY <1>1, <1>3 DEF Serve
<1> HIDE DEF r
<1>5. /\ [q EXCEPT ![cur] = r] \in Seq(Request)
      /\ DOMAIN [q EXCEPT ![cur] = r] = DOMAIN q
      /\ \A i \in DOMAIN q : [q EXCEPT ![cur] = r][i] = IF i = cur THEN r ELSE q[i]
  <2>1. DOMAIN q = 1 .. Len(q)
    BY <1>1, LenProperties
  <2> QED
    BY <1>1, <1>2, <2>1, ExceptSeq
<1> QED
  BY <1>1, <1>3, <1>4, <1>5 DEF r

-----------------------------------------------------------------------------
(* What the actions do to the lists. *)

\* An idle container of n is put in use there; nothing happens on n.
Takes(n) ==
  \E i \in DOMAIN cache[n] : \E a \in InUse(n) :
    /\ a.type = cache[n][i].type
    /\ active'[n] = Append(active[n], a) /\ cache'[n] = RemoveAt(cache[n], i)
Stays(n) == active'[n] = active[n] /\ cache'[n] = cache[n]

\* One is created on n, one is evicted there.
Adds(n, t) ==
  /\ \E a \in InUse(n) : a.type = t /\ active'[n] = Append(active[n], a)
  /\ cache'[n] = cache[n]
Drops(n) == cache[n] # <<>> /\ active'[n] = active[n] /\ cache'[n] = RemoveAt(cache[n], 1)

Shaped ==
  active' = [n \in Nodes |-> active'[n]] /\ cache' = [n \in Nodes |-> cache'[n]]

\* What is idle may be put in use.
LEMMA IdleIsInUse ==
  ASSUME ListInv, NEW n \in Nodes
  PROVE  /\ \A i \in DOMAIN cache[n] : cache[n][i] \in IdleOn(n)
         /\ \A i \in DOMAIN cache[n] : cache[n][i] \in InUse(n) /\ cache[n][i].node = n
         /\ \A i \in DOMAIN active[n] : active[n][i] \in InUse(n) /\ active[n][i].node = n
<1>1. \A i \in DOMAIN cache[n] : cache[n][i] \in IdleOn(n)
  <2>1. cache[n] \in Seq(IdleOn(n))
    BY DEF ListInv
  <2> QED
    BY <2>1, LenProperties
<1>2. \A i \in DOMAIN active[n] : active[n][i] \in InUse(n)
  <2>1. active[n] \in Seq(InUse(n))
    BY DEF ListInv
  <2> QED
    BY <2>1, LenProperties
<1> QED
  BY <1>1, <1>2 DEF IdleOn, InUse

LEMMA PlaceToCurrentTakes ==
  ASSUME SimInv, PlaceToCurrent
  PROVE  Shaped /\ \A n \in Nodes : Takes(n) \/ Stays(n)
<1> DEFINE T == Target
           i == FirstIdle(T, Req.type)
           c == [cache[T][i] EXCEPT !.node = T]
           a == Activated(Used(c))
<1>1. Deploying /\ HasIdle(T, Req.type) /\ T \in Nodes /\ SimTypeOK /\ ListInv
  BY TargetIsNode DEF PlaceToCurrent, SimInv
<1>2. i \in DOMAIN cache[T]
  BY <1>1, FirstIdleIs
<1>3. cache[T][i] \in InUse(T) /\ cache[T][i].node = T
  BY <1>1, <1>2, IdleIsInUse
<1>4. c = cache[T][i]
  BY <1>3 DEF InUse, Container
<1>5. a \in InUse(T) /\ a.type = cache[T][i].type
  BY <1>1, <1>3, <1>4, ActivatedIs DEF SimInv
<1>6. /\ active' = [active EXCEPT ![T] = Append(@, a)]
      /\ cache' = [cache EXCEPT ![T] = RemoveAt(@, i)]
  BY DEF PlaceToCurrent
<1>7. DOMAIN active = Nodes /\ DOMAIN cache = Nodes
  BY <1>1 DEF SimTypeOK
<1> HIDE DEF T, i, c, a
<1>8. Shaped
  BY <1>6, <1>7 DEF Shaped
<1>9. \A n \in Nodes \ {T} : Stays(n)
  BY <1>6, <1>7 DEF Stays
<1>10. active'[T] = Append(active[T], a) /\ cache'[T] = RemoveAt(cache[T], i)
  BY <1>1, <1>6, <1>7
<1>11. Takes(T)
  BY <1>2, <1>5, <1>10 DEF Takes
<1> QED
  BY <1>8, <1>9, <1>11

LEMMA PlaceToNeighboursTakes ==
  ASSUME SimInv, PlaceToNeighbours
  PROVE  Shaped /\ \A n \in Nodes : Takes(n) \/ Stays(n)
<1>1. Deploying /\ SimTypeOK /\ ListInv
  BY DEF PlaceToNeighbours, SimInv
<1>2. /\ active' = [n \in Nodes |-> IF n \notin Takers THEN active[n]
           ELSE Append(active[n], Activated(Used(cache[n][FirstIdle(n, Req.type)])))]
      /\ cache' = [n \in Nodes |-> IF n \notin Takers THEN cache[n]
           ELSE RemoveAt(cache[n], FirstIdle(n, Req.type))]
  BY DEF PlaceToNeighbours
<1>3. Shaped
  BY <1>2 DEF Shaped
<1>4. ASSUME NEW n \in Nodes, n \notin Takers
      PROVE  Stays(n)
  BY <1>2, <1>4 DEF Stays
<1>5. ASSUME NEW n \in Nodes, n \in Takers
      PROVE  Takes(n)
  <2> DEFINE i == FirstIdle(n, Req.type)
             a == Activated(Used(cache[n][i]))
  <2>1. HasIdle(n, Req.type)
    BY <1>5 DEF Takers
  <2>2. i \in DOMAIN cache[n]
    BY <1>1, <2>1, FirstIdleIs
  <2>3. cache[n][i] \in InUse(n)
    BY <1>1, <2>2, IdleIsInUse
  <2>4. a \in InUse(n) /\ a.type = cache[n][i].type
    BY <1>1, <2>3, ActivatedIs DEF SimInv
  <2>5. active'[n] = Append(active[n], a) /\ cache'[n] = RemoveAt(cache[n], i)
    BY <1>2, <1>5
  <2> HIDE DEF i, a
  <2> QED
    BY <2>2, <2>4, <2>5 DEF Takes
<1> QED
  BY <1>3, <1>4, <1>5

LEMMA CreateAdds ==
  ASSUME SimInv, Create
  PROVE  /\ Shaped /\ Adds(Target, Req.type)
         /\ \A n \in Nodes \ {Target} : Stays(n)
<1> DEFINE T == Target
           c == [type |-> Req.type, node |-> T, prio |-> 0, last |-> 0,
                 life |-> LifeTime, born |-> slot]
           a == Activated(Used(c))
<1>1. /\ Deploying /\ SimTypeOK /\ ListInv /\ T \in Nodes /\ slot \in Slots
      /\ Req.type \in Types
  BY TargetIsNode DEF Create, NeedsNew, SimInv
<1>2. c \in InUse(T)
  <2>1. LifeTime \in Int /\ slot \in Int
    BY <1>1, SimulationConstantsOK DEF Slots
  <2> HIDE DEF T
  <2> QED
    BY <1>1, <2>1 DEF InUse, Container
<1>3. a \in InUse(T) /\ a.type = c.type
  <2> HIDE DEF c
  <2> QED
    BY <1>1, <1>2, ActivatedIs DEF SimInv
<1>4. active' = [active EXCEPT ![T] = Append(@, a)] /\ cache' = cache
  BY DEF Create
<1>5. DOMAIN active = Nodes /\ DOMAIN cache = Nodes /\ cache = [n \in Nodes |-> cache[n]]
  BY <1>1 DEF SimTypeOK
<1>6. c.type = Req.type
  OBVIOUS
<1> HIDE DEF T, c, a
<1>7. Shaped
  BY <1>4, <1>5 DEF Shaped
<1>8. \A n \in Nodes \ {T} : Stays(n)
  BY <1>4, <1>5 DEF Stays
<1>9. active'[T] = Append(active[T], a) /\ cache'[T] = cache[T]
  BY <1>1, <1>4, <1>5
<1>10. Adds(T, Req.type)
  BY <1>3, <1>6, <1>9 DEF Adds
<1> QED
  BY <1>7, <1>8, <1>10 DEF T

LEMMA EvictDrops ==
  ASSUME SimInv, Evict
  PROVE  /\ Shaped /\ Drops(Target) /\ Target \in Nodes
         /\ \A n \in Nodes \ {Target} : Stays(n)
         /\ Head(cache[Target]) = cache[Target][1] /\ 1 \in DOMAIN cache[Target]
         /\ cache[Target][1].type \in Types
<1> DEFINE T == Target
<1>1. Deploying /\ SimTypeOK /\ ListInv /\ T \in Nodes /\ cache[T] # <<>>
  BY TargetIsNode DEF Evict, NeedsNew, AnotherRound, SimInv
<1>2. cache' = [cache EXCEPT ![T] = Tail(@)] /\ active' = active
  BY DEF Evict
<1>3. /\ DOMAIN active = Nodes /\ DOMAIN cache = Nodes /\ cache[T] \in Seq(Container)
      /\ active = [n \in Nodes |-> active[n]]
  BY <1>1 DEF SimTypeOK
<1>4. /\ Tail(cache[T]) = RemoveAt(cache[T], 1) /\ Head(cache[T]) = cache[T][1]
      /\ 1 \in DOMAIN cache[T]
  BY <1>1, <1>3, TailIsRemoveAt
<1>5. cache[T][1].type \in Types
  <2>1. cache[T][1] \in Container
    BY <1>3, <1>4, LenProperties
  <2> QED
    BY <2>1 DEF Container
<1> HIDE DEF T
<1>6. Shaped
  BY <1>2, <1>3 DEF Shaped
<1>7. \A n \in Nodes \ {T} : Stays(n)
  BY <1>2, <1>3 DEF Stays
<1>8. cache'[T] = RemoveAt(cache[T], 1) /\ active'[T] = active[T]
  BY <1>1, <1>2, <1>3, <1>4
<1>9. Drops(T)
  BY <1>1, <1>8 DEF Drops
<1> QED
  BY <1>1, <1>4, <1>5, <1>6, <1>7, <1>9 DEF T

\* The order of a list is kept when one leaves it.
LEMMA RemoveAscending ==
  ASSUME NEW l \in Seq(Container), Ascending(l), NEW i \in DOMAIN l
  PROVE  Ascending(RemoveAt(l, i))
<1> DEFINE r == RemoveAt(l, i)
           from(p) == IF p < i THEN p ELSE p + 1
<1>0. DOMAIN l = 1 .. Len(l) /\ Len(l) \in Nat /\ i \in Nat
  BY LenProperties
<1>1. /\ DOMAIN r = 1 .. Len(l) - 1
      /\ \A p \in 1 .. Len(l) - 1 : r[p] = l[from(p)] /\ from(p) \in DOMAIN l
  BY RemoveAtIs
<1>2. ASSUME NEW p \in DOMAIN r, NEW q \in DOMAIN r, p < q
      PROVE  SortKey(r[p]) <= SortKey(r[q])
  <2>1. from(p) < from(q) /\ from(p) \in DOMAIN l /\ from(q) \in DOMAIN l
    BY <1>0, <1>1, <1>2
  <2>2. r[p] = l[from(p)] /\ r[q] = l[from(q)]
    BY <1>1
  <2> HIDE DEF from, r
  <2>3. SortKey(l[from(p)]) <= SortKey(l[from(q)])
    BY <2>1 DEF Ascending
  <2> QED
    BY <2>2, <2>3
<1> HIDE DEF r
<1>3. Ascending(r)
  BY <1>2 DEF Ascending
<1> QED
  BY <1>3 DEF r

\* Within a slot the lists hold what they may, and stay in order.
LEMMA ListsKept ==
  ASSUME SimInv, program' = program, slot' = slot, freq' = freq, Shaped,
         \A n \in Nodes : Takes(n) \/ Stays(n) \/ (\E t : Adds(n, t)) \/ Drops(n)
  PROVE  /\ ListInv'
         /\ active' \in [Nodes -> Seq(Container)] /\ cache' \in [Nodes -> Seq(Container)]
<1>1. /\ ListInv /\ active \in [Nodes -> Seq(Container)]
      /\ cache \in [Nodes -> Seq(Container)]
  BY DEF SimInv, SimTypeOK
<1>2. Rule' = Rule
  BY DEF Rule
<1>3. \A n : InUse(n)' = InUse(n) /\ IdleOn(n)' = IdleOn(n)
  BY <1>2 DEF InUse, IdleOn
<1>4. \A n : InUse(n) \subseteq Container /\ IdleOn(n) \subseteq Container
  BY DEF InUse, IdleOn
<1>5. ASSUME NEW n \in Nodes
      PROVE  active'[n] \in Seq(InUse(n))
  <2>1. active[n] \in Seq(InUse(n))
    BY <1>1 DEF ListInv
  <2>2. active'[n] = active[n] \/ \E a \in InUse(n) : active'[n] = Append(active[n], a)
    BY DEF Takes, Stays, Adds, Drops
  <2>3. \A a \in InUse(n) : Append(active[n], a) \in Seq(InUse(n))
    BY <2>1, AppendIs
  <2> QED
    BY <2>1, <2>2, <2>3
<1>6. ASSUME NEW n \in Nodes
      PROVE  cache'[n] = cache[n] \/ \E i \in DOMAIN cache[n] : cache'[n] = RemoveAt(cache[n], i)
  <2>1. Drops(n) => 1 \in DOMAIN cache[n]
    <3>1. cache[n] \in Seq(Container)
      BY <1>1
    <3>2. cache[n] # <<>> => 1 \in DOMAIN cache[n]
      BY <3>1, TailIsRemoveAt
    <3> QED
      BY <3>2 DEF Drops
  <2> QED
    BY <2>1 DEF Takes, Stays, Adds, Drops
<1>7. ASSUME NEW n \in Nodes
      PROVE  cache'[n] \in Seq(IdleOn(n)) /\ Ascending(cache'[n])
  <2>1. cache[n] \in Seq(IdleOn(n)) /\ Ascending(cache[n]) /\ cache[n] \in Seq(Container)
    BY <1>1 DEF ListInv
  <2>2. \A i \in DOMAIN cache[n] : RemoveAt(cache[n], i) \in Seq(IdleOn(n))
    BY <2>1, RemoveAtIs
  <2>3. \A i \in DOMAIN cache[n] : Ascending(RemoveAt(cache[n], i))
    BY <2>1, RemoveAscending
  <2> QED
    BY <1>6, <2>1, <2>2, <2>3
<1>8. ASSUME NEW n \in Nodes
      PROVE  Ascending(cache[n])'
  <2>1. \A i, j \in DOMAIN cache'[n] : i < j => SortKey(cache'[n][i]) <= SortKey(cache'[n][j])
    BY <1>7 DEF Ascending
  <2>2. \A i, j \in DOMAIN cache'[n] : i < j => SortKey(cache[n][i])' <= SortKey(cache[n][j])'
    BY <1>2, <2>1 DEF SortKey
  <2> QED
    BY <2>2 DEF Ascending
<1>9. ListInv'
  <2>1. \A n \in Nodes : active'[n] \in Seq(InUse(n)') /\ cache'[n] \in Seq(IdleOn(n)')
    BY <1>3, <1>5, <1>7
  <2> QED
    BY <1>8, <2>1 DEF ListInv
<1>10. \A n \in Nodes : active'[n] \in Seq(Container) /\ cache'[n] \in Seq(Container)
  BY <1>4, <1>5, <1>7, SeqMonotonic
<1> QED
  BY <1>9, <1>10 DEF Shaped

-----------------------------------------------------------------------------
(* The end of a slot. *)

\* Active containers return to the node they are on.
LEMMA IdleIs ==
  ASSUME SimInv, NEW n \in Nodes
  PROVE  /\ DOMAIN Idle(n) = ({0} \X DOMAIN cache[n]) \cup ({n} \X DOMAIN active[n])
         /\ \A i \in DOMAIN cache[n] : Idle(n)[<<0, i>>] = cache[n][i]
         /\ \A i \in DOMAIN active[n] : Idle(n)[<<n, i>>] = active[n][i]
         /\ \A p \in DOMAIN Idle(n) : Idle(n)[p] \in InUse(n)
         /\ IsFiniteSet(DOMAIN Idle(n))
<1> DEFINE C == {0} \X DOMAIN cache[n]
           A == {n} \X DOMAIN active[n]
<1>1. ListInv /\ SimTypeOK
  BY DEF SimInv
<1>2. \A m \in Nodes : \A i \in DOMAIN active[m] : active[m][i].node = m
  BY <1>1, IdleIsInUse
<1>3. Returned(n) = A
  <2>1. ASSUME NEW p \in Returned(n)
        PROVE  p \in A
    <3>1. PICK m \in Nodes : p \in {m} \X DOMAIN active[m]
      BY DEF Returned
    <3>2. p[1] = m /\ p[2] \in DOMAIN active[m] /\ p = <<m, p[2]>>
      BY <3>1
    <3>3. active[p[1]][p[2]].node = n
      BY DEF Returned
    <3>4. m = n
      BY <1>2, <3>2, <3>3
    <3> QED
      BY <3>2, <3>4
  <2>2. ASSUME NEW p \in A
        PROVE  p \in Returned(n)
    <3>1. p[1] = n /\ p[2] \in DOMAIN active[n]
      OBVIOUS
    <3>2. p \in UNION {{m} \X DOMAIN active[m] : m \in Nodes}
      OBVIOUS
    <3>3. active[p[1]][p[2]].node = n
      BY <1>2, <3>1
    <3> QED
      BY <3>2, <3>3 DEF Returned
  <2> HIDE DEF A
  <2> QED
    BY <2>1, <2>2
<1>4. DOMAIN Idle(n) = C \cup A
  BY <1>3 DEF Idle
<1>5. n # 0
  BY SimulationConstantsOK DEF Nodes
<1>6. \A i \in DOMAIN cache[n] : Idle(n)[<<0, i>>] = cache[n][i]
  <2> SUFFICES ASSUME NEW i \in DOMAIN cache[n]
               PROVE  Idle(n)[<<0, i>>] = cache[n][i]
    OBVIOUS
  <2> DEFINE p == <<0, i>>
  <2>1. p \in C \cup Returned(n) /\ p[1] = 0 /\ p[2] = i
    OBVIOUS
  <2> HIDE DEF p
  <2>2. Idle(n)[p] = cache[n][i]
    BY <2>1 DEF Idle
  <2> QED
    BY <2>2 DEF p
<1>7. \A i \in DOMAIN active[n] : Idle(n)[<<n, i>>] = active[n][i]
  <2> SUFFICES ASSUME NEW i \in DOMAIN active[n]
               PROVE  Idle(n)[<<n, i>>] = active[n][i]
    OBVIOUS
  <2> DEFINE p == <<n, i>>
  <2>1. p \in C \cup Returned(n) /\ p[1] = n /\ p[2] = i /\ p[1] # 0
    BY <1>3, <1>5
  <2> HIDE DEF p
  <2>2. Idle(n)[p] = active[n][i]
    BY <2>1 DEF Idle
  <2> QED
    BY <2>2 DEF p
<1>8. \A p \in DOMAIN Idle(n) : Idle(n)[p] \in InUse(n)
  <2>1. ASSUME NEW p \in C
        PROVE  Idle(n)[p] \in InUse(n)
    <3>1. PICK i \in DOMAIN cache[n] : p = <<0, i>>
      OBVIOUS
    <3> QED
      BY <1>1, <1>6, <3>1, IdleIsInUse
  <2>2. ASSUME NEW p \in A
        PROVE  Idle(n)[p] \in InUse(n)
    <3>1. PICK i \in DOMAIN active[n] : p = <<n, i>>
      OBVIOUS
    <3> QED
      BY <1>1, <1>7, <3>1, IdleIsInUse
  <2> QED
    BY <1>4, <2>1, <2>2
<1>9. IsFiniteSet(DOMAIN Idle(n))
  <2>1. IsFiniteSet(DOMAIN cache[n]) /\ IsFiniteSet(DOMAIN active[n])
    <3>1. cache[n] \in Seq(Container) /\ active[n] \in Seq(Container)
      BY <1>1 DEF SimTypeOK
    <3> QED
      BY <3>1, SizesAre
  <2>2. IsFiniteSet(C) /\ IsFiniteSet(A)
    BY <2>1, FS_Singleton, FS_Product
  <2>3. IsFiniteSet(C \cup A)
    BY <2>2, FS_Union
  <2> QED
    BY <1>4, <2>3
<1> QED
  BY <1>4, <1>6, <1>7, <1>8, <1>9

\* They are the same containers, a slot older, and those that are kept have a
\* slot to live.
LEMMA AgedIs ==
  ASSUME SimInv, NEW n \in Nodes, NEW p \in DOMAIN Idle(n)
  PROVE  /\ DOMAIN Aged(n) = DOMAIN Idle(n)
         /\ Aged(n)[p] \in Container /\ Aged(n)[p].node = n
         /\ Aged(n)[p].type = Idle(n)[p].type
         /\ Rule.ages => Aged(n)[p].life = LifeTime - ((slot + 1) - Aged(n)[p].born)
         /\ Rule.ages /\ ~Expired(Aged(n)[p]) => Aged(n)[p].life >= 1
<1> DEFINE c == Idle(n)[p]
           a == Aged(n)[p]
<1>1. c \in Container /\ c.node = n /\ (Rule.ages => c.life = LifeTime - (slot - c.born))
  BY IdleIs DEF InUse
<1>2. LifeTime \in Int /\ slot \in Int /\ c.born \in Int /\ c.life \in Int
  BY <1>1, SimulationConstantsOK DEF SimInv, SimTypeOK, Container, Slots
<1>3. DOMAIN Aged(n) = DOMAIN Idle(n) /\ a = IF Rule.ages THEN [c EXCEPT !.life = @ - 1] ELSE c
  BY DEF Aged
<1> HIDE DEF a, c
<1>4. CASE Rule.ages
  <2>1. a = [c EXCEPT !.life = c.life - 1]
    BY <1>1, <1>3, <1>4 DEF Container
  <2>2. /\ a \in Container /\ a.node = c.node /\ a.type = c.type /\ a.born = c.born
        /\ a.life = c.life - 1
    BY <1>1, <1>2, <2>1 DEF Container
  <2>3. a.life = LifeTime - ((slot + 1) - a.born)
    BY <1>1, <1>2, <1>4, <2>2
  <2>4. ~Expired(a) => a.life >= 1
    BY <1>2, <1>4, <2>2 DEF Expired
  <2> QED
    BY <1>1, <1>3, <2>2, <2>3, <2>4 DEF a, c
<1>5. CASE ~Rule.ages
  BY <1>1, <1>3, <1>5 DEF a, c
<1> QED
  BY <1>4, <1>5

LEMMA KeptIs ==
  ASSUME SimInv, NEW n \in Nodes
  PROVE  /\ DOMAIN Kept(n) = {p \in DOMAIN Idle(n) : ~Expired(Aged(n)[p])}
         /\ IsFiniteSet(DOMAIN Kept(n))
         /\ \A p \in DOMAIN Kept(n) :
              /\ p \in DOMAIN Idle(n) /\ Kept(n)[p] = Aged(n)[p]
              /\ Kept(n)[p] \in Container /\ Kept(n)[p].node = n
              /\ Rule.ages => /\ Kept(n)[p].life = LifeTime - ((slot + 1) - Kept(n)[p].born)
                              /\ Kept(n)[p].life >= 1
<1>1. \A p \in DOMAIN Idle(n) :
        /\ Aged(n)[p] \in Container /\ Aged(n)[p].node = n
        /\ Rule.ages => Aged(n)[p].life = LifeTime - ((slot + 1) - Aged(n)[p].born)
        /\ Rule.ages /\ ~Expired(Aged(n)[p]) => Aged(n)[p].life >= 1
  BY AgedIs
<1>2. DOMAIN Aged(n) = DOMAIN Idle(n)
  BY DEF Aged
<1>3. DOMAIN Kept(n) = {p \in DOMAIN Idle(n) : ~Expired(Aged(n)[p])}
  BY <1>2 DEF Kept
<1>4. \A p \in DOMAIN Kept(n) : p \in DOMAIN Idle(n) /\ Kept(n)[p] = Aged(n)[p] /\ ~Expired(Aged(n)[p])
  BY <1>2 DEF Kept
<1>5. IsFiniteSet(DOMAIN Kept(n))
  <2>1. IsFiniteSet(DOMAIN Idle(n)) /\ DOMAIN Kept(n) \in SUBSET DOMAIN Idle(n)
    BY <1>3, IdleIs
  <2> QED
    BY <2>1, FS_Subset
<1> QED
  BY <1>1, <1>3, <1>4, <1>5

\* A list that updateCache leaves: each container that is kept, once, in order.
SortsKept(n, to) ==
  /\ to \in [1 .. Cardinality(DOMAIN Kept(n)) -> DOMAIN Kept(n)]
  /\ \A i, j \in 1 .. Cardinality(DOMAIN Kept(n)) : i # j => to[i] # to[j]
  /\ cache'[n] = [i \in 1 .. Cardinality(DOMAIN Kept(n)) |-> Kept(n)[to[i]]]
  /\ \A i, j \in 1 .. Cardinality(DOMAIN Kept(n)) :
       i < j => SortKey(Kept(n)[to[i]]) <= SortKey(Kept(n)[to[j]])

LEMMA UpdateSorts ==
  ASSUME SimInv, UpdateCache
  PROVE  /\ Shaped
         /\ \A n \in Nodes : active'[n] = <<>> /\ \E to : SortsKept(n, to)
<1> DEFINE sorted == [n \in Nodes |-> SortedBy(Kept(n))]
<1>1. active' = [n \in Nodes |-> <<>>]
  BY DEF UpdateCache
<1>2. /\ cache' \in [Nodes -> UNION Range(sorted)]
      /\ \A n \in Nodes : cache'[n] \in sorted[n]
  BY DEF UpdateCache
<1>3. \A n \in Nodes : cache'[n] \in SortedBy(Kept(n))
  BY <1>2
<1>4. Shaped
  BY <1>1, <1>2 DEF Shaped
<1>5. ASSUME NEW n \in Nodes
      PROVE  \E to : SortsKept(n, to)
  <2> DEFINE f == Kept(n)
  <2>1. cache'[n] \in SortedBy(f)
    BY <1>3
  <2>2. PICK to \in SetToSeqs(DOMAIN f) :
          /\ \A i, j \in DOMAIN to : i < j => SortKey(f[to[i]]) <= SortKey(f[to[j]])
          /\ cache'[n] = [i \in DOMAIN to |-> f[to[i]]]
    BY <2>1 DEF SortedBy
  <2>3. /\ to \in [1 .. Cardinality(DOMAIN f) -> DOMAIN f]
        /\ \A i, j \in 1 .. Cardinality(DOMAIN f) : i # j => to[i] # to[j]
    BY <2>2 DEF SetToSeqs
  <2>4. DOMAIN to = 1 .. Cardinality(DOMAIN f)
    BY <2>3
  <2> HIDE DEF f
  <2>5. /\ cache'[n] = [i \in 1 .. Cardinality(DOMAIN f) |-> f[to[i]]]
        /\ \A i, j \in 1 .. Cardinality(DOMAIN f) :
             i < j => SortKey(f[to[i]]) <= SortKey(f[to[j]])
    BY <2>2, <2>4
  <2> QED
    BY <2>3, <2>5 DEF SortsKept, f
<1> QED
  BY <1>1, <1>4, <1>5

\* The lists of the next slot.
LEMMA UpdateLists ==
  ASSUME SimInv, UpdateCache
  PROVE  /\ ListInv'
         /\ active' \in [Nodes -> Seq(Container)] /\ cache' \in [Nodes -> Seq(Container)]
<1>1. Shaped /\ \A n \in Nodes : active'[n] = <<>> /\ \E to : SortsKept(n, to)
  BY UpdateSorts
<1>2. Rule' = Rule /\ slot' = slot + 1 /\ freq' = freq
  BY DEF Rule, UpdateCache
<1>3. ASSUME NEW n \in Nodes
      PROVE  /\ cache'[n] \in Seq(IdleOn(n)') /\ cache'[n] \in Seq(Container)
             /\ Ascending(cache[n])'
  <2> DEFINE k == Cardinality(DOMAIN Kept(n))
             l == cache'[n]
  <2>1. k \in Nat
    BY KeptIs, FS_CardinalityType
  <2>2. PICK to : SortsKept(n, to)
    BY <1>1
  <2>3. /\ to \in [1 .. k -> DOMAIN Kept(n)]
        /\ l = [i \in 1 .. k |-> Kept(n)[to[i]]]
        /\ \A i, j \in 1 .. k : i < j => SortKey(Kept(n)[to[i]]) <= SortKey(Kept(n)[to[j]])
    BY <2>2 DEF SortsKept
  <2>4. \A p \in DOMAIN Kept(n) : Kept(n)[p] \in IdleOn(n)' /\ Kept(n)[p] \in Container
    BY <1>2, KeptIs DEF IdleOn, InUse
  <2> HIDE DEF k
  <2>5. \A i \in 1 .. k : l[i] \in IdleOn(n)' /\ l[i] \in Container
    BY <2>3, <2>4
  <2>6. DOMAIN l = 1 .. k /\ l = [i \in 1 .. k |-> l[i]]
    BY <2>3
  <2>7. \A i, j \in 1 .. k : i < j => SortKey(l[i]) <= SortKey(l[j])
    BY <2>3
  <2>8. \A i, j \in DOMAIN l : i < j => SortKey(cache[n][i])' <= SortKey(cache[n][j])'
    BY <1>2, <2>6, <2>7 DEF SortKey
  <2>9. Ascending(cache[n])'
    BY <2>8 DEF Ascending
  <2> HIDE DEF l
  <2>10. l \in Seq(IdleOn(n)') /\ l \in Seq(Container)
    BY <2>1, <2>5, <2>6
  <2> QED
    BY <2>9, <2>10 DEF l
<1>4. \A n \in Nodes : active'[n] \in Seq(InUse(n)') /\ active'[n] \in Seq(Container)
  BY <1>1, EmptySeq
<1>5. ListInv'
  BY <1>3, <1>4 DEF ListInv
<1>6. active' \in [Nodes -> Seq(Container)] /\ cache' \in [Nodes -> Seq(Container)]
  BY <1>1, <1>3, <1>4 DEF Shaped
<1> QED
  BY <1>5, <1>6

-----------------------------------------------------------------------------
(* Memory after the slot. *)

\* What each place gives back.
Lapsed(n) ==
  [p \in DOMAIN Idle(n) |-> IF Expired(Aged(n)[p]) THEN Size[Idle(n)[p].type] ELSE 0]

LEMMA LapsedIs ==
  ASSUME SimInv, NEW n \in Nodes
  PROVE  /\ Lapsed(n) \in [DOMAIN Idle(n) -> Nat]
         /\ MemAfter(n) = IF Rule.forgets THEN MemCap
                          ELSE mem[n] + SumOf(Lapsed(n), DOMAIN Idle(n))
         /\ SumOf(Lapsed(n), DOMAIN Idle(n)) \in Nat /\ MemAfter(n) \in Nat
<1>1. DOMAIN Aged(n) = DOMAIN Idle(n)
  BY DEF Aged
<1>2. \A p \in DOMAIN Idle(n) : Aged(n)[p].type = Idle(n)[p].type
  BY AgedIs
<1>3. \A p \in DOMAIN Idle(n) : Size[Idle(n)[p].type] \in Nat
  <2>1. \A p \in DOMAIN Idle(n) : Idle(n)[p].type \in Types
    BY IdleIs DEF InUse, Container
  <2> QED
    BY <2>1, SimulationConstantsOK
<1>4. Lapsed(n) \in [DOMAIN Idle(n) -> Nat]
  BY <1>3 DEF Lapsed
<1> DEFINE F == [p \in DOMAIN Aged(n) |->
                   IF Expired(Aged(n)[p]) THEN Size[Aged(n)[p].type] ELSE 0]
<1>5. F = Lapsed(n)
  BY <1>1, <1>2 DEF Lapsed
<1>6. SumFunction(F) = SumOf(Lapsed(n), DOMAIN Idle(n))
  <2>1. SumFunction(Lapsed(n)) = SumOf(Lapsed(n), DOMAIN Lapsed(n))
    BY SumFunctionIs
  <2>2. DOMAIN Lapsed(n) = DOMAIN Idle(n)
    BY DEF Lapsed
  <2> HIDE DEF F
  <2> QED
    BY <1>5, <2>1, <2>2
<1>7. MemAfter(n) = IF Rule.forgets THEN MemCap
                    ELSE mem[n] + SumOf(Lapsed(n), DOMAIN Idle(n))
  BY <1>6 DEF MemAfter
<1>8. SumOf(Lapsed(n), DOMAIN Idle(n)) \in Nat
  <2> DEFINE D == DOMAIN Idle(n)
             G == Lapsed(n)
  <2>1. G \in [D -> Nat] /\ D \in SUBSET D /\ IsFiniteSet(D)
    BY <1>4, IdleIs
  <2> HIDE DEF D, G
  <2>2. SumOf(G, D) \in Nat
    BY <2>1, SumOfType
  <2> QED
    BY <2>2 DEF D, G
<1>9. mem[n] \in Nat /\ MemCap \in Nat
  BY SimulationConstantsOK DEF SimInv, SimTypeOK
<1> QED
  BY <1>4, <1>7, <1>8, <1>9

LEMMA SumOverNodes ==
  ASSUME NEW f \in [Nodes -> Nat]
  PROVE  SumFunction(f) \in Nat
<1>1. IsFiniteSet(Nodes)
  BY FS_Interval, SimulationConstantsOK DEF Nodes
<1>2. DOMAIN f = Nodes /\ Nodes \in SUBSET Nodes
  OBVIOUS
<1>3. SumOf(f, Nodes) \in Nat
  BY <1>1, <1>2, SumOfType
<1> QED
  BY <1>2, <1>3, SumFunctionIs

\* The number of slots that have requests.
LEMMA SlotsAreFinite ==
  /\ IsFiniteSet(Slots) /\ Cardinality(Slots) = SlotNum
  /\ SlotsWithRequests \in Nat /\ SlotsWithRequests <= SlotNum
<1>1. SlotNum \in Nat \ {0} /\ 1 \in Int
  BY SimulationConstantsOK
<1>2. IsFiniteSet(Slots) /\ Cardinality(Slots) = SlotNum
  BY <1>1, FS_Interval DEF Slots
<1> DEFINE S == {s \in Slots : requestMap[s] # <<>>}
<1>3. IsFiniteSet(S) /\ Cardinality(S) <= Cardinality(Slots)
  <2>1. S \in SUBSET Slots
    OBVIOUS
  <2> HIDE DEF S
  <2> QED
    BY <1>2, <2>1, FS_Subset
<1>4. Cardinality(S) \in Nat
  BY <1>3, FS_CardinalityType
<1> QED
  BY <1>2, <1>3, <1>4 DEF SlotsWithRequests

-----------------------------------------------------------------------------
(* Every action keeps the inductive invariant. *)

\* An action that leaves the lists alone.
LEMMA ListsStay ==
  ASSUME SimInv, program' = program, slot' = slot, freq' = freq,
         active' = active, cache' = cache
  PROVE  /\ ListInv'
         /\ active' \in [Nodes -> Seq(Container)] /\ cache' \in [Nodes -> Seq(Container)]
<1>1. active \in [Nodes -> Seq(Container)] /\ cache \in [Nodes -> Seq(Container)]
  BY DEF SimInv, SimTypeOK
<1>2. Shaped
  BY <1>1 DEF Shaped
<1>3. \A n \in Nodes : Stays(n)
  BY DEF Stays
<1> QED
  BY <1>2, <1>3, ListsKept

\* Going on to the next request.
LEMMA NextRequestIs ==
  ASSUME SimInv, Deploying, NextRequest
  PROVE  /\ program' = program /\ pc' = pc /\ row' = row /\ slot' = slot /\ freq' = freq
         /\ clock' = clock /\ memoryLeft' = memoryLeft /\ report' = report
         /\ cur' \in Nat \ {0} /\ rounds' = 0 /\ freed' = 0 /\ total' \in Nat
         /\ robin' \in 1 .. NodeNum + 1
<1>1. SimTypeOK /\ Robin \in 1 .. NodeNum
  BY TargetIsNode DEF SimInv, Nodes
<1>2. NodeNum \in Nat
  BY SimulationConstantsOK
<1> QED
  BY <1>1, <1>2 DEF SimTypeOK, NextRequest, reported

-----------------------------------------------------------------------------
(* The actions one by one. *)

\* Nothing has been evicted yet when no request is being placed.
LEMMA NoRounds ==
  ASSUME SimInv, ~Deploying
  PROVE  rounds = 0
<1>1. rounds \in 0 .. Rule.rounds /\ Rule.rounds \in Nat
  BY RulesAre DEF SimInv, SimTypeOK
<1> QED
  BY <1>1 DEF SimInv, RoundInv

\* Creating the requests of a row puts new ones behind those of the slot.
LEMMA RowAdds ==
  ASSUME SimTypeOK, CreateRow
  PROVE  /\ row[1] \in Types /\ row[2] \in Slots
         /\ \E rs \in Seq(Untouched) :
              requestMap' = [requestMap EXCEPT ![row[2]] = requestMap[row[2]] \o rs]
<1>1. PICK num \in NumRows : \E pred \in PredictedRows(num) :
        requestMap' = [requestMap EXCEPT ![row[2]] = @ \o RequestsOf(row[1], num, pred)]
  BY DEF CreateRow
<1>2. PICK pred \in PredictedRows(num) :
        requestMap' = [requestMap EXCEPT ![row[2]] = @ \o RequestsOf(row[1], num, pred)]
  BY <1>1
<1>3. row[1] \in Types /\ row[2] \in Slots
  BY SimulationConstantsOK DEF SimTypeOK, CreateRow, Types
<1>4. pred \in [Nodes -> Nums]
  BY DEF PredictedRows, NumRows
<1>5. RequestsOf(row[1], num, pred) \in Seq(Untouched)
  BY <1>3, <1>4, RequestsOfAre
<1> QED
  BY <1>2, <1>3, <1>5

LEMMA CreateRowKeeps ==
  ASSUME SimInv, CreateRow
  PROVE  SimInv'
<1>1. SimTypeOK /\ rounds = 0
  BY NoRounds DEF SimInv, CreateRow, Deploying
<1>2. PICK rs \in Seq(Untouched) :
        requestMap' = [requestMap EXCEPT ![row[2]] = requestMap[row[2]] \o rs]
  BY <1>1, RowAdds
<1>3. /\ program' = program /\ pc' = pc /\ slot' = slot /\ cur' = cur /\ rounds' = rounds
      /\ freed' = freed /\ robin' = robin /\ total' = total /\ mem' = mem
      /\ active' = active /\ cache' = cache /\ freq' = freq /\ clock' = clock
      /\ memoryLeft' = memoryLeft /\ report' = report /\ created' = created
  BY DEF CreateRow, placing, reported
<1>4. row[1] \in Types /\ row[2] \in Slots
  BY <1>1, RowAdds
<1>5. row' \in (1 .. TypeNum + 1) \X Slots
  <2>1. row' = IF row[2] < SlotNum THEN <<row[1], row[2] + 1>> ELSE <<row[1] + 1, 1>>
    BY DEF CreateRow
  <2>2. TypeNum \in Nat \ {0} /\ SlotNum \in Nat \ {0}
    BY SimulationConstantsOK
  <2> QED
    BY <1>4, <2>1, <2>2 DEF Types, Slots
<1>6. requestMap' \in [Slots -> Seq(Request)]
  <2>1. requestMap \in [Slots -> Seq(Request)] /\ rs \in Seq(Request)
    BY <1>1, SeqMonotonic DEF SimTypeOK, Untouched
  <2>2. requestMap[row[2]] \o rs \in Seq(Request)
    BY <1>4, <2>1, ConcatProperties
  <2> QED
    BY <1>2, <2>1, <2>2
<1>7. ListInv'
  BY <1>3, ListsStay
<1>8. Rule' = Rule
  BY <1>3 DEF Rule
<1>9. SimTypeOK'
  BY <1>1, <1>3, <1>5, <1>6, <1>8 DEF SimTypeOK
<1>10. RoundInv'
  BY <1>1, <1>3 DEF RoundInv
<1> QED
  BY <1>3, <1>7, <1>9, <1>10 DEF SimInv

LEMMA NoPredictionKeeps ==
  ASSUME SimInv, NoPrediction
  PROVE  SimInv'
<1>1. SimTypeOK /\ rounds = 0
  BY NoRounds DEF SimInv, NoPrediction, Deploying
<1>2. /\ program' = program /\ pc' = pc /\ slot' = slot /\ cur' = cur /\ rounds' = rounds
      /\ freed' = freed /\ robin' = robin /\ total' = total /\ mem' = mem
      /\ active' = active /\ cache' = cache /\ freq' = freq /\ clock' = clock
      /\ memoryLeft' = memoryLeft /\ report' = report /\ created' = created
      /\ requestMap' = requestMap /\ row' = <<TypeNum + 1, 1>>
  BY DEF NoPrediction, placing, reported
<1>3. row' \in (1 .. TypeNum + 1) \X Slots
  BY <1>2, SimulationConstantsOK DEF Slots
<1>4. ListInv'
  BY <1>2, ListsStay
<1>5. Rule' = Rule
  BY <1>2 DEF Rule
<1>6. SimTypeOK'
  BY <1>1, <1>2, <1>3, <1>5 DEF SimTypeOK
<1>7. RoundInv'
  BY <1>1, <1>2 DEF RoundInv
<1> QED
  BY <1>2, <1>4, <1>6, <1>7 DEF SimInv

LEMMA StartDeployingKeeps ==
  ASSUME SimInv, StartDeploying
  PROVE  SimInv'
<1>1. SimTypeOK /\ rounds = 0
  BY NoRounds DEF SimInv, StartDeploying, Deploying
<1>2. /\ program' = program /\ slot' = slot /\ cur' = cur /\ rounds' = rounds
      /\ freed' = freed /\ robin' = robin /\ total' = total /\ mem' = mem
      /\ active' = active /\ cache' = cache /\ freq' = freq /\ clock' = clock
      /\ memoryLeft' = memoryLeft /\ report' = report /\ created' = created
      /\ requestMap' = requestMap /\ row' = row
  BY DEF StartDeploying, placing, reported
<1>3. pc' \in {"slot", "aborted"}
  BY DEF StartDeploying
<1>4. ListInv'
  BY <1>2, ListsStay
<1>5. Rule' = Rule
  BY <1>2 DEF Rule
<1>6. SimTypeOK'
  BY <1>1, <1>2, <1>3, <1>5 DEF SimTypeOK
<1>7. RoundInv'
  BY <1>1, <1>2 DEF RoundInv
<1> QED
  BY <1>2, <1>4, <1>6, <1>7 DEF SimInv

LEMMA StartSlotKeeps ==
  ASSUME SimInv, StartSlot
  PROVE  SimInv'
<1>1. SimTypeOK /\ rounds = 0
  BY NoRounds DEF SimInv, StartSlot, Deploying
<1>2. /\ program' = program /\ slot' = slot /\ cur' = 1 /\ rounds' = rounds
      /\ freed' = freed /\ robin' = robin /\ total' = total /\ mem' = mem
      /\ active' = active /\ cache' = cache /\ freq' = freq /\ clock' = clock
      /\ memoryLeft' = memoryLeft /\ report' = report /\ created' = created
      /\ requestMap' = requestMap /\ row' = row /\ pc' = "deploy"
  BY DEF StartSlot, reported
<1>3. ListInv'
  BY <1>2, ListsStay
<1>4. Rule' = Rule
  BY <1>2 DEF Rule
<1>5. SimTypeOK'
  BY <1>1, <1>2, <1>4 DEF SimTypeOK
<1>6. RoundInv'
  BY <1>1, <1>2 DEF RoundInv
<1> QED
  BY <1>2, <1>3, <1>5, <1>6 DEF SimInv

\* Placing a request on a container that is idle.
LEMMA PlacedKeeps ==
  ASSUME SimInv, Deploying, NextRequest, Serve(FALSE), Shaped,
         \A n \in Nodes : Takes(n) \/ Stays(n), mem' = mem, created' = created
  PROVE  SimInv'
<1>1. SimTypeOK
  BY DEF SimInv
<1>2. /\ program' = program /\ pc' = pc /\ row' = row /\ slot' = slot /\ freq' = freq
      /\ clock' = clock /\ memoryLeft' = memoryLeft /\ report' = report
      /\ cur' \in Nat \ {0} /\ rounds' = 0 /\ freed' = 0 /\ total' \in Nat
      /\ robin' \in 1 .. NodeNum + 1
  BY NextRequestIs
<1>3. /\ ListInv'
      /\ active' \in [Nodes -> Seq(Container)] /\ cache' \in [Nodes -> Seq(Container)]
  BY <1>2, ListsKept
<1>4. requestMap' \in [Slots -> Seq(Request)]
  <2>1. FALSE \in BOOLEAN /\ Serve(FALSE) /\ SimTypeOK /\ Deploying
    BY <1>1
  <2> QED
    BY <2>1, ServeIs
<1>5. Rule' = Rule /\ Rule.rounds \in Nat
  BY <1>1, <1>2, RulesAre DEF Rule, SimTypeOK
<1>6. SimTypeOK'
  BY <1>1, <1>2, <1>3, <1>4, <1>5 DEF SimTypeOK
<1>7. RoundInv'
  BY <1>2 DEF RoundInv
<1> QED
  BY <1>2, <1>3, <1>6, <1>7 DEF SimInv

LEMMA PlaceToCurrentKeeps ==
  ASSUME SimInv, PlaceToCurrent
  PROVE  SimInv'
<1>1. Deploying /\ NextRequest /\ Serve(FALSE) /\ mem' = mem /\ created' = created
  BY DEF PlaceToCurrent
<1>2. Shaped /\ \A n \in Nodes : Takes(n) \/ Stays(n)
  BY PlaceToCurrentTakes
<1> QED
  BY <1>1, <1>2, PlacedKeeps

LEMMA PlaceToNeighboursKeeps ==
  ASSUME SimInv, PlaceToNeighbours
  PROVE  SimInv'
<1>1. Deploying /\ NextRequest /\ Serve(FALSE) /\ mem' = mem /\ created' = created
  BY DEF PlaceToNeighbours
<1>2. Shaped /\ \A n \in Nodes : Takes(n) \/ Stays(n)
  BY PlaceToNeighboursTakes
<1> QED
  BY <1>1, <1>2, PlacedKeeps

\* What a new container is charged is there.
LEMMA ChargeIs ==
  ASSUME SimInv, NeedsNew, Fits
  PROVE  Charge \in Nat /\ mem[Target] - Charge \in Nat
<1>1. SimTypeOK /\ RoundInv /\ Deploying
  BY DEF SimInv, NeedsNew
<1>2. Target \in Nodes /\ Size[Req.type] \in Nat \ {0}
  BY <1>1, TargetIsNode
<1>3. mem[Target] \in Nat /\ freed \in Nat
  BY <1>1, <1>2 DEF SimTypeOK
<1>4. Size[Req.type] <= mem[Target]
  BY DEF Fits
<1> QED
  BY <1>1, <1>2, <1>3, <1>4 DEF Charge, RoundInv

LEMMA CreateKeeps ==
  ASSUME SimInv, Create
  PROVE  SimInv'
<1>1. SimTypeOK /\ Deploying /\ NextRequest /\ Serve(TRUE) /\ NeedsNew /\ Fits
  BY DEF SimInv, Create, NeedsNew
<1>2. /\ program' = program /\ pc' = pc /\ row' = row /\ slot' = slot /\ freq' = freq
      /\ clock' = clock /\ memoryLeft' = memoryLeft /\ report' = report
      /\ cur' \in Nat \ {0} /\ rounds' = 0 /\ freed' = 0 /\ total' \in Nat
      /\ robin' \in 1 .. NodeNum + 1
  BY <1>1, NextRequestIs
<1>3. /\ ListInv'
      /\ active' \in [Nodes -> Seq(Container)] /\ cache' \in [Nodes -> Seq(Container)]
  <2>1. \A n \in Nodes : Takes(n) \/ Stays(n) \/ (\E t : Adds(n, t)) \/ Drops(n)
    BY CreateAdds
  <2> QED
    BY <1>2, <2>1, CreateAdds, ListsKept
<1>4. requestMap' \in [Slots -> Seq(Request)]
  <2>1. TRUE \in BOOLEAN /\ Serve(TRUE) /\ SimTypeOK /\ Deploying
    BY <1>1
  <2> QED
    BY <2>1, ServeIs
<1>5. mem' \in [Nodes -> Nat] /\ created' \in Nat
  <2>1. mem' = [mem EXCEPT ![Target] = mem[Target] - Charge] /\ created' = created + 1
    BY DEF Create
  <2>2. mem[Target] - Charge \in Nat
    BY <1>1, ChargeIs
  <2>3. mem \in [Nodes -> Nat] /\ created \in Nat
    BY <1>1 DEF SimTypeOK
  <2>4. mem' \in [Nodes -> Nat]
    BY <2>1, <2>2, <2>3
  <2> QED
    BY <2>1, <2>3, <2>4
<1>6. Rule' = Rule /\ Rule.rounds \in Nat
  BY <1>1, <1>2, RulesAre DEF Rule, SimTypeOK
<1>7. SimTypeOK'
  BY <1>1, <1>2, <1>3, <1>4, <1>5, <1>6 DEF SimTypeOK
<1>8. RoundInv'
  BY <1>2 DEF RoundInv
<1> QED
  BY <1>2, <1>3, <1>7, <1>8 DEF SimInv

\* A program that evicts keeps containers warm, and can evict one of priority 0.
LEMMA EvictingPrograms ==
  ASSUME SimInv, NeedsNew, AnotherRound
  PROVE  Rule.warm /\ Rule.value # "unset" /\ rounds + 1 \in 0 .. Rule.rounds
<1>1. SimTypeOK /\ freq = <<>> /\ Deploying
  BY DEF SimInv, NeedsNew
<1>2. Target \in Nodes
  BY <1>1, TargetIsNode
<1>3. cache[Target] \in Seq(Container) /\ cache[Target] # <<>>
  BY <1>1, <1>2 DEF SimTypeOK, AnotherRound
<1>4. Head(cache[Target]).prio \in Nat /\ Head(cache[Target]).type \in Types
  <2>1. Head(cache[Target]) \in Container
    BY <1>3, HeadTailProperties
  <2> QED
    BY <2>1 DEF Container
<1>5. rounds \in Nat /\ rounds < Rule.rounds /\ Rule.rounds \in Nat
  BY <1>1, RulesAre DEF SimTypeOK, AnotherRound
<1>6. Rule.warm
  BY <1>1, <1>5, RulesAre DEF SimTypeOK
<1>7. Rule.value = "unset" => Lowest = Head(cache[Target]).prio
  BY <1>3 DEF Lowest
<1>8. Rule.value # "unset"
  <2> SUFFICES ASSUME Rule.value = "unset"
               PROVE  FALSE
    OBVIOUS
  <2>1. Lowest < 0
    BY DEF AnotherRound, MayEvict
  <2> QED
    BY <1>4, <1>7, <2>1
<1> QED
  BY <1>5, <1>6, <1>8

LEMMA EvictKeeps ==
  ASSUME SimInv, Evict
  PROVE  SimInv'
<1>1. SimTypeOK /\ Deploying /\ NeedsNew /\ AnotherRound
  BY DEF SimInv, Evict, NeedsNew
<1>2. /\ program' = program /\ pc' = pc /\ row' = row /\ requestMap' = requestMap
      /\ slot' = slot /\ cur' = cur /\ robin' = robin /\ total' = total /\ freq' = freq
      /\ clock' = clock /\ memoryLeft' = memoryLeft /\ report' = report
      /\ created' = created /\ rounds' = rounds + 1
  BY DEF Evict, reported
<1>3. /\ Target \in Nodes /\ Head(cache[Target]).type \in Types
      /\ \A n \in Nodes : Takes(n) \/ Stays(n) \/ (\E t : Adds(n, t)) \/ Drops(n)
  BY EvictDrops
<1>4. /\ ListInv'
      /\ active' \in [Nodes -> Seq(Container)] /\ cache' \in [Nodes -> Seq(Container)]
  BY <1>2, <1>3, EvictDrops, ListsKept
<1>5. /\ freed' = Size[Head(cache[Target]).type]
      /\ mem' = [mem EXCEPT ![Target] = mem[Target] + freed']
  BY DEF Evict
<1>6. freed' \in Nat
  BY <1>3, <1>5, SimulationConstantsOK
<1>7. mem \in [Nodes -> Nat] /\ mem[Target] \in Nat
  BY <1>1, <1>3 DEF SimTypeOK
<1>8. mem' \in [Nodes -> Nat] /\ freed' <= mem'[Target]
  <2> DEFINE T == Target
             f == freed'
  <2>1. mem' = [mem EXCEPT ![T] = mem[T] + f] /\ f \in Nat /\ T \in Nodes /\ mem[T] \in Nat
    BY <1>3, <1>5, <1>6, <1>7
  <2> HIDE DEF T, f
  <2>2. mem' \in [Nodes -> Nat] /\ f <= mem'[T]
    BY <1>7, <2>1
  <2> QED
    BY <2>2 DEF T, f
<1>9. Rule' = Rule /\ Rule.rounds \in Nat
  BY <1>1, <1>2, RulesAre DEF Rule, SimTypeOK
<1>10. Rule.warm /\ Rule.value # "unset" /\ rounds' \in 0 .. Rule.rounds
  BY <1>1, <1>2, EvictingPrograms
<1>11. SimTypeOK'
  BY <1>1, <1>2, <1>4, <1>6, <1>8, <1>9, <1>10 DEF SimTypeOK
<1>12. Deploying' /\ Target' = Target
  BY <1>1, <1>2, <1>9 DEF Deploying, RequestsInSlot, Target, Robin, Req
<1>13. RoundInv'
  BY <1>8, <1>9, <1>10, <1>12 DEF RoundInv
<1> QED
  BY <1>2, <1>4, <1>11, <1>13 DEF SimInv

LEMMA RefuseKeeps ==
  ASSUME SimInv, Refuse
  PROVE  SimInv'
<1>1. /\ SimTypeOK /\ Deploying /\ NextRequest /\ requestMap' = requestMap /\ mem' = mem
      /\ active' = active /\ cache' = cache /\ created' = created
  BY DEF SimInv, Refuse, NeedsNew
<1>2. /\ program' = program /\ pc' = pc /\ row' = row /\ slot' = slot /\ freq' = freq
      /\ clock' = clock /\ memoryLeft' = memoryLeft /\ report' = report
      /\ cur' \in Nat \ {0} /\ rounds' = 0 /\ freed' = 0 /\ total' \in Nat
      /\ robin' \in 1 .. NodeNum + 1
  BY <1>1, NextRequestIs
<1>3. ListInv'
  BY <1>1, <1>2, ListsStay
<1>4. Rule' = Rule /\ Rule.rounds \in Nat
  BY <1>1, <1>2, RulesAre DEF Rule, SimTypeOK
<1>5. SimTypeOK'
  BY <1>1, <1>2, <1>4 DEF SimTypeOK
<1>6. RoundInv'
  BY <1>2 DEF RoundInv
<1> QED
  BY <1>2, <1>3, <1>5, <1>6 DEF SimInv

LEMMA UpdateCacheKeeps ==
  ASSUME SimInv, UpdateCache
  PROVE  SimInv'
<1>1. SimTypeOK /\ rounds = 0
  BY NoRounds DEF SimInv, SimTypeOK, UpdateCache, Deploying
<1>2. /\ program' = program /\ pc' = "slot" /\ row' = row /\ requestMap' = requestMap
      /\ slot' = slot + 1 /\ cur' = cur /\ rounds' = rounds /\ freed' = freed
      /\ robin' = robin /\ total' = total /\ freq' = freq /\ clock' = clock + 1
      /\ report' = report /\ created' = created
  BY DEF UpdateCache
<1>3. /\ ListInv'
      /\ active' \in [Nodes -> Seq(Container)] /\ cache' \in [Nodes -> Seq(Container)]
  BY UpdateLists
<1>4. mem' \in [Nodes -> Nat]
  <2>1. mem' = [n \in Nodes |-> MemAfter(n)]
    BY DEF UpdateCache
  <2> QED
    BY <2>1, LapsedIs
<1>5. memoryLeft' \in Seq(Nat)
  <2>1. SumFunction(mem) \in Nat /\ SumFunction(mem') \in Nat
    BY <1>1, <1>4, SumOverNodes DEF SimTypeOK
  <2>2. \E k \in Nat : memoryLeft' = Append(memoryLeft, k)
    BY <2>1 DEF UpdateCache
  <2> QED
    BY <1>1, <2>2, AppendIs DEF SimTypeOK
<1>6. Rule' = Rule
  BY <1>2 DEF Rule
<1>7. SimTypeOK'
  BY <1>1, <1>2, <1>3, <1>4, <1>5, <1>6 DEF SimTypeOK
<1>8. RoundInv'
  BY <1>1, <1>2 DEF RoundInv
<1> QED
  BY <1>2, <1>3, <1>7, <1>8 DEF SimInv

\* The requests that a report counts.
Counted == UNION {{s} \X ServedIn(s) : s \in 1 .. SlotsWithRequests}

\* There are finitely many requests.
LEMMA RequestsAreFinite ==
  ASSUME SimTypeOK
  PROVE  /\ IsFiniteSet(AllRequests)
         /\ Counted \subseteq {r \in AllRequests : RequestAt(r).served}
         /\ \A s \in Slots : \A i \in DOMAIN requestMap[s] :
              /\ <<s, i>> \in AllRequests /\ RequestAt(<<s, i>>) = requestMap[s][i]
         /\ \A r \in AllRequests :
              /\ r = <<r[1], r[2]>> /\ r[1] \in Slots /\ r[2] \in DOMAIN requestMap[r[1]]
              /\ r[2] \in Nat \ {0}
              /\ RequestAt(r) = requestMap[r[1]][r[2]] /\ RequestAt(r) \in Request
<1>1. ASSUME NEW s \in Slots
      PROVE  /\ requestMap[s] \in Seq(Request) /\ Len(requestMap[s]) \in Nat
             /\ DOMAIN requestMap[s] = 1 .. Len(requestMap[s])
             /\ \A i \in DOMAIN requestMap[s] : requestMap[s][i] \in Request
  <2>1. requestMap[s] \in Seq(Request)
    BY DEF SimTypeOK
  <2> QED
    BY <2>1, LenProperties
<1> DEFINE U == {{s} \X DOMAIN requestMap[s] : s \in Slots}
<1>2. IsFiniteSet(UNION U)
  <2>1. IsFiniteSet(Slots)
    BY SlotsAreFinite
  <2>2. IsFiniteSet(U)
    <3> DEFINE f == [s \in Slots |-> {s} \X DOMAIN requestMap[s]]
    <3>1. f \in Surjection(Slots, U)
      BY DEF Surjection
    <3> HIDE DEF f, U
    <3> QED
      BY <2>1, <3>1, FS_Surjection
  <2>3. ASSUME NEW s \in Slots
        PROVE  IsFiniteSet({s} \X DOMAIN requestMap[s])
    <3>1. IsFiniteSet(DOMAIN requestMap[s])
      BY <1>1, FS_Interval
    <3> QED
      BY <3>1, FS_Singleton, FS_Product
  <2>4. \A u \in U : IsFiniteSet(u)
    BY <2>3
  <2> HIDE DEF U
  <2> QED
    BY <2>2, <2>4, FS_UNION
<1>3. AllRequests = UNION U
  BY DEF AllRequests
<1>4. \A s \in Slots : \A i \in DOMAIN requestMap[s] :
        <<s, i>> \in AllRequests /\ RequestAt(<<s, i>>) = requestMap[s][i]
  <2> SUFFICES ASSUME NEW s \in Slots, NEW i \in DOMAIN requestMap[s]
               PROVE  <<s, i>> \in UNION U /\ RequestAt(<<s, i>>) = requestMap[s][i]
    BY <1>3
  <2> QED
    BY DEF RequestAt
<1>5. ASSUME NEW r \in AllRequests
      PROVE  /\ r = <<r[1], r[2]>> /\ r[1] \in Slots /\ r[2] \in DOMAIN requestMap[r[1]]
             /\ r[2] \in Nat \ {0}
             /\ RequestAt(r) = requestMap[r[1]][r[2]] /\ RequestAt(r) \in Request
  <2>1. PICK s \in Slots : r \in {s} \X DOMAIN requestMap[s]
    BY <1>3
  <2>2. r = <<r[1], r[2]>> /\ r[1] = s /\ r[2] \in DOMAIN requestMap[s]
    BY <2>1
  <2> QED
    BY <1>1, <2>2 DEF RequestAt
<1>6. Counted \subseteq {r \in AllRequests : RequestAt(r).served}
  <2> SUFFICES ASSUME NEW r \in Counted
               PROVE  r \in AllRequests /\ RequestAt(r).served
    OBVIOUS
  <2>1. PICK s \in 1 .. SlotsWithRequests : r \in {s} \X ServedIn(s)
    BY DEF Counted
  <2>2. s \in Slots
    BY SlotsAreFinite, SimulationConstantsOK DEF Slots
  <2>3. r[1] = s /\ r[2] \in ServedIn(s) /\ r = <<s, r[2]>>
    BY <2>1
  <2>4. r[2] \in DOMAIN requestMap[s] /\ requestMap[s][r[2]].served
    BY <2>3 DEF ServedIn
  <2>5. r \in AllRequests /\ RequestAt(r) = requestMap[s][r[2]]
    BY <1>4, <2>2, <2>3, <2>4
  <2> QED
    BY <2>4, <2>5
<1> QED
  BY <1>2, <1>3, <1>4, <1>5, <1>6

LEMMA ReportKeeps ==
  ASSUME SimInv, Report
  PROVE  SimInv'
<1>1. SimTypeOK /\ rounds = 0
  BY NoRounds DEF SimInv, Report, Deploying
<1>2. /\ program' = program /\ slot' = slot /\ cur' = cur /\ rounds' = rounds
      /\ freed' = freed /\ robin' = robin /\ total' = total /\ mem' = mem
      /\ active' = active /\ cache' = cache /\ freq' = freq /\ clock' = clock
      /\ memoryLeft' = memoryLeft /\ created' = created
      /\ requestMap' = requestMap /\ row' = row /\ pc' = "done"
  BY DEF Report, placing
<1>3. report' \in [served : Nat, cold : Nat]
  <2> DEFINE Cold == {r \in Counted : ReportedCold(requestMap[r[1]][r[2]])}
  <2>1. report' = [served |-> Cardinality(Counted), cold |-> Cardinality(Cold)]
    BY DEF Report, Counted
  <2>2. IsFiniteSet(AllRequests) /\ Counted \in SUBSET AllRequests /\ Cold \in SUBSET AllRequests
    BY <1>1, RequestsAreFinite
  <2> HIDE DEF Cold
  <2>3. Cardinality(Counted) \in Nat /\ Cardinality(Cold) \in Nat
    BY <2>2, FS_Subset, FS_CardinalityType
  <2> QED
    BY <2>1, <2>3
<1>4. ListInv'
  BY <1>2, ListsStay
<1>5. Rule' = Rule
  BY <1>2 DEF Rule
<1>6. SimTypeOK'
  BY <1>1, <1>2, <1>3, <1>5 DEF SimTypeOK
<1>7. RoundInv'
  BY <1>1, <1>2 DEF RoundInv
<1> QED
  BY <1>2, <1>4, <1>6, <1>7 DEF SimInv

LEMMA StutterKeeps ==
  ASSUME SimInv, UNCHANGED vars
  PROVE  SimInv'
<1>1. /\ program' = program /\ slot' = slot /\ cur' = cur /\ rounds' = rounds
      /\ freed' = freed /\ robin' = robin /\ total' = total /\ mem' = mem
      /\ active' = active /\ cache' = cache /\ freq' = freq /\ clock' = clock
      /\ memoryLeft' = memoryLeft /\ created' = created /\ report' = report
      /\ requestMap' = requestMap /\ row' = row /\ pc' = pc
  BY DEF vars, placing, reported
<1>2. ListInv'
  BY <1>1, ListsStay
<1>3. Rule' = Rule
  BY <1>1 DEF Rule
<1>4. SimTypeOK'
  BY <1>1, <1>3 DEF SimInv, SimTypeOK
<1>5. RoundInv'
  BY <1>1, <1>3 DEF SimInv, RoundInv, Deploying, RequestsInSlot, Target, Robin, Req
<1> QED
  BY <1>1, <1>2, <1>4, <1>5 DEF SimInv

LEMMA InitIsGood ==
  ASSUME Init
  PROVE  SimInv
<1>1. /\ NodeNum \in Nat \ {0} /\ TypeNum \in Nat \ {0} /\ SlotNum \in Nat \ {0}
      /\ MemCap \in Nat
  BY SimulationConstantsOK
<1>2. /\ program \in Programs
      /\ pc = "create" /\ row = <<1, 1>>
      /\ requestMap = [s \in Slots |-> <<>>]
      /\ slot = 1 /\ cur = 1 /\ rounds = 0 /\ freed = 0
      /\ mem = [n \in Nodes |-> MemCap]
      /\ active = [n \in Nodes |-> <<>>] /\ cache = [n \in Nodes |-> <<>>]
      /\ freq = <<>> /\ clock = 1 /\ robin = 1 /\ total = 0
      /\ report = [served |-> 0, cold |-> 0] /\ created = 0
  BY DEF Init
<1>3. \A E : <<>> \in Seq(E)
  OBVIOUS
<1>4. memoryLeft \in Seq(Nat)
  <2>1. NodeNum * MemCap \in Nat
    BY <1>1
  <2>2. memoryLeft = <<NodeNum * MemCap>> \/ memoryLeft = <<>>
    BY DEF Init
  <2>3. \A k \in Nat : <<k>> \in Seq(Nat)
    OBVIOUS
  <2>4. CASE memoryLeft = <<NodeNum * MemCap>>
    BY <2>1, <2>3, <2>4
  <2> QED
    BY <1>3, <2>2, <2>4
<1>5. requestMap \in [Slots -> Seq(Request)]
  BY <1>2, <1>3
<1>6. active \in [Nodes -> Seq(Container)] /\ cache \in [Nodes -> Seq(Container)]
  BY <1>2, <1>3
<1>7. row \in (1 .. TypeNum + 1) \X Slots
  BY <1>1, <1>2 DEF Slots
<1>8. rounds \in 0 .. Rule.rounds
  BY <1>2, RulesAre
<1>9. mem \in [Nodes -> Nat]
  BY <1>1, <1>2
<1>10. robin \in 1 .. NodeNum + 1
  BY <1>1, <1>2
<1>11. freq \in Seq(Nat)
  BY <1>2, <1>3
<1>12. SimTypeOK
  <2>1. /\ slot \in Nat \ {0} /\ cur \in Nat \ {0} /\ freed \in Nat /\ clock \in Nat \ {0}
        /\ total \in Nat /\ created \in Nat /\ report \in [served : Nat, cold : Nat]
    BY <1>2
  <2> QED
    BY <1>2, <1>4, <1>5, <1>6, <1>7, <1>8, <1>9, <1>10, <1>11, <2>1 DEF SimTypeOK
<1>13. ListInv
  <2>1. \A n \in Nodes : active[n] = <<>> /\ cache[n] = <<>>
    BY <1>2
  <2>2. Ascending(<<>>)
    BY DEF Ascending
  <2> QED
    BY <1>3, <2>1, <2>2 DEF ListInv
<1>14. RoundInv
  BY <1>2 DEF RoundInv
<1> QED
  BY <1>2, <1>12, <1>13, <1>14 DEF SimInv

LEMMA NextKeeps ==
  ASSUME SimInv, [Next]_vars
  PROVE  SimInv'
<1>1. CASE CreateRow
  BY <1>1, CreateRowKeeps
<1>2. CASE NoPrediction
  BY <1>2, NoPredictionKeeps
<1>3. CASE StartDeploying
  BY <1>3, StartDeployingKeeps
<1>4. CASE StartSlot
  BY <1>4, StartSlotKeeps
<1>5. CASE PlaceToCurrent
  BY <1>5, PlaceToCurrentKeeps
<1>6. CASE PlaceToNeighbours
  BY <1>6, PlaceToNeighboursKeeps
<1>7. CASE Create
  BY <1>7, CreateKeeps
<1>8. CASE Evict
  BY <1>8, EvictKeeps
<1>9. CASE Refuse
  BY <1>9, RefuseKeeps
<1>10. CASE UpdateCache
  BY <1>10, UpdateCacheKeeps
<1>11. CASE Report
  BY <1>11, ReportKeeps
<1>12. CASE UNCHANGED vars
  BY <1>12, StutterKeeps
<1> QED
  BY <1>1, <1>2, <1>3, <1>4, <1>5, <1>6, <1>7, <1>8, <1>9, <1>10, <1>11, <1>12
     DEF Next, DeployRequest, Ended

\* Every run of each of the eight programs keeps the invariant.
LEMMA SimInvHolds == Spec => []SimInv
<1>1. Init => SimInv
  BY InitIsGood
<1>2. SimInv /\ [Next]_vars => SimInv'
  BY NextKeeps
<1> QED
  BY <1>1, <1>2, PTL DEF Spec

\* The variables of the programs have their types: no program takes more memory
\* of a node than the node has left, no index leaves its list, and no key
\* that a list is sorted by is anything but a number (createToCurrent, createNew,
\* deployRoundRobin, updateCache).
THEOREM SimTypesCorrect == Spec => []SimTypeOK
<1>1. SimInv => SimTypeOK
  BY DEF SimInv
<1> QED
  BY <1>1, SimInvHolds, PTL

\* What expires is as old as its life says (updateCache of fixedcaching and hist).
THEOREM LifeIsAgeHolds == Spec => []LifeIsAge
<1>1. ASSUME SimInv
      PROVE  LifeIsAge
  <2> SUFFICES ASSUME Rule.ages, NEW n \in Nodes
               PROVE  /\ \A l \in {cache[n], active[n]} : \A i \in DOMAIN l :
                           l[i].life = LifeTime - (slot - l[i].born)
                      /\ \A i \in DOMAIN cache[n] : cache[n][i].life >= 1
    BY DEF LifeIsAge
  <2>1. /\ \A i \in DOMAIN cache[n] : cache[n][i] \in IdleOn(n)
        /\ \A i \in DOMAIN cache[n] : cache[n][i] \in InUse(n)
        /\ \A i \in DOMAIN active[n] : active[n][i] \in InUse(n)
    BY <1>1, IdleIsInUse DEF SimInv
  <2> QED
    BY <2>1 DEF IdleOn, InUse
<1>2. SimInv => LifeIsAge
  BY <1>1
<1> QED
  BY <1>2, SimInvHolds, PTL

-----------------------------------------------------------------------------
(* Turns. *)

\* What the remainder of the next number is.
LEMMA NextRemainder ==
  ASSUME NEW a \in Nat, NEW N \in Nat \ {0}
  PROVE  /\ a % N \in 0 .. N - 1
         /\ (a + 1) % N = IF (a % N) + 1 = N THEN 0 ELSE (a % N) + 1
<1> DEFINE q == a \div N
           r == a % N
           p == (a + 1) \div N
           s == (a + 1) % N
<1>1. /\ q \in Int /\ r \in 0 .. N - 1 /\ a = N * q + r
      /\ p \in Int /\ s \in 0 .. N - 1 /\ a + 1 = N * p + s
  OBVIOUS
<1> HIDE DEF q, r, p, s
<1>2. N * p - N * q = r + 1 - s
  <2>1. N * p \in Int /\ N * q \in Int
    BY <1>1
  <2> QED
    BY <1>1, <2>1
<1>3. p >= q
  <2> SUFFICES ASSUME p <= q - 1
               PROVE  FALSE
    BY <1>1
  <2>1. N * p <= N * (q - 1)
    BY <1>1
  <2>2. N * (q - 1) = N * q - N
    BY <1>1
  <2>3. N * p \in Int /\ N * q \in Int
    BY <1>1
  <2> QED
    BY <1>1, <1>2, <2>1, <2>2, <2>3
<1>4. p <= q + 1
  <2> SUFFICES ASSUME p >= q + 2
               PROVE  FALSE
    BY <1>1
  <2>1. N * p >= N * (q + 2)
    BY <1>1
  <2>2. N * (q + 2) = N * q + 2 * N
    BY <1>1
  <2>3. N * p \in Int /\ N * q \in Int
    BY <1>1
  <2> QED
    BY <1>1, <1>2, <2>1, <2>2, <2>3
<1>5. CASE p = q
  <2>1. s = r + 1
    BY <1>1, <1>2, <1>5
  <2>2. r + 1 # N
    BY <1>1, <2>1
  <2> QED
    BY <1>1, <2>1, <2>2 DEF r, s
<1>6. CASE p = q + 1
  <2>1. N * p = N * q + N /\ N * q \in Int
    BY <1>1, <1>6
  <2>2. r + 1 - s = N
    BY <1>1, <1>2, <2>1
  <2>3. s = 0 /\ r + 1 = N
    BY <1>1, <2>2
  <2> QED
    BY <1>1, <2>3 DEF r, s
<1> QED
  BY <1>1, <1>3, <1>4, <1>5, <1>6

\* Only going on to the next request takes a turn.
LEMMA TurnsAre ==
  ASSUME SimInv, [Next]_vars
  PROVE  /\ program' = program
         /\ (robin' = robin /\ total' = total) \/ (NextRequest /\ Deploying)
<1>1. program' = program
  BY DEF Next, DeployRequest, Ended, CreateRow, NoPrediction, StartDeploying, StartSlot,
         PlaceToCurrent, PlaceToNeighbours, Create, Evict, Refuse, UpdateCache, Report,
         NextRequest, vars
<1>2. CASE CreateRow \/ NoPrediction \/ StartDeploying \/ StartSlot
  BY <1>1, <1>2 DEF CreateRow, NoPrediction, StartDeploying, StartSlot, placing
<1>3. CASE PlaceToCurrent \/ PlaceToNeighbours
  BY <1>1, <1>3 DEF PlaceToCurrent, PlaceToNeighbours
<1>4. CASE Create \/ Refuse
  BY <1>1, <1>4 DEF Create, Refuse, NeedsNew
<1>5. CASE Evict \/ UpdateCache \/ Report \/ UNCHANGED vars
  BY <1>1, <1>5 DEF Evict, UpdateCache, Report, vars, placing
<1> QED
  BY <1>1, <1>2, <1>3, <1>4, <1>5 DEF Next, DeployRequest, Ended

\* flame and faascache deal the requests to the nodes in turn
\* (deployRoundRobin), however many there are of each.
THEOREM InTurnHolds == Spec => []InTurn
<1>1. Init => InTurn
  <2> SUFFICES ASSUME Init
               PROVE  Robin = (total % NodeNum) + 1
    BY DEF InTurn
  <2>1. robin = 1 /\ total = 0 /\ NodeNum \in Nat \ {0}
    BY SimulationConstantsOK DEF Init
  <2>2. 0 % NodeNum = 0
    BY <2>1
  <2> QED
    BY <2>1, <2>2 DEF Robin
<1>2. SimInv /\ InTurn /\ [Next]_vars => InTurn'
  <2> SUFFICES ASSUME SimInv, InTurn, [Next]_vars, Rule'.robin
               PROVE  Robin' = (total' % NodeNum) + 1
    BY DEF InTurn
  <2>1. /\ program' = program
        /\ (robin' = robin /\ total' = total) \/ (NextRequest /\ Deploying)
    BY TurnsAre
  <2>2. Rule.robin /\ Robin = (total % NodeNum) + 1
    BY <2>1 DEF InTurn, Rule
  <2>3. CASE robin' = robin /\ total' = total
    BY <2>2, <2>3 DEF Robin
  <2>4. CASE NextRequest /\ Deploying
    <3>1. robin' = Robin + 1 /\ total' = total + 1
      BY <2>2, <2>4 DEF NextRequest
    <3>2. NodeNum \in Nat \ {0} /\ total \in Nat
      BY SimulationConstantsOK DEF SimInv, SimTypeOK
    <3>3. /\ total % NodeNum \in 0 .. NodeNum - 1
          /\ (total + 1) % NodeNum = IF (total % NodeNum) + 1 = NodeNum THEN 0
                                     ELSE (total % NodeNum) + 1
      BY <3>2, NextRemainder
    <3>4. Robin' = IF Robin + 1 > NodeNum THEN 1 ELSE Robin + 1
      BY <3>1 DEF Robin
    <3> DEFINE m == total % NodeNum
    <3>5. m \in 0 .. NodeNum - 1 /\ total' % NodeNum = IF m + 1 = NodeNum THEN 0 ELSE m + 1
      BY <3>1, <3>3
    <3>6. Robin = m + 1
      BY <2>2
    <3> HIDE DEF m
    <3> QED
      BY <3>2, <3>4, <3>5, <3>6
  <2> QED
    BY <2>1, <2>3, <2>4
<1> QED
  BY <1>1, <1>2, SimInvHolds, PTL DEF Spec

-----------------------------------------------------------------------------
(* What a step may do. *)

\* A step that gives memory back in the middle of a slot evicts.
LEMMA OnlyEvictFrees ==
  ASSUME SimInv, Next, pc = "deploy", pc' = "deploy", NEW n \in Nodes, mem'[n] > mem[n]
  PROVE  Evict
<1>1. mem \in [Nodes -> Nat] /\ mem[n] \in Nat
  BY DEF SimInv, SimTypeOK
<1>2. CASE mem' = mem
  BY <1>1, <1>2
<1>3. CASE Create
  <2> DEFINE T == Target
             m == mem[T] - Charge
  <2>1. NeedsNew /\ Fits /\ mem' = [mem EXCEPT ![T] = m]
    BY <1>3 DEF Create
  <2>2. T \in Nodes /\ Charge \in Nat /\ m \in Nat
    BY <2>1, ChargeIs, TargetIsNode DEF SimInv, NeedsNew
  <2>3. mem[T] \in Nat /\ m <= mem[T]
    BY <1>1, <2>2
  <2> HIDE DEF T, m
  <2>4. mem'[n] <= mem[n]
    BY <1>1, <2>1, <2>2, <2>3
  <2>5. mem'[n] \in Nat
    BY <1>1, <2>1, <2>2
  <2> QED
    BY <1>1, <2>4, <2>5
<1>4. \/ mem' = mem \/ Create \/ Evict
  BY DEF Next, DeployRequest, Ended, CreateRow, NoPrediction, StartDeploying, StartSlot,
         PlaceToCurrent, PlaceToNeighbours, Refuse, UpdateCache, Report, vars
<1> QED
  BY <1>2, <1>3, <1>4

\* A step as EvictsTheLeast wants it.
EvictsLeast ==
  \A n \in Nodes : pc = "deploy" /\ mem'[n] > mem[n] /\ pc' = "deploy" =>
    /\ n = Target /\ Size[Req.type] > mem[n] /\ IdleIndexes(n, Req.type) = {}
    /\ \E i \in DOMAIN cache[n] :
         /\ cache'[n] = RemoveAt(cache[n], i)
         /\ \A j \in DOMAIN cache[n] : SortKey(cache[n][i]) <= SortKey(cache[n][j])

\* Only the container that a program values least is evicted, where it is needed
\* (createToCurrent with deleteLowestPriority, deleteLeastUse and the like): the
\* first of the list is one, since the lists stay in the order of updateCache.
THEOREM EvictsTheLeastHolds == Spec => EvictsTheLeast
<1>1. SimInv /\ [Next]_vars => [EvictsLeast]_vars
  <2> SUFFICES ASSUME SimInv, Next, NEW n \in Nodes,
                      pc = "deploy", mem'[n] > mem[n], pc' = "deploy"
               PROVE  /\ n = Target /\ Size[Req.type] > mem[n]
                      /\ IdleIndexes(n, Req.type) = {}
                      /\ \E i \in DOMAIN cache[n] :
                           /\ cache'[n] = RemoveAt(cache[n], i)
                           /\ \A j \in DOMAIN cache[n] :
                                SortKey(cache[n][i]) <= SortKey(cache[n][j])
    BY DEF EvictsLeast
  <2>1. Evict
    BY OnlyEvictFrees
  <2>2. SimTypeOK /\ ListInv /\ freq = <<>> /\ Deploying /\ NeedsNew /\ ~Fits /\ AnotherRound
    BY <2>1 DEF SimInv, Evict, NeedsNew
  <2>3. /\ Target \in Nodes /\ Drops(Target) /\ 1 \in DOMAIN cache[Target]
        /\ \A m \in Nodes \ {Target} : Stays(m)
    BY <2>1, EvictDrops
  <2>4. mem \in [Nodes -> Nat] /\ Size[Req.type] \in Nat
    BY <2>2, TargetIsNode DEF SimTypeOK
  <2>5. n = Target
    <3> DEFINE T == Target
               m == mem[T] + Size[Head(cache[T]).type]
    <3>1. mem' = [mem EXCEPT ![T] = m]
      BY <2>1 DEF Evict
    <3> HIDE DEF T, m
    <3>2. n # T => mem'[n] = mem[n]
      BY <2>4, <3>1
    <3>3. mem[n] \in Nat
      BY <2>4
    <3> QED
      BY <3>2, <3>3 DEF T
  <2>6. Size[Req.type] > mem[n]
    <3>1. mem[n] \in Nat /\ ~(Size[Req.type] <= mem[n])
      BY <2>2, <2>4, <2>5 DEF Fits
    <3> QED
      BY <2>4, <3>1
  <2>7. IdleIndexes(n, Req.type) = {}
    <3>1. Rule.warm /\ ~HasIdle(n, Req.type)
      BY <2>2, <2>5, EvictingPrograms DEF NeedsNew
    <3> QED
      BY <3>1 DEF HasIdle
  <2>8. cache'[n] = RemoveAt(cache[n], 1) /\ 1 \in DOMAIN cache[n]
    BY <2>3, <2>5 DEF Drops
  <2>9. \A j \in DOMAIN cache[n] : SortKey(cache[n][1]) <= SortKey(cache[n][j])
    <3> SUFFICES ASSUME NEW j \in DOMAIN cache[n]
                 PROVE  SortKey(cache[n][1]) <= SortKey(cache[n][j])
      OBVIOUS
    <3>1. cache[n] \in Seq(Container) /\ Ascending(cache[n])
      BY <2>2 DEF ListInv, SimTypeOK
    <3>2. j \in Nat \ {0} /\ cache[n][1] \in Container
      BY <2>8, <3>1, LenProperties
    <3>3. CASE j = 1
      <4>1. SortKey(cache[n][1]) \in Int
        BY <2>2, <3>2, SortKeyIsInt DEF SimTypeOK
      <4> QED
        BY <3>3, <4>1
    <3>4. CASE j # 1
      <4>1. 1 < j
        BY <3>2, <3>4
      <4> QED
        BY <2>8, <3>1, <4>1 DEF Ascending
    <3> QED
      BY <3>3, <3>4
  <2> QED
    BY <2>5, <2>6, <2>7, <2>8, <2>9
<1> QED
  BY <1>1, SimInvHolds, PTL DEF Spec, EvictsTheLeast, EvictsLeast

\* Who makes a request of the run a cold start creates a container for it.
LEMMA OnlyCreateIsCold ==
  ASSUME SimInv, Next, NEW s \in Slots, NEW i \in DOMAIN requestMap[s],
         i \in DOMAIN requestMap'[s], requestMap'[s][i].cold, ~requestMap[s][i].cold
  PROVE  Create /\ s = slot /\ i = cur /\ Req = requestMap[s][i]
<1>1. SimTypeOK
  BY DEF SimInv
<1>2. requestMap[s] \in Seq(Request) /\ DOMAIN requestMap = Slots
  BY <1>1 DEF SimTypeOK
<1>3. requestMap' # requestMap
  OBVIOUS
<1>4. CASE CreateRow
  <2>1. PICK rs \in Seq(Untouched) :
          requestMap' = [requestMap EXCEPT ![row[2]] = requestMap[row[2]] \o rs]
    BY <1>1, <1>4, RowAdds
  <2>2. rs \in Seq(Request)
    BY SeqMonotonic DEF Untouched
  <2>3. requestMap'[s] = requestMap[s] \/ requestMap'[s] = requestMap[s] \o rs
    BY <1>2, <2>1
  <2>4. i \in 1 .. Len(requestMap[s])
    BY <1>2, LenProperties
  <2>5. (requestMap[s] \o rs)[i] = requestMap[s][i]
    BY <1>2, <2>2, <2>4, ConcatProperties
  <2>6. requestMap'[s][i] = requestMap[s][i]
    BY <2>3, <2>5
  <2> QED
    BY <2>6
<1>5. CASE PlaceToCurrent \/ PlaceToNeighbours
  <2>1. FALSE \in BOOLEAN /\ Serve(FALSE) /\ SimTypeOK /\ Deploying
    BY <1>1, <1>5 DEF PlaceToCurrent, PlaceToNeighbours
  <2>2. requestMap'[s][i] = IF s = slot /\ i = cur
                            THEN [Req EXCEPT !.served = TRUE, !.cold = FALSE]
                            ELSE requestMap[s][i]
    BY <2>1, ServeIs
  <2>3. Req \in Request
    BY <2>1, TargetIsNode
  <2>4. [Req EXCEPT !.served = TRUE, !.cold = FALSE].cold = FALSE
    BY <2>3 DEF Request
  <2>5. s = slot /\ i = cur
    BY <2>2
  <2>6. requestMap'[s][i].cold = FALSE
    BY <2>2, <2>4, <2>5
  <2> QED
    BY <2>6
<1>6. CASE Create
  <2>1. TRUE \in BOOLEAN /\ Serve(TRUE) /\ SimTypeOK /\ Deploying
    BY <1>1, <1>6 DEF Create, NeedsNew
  <2>2. requestMap'[s][i] = IF s = slot /\ i = cur
                            THEN [Req EXCEPT !.served = TRUE, !.cold = TRUE]
                            ELSE requestMap[s][i]
    BY <2>1, ServeIs
  <2>3. s = slot /\ i = cur
    BY <2>2
  <2>4. Req = requestMap[slot][cur]
    BY <2>1, TargetIsNode
  <2> QED
    BY <1>6, <2>3, <2>4
<1>7. CreateRow \/ (PlaceToCurrent \/ PlaceToNeighbours) \/ Create
  BY <1>3 DEF Next, DeployRequest, Ended, NoPrediction, StartDeploying, StartSlot,
              Evict, Refuse, UpdateCache, Report, vars
<1> QED
  BY <1>4, <1>5, <1>6, <1>7

\* A step as ColdStartOnlyIfNeeded wants it.
ColdIfNeeded ==
  \A s \in Slots : \A i \in DOMAIN requestMap[s] :
    Rule.warm /\ i \in DOMAIN requestMap'[s] /\ requestMap'[s][i].cold
      /\ ~requestMap[s][i].cold =>
    LET r == requestMap[s][i]
    IN \A n \in Nodes : IdleIndexes(n, r.type) # {} =>
         IF Rule.robin THEN n # Robin
         ELSE n # r.ingress /\ Latency[r.ingress][n] >= ColdStart[r.type]

\* A cold start is counted only when no warm container is near enough
\* (deployRequest, deployRoundRobin).
THEOREM ColdStartOnlyIfNeededHolds == Spec => ColdStartOnlyIfNeeded
<1>1. SimInv /\ [Next]_vars => [ColdIfNeeded]_vars
  <2> SUFFICES ASSUME SimInv, Next, NEW s \in Slots, NEW i \in DOMAIN requestMap[s],
                      Rule.warm, i \in DOMAIN requestMap'[s], requestMap'[s][i].cold,
                      ~requestMap[s][i].cold,
                      NEW n \in Nodes, IdleIndexes(n, requestMap[s][i].type) # {}
               PROVE  IF Rule.robin THEN n # Robin
                      ELSE /\ n # requestMap[s][i].ingress
                           /\ Latency[requestMap[s][i].ingress][n]
                                >= ColdStart[requestMap[s][i].type]
    BY DEF ColdIfNeeded
  <2>1. Create /\ Req = requestMap[s][i]
    BY OnlyCreateIsCold
  <2>2. SimTypeOK /\ Deploying /\ ~HasIdle(Target, Req.type) /\ Takers = {}
    BY <2>1 DEF SimInv, Create, NeedsNew
  <2>3. HasIdle(n, Req.type)
    BY <2>1 DEF HasIdle
  <2>4. n # Target
    BY <2>2, <2>3
  <2>5. CASE Rule.robin
    BY <2>4, <2>5 DEF Target
  <2>6. CASE ~Rule.robin
    <3>1. n # Req.ingress
      BY <2>4, <2>6 DEF Target
    <3>2. n \notin Near(Req.ingress, Req.type)
      BY <2>2, <2>3, <2>6 DEF Takers
    <3>3. ~(Latency[Req.ingress][n] < ColdStart[Req.type])
      BY <3>1, <3>2 DEF Near
    <3>4. Latency[Req.ingress][n] \in Nat /\ ColdStart[Req.type] \in Nat
      BY <2>2, TargetIsNode, SimulationConstantsOK
    <3> QED
      BY <2>1, <2>6, <3>1, <3>3, <3>4
  <2> QED
    BY <2>5, <2>6
<1> QED
  BY <1>1, SimInvHolds, PTL DEF Spec, ColdStartOnlyIfNeeded, ColdIfNeeded

-----------------------------------------------------------------------------
(* Memory is not lost, and none is made up. *)

\* What the containers that are idle on n after the slot take.
IdleSizes(n) == [p \in DOMAIN Idle(n) |-> Size[Idle(n)[p].type]]

LEMMA IdleSizesAre ==
  ASSUME SimInv, NEW n \in Nodes
  PROVE  /\ IdleSizes(n) \in [DOMAIN Idle(n) -> Nat]
         /\ SumOf(IdleSizes(n), DOMAIN Idle(n)) = SizeOf(cache[n]) + SizeOf(active[n])
<1> DEFINE C == {0} \X DOMAIN cache[n]
           A == {n} \X DOMAIN active[n]
           G == IdleSizes(n)
           D == DOMAIN Idle(n)
<1>1. /\ D = C \cup A /\ IsFiniteSet(D)
      /\ \A i \in DOMAIN cache[n] : Idle(n)[<<0, i>>] = cache[n][i]
      /\ \A i \in DOMAIN active[n] : Idle(n)[<<n, i>>] = active[n][i]
  BY IdleIs
<1>2. G \in [D -> Nat]
  <2>1. \A p \in D : Idle(n)[p].type \in Types
    BY IdleIs DEF InUse, Container
  <2> QED
    BY <2>1, SimulationConstantsOK DEF IdleSizes
<1>3. cache[n] \in Seq(Container) /\ active[n] \in Seq(Container)
  BY DEF SimInv, SimTypeOK
<1>4. SumOf(G, C) = SizeOf(cache[n])
  <2> DEFINE b == [i \in DOMAIN cache[n] |-> <<0, i>>]
             S == DOMAIN cache[n]
             F == Sizes(cache[n])
  <2>1. SizeOf(cache[n]) = SumOf(F, S) /\ F \in [S -> Nat] /\ IsFiniteSet(S)
    BY <1>3, SizesAre
  <2>2. \A i \in S : b[i] \in C /\ b[i] = <<0, i>>
    OBVIOUS
  <2>3. \A i, j \in S : b[i] = b[j] => i = j
    OBVIOUS
  <2>4. {b[i] : i \in S} = C
    <3>1. \A p \in C : \E i \in S : p = b[i]
      OBVIOUS
    <3> HIDE DEF b, S, C
    <3> QED
      BY <2>2, <3>1
  <2>5. \A i \in S : F[i] = G[b[i]]
    <3> SUFFICES ASSUME NEW i \in S
                 PROVE  F[i] = G[b[i]]
      OBVIOUS
    <3>1. b[i] \in D /\ Idle(n)[b[i]] = cache[n][i]
      BY <1>1, <2>2
    <3>2. G[b[i]] = Size[Idle(n)[b[i]].type]
      <4> HIDE DEF b
      <4> QED
        BY <3>1 DEF IdleSizes
    <3> QED
      BY <3>1, <3>2 DEF Sizes
  <2>6. b \in [S -> D]
    BY <1>1
  <2> HIDE DEF b, S, F, G, D, C
  <2>7. Renames(b, F, S, G, D)
    BY <1>2, <2>1, <2>3, <2>5, <2>6 DEF Renames
  <2>8. SumOf(F, S) = SumOf(G, {b[i] : i \in S})
    BY <2>7, SumOfRenamed
  <2> QED
    BY <2>1, <2>4, <2>8
<1>5. SumOf(G, A) = SizeOf(active[n])
  <2> DEFINE b == [i \in DOMAIN active[n] |-> <<n, i>>]
             S == DOMAIN active[n]
             F == Sizes(active[n])
  <2>1. SizeOf(active[n]) = SumOf(F, S) /\ F \in [S -> Nat] /\ IsFiniteSet(S)
    BY <1>3, SizesAre
  <2>2. \A i \in S : b[i] \in A /\ b[i] = <<n, i>>
    OBVIOUS
  <2>3. \A i, j \in S : b[i] = b[j] => i = j
    OBVIOUS
  <2>4. {b[i] : i \in S} = A
    <3>1. \A p \in A : \E i \in S : p = b[i]
      OBVIOUS
    <3> HIDE DEF b, S, A
    <3> QED
      BY <2>2, <3>1
  <2>5. \A i \in S : F[i] = G[b[i]]
    <3> SUFFICES ASSUME NEW i \in S
                 PROVE  F[i] = G[b[i]]
      OBVIOUS
    <3>1. b[i] \in D /\ Idle(n)[b[i]] = active[n][i]
      BY <1>1, <2>2
    <3>2. G[b[i]] = Size[Idle(n)[b[i]].type]
      <4> HIDE DEF b
      <4> QED
        BY <3>1 DEF IdleSizes
    <3> QED
      BY <3>1, <3>2 DEF Sizes
  <2>6. b \in [S -> D]
    BY <1>1
  <2> HIDE DEF b, S, F, G, D, A
  <2>7. Renames(b, F, S, G, D)
    BY <1>2, <2>1, <2>3, <2>5, <2>6 DEF Renames
  <2>8. SumOf(F, S) = SumOf(G, {b[i] : i \in S})
    BY <2>7, SumOfRenamed
  <2> QED
    BY <2>1, <2>4, <2>8
<1>6. C \cap A = {} /\ C \in SUBSET D /\ A \in SUBSET D
  <2>1. n # 0
    BY SimulationConstantsOK DEF Nodes
  <2> QED
    BY <1>1, <2>1
<1>7. SumOf(G, D) = SizeOf(cache[n]) + SizeOf(active[n])
  <2> HIDE DEF C, A, G, D
  <2>1. IsFiniteSet(C) /\ IsFiniteSet(A)
    BY <1>1, <1>6, FS_Subset
  <2>2. SumOf(G, C \cup A) = SumOf(G, C) + SumOf(G, A)
    BY <1>2, <1>6, <2>1, SumOfUnion
  <2> QED
    BY <1>1, <1>4, <1>5, <2>2
<1> QED
  BY <1>2, <1>7

\* After the slot the node has it in its list, or has its memory back.
LEMMA NothingIsLost ==
  ASSUME SimInv, UpdateCache, NEW n \in Nodes
  PROVE  SizeOf(cache'[n]) + SumOf(Lapsed(n), DOMAIN Idle(n))
           = SizeOf(cache[n]) + SizeOf(active[n])
<1> DEFINE D == DOMAIN Idle(n)
           K == DOMAIN Kept(n)
           k == Cardinality(K)
           G == IdleSizes(n)
           L == Lapsed(n)
           l == cache'[n]
           F == Sizes(l)
           S == 1 .. k
<1>1. /\ G \in [D -> Nat] /\ L \in [D -> Nat] /\ IsFiniteSet(D)
      /\ SumOf(G, D) = SizeOf(cache[n]) + SizeOf(active[n])
  BY IdleSizesAre, LapsedIs, IdleIs
<1>2. K = {p \in D : ~Expired(Aged(n)[p])} /\ IsFiniteSet(K)
  BY KeptIs
<1>3. PICK to : SortsKept(n, to)
  BY UpdateSorts
<1>4. /\ to \in [S -> K] /\ l = [i \in S |-> Kept(n)[to[i]]]
      /\ \A i, j \in S : i # j => to[i] # to[j]
  BY <1>3 DEF SortsKept
<1>5. l \in Seq(Container) /\ DOMAIN l = S
  BY <1>4, UpdateLists
<1>6. SizeOf(l) = SumOf(F, S) /\ F \in [S -> Nat] /\ IsFiniteSet(S)
  BY <1>5, SizesAre
<1>7. {to[i] : i \in S} = K
  <2>1. to \in Injection(S, K)
    <3> HIDE DEF S, K
    <3> QED
      BY <1>4 DEF Injection, IsInjective
  <2>2. Cardinality(S) = k
    <3>1. k \in Nat /\ 1 \in Int
      BY <1>2, FS_CardinalityType
    <3> HIDE DEF k
    <3>2. Cardinality(S) = IF 1 > k THEN 0 ELSE k - 1 + 1
      BY <3>1, FS_Interval
    <3> QED
      BY <3>1, <3>2
  <2> HIDE DEF S, K
  <2>3. to \in Surjection(S, K)
    BY <1>2, <2>1, <2>2, FS_Injection
  <2> QED
    BY <1>4, <2>3 DEF Surjection
<1>8. \A i \in S : F[i] = G[to[i]]
  <2> SUFFICES ASSUME NEW i \in S
               PROVE  F[i] = G[to[i]]
    OBVIOUS
  <2>1. to[i] \in K /\ to[i] \in D /\ l[i] = Kept(n)[to[i]]
    BY <1>2, <1>4
  <2>2. Kept(n)[to[i]] = Aged(n)[to[i]] /\ Aged(n)[to[i]].type = Idle(n)[to[i]].type
    BY <2>1, KeptIs, AgedIs
  <2>3. G[to[i]] = Size[Idle(n)[to[i]].type]
    BY <2>1 DEF IdleSizes
  <2>4. F[i] = Size[l[i].type]
    BY <1>5 DEF Sizes
  <2> HIDE DEF F, G, l
  <2> QED
    BY <2>1, <2>2, <2>3, <2>4
<1>9. \A p \in D \ K : L[p] = G[p]
  BY <1>2 DEF Lapsed, IdleSizes
<1>10. \A p \in D \ (D \ K) : L[p] = 0
  BY <1>2 DEF Lapsed
<1>11. K \in SUBSET D /\ D \ K \in SUBSET D /\ D = K \cup (D \ K) /\ K \cap (D \ K) = {}
  BY <1>2
<1>12. to \in [S -> D]
  BY <1>4, <1>11
<1> HIDE DEF D, K, k, G, L, l, F, S
<1>13. SumOf(F, S) = SumOf(G, K)
  <2>1. Renames(to, F, S, G, D)
    BY <1>1, <1>4, <1>6, <1>8, <1>12 DEF Renames
  <2>2. SumOf(F, S) = SumOf(G, {to[i] : i \in S})
    BY <2>1, SumOfRenamed
  <2> QED
    BY <1>7, <2>2
<1>14. IsFiniteSet(D \ K)
  BY <1>1, <1>11, FS_Subset
<1>15. SumOf(L, D) = SumOf(G, D \ K)
  <2>1. D \in SUBSET D /\ D \ K \in SUBSET (D \cap D)
    OBVIOUS
  <2>2. SumOf(L, D) = SumOf(L, D \ K)
    BY <1>1, <1>10, <1>11, <2>1, SumOfZeros
  <2>3. SumOf(L, D \ K) = SumOf(G, D \ K)
    BY <1>1, <1>9, <1>14, <2>1, SumOfSame
  <2> QED
    BY <2>2, <2>3
<1>16. SumOf(G, D) = SumOf(G, K) + SumOf(G, D \ K)
  BY <1>1, <1>2, <1>11, <1>14, SumOfUnion
<1>17. SizeOf(l) + SumOf(L, D) = SizeOf(cache[n]) + SizeOf(active[n])
  BY <1>1, <1>6, <1>13, <1>15, <1>16
<1> QED
  BY <1>17 DEF D, L, l

\* The equation of a node after a step.
LEMMA HeldNext ==
  ASSUME NEW n, program' = program
  PROVE  Held(n)' = SizeOf(active'[n]) + IF Rule.forgets THEN 0 ELSE SizeOf(cache'[n])
BY DEF Held, SizeOf, Rule

\* A step within a slot that puts containers in use changes no sum.
LEMMA TakingBalances ==
  ASSUME SimInv, program' = program, ~Rule.forgets, NEW n \in Nodes, Takes(n) \/ Stays(n)
  PROVE  Held(n)' = Held(n)
<1>1. cache[n] \in Seq(Container) /\ active[n] \in Seq(Container)
  BY DEF SimInv, SimTypeOK
<1>2. /\ Held(n)' = SizeOf(active'[n]) + SizeOf(cache'[n])
      /\ Held(n) = SizeOf(active[n]) + SizeOf(cache[n])
  BY HeldNext DEF Held
<1>3. CASE Stays(n)
  BY <1>2, <1>3 DEF Stays
<1>4. CASE Takes(n)
  <2>1. PICK i \in DOMAIN cache[n] : \E a \in InUse(n) :
          /\ a.type = cache[n][i].type
          /\ active'[n] = Append(active[n], a) /\ cache'[n] = RemoveAt(cache[n], i)
    BY <1>4 DEF Takes
  <2>2. PICK a \in InUse(n) :
          /\ a.type = cache[n][i].type
          /\ active'[n] = Append(active[n], a) /\ cache'[n] = RemoveAt(cache[n], i)
    BY <2>1
  <2>3. a \in Container /\ a.type \in Types
    BY DEF InUse, Container
  <2>4. SizeOf(active'[n]) = SizeOf(active[n]) + Size[a.type]
    BY <1>1, <2>2, <2>3, SizeOfAppend
  <2>5. SizeOf(cache'[n]) = SizeOf(cache[n]) - Size[a.type]
    BY <1>1, <2>2, SizeOfRemove
  <2>6. SizeOf(active[n]) \in Nat /\ SizeOf(cache[n]) \in Nat /\ Size[a.type] \in Nat
    BY <1>1, <2>3, SizesAre, SimulationConstantsOK
  <2> QED
    BY <1>2, <2>4, <2>5, <2>6
<1> QED
  BY <1>3, <1>4

\* What is created is paid for in full; only lru and hist pay otherwise.
LEMMA CreatingBalances ==
  ASSUME SimInv, Create, program \notin {"lru", "hist"}, NEW n \in Nodes
  PROVE  mem'[n] + Held(n)' = mem[n] + Held(n)
<1> DEFINE T == Target
           t == Req.type
           m == mem[T] - Charge
<1>1. /\ SimTypeOK /\ RoundInv /\ Deploying /\ NeedsNew /\ Fits /\ program' = program
      /\ mem' = [mem EXCEPT ![T] = m]
  BY DEF SimInv, Create, NeedsNew, NextRequest
<1>2. T \in Nodes /\ Size[t] \in Nat
  BY <1>1, TargetIsNode
<1>3. Charge = Size[t]
  <2>1. Rule.charge = "new" \/ Rule.value = "unset"
    BY <1>1, RulesAre DEF SimTypeOK
  <2>2. ~(rounds > 0 /\ Rule.charge = "victim")
    BY <1>1, <2>1 DEF RoundInv
  <2> QED
    BY <2>2 DEF Charge
<1>4. mem \in [Nodes -> Nat] /\ active[n] \in Seq(Container) /\ cache[n] \in Seq(Container)
  BY <1>1 DEF SimTypeOK
<1>5. SizeOf(active[n]) \in Nat /\ SizeOf(cache[n]) \in Nat /\ mem[n] \in Nat
  BY <1>4, SizesAre
<1> DEFINE h == IF Rule.forgets THEN 0 ELSE SizeOf(cache[n])
<1>6. Held(n) = SizeOf(active[n]) + h /\ h \in Nat
  BY <1>5 DEF Held
<1>7. Adds(T, t) /\ \A x \in Nodes \ {T} : Stays(x)
  BY CreateAdds
<1>8. CASE n = T
  <2>1. PICK a \in InUse(T) : a.type = t /\ active'[T] = Append(active[T], a)
    BY <1>7 DEF Adds
  <2>2. cache'[n] = cache[n]
    BY <1>7, <1>8 DEF Adds
  <2>3. a \in Container
    BY DEF InUse
  <2>4. SizeOf(active'[n]) = SizeOf(active[n]) + Size[t]
    BY <1>4, <1>8, <2>1, <2>3, SizeOfAppend
  <2>5. Held(n)' = SizeOf(active'[n]) + h
    BY <1>1, <2>2, HeldNext
  <2>6. mem'[n] = mem[n] - Size[t]
    BY <1>1, <1>2, <1>3, <1>4, <1>8
  <2> HIDE DEF T, t, m, h
  <2> QED
    BY <1>2, <1>5, <1>6, <2>4, <2>5, <2>6
<1>9. CASE n # T
  <2>1. active'[n] = active[n] /\ cache'[n] = cache[n]
    BY <1>7, <1>9 DEF Stays
  <2>2. Held(n)' = SizeOf(active'[n]) + h
    BY <1>1, <2>1, HeldNext
  <2> HIDE DEF T, t, m, h
  <2>3. mem'[n] = mem[n]
    BY <1>1, <1>4, <1>9
  <2> QED
    BY <1>6, <2>1, <2>2, <2>3
<1> QED
  BY <1>8, <1>9

\* What is evicted gives back what it took.
LEMMA EvictingBalances ==
  ASSUME SimInv, Evict, ~Rule.forgets, NEW n \in Nodes
  PROVE  mem'[n] + Held(n)' = mem[n] + Held(n)
<1> DEFINE T == Target
           g == Size[Head(cache[T]).type]
           m == mem[T] + g
<1>1. SimTypeOK /\ program' = program /\ mem' = [mem EXCEPT ![T] = m]
  BY DEF SimInv, Evict
<1>2. /\ Drops(T) /\ T \in Nodes /\ \A x \in Nodes \ {T} : Stays(x)
      /\ Head(cache[T]) = cache[T][1] /\ 1 \in DOMAIN cache[T]
      /\ cache[T][1].type \in Types
  BY EvictDrops
<1>3. mem \in [Nodes -> Nat] /\ active[n] \in Seq(Container) /\ cache[n] \in Seq(Container)
  BY <1>1 DEF SimTypeOK
<1>4. /\ SizeOf(active[n]) \in Nat /\ SizeOf(cache[n]) \in Nat /\ mem[n] \in Nat
      /\ g = Size[cache[T][1].type] /\ g \in Nat
  BY <1>2, <1>3, SizesAre, SimulationConstantsOK
<1>5. /\ Held(n)' = SizeOf(active'[n]) + SizeOf(cache'[n])
      /\ Held(n) = SizeOf(active[n]) + SizeOf(cache[n])
  BY <1>1, HeldNext DEF Held
<1>6. CASE n = T
  <2>1. active'[n] = active[n] /\ cache'[n] = RemoveAt(cache[n], 1)
    BY <1>2, <1>6 DEF Drops
  <2>2. SizeOf(cache'[n]) = SizeOf(cache[n]) - g
    BY <1>2, <1>3, <1>4, <1>6, <2>1, SizeOfRemove
  <2>3. mem'[n] = mem[n] + g
    BY <1>1, <1>2, <1>3, <1>6
  <2> HIDE DEF T, g, m
  <2> QED
    BY <1>4, <1>5, <2>1, <2>2, <2>3
<1>7. CASE n # T
  <2>1. active'[n] = active[n] /\ cache'[n] = cache[n]
    BY <1>2, <1>7 DEF Stays
  <2> HIDE DEF T, g, m
  <2>2. mem'[n] = mem[n]
    BY <1>1, <1>3, <1>7
  <2> QED
    BY <1>5, <2>1, <2>2
<1> QED
  BY <1>6, <1>7

\* The end of a slot: memory of what expires comes back; onlypred restores it all.
LEMMA UpdatingBalances ==
  ASSUME SimInv, UpdateCache, NEW n \in Nodes, mem[n] + Held(n) = MemCap
  PROVE  mem'[n] + Held(n)' = MemCap
<1>1. SimTypeOK /\ program' = program /\ mem'[n] = MemAfter(n)
  BY DEF SimInv, UpdateCache
<1>2. active'[n] = <<>>
  BY UpdateSorts
<1>3. SizeOf(active'[n]) = 0
  BY <1>2, SizeOfEmpty
<1>4. Held(n)' = IF Rule.forgets THEN 0 ELSE SizeOf(cache'[n])
  <2>1. cache' \in [Nodes -> Seq(Container)]
    BY UpdateLists
  <2>2. SizeOf(cache'[n]) \in Nat
    BY <2>1, SizesAre
  <2> QED
    BY <1>1, <1>3, <2>2, HeldNext
<1>5. MemCap \in Nat
  BY SimulationConstantsOK
<1>6. CASE Rule.forgets
  BY <1>1, <1>4, <1>5, <1>6, LapsedIs
<1>7. CASE ~Rule.forgets
  <2> DEFINE L == SumOf(Lapsed(n), DOMAIN Idle(n))
  <2>1. mem'[n] = mem[n] + L /\ L \in Nat
    BY <1>1, <1>7, LapsedIs
  <2>2. SizeOf(cache'[n]) + L = SizeOf(cache[n]) + SizeOf(active[n])
    BY NothingIsLost
  <2>3. mem[n] \in Nat /\ active[n] \in Seq(Container) /\ cache[n] \in Seq(Container)
    BY <1>1 DEF SimTypeOK
  <2>4. SizeOf(active[n]) \in Nat /\ SizeOf(cache[n]) \in Nat
    BY <2>3, SizesAre
  <2>5. cache' \in [Nodes -> Seq(Container)]
    BY UpdateLists
  <2>6. SizeOf(cache'[n]) \in Nat
    BY <2>5, SizesAre
  <2>7. Held(n) = SizeOf(active[n]) + SizeOf(cache[n]) /\ Held(n)' = SizeOf(cache'[n])
    BY <1>4, <1>7 DEF Held
  <2> HIDE DEF L
  <2> QED
    BY <2>1, <2>2, <2>3, <2>4, <2>6, <2>7
<1> QED
  BY <1>6, <1>7

\* Of the programs that charge a new container its own size, what a node has left and
\* what its containers take is what it had, after any number of evictions, refusals
\* and slots (m_topo.update in createToCurrent, createNew, updateCache).
THEOREM MemoryIsTrueHolds == Spec => []MemoryIsTrue
<1>1. Init => MemoryIsTrue
  <2> SUFFICES ASSUME Init, NEW n \in Nodes
               PROVE  mem[n] + Held(n) = MemCap
    BY DEF MemoryIsTrue
  <2>1. mem[n] = MemCap /\ active[n] = <<>> /\ cache[n] = <<>> /\ MemCap \in Nat
    BY SimulationConstantsOK DEF Init
  <2>2. Held(n) = 0
    BY <2>1, SizeOfEmpty DEF Held
  <2> QED
    BY <2>1, <2>2
<1>2. SimInv /\ MemoryIsTrue /\ [Next]_vars => MemoryIsTrue'
  <2> SUFFICES ASSUME SimInv, MemoryIsTrue, [Next]_vars, program' \notin {"lru", "hist"},
                      NEW n \in Nodes
               PROVE  mem'[n] + Held(n)' = MemCap
    BY DEF MemoryIsTrue
  <2>1. program' = program
    BY TurnsAre
  <2>2. SimTypeOK /\ mem[n] + Held(n) = MemCap
    BY <2>1 DEF MemoryIsTrue, SimInv
  <2>3. CASE mem' = mem /\ active' = active /\ cache' = cache
    BY <2>1, <2>2, <2>3, HeldNext DEF Held
  <2>4. CASE PlaceToCurrent \/ PlaceToNeighbours
    <3>1. mem' = mem /\ (Takes(n) \/ Stays(n))
      BY <2>4, PlaceToCurrentTakes, PlaceToNeighboursTakes DEF PlaceToCurrent, PlaceToNeighbours
    <3>2. Rule.warm
      BY <2>4 DEF PlaceToCurrent, PlaceToNeighbours, Takers, HasIdle
    <3>3. ~Rule.forgets
      BY <2>2, <3>2, RulesAre DEF SimTypeOK
    <3> QED
      BY <2>1, <2>2, <3>1, <3>3, TakingBalances
  <2>5. CASE Create
    BY <2>1, <2>2, <2>5, CreatingBalances
  <2>6. CASE Evict
    <3>1. Rule.warm
      BY <2>6, EvictingPrograms DEF Evict
    <3>2. ~Rule.forgets
      BY <2>2, <3>1, RulesAre DEF SimTypeOK
    <3> QED
      BY <2>2, <2>6, <3>2, EvictingBalances
  <2>7. CASE UpdateCache
    BY <2>2, <2>7, UpdatingBalances
  <2>8. \/ mem' = mem /\ active' = active /\ cache' = cache
        \/ PlaceToCurrent \/ PlaceToNeighbours
        \/ Create \/ Evict \/ UpdateCache
    BY DEF Next, DeployRequest, Ended, CreateRow, NoPrediction, StartDeploying, StartSlot,
           Refuse, Report, vars
  <2> QED
    BY <2>3, <2>4, <2>5, <2>6, <2>7, <2>8
<1> QED
  BY <1>1, <1>2, SimInvHolds, PTL DEF Spec

-----------------------------------------------------------------------------
(* The report. *)

\* The requests that were looked at, and those that were cold starts.
Seen ==
  {r \in AllRequests : r[1] < slot \/ (pc = "deploy" /\ r[1] = slot /\ r[2] < cur)}
ColdOnes == {r \in AllRequests : RequestAt(r).cold}

\* Each request that was looked at counts once, and no other is served.
SeenInv ==
  /\ total = Cardinality(Seen)
  /\ \A r \in AllRequests \ Seen : ~RequestAt(r).served /\ ~RequestAt(r).cold

\* A container was created for each cold start.
ColdInv ==
  /\ created = Cardinality(ColdOnes)
  /\ \A r \in ColdOnes : RequestAt(r).served

\* The run starts with the first slot, and ends behind the last.
EndInv ==
  /\ pc \in {"create", "aborted"} => slot = 1
  /\ pc = "done" =>
       /\ slot > LastSlot
       /\ report = [served |-> Cardinality(Counted),
                    cold |-> Cardinality({r \in Counted : ReportedCold(RequestAt(r))})]

ReportInv == SeenInv /\ ColdInv /\ EndInv

\* A step that looks at no request.
LEMMA SeenStays ==
  ASSUME ReportInv, requestMap' = requestMap, total' = total, created' = created,
         Seen' = Seen
  PROVE  SeenInv' /\ ColdInv'
<1>1. AllRequests' = AllRequests /\ \A r : RequestAt(r)' = RequestAt(r)
  BY DEF AllRequests, RequestAt
<1>2. ColdOnes' = ColdOnes
  BY <1>1 DEF ColdOnes
<1>3. SeenInv'
  BY <1>1 DEF ReportInv, SeenInv
<1>4. ColdInv'
  BY <1>1, <1>2 DEF ReportInv, ColdInv
<1> QED
  BY <1>3, <1>4

\* At most the request that is looked at changes.
OnlyCurrent ==
  /\ \A s \in Slots : DOMAIN requestMap'[s] = DOMAIN requestMap[s]
  /\ \A s \in Slots : \A i \in DOMAIN requestMap[s] :
       s # slot \/ i # cur => requestMap'[s][i] = requestMap[s][i]

LEMMA SeenNext ==
  ASSUME SimInv, Deploying, NextRequest, OnlyCurrent
  PROVE  /\ AllRequests' = AllRequests
         /\ \E c \in AllRequests \ Seen :
              /\ Seen' = Seen \cup {c} /\ RequestAt(c)' = requestMap'[slot][cur]
              /\ \A r \in AllRequests \ {c} : RequestAt(r)' = RequestAt(r)
         /\ IsFiniteSet(AllRequests) /\ IsFiniteSet(Seen) /\ IsFiniteSet(ColdOnes)
<1>0. PICK c : c = <<slot, cur>>
  OBVIOUS
<1>1. SimTypeOK /\ slot \in Slots /\ cur \in DOMAIN requestMap[slot]
  BY TargetIsNode DEF SimInv
<1>2. AllRequests' = AllRequests
  <2>1. \A s \in Slots : DOMAIN requestMap'[s] = DOMAIN requestMap[s]
    BY DEF OnlyCurrent
  <2> QED
    BY <2>1 DEF AllRequests
<1>3. c \in AllRequests
  BY <1>0, <1>1, RequestsAreFinite
<1>4. pc = "deploy" /\ pc' = pc /\ slot' = slot /\ cur' = cur + 1
  BY DEF Deploying, NextRequest
<1>5. slot \in Nat /\ cur \in Nat
  BY <1>1 DEF SimTypeOK
<1>6. \A r \in AllRequests : r = <<r[1], r[2]>> /\ r[1] \in Nat /\ r[2] \in Nat
  <2>1. \A r \in AllRequests : r = <<r[1], r[2]>> /\ r[1] \in Slots /\ r[2] \in Nat \ {0}
    BY <1>1, RequestsAreFinite
  <2> QED
    BY <2>1 DEF Slots
<1>7. c \notin Seen
  BY <1>0, <1>5 DEF Seen
<1>8. Seen' = Seen \cup {c}
  <2>1. ASSUME NEW r \in AllRequests
        PROVE  r \in Seen' <=> r \in Seen \/ r = c
    <3>1. r = <<r[1], r[2]>> /\ r[1] \in Nat /\ r[2] \in Nat
      BY <1>6
    <3>2. r = c <=> r[1] = slot /\ r[2] = cur
      BY <1>0, <3>1
    <3>3. r \in Seen' <=> r[1] < slot \/ (r[1] = slot /\ r[2] < cur + 1)
      BY <1>2, <1>4 DEF Seen
    <3>4. r \in Seen <=> r[1] < slot \/ (r[1] = slot /\ r[2] < cur)
      BY <1>4 DEF Seen
    <3> QED
      BY <1>5, <3>1, <3>2, <3>3, <3>4
  <2>2. Seen' \subseteq AllRequests /\ Seen \subseteq AllRequests
    BY <1>2 DEF Seen
  <2> QED
    BY <1>3, <2>1, <2>2
<1>9. RequestAt(c)' = requestMap'[slot][cur]
  BY <1>0 DEF RequestAt
<1>10. ASSUME NEW r \in AllRequests \ {c}
       PROVE  RequestAt(r)' = RequestAt(r)
  <2>1. /\ r = <<r[1], r[2]>> /\ r[1] \in Slots /\ r[2] \in DOMAIN requestMap[r[1]]
        /\ RequestAt(r) = requestMap[r[1]][r[2]]
    BY <1>1, RequestsAreFinite
  <2>2. r[1] # slot \/ r[2] # cur
    BY <1>0, <2>1
  <2>3. requestMap'[r[1]][r[2]] = requestMap[r[1]][r[2]]
    BY <2>1, <2>2 DEF OnlyCurrent
  <2> QED
    BY <2>3 DEF RequestAt
<1>11. IsFiniteSet(AllRequests) /\ IsFiniteSet(Seen) /\ IsFiniteSet(ColdOnes)
  <2>1. IsFiniteSet(AllRequests)
    BY <1>1, RequestsAreFinite
  <2>2. Seen \in SUBSET AllRequests /\ ColdOnes \in SUBSET AllRequests
    BY DEF Seen, ColdOnes
  <2> QED
    BY <2>1, <2>2, FS_Subset
<1> QED
  BY <1>2, <1>3, <1>7, <1>8, <1>9, <1>10, <1>11

\* A step that looks at a request: it is left alone, placed, or a cold start.
LEMMA LookingCounts ==
  ASSUME SimInv, ReportInv, Deploying, NextRequest, OnlyCurrent,
         \/ /\ ~requestMap'[slot][cur].cold /\ created' = created
         \/ /\ requestMap'[slot][cur].cold /\ created' = created + 1
            /\ requestMap'[slot][cur].served
  PROVE  ReportInv'
<1>0. /\ AllRequests' = AllRequests
      /\ IsFiniteSet(AllRequests) /\ IsFiniteSet(Seen) /\ IsFiniteSet(ColdOnes)
  BY SeenNext
<1>1. PICK c \in AllRequests \ Seen :
         /\ Seen' = Seen \cup {c} /\ RequestAt(c)' = requestMap'[slot][cur]
         /\ \A r \in AllRequests \ {c} : RequestAt(r)' = RequestAt(r)
  BY SeenNext
<1>2. total' = total + 1 /\ pc' = pc /\ pc = "deploy"
  BY DEF NextRequest, Deploying
<1>3. SeenInv /\ ColdInv
  BY DEF ReportInv
<1>4. \/ ~RequestAt(c)'.cold /\ created' = created
      \/ RequestAt(c)'.cold /\ created' = created + 1 /\ RequestAt(c)'.served
  BY <1>0, <1>1
<1>5. total' = Cardinality(Seen')
  <2>1. Cardinality(Seen \cup {c}) = Cardinality(Seen) + 1
    BY <1>0, <1>1, FS_AddElement
  <2> QED
    BY <1>0, <1>1, <1>2, <1>3, <2>1 DEF SeenInv
<1>6. SeenInv'
  <2>1. \A r \in AllRequests \ Seen' : r # c /\ r \in AllRequests \ Seen
    BY <1>0, <1>1
  <2> QED
    BY <1>0, <1>1, <1>3, <1>5, <2>1 DEF SeenInv
<1>7. c \notin ColdOnes
  BY <1>0, <1>1, <1>3 DEF SeenInv, ColdOnes
<1>8. ColdOnes' = IF RequestAt(c)'.cold THEN ColdOnes \cup {c} ELSE ColdOnes
  <2>1. ASSUME NEW r \in AllRequests
        PROVE  r \in ColdOnes' <=> r \in ColdOnes \/ (r = c /\ RequestAt(c)'.cold)
    <3>1. r \in ColdOnes' <=> RequestAt(r)'.cold
      BY <1>0, <1>1 DEF ColdOnes
    <3>2. r \in ColdOnes <=> RequestAt(r).cold
      BY DEF ColdOnes
    <3>3. CASE r = c
      BY <1>7, <3>1, <3>3
    <3>4. CASE r # c
      BY <1>0, <1>1, <3>1, <3>2, <3>4
    <3> QED
      BY <3>3, <3>4
  <2>2. ColdOnes' \subseteq AllRequests /\ ColdOnes \subseteq AllRequests
    BY <1>0, <1>1 DEF ColdOnes
  <2>3. c \in AllRequests
    BY <1>0, <1>1
  <2> QED
    BY <2>1, <2>2, <2>3
<1>9. ColdInv'
  <2>1. \A r \in ColdOnes : RequestAt(r).served /\ r \in AllRequests \ {c}
    BY <1>3, <1>7 DEF ColdInv, ColdOnes
  <2>2. \A r \in ColdOnes : RequestAt(r)'.served
    BY <1>0, <1>1, <2>1
  <2>3. CASE RequestAt(c)'.cold
    <3>1. Cardinality(ColdOnes \cup {c}) = Cardinality(ColdOnes) + 1
      BY <1>0, <1>1, <1>7, FS_AddElement
    <3>2. created' = created + 1 /\ RequestAt(c)'.served
      BY <1>4, <2>3
    <3> QED
      BY <1>3, <1>8, <2>2, <2>3, <3>1, <3>2 DEF ColdInv
  <2>4. CASE ~RequestAt(c)'.cold
    <3>1. created' = created
      BY <1>4, <2>4
    <3> QED
      BY <1>3, <1>8, <2>2, <2>4, <3>1 DEF ColdInv
  <2> QED
    BY <2>3, <2>4
<1>10. EndInv'
  BY <1>2 DEF EndInv
<1> QED
  BY <1>6, <1>9, <1>10 DEF ReportInv

LEMMA PlacedCounts ==
  ASSUME SimInv, ReportInv, PlaceToCurrent \/ PlaceToNeighbours \/ Create
  PROVE  ReportInv'
<1>1. SimTypeOK /\ Deploying /\ NextRequest
  BY DEF SimInv, PlaceToCurrent, PlaceToNeighbours, Create, NeedsNew
<1>2. PICK b \in BOOLEAN : Serve(b) /\ created' = created + IF b THEN 1 ELSE 0
  <2>1. CASE PlaceToCurrent \/ PlaceToNeighbours
    <3>1. Serve(FALSE) /\ created' = created /\ created \in Nat
      BY <1>1, <2>1 DEF PlaceToCurrent, PlaceToNeighbours, SimTypeOK
    <3>2. FALSE \in BOOLEAN /\ created' = created + IF FALSE THEN 1 ELSE 0
      BY <3>1
    <3> QED
      BY <3>1, <3>2
  <2>2. CASE Create
    <3>1. Serve(TRUE) /\ created' = created + 1
      BY <2>2 DEF Create
    <3> QED
      BY <3>1
  <2> QED
    BY <2>1, <2>2
<1>3. OnlyCurrent
  BY <1>1, <1>2, ServeIs DEF OnlyCurrent
<1>4. slot \in Slots /\ cur \in DOMAIN requestMap[slot] /\ Req \in Request
  BY <1>1, TargetIsNode
<1>5. requestMap'[slot][cur] = [Req EXCEPT !.served = TRUE, !.cold = b]
  BY <1>1, <1>2, <1>4, ServeIs
<1>6. requestMap'[slot][cur].served = TRUE /\ requestMap'[slot][cur].cold = b
  BY <1>4, <1>5 DEF Request
<1>7. created \in Nat
  BY <1>1 DEF SimTypeOK
<1>8. CASE b
  <2>1. requestMap'[slot][cur].served /\ requestMap'[slot][cur].cold
    BY <1>6, <1>8
  <2>2. created' = created + 1
    BY <1>2, <1>7, <1>8
  <2> QED
    BY <1>1, <1>3, <2>1, <2>2, LookingCounts
<1>9. CASE ~b
  <2>1. ~requestMap'[slot][cur].cold
    BY <1>6, <1>9
  <2>2. created' = created
    BY <1>2, <1>7, <1>9
  <2> QED
    BY <1>1, <1>3, <2>1, <2>2, LookingCounts
<1> QED
  BY <1>8, <1>9

LEMMA RefusedCounts ==
  ASSUME SimInv, ReportInv, Refuse
  PROVE  ReportInv'
<1>1. /\ SimTypeOK /\ Deploying /\ NextRequest /\ requestMap' = requestMap
      /\ created' = created
  BY DEF SimInv, Refuse, NeedsNew
<1>2. OnlyCurrent
  BY <1>1 DEF OnlyCurrent
<1>3. ~requestMap'[slot][cur].cold
  <2>1. PICK c \in AllRequests \ Seen : RequestAt(c)' = requestMap'[slot][cur]
    BY <1>1, <1>2, SeenNext
  <2>2. RequestAt(c)' = RequestAt(c)
    BY <1>1 DEF RequestAt
  <2> QED
    BY <2>1, <2>2 DEF ReportInv, SeenInv
<1> QED
  BY <1>1, <1>2, <1>3, LookingCounts

\* The new requests of a row are untouched, like those before the first slot.
LEMMA CreatedCounts ==
  ASSUME SimInv, SimInv', ReportInv, CreateRow
  PROVE  ReportInv'
<1>1. /\ pc = "create" /\ pc' = pc /\ slot' = slot /\ total' = total /\ created' = created
  BY DEF CreateRow, placing
<1>2. slot = 1 /\ SeenInv /\ ColdInv /\ SimTypeOK /\ SimTypeOK'
  BY <1>1 DEF ReportInv, EndInv, SimInv
<1>3. PICK rs \in Seq(Untouched) :
        requestMap' = [requestMap EXCEPT ![row[2]] = requestMap[row[2]] \o rs]
  BY <1>2, RowAdds
<1>4. ASSUME NEW r \in AllRequests'
      PROVE  /\ r[1] \in Slots /\ r[2] \in DOMAIN requestMap'[r[1]]
             /\ RequestAt(r)' = requestMap'[r[1]][r[2]]
  <2>1. PICK s \in Slots : r \in {s} \X DOMAIN requestMap'[s]
    BY DEF AllRequests
  <2> QED
    BY <2>1 DEF RequestAt
<1>5. Seen = {} /\ Seen' = {}
  <2>1. \A r \in AllRequests : ~(r[1] < 1)
    <3>1. \A r \in AllRequests : r[1] \in Slots
      BY <1>2, RequestsAreFinite
    <3> QED
      BY <3>1 DEF Slots
  <2>2. \A r \in AllRequests' : ~(r[1] < 1)
    <3>1. \A r \in AllRequests' : r[1] \in Slots
      BY <1>4
    <3> QED
      BY <3>1 DEF Slots
  <2> QED
    BY <1>1, <1>2, <2>1, <2>2 DEF Seen
<1>6. \A s \in Slots : \A i \in DOMAIN requestMap[s] :
        ~requestMap[s][i].served /\ ~requestMap[s][i].cold
  <2> SUFFICES ASSUME NEW s \in Slots, NEW i \in DOMAIN requestMap[s]
               PROVE  ~requestMap[s][i].served /\ ~requestMap[s][i].cold
    OBVIOUS
  <2>1. <<s, i>> \in AllRequests /\ RequestAt(<<s, i>>) = requestMap[s][i]
    BY <1>2, RequestsAreFinite
  <2> QED
    BY <1>2, <1>5, <2>1 DEF SeenInv
<1>7. \A s \in Slots : requestMap'[s] \in Seq(Untouched)
  <2> SUFFICES ASSUME NEW s \in Slots
               PROVE  requestMap'[s] \in Seq(Untouched)
    OBVIOUS
  <2> DEFINE q == requestMap[s]
  <2>1. q \in Seq(Request) /\ DOMAIN q = 1 .. Len(q) /\ Len(q) \in Nat
        /\ DOMAIN requestMap = Slots
    BY <1>2, LenProperties DEF SimTypeOK
  <2>2. \A i \in 1 .. Len(q) : q[i] \in Untouched
    <3>1. \A i \in 1 .. Len(q) : q[i] \in Request
      BY <2>1, LenProperties
    <3> QED
      BY <1>6, <2>1, <3>1 DEF Untouched
  <2> HIDE DEF q
  <2>3. q \in Seq(Untouched)
    BY <2>1, <2>2
  <2>4. q \o rs \in Seq(Untouched)
    BY <2>3, ConcatProperties
  <2> QED
    BY <1>3, <2>1, <2>3, <2>4 DEF q
<1>8. ASSUME NEW r \in AllRequests'
      PROVE  ~RequestAt(r)'.served /\ ~RequestAt(r)'.cold
  <2>1. r[1] \in Slots /\ r[2] \in DOMAIN requestMap'[r[1]]
        /\ RequestAt(r)' = requestMap'[r[1]][r[2]]
    BY <1>4
  <2>2. requestMap'[r[1]][r[2]] \in Untouched
    BY <1>7, <2>1, LenProperties
  <2> QED
    BY <2>1, <2>2 DEF Untouched
<1>9. ColdOnes = {} /\ ColdOnes' = {}
  <2>1. \A r \in AllRequests : ~RequestAt(r).cold
    BY <1>2, <1>5 DEF SeenInv
  <2> QED
    BY <1>8, <2>1 DEF ColdOnes
<1>10. SeenInv'
  BY <1>1, <1>2, <1>5, <1>8 DEF SeenInv
<1>11. ColdInv'
  BY <1>1, <1>2, <1>9 DEF ColdInv
<1>12. EndInv'
  BY <1>1, <1>2 DEF EndInv
<1> QED
  BY <1>10, <1>11, <1>12 DEF ReportInv

\* The steps that look at no request.
LEMMA OthersCount ==
  ASSUME SimInv, ReportInv,
         \/ NoPrediction \/ StartDeploying \/ StartSlot \/ Evict \/ UpdateCache
         \/ UNCHANGED vars
  PROVE  ReportInv'
<1>1. requestMap' = requestMap /\ total' = total /\ created' = created
  BY DEF NoPrediction, StartDeploying, StartSlot, Evict, UpdateCache, vars, placing
<1>2. AllRequests' = AllRequests
  BY <1>1 DEF AllRequests
<1>3. SimTypeOK /\ slot \in Nat /\ cur \in Nat /\ slot \in Int
  BY DEF SimInv, SimTypeOK
<1>4. \A r \in AllRequests : r[1] \in Slots /\ r[1] \in Nat /\ r[2] \in Nat \ {0}
                             /\ r[2] \in DOMAIN requestMap[r[1]]
  <2>1. \A r \in AllRequests : r[1] \in Slots /\ r[2] \in Nat \ {0}
                               /\ r[2] \in DOMAIN requestMap[r[1]]
    BY <1>3, RequestsAreFinite
  <2> QED
    BY <2>1 DEF Slots
<1>5. Seen' = Seen
  <2>1. CASE pc' = pc /\ slot' = slot /\ cur' = cur
    BY <1>2, <2>1 DEF Seen
  <2>2. CASE StartDeploying
    <3>1. pc # "deploy" /\ pc' # "deploy" /\ slot' = slot
      BY <2>2 DEF StartDeploying, placing
    <3> QED
      BY <1>2, <3>1 DEF Seen
  <2>3. CASE StartSlot
    <3>1. pc # "deploy" /\ slot' = slot /\ cur' = 1
      BY <2>3 DEF StartSlot
    <3>2. \A r \in AllRequests : ~(r[2] < 1)
      BY <1>4
    <3> QED
      BY <1>2, <3>1, <3>2 DEF Seen
  <2>4. CASE UpdateCache
    <3>1. /\ pc = "deploy" /\ pc' = "slot" /\ slot' = slot + 1
          /\ cur > Len(RequestsInSlot)
      BY <2>4 DEF UpdateCache
    <3>2. \A r \in AllRequests : r[1] = slot => r[2] < cur
      <4> SUFFICES ASSUME NEW r \in AllRequests, r[1] = slot
                   PROVE  r[2] < cur
        OBVIOUS
      <4>1. slot \in Slots /\ r[2] \in DOMAIN requestMap[slot] /\ r[2] \in Nat
        BY <1>4
      <4>2. RequestsInSlot = requestMap[slot] /\ requestMap[slot] \in Seq(Request)
        BY <1>3, <4>1 DEF RequestsInSlot, SimTypeOK
      <4>3. r[2] <= Len(requestMap[slot]) /\ Len(requestMap[slot]) \in Nat
        BY <4>1, <4>2, LenProperties
      <4> QED
        BY <1>3, <3>1, <4>1, <4>2, <4>3
    <3>3. \A r \in AllRequests : r[1] < slot + 1 <=> r[1] < slot \/ (r[1] = slot /\ r[2] < cur)
      <4>1. \A r \in AllRequests : r[1] < slot + 1 <=> r[1] < slot \/ r[1] = slot
        BY <1>3, <1>4
      <4> QED
        BY <3>2, <4>1
    <3>4. Seen' = {r \in AllRequests : r[1] < slot + 1}
      BY <1>2, <3>1 DEF Seen
    <3>5. Seen = {r \in AllRequests : r[1] < slot \/ (r[1] = slot /\ r[2] < cur)}
      BY <3>1 DEF Seen
    <3> QED
      BY <3>3, <3>4, <3>5
  <2> QED
    BY <2>1, <2>2, <2>3, <2>4 DEF NoPrediction, Evict, vars, placing
<1>6. SeenInv' /\ ColdInv'
  BY <1>1, <1>5, SeenStays
<1>7. EndInv'
  <2>1. CASE UNCHANGED vars
    <3>1. /\ pc' = pc /\ slot' = slot /\ report' = report /\ requestMap' = requestMap
          /\ Rule' = Rule
      BY <2>1 DEF vars, placing, reported, Rule
    <3>2. SlotsWithRequests' = SlotsWithRequests /\ LastSlot' = LastSlot
      BY <3>1 DEF SlotsWithRequests, LastSlot
    <3>3. Counted' = Counted /\ \A r : ReportedCold(RequestAt(r))' = ReportedCold(RequestAt(r))
      BY <3>1, <3>2 DEF Counted, ServedIn, RequestAt, ReportedCold
    <3> QED
      BY <3>1, <3>2, <3>3 DEF ReportInv, EndInv
  <2>2. CASE NoPrediction
    BY <2>2 DEF ReportInv, EndInv, NoPrediction, placing
  <2>3. CASE StartDeploying
    BY <2>3 DEF ReportInv, EndInv, StartDeploying, placing
  <2>4. CASE StartSlot
    BY <2>4 DEF EndInv, StartSlot
  <2>5. CASE Evict
    BY <2>5 DEF EndInv, Evict, NeedsNew, Deploying
  <2>6. CASE UpdateCache
    BY <2>6 DEF EndInv, UpdateCache
  <2> QED
    BY <2>1, <2>2, <2>3, <2>4, <2>5, <2>6
<1> QED
  BY <1>6, <1>7 DEF ReportInv

LEMMA ReportingCounts ==
  ASSUME SimInv, ReportInv, Report
  PROVE  ReportInv'
<1>1. /\ pc = "slot" /\ pc' = "done" /\ slot > LastSlot /\ slot' = slot /\ cur' = cur
      /\ requestMap' = requestMap /\ total' = total /\ created' = created
      /\ Rule' = Rule
  BY DEF Report, placing, Rule
<1>2. AllRequests' = AllRequests
  BY <1>1 DEF AllRequests
<1>3. Seen' = Seen
  BY <1>1, <1>2 DEF Seen
<1>4. SeenInv' /\ ColdInv'
  BY <1>1, <1>3, SeenStays
<1>5. SlotsWithRequests' = SlotsWithRequests /\ LastSlot' = LastSlot
  BY <1>1 DEF SlotsWithRequests, LastSlot
<1>6. Counted' = Counted /\ \A r : ReportedCold(RequestAt(r))' = ReportedCold(RequestAt(r))
  BY <1>1, <1>5 DEF Counted, ServedIn, RequestAt, ReportedCold
<1>7. report' = [served |-> Cardinality(Counted),
                 cold |-> Cardinality({r \in Counted : ReportedCold(RequestAt(r))})]
  BY DEF Report, Counted, RequestAt
<1>8. EndInv'
  BY <1>1, <1>5, <1>6, <1>7 DEF EndInv
<1> QED
  BY <1>4, <1>8 DEF ReportInv

LEMMA ReportInvHolds == Spec => []ReportInv
<1>1. Init => ReportInv
  <2> SUFFICES ASSUME Init
               PROVE  ReportInv
    OBVIOUS
  <2>1. /\ pc = "create" /\ slot = 1 /\ total = 0 /\ created = 0
        /\ requestMap = [s \in Slots |-> <<>>]
    BY DEF Init
  <2>2. AllRequests = {}
    BY <2>1 DEF AllRequests
  <2>3. Seen = {} /\ ColdOnes = {}
    BY <2>2 DEF Seen, ColdOnes
  <2>4. SeenInv /\ ColdInv
    BY <2>1, <2>2, <2>3, FS_EmptySet DEF SeenInv, ColdInv
  <2>5. EndInv
    BY <2>1 DEF EndInv
  <2> QED
    BY <2>4, <2>5 DEF ReportInv
<1>2. SimInv /\ SimInv' /\ ReportInv /\ [Next]_vars => ReportInv'
  <2> SUFFICES ASSUME SimInv, SimInv', ReportInv, [Next]_vars
               PROVE  ReportInv'
    OBVIOUS
  <2>1. CASE CreateRow
    BY <2>1, CreatedCounts
  <2>2. CASE PlaceToCurrent \/ PlaceToNeighbours \/ Create
    BY <2>2, PlacedCounts
  <2>3. CASE Refuse
    BY <2>3, RefusedCounts
  <2>4. CASE \/ NoPrediction \/ StartDeploying \/ StartSlot \/ Evict \/ UpdateCache
             \/ UNCHANGED vars
    BY <2>4, OthersCount
  <2>5. CASE Report
    BY <2>5, ReportingCounts
  <2> QED
    BY <2>1, <2>2, <2>3, <2>4, <2>5 DEF Next, DeployRequest, Ended
<1> QED
  BY <1>1, <1>2, SimInvHolds, PTL DEF Spec

\* The report has each request that was served, every request was looked at
\* once, and a program that counts its cold starts counts the containers it
\* created, when the loops over the slots cover the slots (deployRequests,
\* printResult).
THEOREM ReportIsTrueHolds == Spec => []ReportIsTrue
<1>1. ASSUME SimInv, ReportInv
      PROVE  ReportIsTrue
  <2> SUFFICES ASSUME pc = "done", NoGaps, LastSlot >= SlotsWithRequests
               PROVE  /\ total = Cardinality(AllRequests)
                      /\ report.served = Cardinality({r \in AllRequests : RequestAt(r).served})
                      /\ Rule.cold = "cold" => report.cold = created
    BY DEF ReportIsTrue
  <2>1. /\ SimTypeOK /\ SeenInv /\ ColdInv /\ slot > LastSlot
        /\ report = [served |-> Cardinality(Counted),
                     cold |-> Cardinality({r \in Counted : ReportedCold(RequestAt(r))})]
    BY <1>1 DEF SimInv, ReportInv, EndInv
  <2>2. slot \in Nat /\ SlotsWithRequests \in Nat /\ LastSlot \in Nat
    BY <2>1, SlotsAreFinite, SimulationConstantsOK DEF SimTypeOK, LastSlot
  <2>3. ASSUME NEW r \in AllRequests
        PROVE  r[1] \in 1 .. SlotsWithRequests /\ r[1] < slot
    <3>1. r[1] \in Slots /\ r[2] \in DOMAIN requestMap[r[1]]
      BY <2>1, RequestsAreFinite
    <3>2. requestMap[r[1]] # <<>>
      BY <3>1
    <3>3. r[1] <= SlotsWithRequests /\ r[1] \in Nat \ {0}
      BY <3>1, <3>2 DEF NoGaps, Slots
    <3> QED
      BY <2>1, <2>2, <3>3
  <2>4. Seen = AllRequests
    BY <2>3 DEF Seen
  <2>5. Counted = {r \in AllRequests : RequestAt(r).served}
    <3>1. ASSUME NEW r \in AllRequests, RequestAt(r).served
          PROVE  r \in Counted
      <4>1. /\ r = <<r[1], r[2]>> /\ r[2] \in DOMAIN requestMap[r[1]]
            /\ RequestAt(r) = requestMap[r[1]][r[2]]
        BY <2>1, RequestsAreFinite
      <4>2. r[2] \in ServedIn(r[1])
        BY <3>1, <4>1 DEF ServedIn
      <4>3. r \in {r[1]} \X ServedIn(r[1])
        BY <4>1, <4>2
      <4> QED
        BY <2>3, <4>3 DEF Counted
    <3>2. Counted \subseteq {r \in AllRequests : RequestAt(r).served}
      BY <2>1, RequestsAreFinite
    <3> QED
      BY <3>1, <3>2
  <2>6. ASSUME Rule.cold = "cold"
        PROVE  {r \in Counted : ReportedCold(RequestAt(r))} = ColdOnes
    <3>1. \A r \in Counted : ReportedCold(RequestAt(r)) <=> RequestAt(r).cold
      BY <2>6 DEF ReportedCold
    <3>2. \A r \in ColdOnes : RequestAt(r).served
      BY <2>1 DEF ColdInv
    <3> QED
      BY <2>5, <3>1, <3>2 DEF ColdOnes
  <2>7. report.served = Cardinality(Counted)
        /\ report.cold = Cardinality({r \in Counted : ReportedCold(RequestAt(r))})
    BY <2>1
  <2> QED
    BY <2>1, <2>4, <2>5, <2>6, <2>7 DEF SeenInv, ColdInv
<1>2. SimInv /\ ReportInv => ReportIsTrue
  BY <1>1
<1> QED
  BY <1>2, SimInvHolds, ReportInvHolds, PTL
=============================================================================
