-------------------------- MODULE LifetimeCacheProofs --------------------------
(***************************************************************************)
(* Proofs about LifetimeCache: types and phases, the lifetimes of idle     *)
(* containers while their list is aged and shortened at the same time, the *)
(* order that fixedcaching evicts by, where the containers are, and that   *)
(* the schedulers implement the pool of warm containers.                   *)
(***************************************************************************)
EXTENDS LifetimeCacheProperties, PoolProofs

-----------------------------------------------------------------------------
(* The inductive invariants.                                               *)

Request == [type : Types, ingress : Nodes, served : BOOLEAN, node : Nodes, fn : Nat]

\* The lists that updateCache goes through: caches while it ages, slices after.
Caches == Nodes \X {0}
Slices == Nodes \X Types

TypeInv ==
  /\ variant \in Variants
  /\ pc \in {"slot", "deploy", "place", "age", "update", "done"}
  /\ slot \in Nat /\ cur \in Nat \ {0} /\ k \in Nat /\ count \in Nat
  /\ reqs \in Seq(Request)
  /\ mem \in [Nodes -> Int] /\ \A n \in Nodes : mem[n] <= MemBound
  /\ active \in [Nodes -> [Types -> Seq(Container)]]
  /\ cache \in [Nodes -> Seq(Container)]
  /\ freq \in [Types -> Int]
  /\ cacheKeys \subseteq Nodes /\ services \subseteq Types \X (1 .. count)
  /\ aged \in Seq(Container)
  /\ left \subseteq Caches \cup Slices /\ at \in {Nowhere} \cup Caches \cup Slices

\* Where updateCache is.  While it ages a list, the list of the map is the
\* beginning of the slice that the loop goes through.
PhaseInv ==
  /\ pc = "place" => FixedCaching /\ cur <= Len(reqs)
  /\ pc # "age" => aged = <<>>
  /\ pc = "slot" => at = Nowhere
  /\ pc \in {"deploy", "place"} => at = Nowhere
  /\ pc = "age" =>
       /\ left \subseteq Caches /\ at \in {Nowhere} \cup Caches
       /\ at = Nowhere => aged = <<>>
       /\ at # Nowhere =>
            /\ Len(cache[at[1]]) <= Len(aged)
            /\ \A i \in DOMAIN cache[at[1]] : cache[at[1]][i] = aged[i]
  /\ pc = "update" => left \subseteq Slices /\ at \in {Nowhere} \cup Slices

\* No list of the scheduler ever shows an expired container; the slice of the
\* aging loop may.
Cached == UNION {Range(cache[n]) : n \in Nodes}
InUse  == UNION {Range(active[s[1]][s[2]]) : s \in Slices}
Shown  == Cached \cup InUse

LifeInv ==
  /\ \A c \in Shown : c.life \in 1 .. LifeTime
  /\ \A i \in DOMAIN aged : aged[i].life \in 0 .. LifeTime

\* The slots a container was idle and those it has left make its lifetime, and
\* one more for the containers of this slot that the loop has yet to age.
Owed(n, i) == IF pc = "age" /\ at = <<n, 0>> /\ i > k THEN 1 ELSE 0

IdleInv ==
  /\ \A n \in Nodes : \A i \in DOMAIN cache[n] :
       cache[n][i].life + cache[n][i].idle >= LifeTime + Owed(n, i)
  /\ \A c \in InUse : c.life + c.idle >= LifeTime

\* fixedcaching sorts by the lifetime left.  Where the loop is, those behind it
\* have at least a slot more: they have yet to lose one.
InOrder(n) ==
  /\ Sorted(cache[n])
  /\ \A i \in DOMAIN cache[n] : cache[n][i].prio = cache[n][i].life

Gap(n) ==
  pc = "age" /\ at = <<n, 0>> /\ k < Len(aged) =>
    \A i, j \in DOMAIN cache[n] : i <= k /\ k < j => cache[n][i].life < cache[n][j].life

OrderInv == FixedCaching => \A n \in Nodes : InOrder(n) /\ Gap(n)

-----------------------------------------------------------------------------
(* What the operations do to a container or a list.                        *)

LEMMA PairMin ==
  ASSUME NEW a \in Int, NEW b \in Int
  PROVE  Min({a, b}) = IF a <= b THEN a ELSE b
BY DEF Min

LEMMA PairMax ==
  ASSUME NEW a \in Int, NEW b \in Int
  PROVE  Max({a, b}) = IF a <= b THEN b ELSE a
BY DEF Max

\* updateTopo counts no further than the bound of the model.
LEMMA GiveBackBounded ==
  ASSUME NEW m \in Int, NEW size \in Int
  PROVE  GiveBack(m, size) \in Int /\ GiveBack(m, size) <= MemBound
<1>1. m + size \in Int /\ MemBound \in Int
  BY LifetimeConstantsOK
<1> QED
  BY <1>1, PairMin DEF GiveBack

\* minusLife takes a slot, if there is one left.
LEMMA MinusLifeIs ==
  ASSUME NEW c \in Container
  PROVE  /\ MinusLife(c) \in Container
         /\ MinusLife(c).id = c.id /\ MinusLife(c).type = c.type
         /\ MinusLife(c).node = c.node /\ MinusLife(c).idle = c.idle
         /\ MinusLife(c).life = IF c.life >= 1 THEN c.life - 1 ELSE 0
         /\ FixedCaching => MinusLife(c).prio = MinusLife(c).life
<1> DEFINE life == Max({c.life - 1, 0})
<1>1. c.life \in Int /\ c.life - 1 \in Int
  BY DEF Container
<1>2. life = (IF c.life >= 1 THEN c.life - 1 ELSE 0) /\ life \in Int
  BY <1>1, PairMax
<1>3. MinusLife(c) = [c EXCEPT !.life = life, !.prio = IF FixedCaching THEN life ELSE @]
  BY DEF MinusLife
<1> HIDE DEF life
<1> QED
  BY <1>2, <1>3 DEF Container

LEMMA ContainersPrioritised ==
  ASSUME NEW s \in Seq(Container)
  PROVE  Prioritised(s)
<1>1. DOMAIN s = 1 .. Len(s)
  BY LenProperties
<1>2. \A i \in DOMAIN s : s[i] \in Container
  BY <1>1, ElementOfSeq
<1> QED
  BY <1>2 DEF Prioritised, Container

\* Sorting keeps the elements.
LEMMA SortListIs ==
  ASSUME NEW s \in Seq(Container)
  PROVE  /\ SortList(s) \in Seq(Container)
         /\ Range(SortList(s)) = Range(s)
         /\ Sorted(SortList(s))
<1>1. /\ SortList(s) \in Seq(Container)
      /\ \A p \in DOMAIN SortList(s) : \E i \in DOMAIN s : SortList(s)[p] = s[i]
      /\ \A i \in DOMAIN s : \E p \in DOMAIN SortList(s) : SortList(s)[p] = s[i]
      /\ Sorted(SortList(s))
  BY ContainersPrioritised, SortListProperties
<1> QED
  BY <1>1 DEF Range

\* Appending, taking the first one and deleting, by the elements.
LEMMA AppendIs ==
  ASSUME NEW s \in Seq(Container), NEW c \in Container
  PROVE  /\ Append(s, c) \in Seq(Container)
         /\ Range(Append(s, c)) = Range(s) \cup {c}
<1>1. /\ Append(s, c) \in Seq(Container) /\ Len(Append(s, c)) = Len(s) + 1
      /\ \A i \in 1 .. Len(s) : Append(s, c)[i] = s[i]
      /\ Append(s, c)[Len(s) + 1] = c
  BY AppendProperties
<1>2. DOMAIN s = 1 .. Len(s) /\ DOMAIN Append(s, c) = 1 .. Len(s) + 1 /\ Len(s) \in Nat
  BY <1>1, LenProperties
<1>3. 1 .. Len(s) + 1 = (1 .. Len(s)) \cup {Len(s) + 1}
  BY <1>2
<1> HIDE DEF Range
<1>4. Range(Append(s, c)) = {Append(s, c)[i] : i \in (1 .. Len(s)) \cup {Len(s) + 1}}
  BY <1>2, <1>3 DEF Range
<1>5. Range(s) = {s[i] : i \in 1 .. Len(s)}
  BY <1>2 DEF Range
<1> QED
  BY <1>1, <1>4, <1>5

LEMMA DeleteIs ==
  ASSUME NEW s \in Seq(Container), NEW i \in DOMAIN s
  PROVE  /\ DeleteAt(s, i) \in Seq(Container)
         /\ DOMAIN DeleteAt(s, i) = 1 .. Len(s) - 1
         /\ \A p \in 1 .. Len(s) - 1 :
              DeleteAt(s, i)[p] = IF p < i THEN s[p] ELSE s[p + 1]
         /\ Range(DeleteAt(s, i)) \subseteq Range(s)
         /\ Range(s) \subseteq Range(DeleteAt(s, i)) \cup {s[i]}
<1> DEFINE d == DeleteAt(s, i)
<1>1. /\ d \in Seq(Container) /\ Len(d) = Len(s) - 1
      /\ \A p \in 1 .. Len(s) - 1 : d[p] = IF p < i THEN s[p] ELSE s[p + 1]
  BY DeleteAtProperties
<1> HIDE DEF d
<1>2. DOMAIN s = 1 .. Len(s) /\ DOMAIN d = 1 .. Len(s) - 1 /\ Len(s) \in Nat
  BY <1>1, LenProperties
<1>3. \A p \in 1 .. Len(s) - 1 : p \in 1 .. Len(s) /\ p + 1 \in 1 .. Len(s)
  BY <1>2
<1>4. Range(d) \subseteq Range(s)
  BY <1>1, <1>2, <1>3 DEF Range
<1>5. ASSUME NEW q \in 1 .. Len(s), q # i
      PROVE  \E p \in 1 .. Len(s) - 1 : d[p] = s[q]
  <2>1. CASE q < i
    <3>1. q \in 1 .. Len(s) - 1
      BY <1>2, <2>1
    <3> QED
      BY <1>1, <2>1, <3>1
  <2>2. CASE q > i
    <3>1. q - 1 \in 1 .. Len(s) - 1 /\ ~(q - 1 < i) /\ (q - 1) + 1 = q
      BY <1>2, <2>2
    <3>2. d[q - 1] = s[(q - 1) + 1]
      BY <1>1, <3>1
    <3> QED
      BY <3>1, <3>2
  <2> QED
    BY <1>2, <1>5, <2>1, <2>2
<1>6. Range(s) \subseteq Range(d) \cup {s[i]}
  BY <1>2, <1>5 DEF Range
<1> QED
  BY <1>1, <1>2, <1>4, <1>6 DEF d

LEMMA HeadTailIs ==
  ASSUME NEW s \in Seq(Container), s # <<>>
  PROVE  /\ Head(s) \in Container /\ Head(s) = s[1] /\ 1 \in DOMAIN s
         /\ Tail(s) \in Seq(Container)
         /\ DOMAIN Tail(s) = 1 .. Len(s) - 1
         /\ \A p \in 1 .. Len(s) - 1 : Tail(s)[p] = s[p + 1]
         /\ Range(Tail(s)) \subseteq Range(s)
         /\ Range(s) \subseteq Range(Tail(s)) \cup {Head(s)}
<1>1. /\ Head(s) \in Container /\ Tail(s) \in Seq(Container)
      /\ Len(Tail(s)) = Len(s) - 1
      /\ \A i \in 1 .. Len(Tail(s)) : Tail(s)[i] = s[i + 1]
  BY HeadTailProperties
<1>2. /\ DOMAIN s = 1 .. Len(s) /\ Len(s) \in Nat /\ Len(s) # 0
      /\ DOMAIN Tail(s) = 1 .. Len(s) - 1
  BY <1>1, LenProperties, EmptySeq
<1>3. Head(s) = s[1] /\ 1 \in 1 .. Len(s)
  BY <1>2
<1>4. \A p \in 1 .. Len(s) - 1 : p + 1 \in 1 .. Len(s)
  BY <1>2
<1>5. \A q \in 1 .. Len(s) : q = 1 \/ (q - 1 \in 1 .. Len(s) - 1 /\ (q - 1) + 1 = q)
  BY <1>2
<1>6. \A p \in 1 .. Len(s) - 1 : Tail(s)[p] = s[p + 1]
  BY <1>1
<1>7. Range(Tail(s)) \subseteq Range(s)
  BY <1>2, <1>4, <1>6 DEF Range
<1>8. Range(s) \subseteq Range(Tail(s)) \cup {Head(s)}
  <2>1. ASSUME NEW q \in 1 .. Len(s), q # 1
        PROVE  s[q] \in Range(Tail(s))
    <3>1. q - 1 \in 1 .. Len(s) - 1 /\ s[q] = Tail(s)[q - 1]
      BY <1>2, <1>6, <2>1
    <3> QED
      BY <1>2, <3>1 DEF Range
  <2> QED
    BY <1>2, <1>3, <2>1 DEF Range
<1> QED
  BY <1>1, <1>2, <1>3, <1>6, <1>7, <1>8

\* The beginning of a list.
LEMMA PrefixIs ==
  ASSUME NEW s \in Seq(Container), NEW m \in Nat, m <= Len(s)
  PROVE  /\ SubSeq(s, 1, m) \in Seq(Container)
         /\ Len(SubSeq(s, 1, m)) = m /\ DOMAIN SubSeq(s, 1, m) = 1 .. m
         /\ \A i \in 1 .. m : SubSeq(s, 1, m)[i] = s[i]
<1>1. Len(s) \in Nat
  BY LenProperties
<1>2. /\ SubSeq(s, 1, m) \in Seq(Container)
      /\ Len(SubSeq(s, 1, m)) = m
      /\ \A i \in 1 .. m : SubSeq(s, 1, m)[i] = s[i]
  BY <1>1
<1> QED
  BY <1>2, LenProperties

LEMMA FirstIdleIs ==
  ASSUME NEW n \in Nodes, NEW t \in Types, cache[n] \in Seq(Container), HasIdle(n, t)
  PROVE  /\ FirstIdle(n, t) \in DOMAIN cache[n]
         /\ cache[n][FirstIdle(n, t)] \in Container
         /\ cache[n][FirstIdle(n, t)].type = t
<1>1. /\ DOMAIN cache[n] = 1 .. Len(cache[n]) /\ Len(cache[n]) \in Nat
      /\ IdleIndexes(n, t) \subseteq 1 .. Len(cache[n]) /\ IdleIndexes(n, t) # {}
  BY LenProperties DEF IdleIndexes, HasIdle
<1>2. \E i \in IdleIndexes(n, t) : \A j \in IdleIndexes(n, t) : i <= j
  BY <1>1, FirstPlace
<1>3. FirstIdle(n, t) \in IdleIndexes(n, t)
  BY <1>2 DEF FirstIdle, Min
<1>4. FirstIdle(n, t) \in DOMAIN cache[n] /\ cache[n][FirstIdle(n, t)].type = t
  BY <1>3 DEF IdleIndexes
<1> QED
  BY <1>1, <1>4, ElementOfSeq

\* What the index of fixedcaching's list says is what sorts it.
LEMMA KeyIsInt ==
  ASSUME NEW c \in Container, NEW f \in Int
  PROVE  Key(c, f) \in Int
<1>1. c.life \in Int /\ c.type \in Types
  BY DEF Container
<1>2. Weight[c.type] \in Int
  BY <1>1, LifetimeConstantsOK
<1>3. \A a, b \in Int : a * b \in Int
  OBVIOUS
<1> QED
  BY <1>1, <1>2, <1>3 DEF Key

\* Where the places are.
LEMMA PlacesApart ==
  /\ \A s \in Caches \cup Slices : s[1] \in Nodes /\ s # Nowhere
  /\ \A s \in Caches : s = <<s[1], 0>> /\ s \notin Slices
  /\ \A s \in Slices : s[1] \in Nodes /\ s[2] \in Types
  /\ \A n \in Nodes : <<n, 0>> \in Caches
BY DEF Caches, Slices, Nowhere, Nodes, Types

LEMMA CurrentRequest ==
  ASSUME TypeInv, cur <= Len(reqs)
  PROVE  /\ cur \in DOMAIN reqs /\ Req \in Request
         /\ Req.type \in Types /\ Req.ingress \in Nodes
<1>1. cur \in 1 .. Len(reqs) /\ DOMAIN reqs = 1 .. Len(reqs)
  BY LenProperties DEF TypeInv
<1>2. Req \in Request
  BY <1>1, ElementOfSeq DEF TypeInv, Req
<1> QED
  BY <1>1, <1>2 DEF Request

LEMMA ServeType ==
  ASSUME TypeInv, cur <= Len(reqs), NEW c \in Container, NEW n \in Nodes, Serve(c, n)
  PROVE  reqs' \in Seq(Request) /\ cur' \in Nat \ {0}
<1> DEFINE r == [reqs[cur] EXCEPT !.fn = c.id, !.served = TRUE, !.node = n]
<1>1. reqs[cur] \in Request /\ cur \in DOMAIN reqs /\ c.id \in Nat
  BY CurrentRequest DEF Req, Container
<1>2. r \in Request
  BY <1>1 DEF Request
<1> HIDE DEF r
<1>3. reqs' = [reqs EXCEPT ![cur] = r]
  BY DEF Serve, r
<1>4. reqs' \in Seq(Request)
  BY <1>1, <1>2, <1>3, ExceptSeq DEF TypeInv
<1>5. cur' \in Nat \ {0}
  BY DEF Serve, TypeInv
<1> QED
  BY <1>4, <1>5

\* createContainers: the container is new, the memory goes down and the name
\* is within the count.
LEMMA CreateType ==
  ASSUME TypeInv, cur <= Len(reqs), CreateContainer
  PROVE  \E c \in Container :
           /\ c.life = LifeTime /\ c.idle = 0 /\ c.id = count + 1
           /\ c.type = Req.type /\ c.node = Req.ingress
           /\ active' = [active EXCEPT ![Req.ingress][Req.type] = Append(@, c)]
           /\ active' \in [Nodes -> [Types -> Seq(Container)]]
           /\ services' \subseteq Types \X (1 .. count')
           /\ mem' \in [Nodes -> Int] /\ \A n \in Nodes : mem'[n] <= MemBound
           /\ reqs' \in Seq(Request) /\ cur' \in Nat \ {0}
           /\ count' \in Nat /\ freq' \in [Types -> Int]
<1> DEFINE n == Req.ingress
           t == Req.type
           c == [id |-> count + 1, type |-> t, node |-> n, life |-> LifeTime,
                 prio |-> 0, idle |-> 0]
<1>1. t \in Types /\ n \in Nodes
  BY CurrentRequest
<1>2. c \in Container
  <2> HIDE DEF t, n
  <2> QED
    BY <1>1, LifetimeConstantsOK DEF TypeInv, Container
<1>3. /\ active' = [active EXCEPT ![n][c.type] = Append(@, c)]
      /\ services' = services \cup {Name(c)}
      /\ mem' = [mem EXCEPT ![n] = @ - Size[c.type]]
      /\ Serve(c, n) /\ count' = count + 1
      /\ freq' = [freq EXCEPT ![t] = @ + 1]
  BY DEF CreateContainer
<1>4. /\ c.life = LifeTime /\ c.idle = 0 /\ c.id = count + 1 /\ c.type = t /\ c.node = n
      /\ Name(c) = <<t, count + 1>>
  BY DEF Name
<1> HIDE DEF c, t, n
<1>5. reqs' \in Seq(Request) /\ cur' \in Nat \ {0}
  BY <1>1, <1>2, <1>3, ServeType
<1>6. active' = [active EXCEPT ![n][t] = Append(@, c)]
  BY <1>3, <1>4
<1>7. active' \in [Nodes -> [Types -> Seq(Container)]]
  BY <1>1, <1>2, <1>6, AppendIs DEF TypeInv
<1>8. services' \subseteq Types \X (1 .. count')
  <2>1. \A j \in 1 .. count : j \in 1 .. count + 1
    BY DEF TypeInv
  <2>2. count + 1 \in 1 .. count + 1
    BY DEF TypeInv
  <2> QED
    BY <1>1, <1>3, <1>4, <2>1, <2>2 DEF TypeInv
<1>9. mem' \in [Nodes -> Int] /\ \A m \in Nodes : mem'[m] <= MemBound
  <2>1. Size[t] \in Nat /\ mem[n] \in Int /\ MemBound \in Int /\ mem[n] <= MemBound
    BY <1>1, LifetimeConstantsOK DEF TypeInv
  <2>2. mem[n] - Size[t] \in Int /\ mem[n] - Size[t] <= MemBound
    BY <2>1
  <2> QED
    BY <1>1, <1>3, <1>4, <2>2 DEF TypeInv
<1>10. count' \in Nat /\ freq' \in [Types -> Int]
  BY <1>1, <1>3 DEF TypeInv
<1> QED
  BY <1>2, <1>4, <1>5, <1>6, <1>7, <1>8, <1>9, <1>10 DEF n, t

-----------------------------------------------------------------------------
(* What the steps do to the lists.                                         *)

\* Idle containers are put in use, at most one of a node.
TakenAt(n) ==
  \/ cache'[n] = cache[n] /\ active'[n] = active[n]
  \/ \E i \in DOMAIN cache[n], t \in Types :
       /\ cache[n][i].type = t
       /\ cache'[n] = DeleteAt(cache[n], i)
       /\ active'[n] = [active[n] EXCEPT ![t] = Append(@, cache[n][i])]

Taken ==
  /\ DOMAIN cache' = Nodes /\ DOMAIN active' = Nodes
  /\ cache' = [n \in Nodes |-> cache'[n]] /\ active' = [n \in Nodes |-> active'[n]]
  /\ \A n \in Nodes : TakenAt(n)

LEMMA PlaceToCurrentTakes ==
  ASSUME TypeInv, PlaceToCurrent
  PROVE  /\ Taken /\ freq' \in [Types -> Int]
         /\ reqs' \in Seq(Request) /\ cur' \in Nat \ {0}
<1> DEFINE n == Req.ingress
           t == Req.type
           i == FirstIdle(n, t)
           c == cache[n][i]
<1>1. cur <= Len(reqs) /\ t \in Types /\ n \in Nodes
  BY CurrentRequest DEF PlaceToCurrent, Deploying
<1>2. /\ HasIdle(n, t) /\ Serve(c, n)
      /\ active' = [active EXCEPT ![n][t] = Append(@, cache[n][i])]
      /\ cache' = [cache EXCEPT ![n] = DeleteAt(@, i)]
      /\ freq' = [freq EXCEPT ![t] = @ + 1]
  BY DEF PlaceToCurrent
<1> HIDE DEF n, t
<1>3. cache[n] \in Seq(Container) /\ freq[t] \in Int
  BY <1>1 DEF TypeInv
<1>4. i \in DOMAIN cache[n] /\ c \in Container /\ c.type = t
  BY <1>1, <1>2, <1>3, FirstIdleIs
<1> HIDE DEF i
<1>5. reqs' \in Seq(Request) /\ cur' \in Nat \ {0}
  BY <1>1, <1>2, <1>4, ServeType
<1>6. freq' \in [Types -> Int]
  BY <1>1, <1>2, <1>3 DEF TypeInv
<1>7. Taken
  <2>1. /\ cache \in [Nodes -> Seq(Container)]
        /\ active \in [Nodes -> [Types -> Seq(Container)]]
    BY DEF TypeInv
  <2>2. /\ DOMAIN cache' = Nodes /\ DOMAIN active' = Nodes
        /\ cache' = [m \in Nodes |-> cache'[m]] /\ active' = [m \in Nodes |-> active'[m]]
    BY <1>2, <2>1
  <2>3. ASSUME NEW m \in Nodes, m # n
        PROVE  cache'[m] = cache[m] /\ active'[m] = active[m]
    BY <1>2, <2>1, <2>3
  <2>4. /\ cache'[n] = DeleteAt(cache[n], i)
        /\ active'[n] = [active[n] EXCEPT ![t] = Append(@, cache[n][i])]
    BY <1>1, <1>2, <2>1
  <2>5. TakenAt(n)
    BY <1>1, <1>4, <2>4 DEF TakenAt
  <2> QED
    BY <2>2, <2>3, <2>5 DEF Taken, TakenAt
<1> QED
  BY <1>5, <1>6, <1>7

LEMMA DeployToNeighbourTakes ==
  ASSUME TypeInv, DeployToNeighbour
  PROVE  /\ Taken /\ freq' \in [Types -> Int]
         /\ reqs' \in Seq(Request) /\ cur' \in Nat \ {0}
<1> DEFINE t == Req.type
           i(n) == FirstIdle(n, t)
<1>1. cur <= Len(reqs) /\ t \in Types
  BY CurrentRequest DEF DeployToNeighbour, Deploying
<1>2. \A n \in Takers : n \in Nodes /\ HasIdle(n, t)
  BY DEF Takers
<1>3. /\ active' = [n \in Nodes |-> IF n \notin Takers THEN active[n]
                      ELSE [active[n] EXCEPT ![t] = Append(@, cache[n][i(n)])]]
      /\ cache' = [n \in Nodes |-> IF n \notin Takers THEN cache[n]
                     ELSE DeleteAt(cache[n], i(n))]
      /\ freq' = [freq EXCEPT ![t] = @ + Cardinality(Takers)]
      /\ \E n \in Takers : Serve(cache[n][i(n)], n)
  BY DEF DeployToNeighbour
<1>4. Cardinality(Takers) \in Nat
  <2>1. NodeNum \in Nat /\ 0 \in Int /\ NodeNum - 1 \in Int
    BY LifetimeConstantsOK
  <2>2. IsFiniteSet(Nodes)
    BY <2>1, FS_Interval DEF Nodes
  <2>3. IsFiniteSet(Takers)
    BY <1>2, <2>2, FS_Subset
  <2> QED
    BY <2>3, FS_CardinalityType
<1> HIDE DEF t
<1>5. freq' \in [Types -> Int]
  BY <1>1, <1>3, <1>4 DEF TypeInv
<1>6. ASSUME NEW n \in Takers
      PROVE  /\ i(n) \in DOMAIN cache[n] /\ cache[n][i(n)] \in Container
             /\ cache[n][i(n)].type = t
  <2>1. n \in Nodes /\ HasIdle(n, t) /\ cache[n] \in Seq(Container)
    BY <1>2 DEF TypeInv
  <2> QED
    BY <1>1, <2>1, FirstIdleIs
<1> HIDE DEF i
<1>7. reqs' \in Seq(Request) /\ cur' \in Nat \ {0}
  BY <1>1, <1>2, <1>3, <1>6, ServeType
<1>8. Taken
  <2>1. /\ DOMAIN cache' = Nodes /\ DOMAIN active' = Nodes
        /\ cache' = [m \in Nodes |-> cache'[m]] /\ active' = [m \in Nodes |-> active'[m]]
    BY <1>3
  <2>2. ASSUME NEW n \in Nodes, n \notin Takers
        PROVE  TakenAt(n)
    BY <1>3, <2>2 DEF TakenAt
  <2>3. ASSUME NEW n \in Nodes, n \in Takers
        PROVE  TakenAt(n)
    <3>1. /\ cache'[n] = DeleteAt(cache[n], i(n))
          /\ active'[n] = [active[n] EXCEPT ![t] = Append(@, cache[n][i(n)])]
      BY <1>3, <2>3
    <3> QED
      BY <1>1, <1>6, <2>3, <3>1 DEF TakenAt
  <2> QED
    BY <2>1, <2>2, <2>3 DEF Taken
<1> QED
  BY <1>5, <1>7, <1>8

\* The lists after it hold what they held.
LEMMA TakenKeeps ==
  ASSUME TypeInv, Taken
  PROVE  /\ cache' \in [Nodes -> Seq(Container)]
         /\ active' \in [Nodes -> [Types -> Seq(Container)]]
         /\ \A n \in Nodes :
              /\ Range(cache'[n]) \subseteq Range(cache[n])
              /\ \A t \in Types : Range(active'[n][t])
                                    \subseteq Range(active[n][t]) \cup Range(cache[n])
              /\ Range(cache[n]) \subseteq Range(cache'[n])
                                    \cup (UNION {Range(active'[n][t]) : t \in Types})
<1>1. ASSUME NEW n \in Nodes
      PROVE  /\ cache'[n] \in Seq(Container) /\ active'[n] \in [Types -> Seq(Container)]
             /\ Range(cache'[n]) \subseteq Range(cache[n])
             /\ \A t \in Types : Range(active'[n][t])
                                   \subseteq Range(active[n][t]) \cup Range(cache[n])
             /\ Range(cache[n]) \subseteq Range(cache'[n])
                                   \cup (UNION {Range(active'[n][t]) : t \in Types})
  <2>1. cache[n] \in Seq(Container) /\ active[n] \in [Types -> Seq(Container)]
    BY DEF TypeInv
  <2>2. CASE cache'[n] = cache[n] /\ active'[n] = active[n]
    BY <2>1, <2>2
  <2>3. CASE \E i \in DOMAIN cache[n], t \in Types :
               /\ cache'[n] = DeleteAt(cache[n], i)
               /\ active'[n] = [active[n] EXCEPT ![t] = Append(@, cache[n][i])]
    <3>1. PICK i \in DOMAIN cache[n], t \in Types :
            /\ cache'[n] = DeleteAt(cache[n], i)
            /\ active'[n] = [active[n] EXCEPT ![t] = Append(@, cache[n][i])]
      BY <2>3
    <3> DEFINE c == cache[n][i]
    <3>2. c \in Container /\ c \in Range(cache[n])
      BY <2>1, LenProperties, ElementOfSeq DEF Range
    <3>3. /\ cache'[n] \in Seq(Container) /\ Range(cache'[n]) \subseteq Range(cache[n])
          /\ Range(cache[n]) \subseteq Range(cache'[n]) \cup {c}
      BY <2>1, <3>1, DeleteIs
    <3>4. active[n][t] \in Seq(Container)
      BY <2>1
    <3> HIDE DEF c
    <3>5. /\ Append(active[n][t], c) \in Seq(Container)
          /\ Range(Append(active[n][t], c)) = Range(active[n][t]) \cup {c}
      BY <3>2, <3>4, AppendIs
    <3>6. active'[n] = [active[n] EXCEPT ![t] = Append(active[n][t], c)]
      BY <3>1 DEF c
    <3>7. /\ active'[n] \in [Types -> Seq(Container)]
          /\ active'[n][t] = Append(active[n][t], c)
          /\ \A o \in Types \ {t} : active'[n][o] = active[n][o]
      BY <2>1, <3>5, <3>6
    <3>8. \A o \in Types : Range(active'[n][o]) \subseteq Range(active[n][o]) \cup Range(cache[n])
      BY <3>2, <3>5, <3>7
    <3>9. c \in Range(active'[n][t])
      BY <3>5, <3>7
    <3> QED
      BY <3>3, <3>7, <3>8, <3>9
  <2> QED
    BY <2>2, <2>3 DEF Taken, TakenAt
<1>2. cache' \in [Nodes -> Seq(Container)] /\ active' \in [Nodes -> [Types -> Seq(Container)]]
  BY <1>1 DEF Taken
<1> QED
  BY <1>1, <1>2

\* A list of updateCache's second loop.
LEMMA SliceInUse ==
  ASSUME TypeInv, PhaseInv, pc = "update", k < Len(SliceAt)
  PROVE  /\ at \in Slices /\ SliceAt = active[at[1]][at[2]]
         /\ SliceAt \in Seq(Container) /\ k + 1 \in DOMAIN SliceAt
         /\ SliceAt[k + 1] \in Container /\ SliceAt[k + 1] \in InUse
<1>1. at # Nowhere
  <2> SUFFICES ASSUME at = Nowhere PROVE FALSE
    OBVIOUS
  <2>1. SliceAt = << >> /\ Len(<< >>) = 0
    BY DEF SliceAt
  <2> QED
    BY <2>1 DEF TypeInv
<1>2. at \in Slices /\ SliceAt = active[at[1]][at[2]]
  BY <1>1 DEF PhaseInv, SliceAt
<1>3. SliceAt \in Seq(Container)
  BY <1>2, PlacesApart DEF TypeInv
<1>4. k + 1 \in 1 .. Len(SliceAt) /\ DOMAIN SliceAt = 1 .. Len(SliceAt)
  BY <1>3, LenProperties DEF TypeInv
<1>5. SliceAt[k + 1] \in Container
  BY <1>3, <1>4, ElementOfSeq
<1>6. SliceAt[k + 1] \in Range(active[at[1]][at[2]])
  BY <1>2, <1>4 DEF Range
<1> QED
  BY <1>2, <1>3, <1>4, <1>5, <1>6 DEF InUse

\* It moves one container, as old as it was.
LEMMA CacheActiveMoves ==
  ASSUME TypeInv, PhaseInv, CacheActive
  PROVE  \E d \in Container, c \in InUse :
           /\ c = SliceAt[k + 1] /\ d.life = c.life /\ d.idle = c.idle /\ d.id = c.id
           /\ d.type = c.type /\ d.node = c.node
           /\ FixedCaching => d.prio = d.life
           /\ d.node \in Nodes
           /\ cache' = [cache EXCEPT ![d.node] = SortList(Append(@, d))]
           /\ cache' \in [Nodes -> Seq(Container)]
           /\ active' = [active EXCEPT ![at[1]][at[2]] = DeleteAt(@, k + 1)]
           /\ active' \in [Nodes -> [Types -> Seq(Container)]]
           /\ cacheKeys' \subseteq Nodes /\ freq' \in [Types -> Int]
           /\ Range(cache'[d.node]) = Range(cache[d.node]) \cup {d}
           /\ \A s \in Slices : Range(active'[s[1]][s[2]]) \subseteq Range(active[s[1]][s[2]])
<1> DEFINE c == SliceAt[k + 1]
           d == [c EXCEPT !.prio = Key(c, freq[c.type] - 1)]
<1>1. /\ pc = "update" /\ k < Len(SliceAt) /\ CacheAdd(c)
      /\ active' = [active EXCEPT ![at[1]][at[2]] = RemoveAt(@, k + 1)]
  BY DEF CacheActive
<1>2. /\ at \in Slices /\ SliceAt = active[at[1]][at[2]]
      /\ SliceAt \in Seq(Container) /\ k + 1 \in DOMAIN SliceAt
      /\ c \in Container /\ c \in InUse
  BY <1>1, SliceInUse
<1>a. c = SliceAt[k + 1]
  OBVIOUS
<1> HIDE DEF c
<1>3. /\ c.type \in Types /\ c.node \in Nodes /\ freq[c.type] \in Int
      /\ freq[c.type] - 1 \in Int
  BY <1>2 DEF TypeInv, Container
<1>4. Key(c, freq[c.type] - 1) \in Int
  BY <1>2, <1>3, KeyIsInt
<1>5. /\ d \in Container /\ d.life = c.life /\ d.idle = c.idle /\ d.id = c.id
      /\ d.type = c.type /\ d.node = c.node /\ d.prio = Key(c, freq[c.type] - 1)
  BY <1>2, <1>4 DEF Container
<1>6. FixedCaching => d.prio = d.life
  BY <1>5 DEF Key
<1>7. /\ cache' = [cache EXCEPT ![c.node] = SortList(Append(@, d))]
      /\ freq' = [freq EXCEPT ![c.type] = @ - 1] /\ cacheKeys' = cacheKeys \cup {c.node}
  BY <1>1 DEF CacheAdd
<1> HIDE DEF d
<1>8. cache' = [cache EXCEPT ![d.node] = SortList(Append(@, d))]
  BY <1>5, <1>7
<1>9. /\ SortList(Append(cache[d.node], d)) \in Seq(Container)
      /\ Range(SortList(Append(cache[d.node], d))) = Range(cache[d.node]) \cup {d}
  <2>1. cache[d.node] \in Seq(Container)
    BY <1>3, <1>5 DEF TypeInv
  <2>2. /\ Append(cache[d.node], d) \in Seq(Container)
        /\ Range(Append(cache[d.node], d)) = Range(cache[d.node]) \cup {d}
    BY <1>5, <2>1, AppendIs
  <2> QED
    BY <2>2, SortListIs
<1>10. /\ cache' \in [Nodes -> Seq(Container)]
       /\ Range(cache'[d.node]) = Range(cache[d.node]) \cup {d}
  BY <1>3, <1>5, <1>8, <1>9 DEF TypeInv
<1>11. cacheKeys' \subseteq Nodes /\ freq' \in [Types -> Int]
  BY <1>3, <1>7 DEF TypeInv
<1>12. /\ active' = [active EXCEPT ![at[1]][at[2]] = DeleteAt(@, k + 1)]
       /\ active' \in [Nodes -> [Types -> Seq(Container)]]
       /\ \A s \in Slices : Range(active'[s[1]][s[2]]) \subseteq Range(active[s[1]][s[2]])
  <2>1. at[1] \in Nodes /\ at[2] \in Types
    BY <1>2, PlacesApart
  <2>2. RemoveAt(SliceAt, k + 1) = DeleteAt(SliceAt, k + 1)
    BY <1>2 DEF DeleteAt
  <2>3. /\ DeleteAt(SliceAt, k + 1) \in Seq(Container)
        /\ Range(DeleteAt(SliceAt, k + 1)) \subseteq Range(SliceAt)
    BY <1>2, DeleteIs
  <2>4. active \in [Nodes -> [Types -> Seq(Container)]]
    BY DEF TypeInv
  <2>5. active' = [active EXCEPT ![at[1]][at[2]] = DeleteAt(SliceAt, k + 1)]
    BY <1>1, <1>2, <2>1, <2>2, <2>4
  <2>6. active' = [active EXCEPT ![at[1]][at[2]] = DeleteAt(@, k + 1)]
    BY <1>2, <2>1, <2>4, <2>5
  <2>7. active' \in [Nodes -> [Types -> Seq(Container)]]
    BY <2>1, <2>3, <2>4, <2>5
  <2>8. ASSUME NEW s \in Slices
        PROVE  Range(active'[s[1]][s[2]]) \subseteq Range(active[s[1]][s[2]])
    <3>1. s[1] \in Nodes /\ s[2] \in Types
      BY PlacesApart
    <3>2. CASE s[1] = at[1] /\ s[2] = at[2]
      <4>1. active'[s[1]][s[2]] = DeleteAt(SliceAt, k + 1)
        BY <2>1, <2>4, <2>5, <3>2
      <4> QED
        BY <1>2, <2>3, <3>2, <4>1
    <3>3. CASE ~(s[1] = at[1] /\ s[2] = at[2])
      <4>1. active'[s[1]][s[2]] = active[s[1]][s[2]]
        BY <2>1, <2>4, <2>5, <3>1, <3>3
      <4> QED
        BY <4>1
    <3> QED
      BY <3>2, <3>3
  <2> QED
    BY <2>6, <2>7, <2>8
<1> QED
  BY <1>a, <1>2, <1>3, <1>5, <1>6, <1>8, <1>10, <1>11, <1>12

\* An eviction takes the first container of the list of the node.
LEMMA EvictTakesFirst ==
  ASSUME TypeInv, PhaseInv, Evict
  PROVE  /\ Req.ingress \in Nodes /\ cache[Req.ingress] # <<>>
         /\ cache[Req.ingress] \in Seq(Container)
         /\ cache' = [cache EXCEPT ![Req.ingress] = Tail(@)]
         /\ cache' \in [Nodes -> Seq(Container)]
         /\ \A n \in Nodes : Range(cache'[n]) \subseteq Range(cache[n])
         /\ mem' \in [Nodes -> Int] /\ \A n \in Nodes : mem'[n] <= MemBound
<1> DEFINE n == Req.ingress
           c == Head(cache[n])
<1>1. n \in Nodes
  BY CurrentRequest DEF Evict, PhaseInv
<1>2. /\ cache[n] # <<>> /\ cache' = [cache EXCEPT ![n] = Tail(@)]
      /\ mem' = [mem EXCEPT ![n] = GiveBack(@, 2 * Size[c.type])]
  BY DEF Evict
<1> HIDE DEF n
<1>3. cache[n] \in Seq(Container) /\ mem[n] \in Int
  BY <1>1 DEF TypeInv
<1>4. /\ c \in Container /\ Tail(cache[n]) \in Seq(Container)
      /\ Range(Tail(cache[n])) \subseteq Range(cache[n])
  BY <1>2, <1>3, HeadTailIs
<1>5. /\ cache' \in [Nodes -> Seq(Container)]
      /\ \A m \in Nodes : Range(cache'[m]) \subseteq Range(cache[m])
  <2>1. \A m \in Nodes \ {n} : cache'[m] = cache[m]
    BY <1>2 DEF TypeInv
  <2>2. cache'[n] = Tail(cache[n])
    BY <1>1, <1>2 DEF TypeInv
  <2>3. cache' \in [Nodes -> Seq(Container)]
    BY <1>1, <1>2, <1>4 DEF TypeInv
  <2> QED
    BY <1>4, <2>1, <2>2, <2>3
<1>6. 2 * Size[c.type] \in Int
  <2>1. c.type \in Types
    BY <1>4 DEF Container
  <2>2. Size[c.type] \in Int
    BY <2>1, LifetimeConstantsOK
  <2> QED
    BY <2>2
<1> HIDE DEF c
<1>7. mem' \in [Nodes -> Int] /\ \A m \in Nodes : mem'[m] <= MemBound
  <2>1. /\ GiveBack(mem[n], 2 * Size[c.type]) \in Int
        /\ GiveBack(mem[n], 2 * Size[c.type]) <= MemBound
    BY <1>3, <1>6, GiveBackBounded
  <2> QED
    BY <1>1, <1>2, <2>1 DEF TypeInv
<1> QED
  BY <1>1, <1>2, <1>3, <1>5, <1>7 DEF n

\* The end of the update empties the slices and may sort the caches.
LEMMA FinishUpdateSorts ==
  ASSUME TypeInv, FinishUpdate
  PROVE  /\ cache' \in [Nodes -> Seq(Container)]
         /\ active' = [n \in Nodes |-> [t \in Types |-> <<>>]]
         /\ active' \in [Nodes -> [Types -> Seq(Container)]]
         /\ \A n \in Nodes : /\ cache'[n] \in {cache[n], SortList(cache[n])}
                             /\ Range(cache'[n]) = Range(cache[n])
<1>1. ASSUME NEW n \in Nodes
      PROVE  /\ cache'[n] \in {cache[n], SortList(cache[n])} /\ cache'[n] \in Seq(Container)
             /\ Range(cache'[n]) = Range(cache[n])
  <2>1. cache'[n] \in {cache[n], SortList(cache[n])}
    BY DEF FinishUpdate
  <2>2. cache[n] \in Seq(Container)
    BY DEF TypeInv
  <2> QED
    BY <2>1, <2>2, SortListIs
<1>2. active' = [n \in Nodes |-> [t \in Types |-> <<>>]]
  BY DEF FinishUpdate
<1>3. cache' = [n \in Nodes |-> cache'[n]]
  BY DEF FinishUpdate
<1> QED
  BY <1>1, <1>2, <1>3, EmptySeq

\* The aging loop at an element: the list of the map is the beginning of its
\* slice, before and after the element has lost a slot.
LEMMA OlderIs ==
  ASSUME TypeInv, PhaseInv, pc = "age", k < Len(aged)
  PROVE  /\ at \in Caches /\ at[1] \in Nodes /\ at = <<at[1], 0>>
         /\ cache[at[1]] \in Seq(Container) /\ Len(cache[at[1]]) <= Len(aged)
         /\ DOMAIN aged = 1 .. Len(aged) /\ k + 1 \in 1 .. Len(aged)
         /\ aged[k + 1] \in Container
         /\ Older \in Seq(Container) /\ Len(Older) = Len(aged)
         /\ \A i \in 1 .. Len(aged) :
              Older[i] = IF i = k + 1 THEN MinusLife(aged[i]) ELSE aged[i]
         /\ SubSeq(Older, 1, Len(cache[at[1]])) \in Seq(Container)
         /\ Len(SubSeq(Older, 1, Len(cache[at[1]]))) = Len(cache[at[1]])
         /\ \A i \in 1 .. Len(cache[at[1]]) :
              SubSeq(Older, 1, Len(cache[at[1]]))[i]
                = IF i = k + 1 THEN MinusLife(cache[at[1]][i]) ELSE cache[at[1]][i]
<1>1. aged \in Seq(Container) /\ k \in Nat
  BY DEF TypeInv
<1>2. DOMAIN aged = 1 .. Len(aged) /\ Len(aged) \in Nat /\ k + 1 \in 1 .. Len(aged)
  BY <1>1, LenProperties
<1>3. at # Nowhere
  <2> SUFFICES ASSUME at = Nowhere PROVE FALSE
    OBVIOUS
  <2>1. aged = <<>>
    BY DEF PhaseInv
  <2> QED
    BY <1>1, <2>1
<1>4. /\ at \in Caches /\ at[1] \in Nodes /\ at = <<at[1], 0>>
      /\ Len(cache[at[1]]) <= Len(aged)
      /\ \A i \in DOMAIN cache[at[1]] : cache[at[1]][i] = aged[i]
  BY <1>3, PlacesApart DEF PhaseInv
<1>5. cache[at[1]] \in Seq(Container)
  BY <1>4 DEF TypeInv
<1>6. aged[k + 1] \in Container
  BY <1>1, <1>2, ElementOfSeq
<1>7. /\ Older \in Seq(Container) /\ Len(Older) = Len(aged)
      /\ \A i \in 1 .. Len(aged) :
           Older[i] = IF i = k + 1 THEN MinusLife(aged[i]) ELSE aged[i]
  <2>1. Older = [aged EXCEPT ![k + 1] = MinusLife(aged[k + 1])]
    BY DEF Older
  <2>2. MinusLife(aged[k + 1]) \in Container
    BY <1>6, MinusLifeIs
  <2>3. Older \in Seq(Container) /\ Len(Older) = Len(aged)
    BY <1>1, <1>2, <2>1, <2>2, ExceptSeq
  <2> QED
    BY <1>2, <2>1, <2>3
<1> DEFINE m == Len(cache[at[1]])
<1>8. m \in Nat /\ m <= Len(Older) /\ DOMAIN cache[at[1]] = 1 .. m
  BY <1>4, <1>5, <1>7, LenProperties
<1> HIDE DEF m, Older
<1>9. /\ SubSeq(Older, 1, m) \in Seq(Container) /\ Len(SubSeq(Older, 1, m)) = m
      /\ \A i \in 1 .. m : SubSeq(Older, 1, m)[i] = Older[i]
  BY <1>7, <1>8, PrefixIs
<1>10. \A i \in 1 .. m : SubSeq(Older, 1, m)[i]
                          = IF i = k + 1 THEN MinusLife(cache[at[1]][i]) ELSE cache[at[1]][i]
  <2>1. \A i \in 1 .. m : i \in 1 .. Len(aged)
    BY <1>2, <1>7, <1>8
  <2> QED
    BY <1>4, <1>7, <1>8, <1>9, <2>1
<1> QED
  BY <1>2, <1>4, <1>5, <1>6, <1>7, <1>9, <1>10 DEF m

\* The element at the index is kept.
LEMMA AgeIs ==
  ASSUME TypeInv, PhaseInv, Age
  PROVE  LET n == at[1]
             m == Len(cache[n])
         IN /\ cache' \in [Nodes -> Seq(Container)] /\ Len(cache'[n]) = m
            /\ \A o \in Nodes \ {n} : cache'[o] = cache[o]
            /\ \A i \in 1 .. m : cache'[n][i]
                 = IF i = k + 1 THEN MinusLife(cache[n][i]) ELSE cache[n][i]
            /\ aged' \in Seq(Container) /\ Len(aged') = Len(aged)
            /\ \A i \in 1 .. m : cache'[n][i] = aged'[i]
            /\ aged' = Older
<1> DEFINE n == at[1]
           m == Len(cache[n])
           p == SubSeq(Older, 1, m)
<1>1. pc = "age" /\ k < Len(aged)
  BY DEF Age
<1>2. /\ at[1] \in Nodes /\ cache[at[1]] \in Seq(Container) /\ Len(cache[at[1]]) <= Len(aged)
      /\ Older \in Seq(Container) /\ Len(Older) = Len(aged)
      /\ SubSeq(Older, 1, Len(cache[at[1]])) \in Seq(Container)
      /\ Len(SubSeq(Older, 1, Len(cache[at[1]]))) = Len(cache[at[1]])
      /\ \A i \in 1 .. Len(cache[at[1]]) :
           SubSeq(Older, 1, Len(cache[at[1]]))[i]
             = IF i = k + 1 THEN MinusLife(cache[at[1]][i]) ELSE cache[at[1]][i]
  BY <1>1, OlderIs
<1>3. cache' = [cache EXCEPT ![n] = p] /\ aged' = Older
  BY DEF Age
<1>4. m \in Nat /\ m <= Len(Older)
  BY <1>2, LenProperties
<1>5. n \in Nodes /\ cache[n] \in Seq(Container) /\ p \in Seq(Container) /\ Len(p) = m
      /\ \A i \in 1 .. m : p[i] = IF i = k + 1 THEN MinusLife(cache[n][i]) ELSE cache[n][i]
  BY <1>2
<1>6. \A i \in 1 .. m : p[i] = Older[i]
  BY <1>2, <1>4, PrefixIs
<1> HIDE DEF n, m, p, Older
<1>7. /\ cache' \in [Nodes -> Seq(Container)] /\ cache'[n] = p
      /\ \A o \in Nodes \ {n} : cache'[o] = cache[o]
  BY <1>3, <1>5 DEF TypeInv
<1>8. /\ cache' \in [Nodes -> Seq(Container)] /\ Len(cache'[n]) = m
      /\ \A o \in Nodes \ {n} : cache'[o] = cache[o]
      /\ \A i \in 1 .. m : cache'[n][i]
           = IF i = k + 1 THEN MinusLife(cache[n][i]) ELSE cache[n][i]
      /\ aged' \in Seq(Container) /\ Len(aged') = Len(aged)
      /\ \A i \in 1 .. m : cache'[n][i] = aged'[i]
      /\ aged' = Older
  BY <1>2, <1>3, <1>5, <1>6, <1>7
<1> QED
  BY <1>8 DEF n, m

\* It is deleted, and the list of the map is one shorter, unless it ended
\* before the index: the slice of the loop still shows the last elements twice.
LEMMA ExpireIs ==
  ASSUME TypeInv, PhaseInv, Expire
  PROVE  LET n == at[1]
             m == Len(cache[n])
             r == Len(cache'[n])
         IN /\ cache' \in [Nodes -> Seq(Container)]
            /\ \A o \in Nodes \ {n} : cache'[o] = cache[o]
            /\ k + 1 \in 1 .. m =>
                 /\ r = m - 1
                 /\ \A i \in 1 .. r :
                      cache'[n][i] = IF i < k + 1 THEN cache[n][i] ELSE cache[n][i + 1]
            /\ k + 1 \notin 1 .. m =>
                 /\ r = m
                 /\ \A i \in 1 .. r : cache'[n][i] = cache[n][i]
            /\ aged' \in Seq(Container) /\ Len(aged') = Len(aged) /\ r <= Len(aged)
            /\ \A i \in 1 .. r : cache'[n][i] = aged'[i]
            /\ \A i \in 1 .. Len(aged) : \E j \in 1 .. Len(aged) : aged'[i] = Older[j]
            /\ mem' \in [Nodes -> Int] /\ \A o \in Nodes : mem'[o] <= MemBound
<1> DEFINE n == at[1]
           m == Len(cache[n])
           p == SubSeq(Older, 1, m)
           rest == DeleteAt(p, k + 1)
           r == Len(rest)
           end == SubSeq(Older, r + 1, Len(aged))
           L == Len(aged)
<1>1. pc = "age" /\ k < Len(aged)
  BY DEF Expire, Expired
<1>2. /\ at[1] \in Nodes /\ cache[at[1]] \in Seq(Container) /\ Len(cache[at[1]]) <= Len(aged)
      /\ k + 1 \in 1 .. Len(aged)
      /\ Older \in Seq(Container) /\ Len(Older) = Len(aged)
      /\ SubSeq(Older, 1, Len(cache[at[1]])) \in Seq(Container)
      /\ Len(SubSeq(Older, 1, Len(cache[at[1]]))) = Len(cache[at[1]])
      /\ \A i \in 1 .. Len(cache[at[1]]) :
           SubSeq(Older, 1, Len(cache[at[1]]))[i]
             = IF i = k + 1 THEN MinusLife(cache[at[1]][i]) ELSE cache[at[1]][i]
  BY <1>1, OlderIs
<1>3. /\ cache' = [cache EXCEPT ![n] = rest] /\ aged' = rest \o end
      /\ mem' = [mem EXCEPT ![n] = GiveBack(@, Size[aged'[k + 1].type])]
  BY DEF Expire
<1>4. /\ n \in Nodes /\ m \in Nat /\ m <= L /\ L \in Nat /\ k \in Nat
      /\ p \in Seq(Container) /\ Len(p) = m /\ DOMAIN p = 1 .. m
      /\ \A i \in 1 .. m : p[i] = IF i = k + 1 THEN MinusLife(cache[n][i]) ELSE cache[n][i]
      /\ Older \in Seq(Container) /\ Len(Older) = L
  BY <1>2, LenProperties DEF TypeInv
<1>5. \A i \in 1 .. m : p[i] = Older[i]
  BY <1>2, <1>4, PrefixIs
<1> HIDE DEF n, m, p, Older, L
<1>6. /\ rest \in Seq(Container) /\ r \in Nat /\ r <= m
      /\ k + 1 \in 1 .. m =>
           /\ r = m - 1
           /\ \A i \in 1 .. r : rest[i] = IF i < k + 1 THEN p[i] ELSE p[i + 1]
      /\ k + 1 \notin 1 .. m => r = m /\ \A i \in 1 .. r : rest[i] = p[i]
  <2>1. CASE k + 1 \in 1 .. m
    <3>1. /\ DeleteAt(p, k + 1) \in Seq(Container)
          /\ Len(DeleteAt(p, k + 1)) = Len(p) - 1
          /\ \A i \in 1 .. Len(p) - 1 :
               DeleteAt(p, k + 1)[i] = IF i < k + 1 THEN p[i] ELSE p[i + 1]
      <4>1. k + 1 \in DOMAIN p
        BY <1>4, <2>1
      <4> QED
        BY <1>4, <4>1, DeleteAtProperties
    <3>2. r = m - 1 /\ Len(p) - 1 = r
      BY <1>4, <3>1
    <3>3. r \in Nat /\ r <= m
      BY <1>4, <2>1, <3>2
    <3> HIDE DEF r
    <3> QED
      BY <2>1, <3>1, <3>2, <3>3
  <2>2. CASE k + 1 \notin 1 .. m
    <3>1. rest = p
      BY <1>4, <2>2 DEF DeleteAt
    <3> QED
      BY <1>4, <2>2, <3>1
  <2> QED
    BY <2>1, <2>2
<1>7. /\ k + 1 \in 1 .. m =>
           \A i \in 1 .. r : rest[i] = IF i < k + 1 THEN cache[n][i] ELSE cache[n][i + 1]
      /\ k + 1 \notin 1 .. m => \A i \in 1 .. r : rest[i] = cache[n][i]
      /\ \A i \in 1 .. r : \E j \in 1 .. L : rest[i] = Older[j]
  <2>1. CASE k + 1 \in 1 .. m
    <3>1. ASSUME NEW i \in 1 .. r
          PROVE  /\ rest[i] = IF i < k + 1 THEN cache[n][i] ELSE cache[n][i + 1]
                 /\ \E j \in 1 .. L : rest[i] = Older[j]
      <4>1. i \in 1 .. m /\ i + 1 \in 1 .. m
        BY <1>4, <1>6, <2>1
      <4>2. i \in 1 .. L /\ i + 1 \in 1 .. L
        BY <1>4, <4>1
      <4>3. i < k + 1 => i # k + 1
        BY <1>4, <4>1
      <4>4. ~ (i < k + 1) => i + 1 # k + 1
        BY <1>4, <4>1
      <4> QED
        BY <1>4, <1>5, <1>6, <2>1, <4>1, <4>2, <4>3, <4>4
    <3> QED
      BY <2>1, <3>1
  <2>2. CASE k + 1 \notin 1 .. m
    <3>1. ASSUME NEW i \in 1 .. r
          PROVE  rest[i] = cache[n][i] /\ \E j \in 1 .. L : rest[i] = Older[j]
      <4>1. i \in 1 .. m /\ i \in 1 .. L /\ i # k + 1
        BY <1>4, <1>6, <2>2
      <4> QED
        BY <1>4, <1>5, <1>6, <2>2, <4>1
    <3> QED
      BY <2>2, <3>1
  <2> QED
    BY <2>1, <2>2
<1> HIDE DEF rest, r
<1>8. /\ end \in Seq(Container) /\ Len(end) = L - r
      /\ \A i \in 1 .. L - r : end[i] = Older[r + i]
  <2>1. r + 1 \in 1 .. L + 1 /\ r \in Nat /\ r <= L
    BY <1>4, <1>6
  <2> QED
    BY <1>4, <2>1 DEF L
<1> HIDE DEF end
<1>9. /\ aged' \in Seq(Container) /\ Len(aged') = L
      /\ \A i \in 1 .. L : aged'[i] = IF i <= r THEN rest[i] ELSE end[i - r]
  <2>0. Len(rest) = r
    BY DEF r
  <2>1. /\ aged' \in Seq(Container) /\ Len(aged') = r + Len(end)
        /\ \A i \in 1 .. r + Len(end) : aged'[i] = IF i <= r THEN rest[i] ELSE end[i - r]
    <3>1. rest \o end \in Seq(Container) /\ Len(rest \o end) = Len(rest) + Len(end)
      BY <1>6, <1>8, ConcatProperties
    <3>2. \A i \in 1 .. Len(rest) + Len(end) :
            (rest \o end)[i] = IF i <= Len(rest) THEN rest[i] ELSE end[i - Len(rest)]
      BY <1>6, <1>8, ConcatProperties
    <3> QED
      BY <1>3, <2>0, <3>1, <3>2
  <2>2. r + Len(end) = L
    BY <1>4, <1>6, <1>8
  <2> QED
    BY <2>1, <2>2
<1>10. ASSUME NEW i \in 1 .. L
       PROVE  \E j \in 1 .. L : aged'[i] = Older[j]
  <2>1. CASE i <= r
    <3>1. i \in 1 .. r
      BY <1>4, <1>6, <2>1
    <3> QED
      BY <1>7, <1>9, <2>1, <3>1
  <2>2. CASE ~ (i <= r)
    <3>1. i - r \in 1 .. L - r /\ r + (i - r) = i
      BY <1>4, <1>6, <2>2
    <3>2. aged'[i] = Older[r + (i - r)]
      BY <1>8, <1>9, <2>2, <3>1
    <3> QED
      BY <3>1, <3>2
  <2> QED
    BY <2>1, <2>2
<1>11. /\ cache' \in [Nodes -> Seq(Container)] /\ cache'[n] = rest
       /\ \A o \in Nodes \ {n} : cache'[o] = cache[o]
  BY <1>3, <1>4, <1>6 DEF TypeInv
<1>12. \A i \in 1 .. r : rest[i] = aged'[i]
  <2>1. \A i \in 1 .. r : i \in 1 .. L /\ i <= r
    BY <1>4, <1>6
  <2> QED
    BY <1>9, <2>1
<1>13. mem' \in [Nodes -> Int] /\ \A o \in Nodes : mem'[o] <= MemBound
  <2>1. k + 1 \in 1 .. L
    BY <1>2 DEF L
  <2>2. aged'[k + 1] \in Container
    BY <1>9, <2>1, ElementOfSeq
  <2>3. aged'[k + 1].type \in Types
    BY <2>2 DEF Container
  <2>4. Size[aged'[k + 1].type] \in Int /\ mem[n] \in Int
    BY <1>4, <2>3, LifetimeConstantsOK DEF TypeInv
  <2>5. /\ GiveBack(mem[n], Size[aged'[k + 1].type]) \in Int
        /\ GiveBack(mem[n], Size[aged'[k + 1].type]) <= MemBound
    BY <2>4, GiveBackBounded
  <2> QED
    BY <1>3, <1>4, <2>5 DEF TypeInv
<1>14. Len(cache'[n]) = r /\ Len(aged) = L /\ r <= L
  BY <1>4, <1>6, <1>11 DEF r, L
<1>15. /\ k + 1 \in 1 .. m =>
            /\ Len(cache'[n]) = m - 1
            /\ \A i \in 1 .. Len(cache'[n]) :
                 cache'[n][i] = IF i < k + 1 THEN cache[n][i] ELSE cache[n][i + 1]
       /\ k + 1 \notin 1 .. m =>
            /\ Len(cache'[n]) = m
            /\ \A i \in 1 .. Len(cache'[n]) : cache'[n][i] = cache[n][i]
       /\ \A i \in 1 .. Len(cache'[n]) : cache'[n][i] = aged'[i]
  BY <1>6, <1>7, <1>11, <1>12, <1>14
<1>16. /\ aged' \in Seq(Container) /\ Len(aged') = Len(aged) /\ Len(cache'[n]) <= Len(aged)
       /\ \A i \in 1 .. Len(aged) : \E j \in 1 .. Len(aged) : aged'[i] = Older[j]
  BY <1>9, <1>10, <1>14
<1> QED
  BY <1>11, <1>13, <1>15, <1>16 DEF n, m

\* The next list starts with another slot of idleness for its containers.
LEMMA NextCacheIs ==
  ASSUME TypeInv, PhaseInv, NextCache
  PROVE  /\ at' \in Caches /\ at' \in left /\ at'[1] \in Nodes /\ at' = <<at'[1], 0>>
         /\ cache' \in [Nodes -> Seq(Container)] /\ aged' = cache'[at'[1]]
         /\ Len(aged') = Len(cache[at'[1]])
         /\ \A i \in 1 .. Len(aged') :
              aged'[i] = [cache[at'[1]][i] EXCEPT !.idle = @ + 1]
         /\ \A o \in Nodes : o # at'[1] => cache'[o] = cache[o]
<1>1. PICK s \in left :
        /\ at' = s
        /\ aged' = [i \in DOMAIN cache[s[1]] |-> [cache[s[1]][i] EXCEPT !.idle = @ + 1]]
        /\ cache' = [cache EXCEPT ![s[1]] = aged']
  BY DEF NextCache
<1>2. s \in Caches /\ s[1] \in Nodes /\ s = <<s[1], 0>>
  BY PlacesApart DEF PhaseInv, NextCache
<1>3. cache[s[1]] \in Seq(Container)
  BY <1>2 DEF TypeInv
<1>4. DOMAIN cache[s[1]] = 1 .. Len(cache[s[1]]) /\ Len(cache[s[1]]) \in Nat
  BY <1>3, LenProperties
<1>5. ASSUME NEW i \in 1 .. Len(cache[s[1]])
      PROVE  [cache[s[1]][i] EXCEPT !.idle = @ + 1] \in Container
  <2>1. cache[s[1]][i] \in Container
    BY <1>3, <1>5, ElementOfSeq
  <2> QED
    BY <2>1 DEF Container
<1>6. aged' \in [1 .. Len(cache[s[1]]) -> Container]
  BY <1>1, <1>4, <1>5
<1>7. aged' \in Seq(Container) /\ Len(aged') = Len(cache[s[1]])
  BY <1>4, <1>6, IsASeq
<1>8. /\ cache' \in [Nodes -> Seq(Container)] /\ cache'[s[1]] = aged'
      /\ \A o \in Nodes : o # s[1] => cache'[o] = cache[o]
  BY <1>1, <1>2, <1>7 DEF TypeInv
<1>9. \A i \in 1 .. Len(aged') : aged'[i] = [cache[s[1]][i] EXCEPT !.idle = @ + 1]
  BY <1>1, <1>4, <1>7
<1> QED
  BY <1>1, <1>2, <1>7, <1>8, <1>9

-----------------------------------------------------------------------------
(* Types and phases.                                                       *)

LEMMA TypePhaseInit == Init => TypeInv /\ PhaseInv
<1> SUFFICES ASSUME Init PROVE TypeInv /\ PhaseInv
  OBVIOUS
<1>1. NodeNum \in Nat \ {0} /\ TypeNum \in Nat \ {0} /\ MemCap \in Nat /\ MemCap <= MemBound
  BY LifetimeConstantsOK
<1>2. << >> \in Seq(Request) /\ << >> \in Seq(Container)
  BY EmptySeq
<1>3. /\ active \in [Nodes -> [Types -> Seq(Container)]]
      /\ cache \in [Nodes -> Seq(Container)]
      /\ mem \in [Nodes -> Int] /\ freq \in [Types -> Int]
      /\ \A n \in Nodes : mem[n] <= MemBound
  BY <1>1, <1>2 DEF Init
<1>4. TypeInv
  BY <1>2, <1>3 DEF Init, TypeInv
<1>5. PhaseInv
  BY DEF Init, PhaseInv
<1> QED
  BY <1>4, <1>5

LEMMA BatchesAreRequests ==
  \A b \in Batches : b \in Seq(Request)
<1> SUFFICES ASSUME NEW b \in Batches PROVE b \in Seq(Request)
  OBVIOUS
<1>1. \A t \in Types, n \in Nodes : FreshRequest(t, n) \in Request
  <2>1. 0 \in Nodes
    BY LifetimeConstantsOK DEF Nodes
  <2> QED
    BY <2>1 DEF FreshRequest, Request
<1>2. PICK m \in 1 .. MaxRequests :
        b \in [1 .. m -> {FreshRequest(t, n) : t \in Types, n \in Nodes}]
  BY DEF Batches
<1>3. b \in [1 .. m -> Request] /\ m \in Nat
  BY <1>1, <1>2, LifetimeConstantsOK
<1> QED
  BY <1>3, SeqDef

LEMMA TypeInvStep == TypeInv /\ PhaseInv /\ [Next]_vars => TypeInv'
<1> SUFFICES ASSUME TypeInv, PhaseInv, [Next]_vars PROVE TypeInv'
  OBVIOUS
<1> USE DEF requests, books, lists, loops
<1>1. CASE UNCHANGED vars
  BY <1>1 DEF vars, TypeInv
<1>2. CASE StartSlot
  BY <1>2, BatchesAreRequests DEF StartSlot, TypeInv
<1>3. CASE Finish
  BY <1>3 DEF Finish, TypeInv
<1>4. CASE PlaceToCurrent
  <2>1. Taken /\ freq' \in [Types -> Int] /\ reqs' \in Seq(Request) /\ cur' \in Nat \ {0}
    BY <1>4, PlaceToCurrentTakes
  <2>2. cache' \in [Nodes -> Seq(Container)] /\ active' \in [Nodes -> [Types -> Seq(Container)]]
    BY <2>1, TakenKeeps
  <2> QED
    BY <1>4, <2>1, <2>2 DEF PlaceToCurrent, TypeInv
<1>5. CASE DeployToNeighbour
  <2>1. Taken /\ freq' \in [Types -> Int] /\ reqs' \in Seq(Request) /\ cur' \in Nat \ {0}
    BY <1>5, DeployToNeighbourTakes
  <2>2. cache' \in [Nodes -> Seq(Container)] /\ active' \in [Nodes -> [Types -> Seq(Container)]]
    BY <2>1, TakenKeeps
  <2> QED
    BY <1>5, <2>1, <2>2 DEF DeployToNeighbour, TypeInv
<1>6. CASE CreateToCurrent \/ PlaceNew
  <2>1. cur <= Len(reqs) /\ CreateContainer
    BY <1>6 DEF CreateToCurrent, PlaceNew, Deploying, PhaseInv
  <2>2. /\ active' \in [Nodes -> [Types -> Seq(Container)]]
        /\ services' \subseteq Types \X (1 .. count')
        /\ mem' \in [Nodes -> Int] /\ \A n \in Nodes : mem'[n] <= MemBound
        /\ reqs' \in Seq(Request) /\ cur' \in Nat \ {0}
        /\ count' \in Nat /\ freq' \in [Types -> Int]
    BY <2>1, CreateType
  <2>3. /\ UNCHANGED <<variant, slot, cache, cacheKeys, leaked, left, at, aged, k>>
        /\ pc' \in {pc, "deploy"}
    BY <1>6, <2>1 DEF CreateToCurrent, PlaceNew, CreateContainer
  <2> QED
    BY <2>2, <2>3 DEF TypeInv
<1>7. CASE MakeRoom
  BY <1>7 DEF MakeRoom, TypeInv
<1>8. CASE Evict
  <2>1. /\ cache' \in [Nodes -> Seq(Container)]
        /\ mem' \in [Nodes -> Int] /\ \A n \in Nodes : mem'[n] <= MemBound
    BY <1>8, EvictTakesFirst
  <2>2. services' \subseteq services
    BY <1>8 DEF Evict
  <2> QED
    BY <1>8, <2>1, <2>2 DEF Evict, TypeInv
<1>9. CASE Refuse
  BY <1>9 DEF Refuse, TypeInv
<1>10. CASE SendResults
  <2>1. left' \subseteq Caches
    BY <1>10 DEF SendResults, TypeInv, Caches
  <2> QED
    BY <1>10, <2>1 DEF SendResults, TypeInv
<1>11. CASE NextCache
  <2>1. /\ at' \in Caches /\ cache' \in [Nodes -> Seq(Container)] /\ aged' = cache'[at'[1]]
        /\ at'[1] \in Nodes
    BY <1>11, NextCacheIs
  <2>2. left' \subseteq left /\ k' = 0
    BY <1>11 DEF NextCache
  <2> QED
    BY <1>11, <2>1, <2>2 DEF NextCache, TypeInv
<1>12. CASE Age
  <2>1. cache' \in [Nodes -> Seq(Container)] /\ aged' \in Seq(Container)
    BY <1>12, AgeIs
  <2> QED
    BY <1>12, <2>1 DEF Age, TypeInv
<1>13. CASE Expire
  <2>1. /\ cache' \in [Nodes -> Seq(Container)] /\ aged' \in Seq(Container)
        /\ mem' \in [Nodes -> Int] /\ \A o \in Nodes : mem'[o] <= MemBound
    BY <1>13, ExpireIs
  <2>2. services' \subseteq services /\ k' \in Nat
    <3>1. Len(aged) \in Nat
      BY LenProperties DEF TypeInv
    <3> QED
      BY <1>13, <3>1 DEF Expire, StepBack, TypeInv
  <2> QED
    BY <1>13, <2>1, <2>2 DEF Expire, TypeInv
<1>14. CASE EndAging
  <2>1. left' \subseteq Slices /\ aged' \in Seq(Container)
    BY <1>14, EmptySeq DEF EndAging, Slices
  <2> QED
    BY <1>14, <2>1 DEF EndAging, TypeInv
<1>15. CASE NextSlice
  BY <1>15 DEF NextSlice, TypeInv
<1>16. CASE CacheActive
  <2>1. /\ cache' \in [Nodes -> Seq(Container)]
        /\ active' \in [Nodes -> [Types -> Seq(Container)]]
        /\ cacheKeys' \subseteq Nodes /\ freq' \in [Types -> Int]
    BY <1>16, CacheActiveMoves
  <2> QED
    BY <1>16, <2>1 DEF CacheActive, TypeInv
<1>17. CASE FinishUpdate
  <2>1. /\ cache' \in [Nodes -> Seq(Container)]
        /\ active' \in [Nodes -> [Types -> Seq(Container)]]
    BY <1>17, FinishUpdateSorts
  <2> QED
    BY <1>17, <2>1, EmptySeq DEF FinishUpdate, TypeInv
<1>18. CASE WaitForSignal
  BY <1>18 DEF WaitForSignal, vars, TypeInv
<1> QED
  BY <1>1, <1>2, <1>3, <1>4, <1>5, <1>6, <1>7, <1>8, <1>9, <1>10, <1>11, <1>12, <1>13,
     <1>14, <1>15, <1>16, <1>17, <1>18 DEF Next, Deploy, UpdateCache

LEMMA PhaseInvStep == TypeInv /\ PhaseInv /\ [Next]_vars => PhaseInv'
<1> SUFFICES ASSUME TypeInv, PhaseInv, [Next]_vars PROVE PhaseInv'
  OBVIOUS
<1> USE DEF requests, books, lists, loops
<1>1. CASE UNCHANGED vars
  BY <1>1 DEF vars, PhaseInv, FixedCaching
<1>2. CASE StartSlot \/ Finish
  BY <1>2 DEF StartSlot, Finish, PhaseInv, FixedCaching
<1>3. CASE PlaceToCurrent \/ DeployToNeighbour \/ CreateToCurrent \/ MakeRoom
  BY <1>3 DEF PlaceToCurrent, DeployToNeighbour, CreateToCurrent, CreateContainer, MakeRoom,
              Deploying, PhaseInv, FixedCaching
<1>4. CASE PlaceNew \/ Evict \/ Refuse
  BY <1>4 DEF PlaceNew, CreateContainer, Evict, Refuse, PhaseInv, FixedCaching
<1>5. CASE SendResults
  <2>1. left' \subseteq Caches /\ pc' = "age" /\ UNCHANGED <<at, aged>> /\ pc = "deploy"
    BY <1>5 DEF SendResults, TypeInv, Caches
  <2> QED
    BY <2>1 DEF PhaseInv
<1>6. CASE NextCache
  <2>1. /\ at' \in Caches /\ at' # Nowhere /\ aged' = cache'[at'[1]]
        /\ cache' \in [Nodes -> Seq(Container)] /\ at'[1] \in Nodes
    BY <1>6, NextCacheIs, PlacesApart
  <2>2. Len(cache'[at'[1]]) <= Len(aged')
    <3>1. Len(cache'[at'[1]]) \in Nat
      BY <2>1, LenProperties
    <3> QED
      BY <2>1, <3>1
  <2>3. left' \subseteq left /\ pc' = "age" /\ pc = "age"
    BY <1>6 DEF NextCache
  <2> QED
    BY <2>1, <2>2, <2>3 DEF PhaseInv
<1>7. CASE Age
  <2>1. /\ pc = "age" /\ k < Len(aged) /\ UNCHANGED <<pc, left, at>>
    BY <1>7 DEF Age
  <2>2. at \in Caches /\ at # Nowhere /\ at[1] \in Nodes /\ Len(cache[at[1]]) <= Len(aged)
    BY <2>1, OlderIs, PlacesApart
  <2>3. /\ cache' \in [Nodes -> Seq(Container)] /\ Len(cache'[at[1]]) = Len(cache[at[1]])
        /\ Len(aged') = Len(aged)
        /\ \A i \in 1 .. Len(cache[at[1]]) : cache'[at[1]][i] = aged'[i]
    BY <1>7, AgeIs
  <2>4. DOMAIN cache'[at[1]] = 1 .. Len(cache[at[1]])
    BY <2>2, <2>3, LenProperties
  <2> QED
    BY <2>1, <2>2, <2>3, <2>4 DEF PhaseInv
<1>8. CASE Expire
  <2>1. /\ pc = "age" /\ k < Len(aged) /\ UNCHANGED <<pc, left, at>>
    BY <1>8 DEF Expire, Expired
  <2>2. at \in Caches /\ at # Nowhere /\ at[1] \in Nodes
    BY <2>1, OlderIs, PlacesApart
  <2>3. /\ cache' \in [Nodes -> Seq(Container)]
        /\ Len(aged') = Len(aged) /\ Len(cache'[at[1]]) <= Len(aged)
        /\ \A i \in 1 .. Len(cache'[at[1]]) : cache'[at[1]][i] = aged'[i]
    BY <1>8, ExpireIs
  <2>4. DOMAIN cache'[at[1]] = 1 .. Len(cache'[at[1]])
    BY <2>2, <2>3, LenProperties
  <2> QED
    BY <2>1, <2>2, <2>3, <2>4 DEF PhaseInv
<1>9. CASE EndAging
  <2>1. left' \subseteq Slices /\ pc' = "update" /\ at' = Nowhere /\ aged' = <<>>
    BY <1>9 DEF EndAging, Slices
  <2> QED
    BY <2>1 DEF PhaseInv
<1>10. CASE NextSlice \/ CacheActive \/ FinishUpdate
  BY <1>10 DEF NextSlice, CacheActive, FinishUpdate, PhaseInv
<1>11. CASE WaitForSignal
  BY <1>11 DEF WaitForSignal, vars, PhaseInv, FixedCaching
<1> QED
  BY <1>1, <1>2, <1>3, <1>4, <1>5, <1>6, <1>7, <1>8, <1>9, <1>10, <1>11
  DEF Next, Deploy, UpdateCache

-----------------------------------------------------------------------------
(* Lifetimes.                                                              *)

LEMMA ShownAre ==
  ASSUME TypeInv
  PROVE  /\ Shown \subseteq Container
         /\ \A n \in Nodes : \A i \in DOMAIN cache[n] : cache[n][i] \in Cached
         /\ \A c \in Cached : \E n \in Nodes : \E i \in DOMAIN cache[n] : c = cache[n][i]
<1>1. ASSUME NEW n \in Nodes
      PROVE  Range(cache[n]) \subseteq Container
  <2>1. cache[n] \in Seq(Container)
    BY DEF TypeInv
  <2> QED
    BY <2>1, LenProperties, ElementOfSeq DEF Range
<1>2. ASSUME NEW s \in Slices
      PROVE  Range(active[s[1]][s[2]]) \subseteq Container
  <2>1. active[s[1]][s[2]] \in Seq(Container)
    BY PlacesApart DEF TypeInv
  <2> QED
    BY <2>1, LenProperties, ElementOfSeq DEF Range
<1> QED
  BY <1>1, <1>2 DEF Shown, Cached, InUse, Range

\* c is a container that was shown before, or a new one; it is not younger.
Follows(c) ==
  \/ c.life = LifeTime /\ c.idle = 0
  \/ \E d \in Shown : c.life = d.life /\ c.idle = d.idle

\* But for the aging loop, no step makes a container older.
LEMMA NothingAges ==
  ASSUME TypeInv, PhaseInv, [Next]_vars, ~NextCache, ~Age, ~Expire
  PROVE  /\ \A c \in Shown' : Follows(c)
         /\ aged' = aged \/ aged' = <<>>
<1> USE DEF requests, books, lists, loops
<1>1. CASE UNCHANGED <<cache, active>> /\ (aged' = aged \/ aged' = <<>>)
  BY <1>1 DEF Follows, Shown, Cached, InUse
<1>2. CASE PlaceToCurrent \/ DeployToNeighbour
  <2>1. Taken
    BY <1>2, PlaceToCurrentTakes, DeployToNeighbourTakes
  <2>2. \A n \in Nodes :
          /\ Range(cache'[n]) \subseteq Range(cache[n])
          /\ \A t \in Types : Range(active'[n][t])
                                \subseteq Range(active[n][t]) \cup Range(cache[n])
    BY <2>1, TakenKeeps
  <2>3. Shown' \subseteq Shown
    <3>1. Cached' \subseteq Shown
      BY <2>2 DEF Shown, Cached
    <3>2. ASSUME NEW s \in Slices
          PROVE  Range(active'[s[1]][s[2]]) \subseteq Shown
      <4>1. s[1] \in Nodes /\ s[2] \in Types
        BY PlacesApart
      <4>2. Range(active'[s[1]][s[2]]) \subseteq Range(active[s[1]][s[2]]) \cup Range(cache[s[1]])
        BY <2>2, <4>1
      <4> QED
        BY <4>1, <4>2 DEF Shown, Cached, InUse
    <3>3. InUse' \subseteq Shown
      BY <3>2 DEF InUse
    <3> QED
      BY <3>1, <3>3 DEF Shown
  <2> QED
    BY <1>2, <2>3 DEF Follows, PlaceToCurrent, DeployToNeighbour
<1>3. CASE CreateToCurrent \/ PlaceNew
  <2>1. cur <= Len(reqs) /\ CreateContainer
    BY <1>3 DEF CreateToCurrent, PlaceNew, Deploying, PhaseInv
  <2>2. PICK c \in Container :
          /\ c.life = LifeTime /\ c.idle = 0
          /\ active' = [active EXCEPT ![Req.ingress][Req.type] = Append(@, c)]
    BY <2>1, CreateType
  <2>3. cache' = cache /\ aged' = aged
    BY <2>1 DEF CreateContainer
  <2>4. Req.type \in Types /\ Req.ingress \in Nodes
    BY <2>1, CurrentRequest
  <2>5. ASSUME NEW s \in Slices
        PROVE  Range(active'[s[1]][s[2]]) \subseteq Shown \cup {c}
    <3> DEFINE n == Req.ingress
               t == Req.type
    <3>1. s[1] \in Nodes /\ s[2] \in Types /\ n \in Nodes /\ t \in Types
      BY <2>4, PlacesApart
    <3>2. active' = [active EXCEPT ![n][t] = Append(@, c)]
      BY <2>2
    <3> HIDE DEF n, t
    <3>3. active[n][t] \in Seq(Container) /\ active \in [Nodes -> [Types -> Seq(Container)]]
      BY <3>1 DEF TypeInv
    <3>4. Range(Append(active[n][t], c)) = Range(active[n][t]) \cup {c}
      BY <3>3, AppendIs
    <3>5. CASE s[1] = n /\ s[2] = t
      <4>1. active'[s[1]][s[2]] = Append(active[n][t], c)
        BY <3>1, <3>2, <3>3, <3>5
      <4> QED
        BY <3>4, <3>5, <4>1 DEF Shown, InUse
    <3>6. CASE ~ (s[1] = n /\ s[2] = t)
      <4>1. active'[s[1]][s[2]] = active[s[1]][s[2]]
        BY <3>1, <3>2, <3>3, <3>6
      <4> QED
        BY <4>1 DEF Shown, InUse
    <3> QED
      BY <3>5, <3>6
  <2>6. Shown' \subseteq Shown \cup {c}
    BY <2>3, <2>5 DEF Shown, Cached, InUse
  <2> QED
    BY <2>2, <2>3, <2>6 DEF Follows
<1>4. CASE Evict
  <2>1. \A n \in Nodes : Range(cache'[n]) \subseteq Range(cache[n])
    BY <1>4, EvictTakesFirst
  <2>2. active' = active /\ aged' = aged
    BY <1>4 DEF Evict
  <2>3. Shown' \subseteq Shown
    BY <2>1, <2>2 DEF Shown, Cached, InUse
  <2> QED
    BY <2>2, <2>3 DEF Follows
<1>5. CASE CacheActive
  <2>1. PICK d \in Container, c \in InUse :
          /\ d.life = c.life /\ d.idle = c.idle /\ d.node \in Nodes
          /\ cache' = [cache EXCEPT ![d.node] = SortList(Append(@, d))]
          /\ Range(cache'[d.node]) = Range(cache[d.node]) \cup {d}
          /\ \A s \in Slices : Range(active'[s[1]][s[2]]) \subseteq Range(active[s[1]][s[2]])
    BY <1>5, CacheActiveMoves
  <2>2. \A n \in Nodes : n # d.node => cache'[n] = cache[n]
    BY <2>1 DEF TypeInv
  <2>3. Cached' \subseteq Cached \cup {d} /\ InUse' \subseteq InUse
    BY <2>1, <2>2 DEF Cached, InUse
  <2> QED
    BY <1>5, <2>1, <2>3 DEF Follows, Shown, CacheActive
<1>6. CASE FinishUpdate
  <2>1. /\ \A n \in Nodes : Range(cache'[n]) = Range(cache[n])
        /\ active' = [n \in Nodes |-> [t \in Types |-> <<>>]]
    BY <1>6, FinishUpdateSorts
  <2>2. \A s \in Slices : Range(active'[s[1]][s[2]]) = {}
    BY <2>1, PlacesApart DEF Range
  <2>3. Shown' \subseteq Shown
    BY <2>1, <2>2 DEF Shown, Cached, InUse
  <2> QED
    BY <1>6, <2>3 DEF Follows, FinishUpdate
<1>7. CASE StartSlot \/ Finish \/ MakeRoom \/ Refuse \/ SendResults \/ EndAging \/ NextSlice
             \/ WaitForSignal \/ UNCHANGED vars
  BY <1>1, <1>7 DEF StartSlot, Finish, MakeRoom, Refuse, SendResults, EndAging, NextSlice,
                    WaitForSignal, vars
<1> QED
  BY <1>2, <1>3, <1>4, <1>5, <1>6, <1>7 DEF Next, Deploy, UpdateCache

LEMMA LifeInvInit == Init => LifeInv
<1> SUFFICES ASSUME Init PROVE LifeInv
  OBVIOUS
<1>1. cache = [n \in Nodes |-> <<>>] /\ active = [n \in Nodes |-> [t \in Types |-> <<>>]]
  BY DEF Init
<1>2. \A n \in Nodes : Range(cache[n]) = {}
  BY <1>1 DEF Range
<1>3. \A s \in Slices : Range(active[s[1]][s[2]]) = {}
  BY <1>1, PlacesApart DEF Range
<1>4. Shown = {} /\ aged = <<>>
  BY <1>2, <1>3 DEF Shown, Cached, InUse, Init
<1> QED
  BY <1>4 DEF LifeInv

\* The lists after a step of aging that only touches the list it is at.
LEMMA OnlyListChanges ==
  ASSUME TypeInv, NEW n \in Nodes, cache' \in [Nodes -> Seq(Container)],
         \A o \in Nodes \ {n} : cache'[o] = cache[o], active' = active
  PROVE  Shown' \subseteq Shown \cup {cache'[n][i] : i \in DOMAIN cache'[n]}
<1>1. Range(cache'[n]) = {cache'[n][i] : i \in DOMAIN cache'[n]}
  BY DEF Range
<1>2. \A o \in Nodes : o # n => Range(cache'[o]) = Range(cache[o])
  OBVIOUS
<1>3. Cached' \subseteq Cached \cup Range(cache'[n])
  BY <1>2 DEF Cached
<1>4. InUse' = InUse
  BY DEF InUse
<1> QED
  BY <1>1, <1>3, <1>4 DEF Shown

\* A list shows no container whose lifetime is over.
LEMMA LifeInvStep == TypeInv /\ PhaseInv /\ LifeInv /\ [Next]_vars => LifeInv'
<1> SUFFICES ASSUME TypeInv, PhaseInv, LifeInv, [Next]_vars PROVE LifeInv'
  OBVIOUS
<1>0. LifeTime \in Nat \ {0} /\ LifeTime \in 1 .. LifeTime
  BY LifetimeConstantsOK
<1>1. CASE ~NextCache /\ ~Age /\ ~Expire
  <2>1. (\A c \in Shown' : Follows(c)) /\ (aged' = aged \/ aged' = <<>>)
    BY <1>1, NothingAges
  <2>2. \A c \in Shown' : c.life \in 1 .. LifeTime
    BY <1>0, <2>1 DEF LifeInv, Follows
  <2> QED
    BY <2>1, <2>2 DEF LifeInv
<1>2. CASE NextCache
  <2> DEFINE n == at'[1]
  <2>1. /\ n \in Nodes /\ cache' \in [Nodes -> Seq(Container)] /\ aged' = cache'[n]
        /\ Len(aged') = Len(cache[n])
        /\ \A i \in 1 .. Len(aged') : aged'[i] = [cache[n][i] EXCEPT !.idle = @ + 1]
        /\ \A o \in Nodes : o # n => cache'[o] = cache[o]
    BY <1>2, NextCacheIs
  <2> HIDE DEF n
  <2>2. active' = active
    BY <1>2 DEF NextCache, lists
  <2>3. cache[n] \in Seq(Container) /\ cache'[n] \in Seq(Container)
    BY <2>1 DEF TypeInv
  <2>4. DOMAIN cache[n] = 1 .. Len(cache[n]) /\ DOMAIN cache'[n] = 1 .. Len(cache[n])
    BY <2>1, <2>3, LenProperties
  <2>5. ASSUME NEW i \in DOMAIN cache'[n]
        PROVE  cache'[n][i].life \in 1 .. LifeTime
    <3>1. i \in DOMAIN cache[n] /\ cache[n][i] \in Container
      BY <2>3, <2>4, ElementOfSeq
    <3>2. cache'[n][i].life = cache[n][i].life
      BY <2>1, <2>4, <3>1 DEF Container
    <3> QED
      BY <2>1, <3>1, <3>2, ShownAre DEF LifeInv, Shown
  <2>6. Shown' \subseteq Shown \cup {cache'[n][i] : i \in DOMAIN cache'[n]}
    BY <2>1, <2>2, OnlyListChanges
  <2>7. \A j \in 1 .. LifeTime : j \in 0 .. LifeTime
    BY <1>0
  <2> QED
    BY <2>1, <2>5, <2>6, <2>7 DEF LifeInv
<1>3. CASE Age \/ Expire
  <2> DEFINE n == at[1]
             m == Len(cache[n])
  <2>1. pc = "age" /\ k < Len(aged) /\ active' = active
    BY <1>3 DEF Age, Expire, Expired, lists
  <2>2. /\ n \in Nodes /\ cache[n] \in Seq(Container)
        /\ DOMAIN aged = 1 .. Len(aged) /\ k + 1 \in 1 .. Len(aged)
        /\ aged[k + 1] \in Container
        /\ \A i \in 1 .. Len(aged) :
             Older[i] = IF i = k + 1 THEN MinusLife(aged[i]) ELSE aged[i]
    BY <2>1, OlderIs
  <2>3. MinusLife(aged[k + 1]).life = IF aged[k + 1].life >= 1 THEN aged[k + 1].life - 1 ELSE 0
    BY <2>2, MinusLifeIs
  <2>4. MinusLife(aged[k + 1]).life \in 0 .. LifeTime
    BY <1>0, <2>2, <2>3 DEF LifeInv
  <2>5. \A i \in 1 .. Len(aged) : Older[i].life \in 0 .. LifeTime
    BY <2>2, <2>4 DEF LifeInv
  <2>6. m \in Nat /\ DOMAIN cache[n] = 1 .. m /\ k \in Nat
    BY <2>2, LenProperties DEF TypeInv
  <2>7. \A i \in 1 .. m : cache[n][i] \in Container /\ cache[n][i].life \in 1 .. LifeTime
    BY <2>2, <2>6, ElementOfSeq, ShownAre DEF LifeInv, Shown
  <2> HIDE DEF n, m
  <2>8. /\ \A i \in DOMAIN aged' : aged'[i].life \in 0 .. LifeTime
        /\ cache' \in [Nodes -> Seq(Container)]
        /\ \A o \in Nodes \ {n} : cache'[o] = cache[o]
        /\ \A i \in DOMAIN cache'[n] : cache'[n][i].life \in 1 .. LifeTime
    <3>1. CASE Age
      <4>1. /\ cache' \in [Nodes -> Seq(Container)] /\ Len(cache'[n]) = m
            /\ \A o \in Nodes \ {n} : cache'[o] = cache[o]
            /\ \A i \in 1 .. m : cache'[n][i]
                 = IF i = k + 1 THEN MinusLife(cache[n][i]) ELSE cache[n][i]
            /\ aged' \in Seq(Container) /\ Len(aged') = Len(aged) /\ aged' = Older
            /\ \A i \in 1 .. m : cache'[n][i] = aged'[i]
        BY <3>1, AgeIs DEF n, m
      <4>2. DOMAIN cache'[n] = 1 .. m /\ DOMAIN aged' = 1 .. Len(aged)
        BY <2>2, <4>1, LenProperties
      <4>3. ~ (Older[k + 1].life < 1)
        BY <2>1, <3>1 DEF Age, Expired
      <4>4. ASSUME NEW i \in 1 .. m
            PROVE  cache'[n][i].life \in 1 .. LifeTime
        <5>1. CASE i = k + 1
          <6>1. cache'[n][i].life = Older[k + 1].life
            BY <4>1, <5>1
          <6>2. Older[k + 1].life \in 0 .. LifeTime
            BY <2>2, <2>5
          <6> QED
            BY <1>0, <4>3, <6>1, <6>2
        <5>2. CASE i # k + 1
          BY <2>7, <4>1, <5>2
        <5> QED
          BY <5>1, <5>2
      <4> QED
        BY <2>5, <4>1, <4>2, <4>4
    <3>2. CASE Expire
      <4>1. /\ cache' \in [Nodes -> Seq(Container)]
            /\ \A o \in Nodes \ {n} : cache'[o] = cache[o]
            /\ k + 1 \in 1 .. m =>
                 /\ Len(cache'[n]) = m - 1
                 /\ \A i \in 1 .. Len(cache'[n]) :
                      cache'[n][i] = IF i < k + 1 THEN cache[n][i] ELSE cache[n][i + 1]
            /\ k + 1 \notin 1 .. m =>
                 /\ Len(cache'[n]) = m
                 /\ \A i \in 1 .. Len(cache'[n]) : cache'[n][i] = cache[n][i]
            /\ aged' \in Seq(Container) /\ Len(aged') = Len(aged)
            /\ \A i \in 1 .. Len(aged) : \E j \in 1 .. Len(aged) : aged'[i] = Older[j]
        BY <3>2, ExpireIs DEF n, m
      <4>2. DOMAIN cache'[n] = 1 .. Len(cache'[n]) /\ DOMAIN aged' = 1 .. Len(aged)
        BY <2>2, <4>1, LenProperties
      <4>3. ASSUME NEW i \in 1 .. Len(cache'[n])
            PROVE  cache'[n][i].life \in 1 .. LifeTime
        <5>1. CASE k + 1 \in 1 .. m
          <6>1. i \in 1 .. m /\ i + 1 \in 1 .. m
            BY <2>6, <4>1, <5>1
          <6> QED
            BY <2>7, <4>1, <5>1, <6>1
        <5>2. CASE k + 1 \notin 1 .. m
          BY <2>7, <4>1, <5>2
        <5> QED
          BY <5>1, <5>2
      <4> QED
        BY <2>5, <4>1, <4>2, <4>3
    <3> QED
      BY <1>3, <3>1, <3>2
  <2>9. Shown' \subseteq Shown \cup {cache'[n][i] : i \in DOMAIN cache'[n]}
    <3>1. n \in Nodes
      BY <2>2 DEF n
    <3> QED
      BY <2>1, <2>8, <3>1, OnlyListChanges
  <2> QED
    BY <2>8, <2>9 DEF LifeInv
<1> QED
  BY <1>1, <1>2, <1>3

\* All of it together holds in every state.
LifetimeInv == TypeInv /\ PhaseInv /\ LifeInv

LEMMA LifetimeInvHolds == Spec => []LifetimeInv
<1>1. Init => LifetimeInv
  BY TypePhaseInit, LifeInvInit DEF LifetimeInv
<1>2. LifetimeInv /\ [Next]_vars => LifetimeInv'
  BY TypeInvStep, PhaseInvStep, LifeInvStep DEF LifetimeInv
<1> QED
  BY <1>1, <1>2, PTL DEF Spec

\* Type correctness of the schedulers that keep containers for a fixed number
\* of slots, the ranges of the lifetimes included.
THEOREM LifetimeTypesCorrect == Spec => []LifetimeTypeOK
<1>1. LifetimeInv => LifetimeTypeOK
  <2> SUFFICES ASSUME LifetimeInv PROVE LifetimeTypeOK
    OBVIOUS
  <2> USE DEF LifetimeInv
  <2>1. LifeTime \in Nat /\ \A j \in 1 .. LifeTime : j \in 0 .. LifeTime
    BY LifetimeConstantsOK
  <2>2. ASSUME NEW n \in Nodes, NEW i \in DOMAIN cache[n]
        PROVE  cache[n][i] \in Container /\ cache[n][i].life \in 0 .. LifeTime
    BY <2>1, ShownAre DEF LifeInv, Shown
  <2>3. ASSUME NEW n \in Nodes, NEW t \in Types, NEW i \in DOMAIN active[n][t]
        PROVE  active[n][t][i] \in Container /\ active[n][t][i].life \in 1 .. LifeTime
    <3>1. <<n, t>> \in Slices /\ <<n, t>>[1] = n /\ <<n, t>>[2] = t
      BY DEF Slices
    <3>2. active[n][t][i] \in Range(active[n][t])
      BY DEF Range
    <3>3. active[n][t][i] \in InUse
      BY <3>1, <3>2 DEF InUse
    <3> QED
      BY <3>3, ShownAre DEF LifeInv, Shown
  <2>4. left \subseteq Nodes \X (Types \cup {0})
    BY DEF TypeInv, Caches, Slices
  <2> QED
    BY <2>2, <2>3, <2>4 DEF TypeInv, LifetimeTypeOK
<1> QED
  BY <1>1, LifetimeInvHolds, PTL

\* Between two slots an idle container has a slot left at least: the loop that
\* ages a list while it deletes from it finds every container that expires.
THEOREM IdleHaveLifeHolds == Spec => []IdleHaveLife
<1>1. LifetimeInv => IdleHaveLife
  <2> SUFFICES ASSUME LifetimeInv, NEW n \in Nodes, NEW i \in DOMAIN cache[n]
               PROVE  cache[n][i].life \in 1 .. LifeTime
    BY DEF IdleHaveLife
  <2> QED
    BY ShownAre DEF LifetimeInv, LifeInv, Shown
<1> QED
  BY <1>1, LifetimeInvHolds, PTL

-----------------------------------------------------------------------------
(* Idle for the whole lifetime.                                            *)

LEMMA OwedIs ==
  ASSUME NEW n \in Nodes, NEW i
  PROVE  /\ Owed(n, i) \in {0, 1}
         /\ pc # "age" \/ at # <<n, 0>> => Owed(n, i) = 0
BY DEF Owed

LEMMA IdleInvShown ==
  ASSUME TypeInv, IdleInv
  PROVE  \A c \in Shown : c.life \in Int /\ c.idle \in Nat /\ c.life + c.idle >= LifeTime
<1>1. LifeTime \in Nat
  BY LifetimeConstantsOK
<1>2. \A c \in Shown : c.life \in Int /\ c.idle \in Nat
  BY ShownAre DEF Container
<1>3. ASSUME NEW c \in Cached
      PROVE  c.life + c.idle >= LifeTime
  <2>1. PICK n \in Nodes : \E i \in DOMAIN cache[n] : c = cache[n][i]
    BY ShownAre
  <2>2. PICK i \in DOMAIN cache[n] : c = cache[n][i]
    BY <2>1
  <2>3. c.life + c.idle >= LifeTime + Owed(n, i)
    BY <2>2 DEF IdleInv
  <2>4. c.life \in Int /\ c.idle \in Nat
    BY <1>2 DEF Shown
  <2> QED
    BY <1>1, <2>3, <2>4, OwedIs
<1> QED
  BY <1>2, <1>3 DEF Shown, IdleInv

LEMMA IdleInvInit == Init => IdleInv
<1> SUFFICES ASSUME Init PROVE IdleInv
  OBVIOUS
<1>1. cache = [n \in Nodes |-> <<>>] /\ active = [n \in Nodes |-> [t \in Types |-> <<>>]]
  BY DEF Init
<1>2. \A s \in Slices : Range(active[s[1]][s[2]]) = {}
  BY <1>1, PlacesApart DEF Range
<1> QED
  BY <1>1, <1>2 DEF InUse, IdleInv

\* Aging and idling go hand in hand.
LEMMA IdleInvStep == TypeInv /\ TypeInv' /\ PhaseInv /\ IdleInv /\ [Next]_vars => IdleInv'
<1> SUFFICES ASSUME TypeInv, TypeInv', PhaseInv, IdleInv, [Next]_vars PROVE IdleInv'
  OBVIOUS
<1>0. LifeTime \in Nat
  BY LifetimeConstantsOK
<1>1. \A c \in Shown : c.life \in Int /\ c.idle \in Nat /\ c.life + c.idle >= LifeTime
  BY IdleInvShown
<1> DEFINE owed(n, i) == IF pc' = "age" /\ at' = <<n, 0>> /\ i > k' THEN 1 ELSE 0
<1>2. SUFFICES /\ \A n \in Nodes : \A i \in DOMAIN cache'[n] :
                    cache'[n][i].life + cache'[n][i].idle >= LifeTime + owed(n, i)
               /\ \A c \in InUse' : c.life + c.idle >= LifeTime
  BY DEF IdleInv, Owed
<1>3. CASE UNCHANGED vars
  <2>1. UNCHANGED <<pc, at, k, cache, active>>
    BY <1>3 DEF vars, lists, loops
  <2> QED
    BY <2>1 DEF IdleInv, Owed, InUse
<1>4. CASE Next /\ ~NextCache /\ ~Age /\ ~Expire
  <2>1. \A c \in Shown' : Follows(c)
    BY <1>4, NothingAges
  <2>2. \A c \in Shown' : c.life + c.idle >= LifeTime
    BY <1>0, <1>1, <2>1 DEF Follows
  <2>3. pc' # "age" \/ at' = Nowhere
    BY <1>4 DEF Next, Deploy, UpdateCache, StartSlot, Finish, PlaceToCurrent, DeployToNeighbour,
         CreateToCurrent, CreateContainer, MakeRoom, PlaceNew, Evict, Refuse, SendResults,
         EndAging, NextSlice, CacheActive, FinishUpdate, WaitForSignal, vars, lists, loops,
         Deploying, PhaseInv
  <2>4. \A n \in Nodes : <<n, 0>> # Nowhere
    BY PlacesApart
  <2>5. \A n \in Nodes : \A i \in DOMAIN cache'[n] : owed(n, i) = 0
    BY <2>3, <2>4
  <2>6. ASSUME NEW n \in Nodes, NEW i \in DOMAIN cache'[n]
        PROVE  cache'[n][i].life + cache'[n][i].idle >= LifeTime + owed(n, i)
    <3>1. cache'[n][i] \in Shown'
      BY DEF Shown, Cached, Range
    <3> HIDE DEF owed
    <3> QED
      BY <1>0, <2>2, <2>5, <3>1
  <2> QED
    BY <2>2, <2>6 DEF Shown
<1>5. CASE NextCache
  <2> DEFINE n == at'[1]
  <2>1. /\ n \in Nodes /\ at' = <<n, 0>>
        /\ cache' \in [Nodes -> Seq(Container)] /\ aged' = cache'[n]
        /\ Len(aged') = Len(cache[n])
        /\ \A i \in 1 .. Len(aged') : aged'[i] = [cache[n][i] EXCEPT !.idle = @ + 1]
        /\ \A o \in Nodes : o # n => cache'[o] = cache[o]
    BY <1>5, NextCacheIs
  <2> HIDE DEF n
  <2>2. active' = active
    BY <1>5 DEF NextCache, lists
  <2>3. cache[n] \in Seq(Container) /\ cache'[n] \in Seq(Container)
    BY <2>1 DEF TypeInv
  <2>4. DOMAIN cache[n] = 1 .. Len(cache[n]) /\ DOMAIN cache'[n] = 1 .. Len(cache[n])
    BY <2>1, <2>3, LenProperties
  <2>5. ASSUME NEW i \in DOMAIN cache'[n]
        PROVE  cache'[n][i].life + cache'[n][i].idle >= LifeTime + owed(n, i)
    <3>1. i \in DOMAIN cache[n] /\ cache[n][i] \in Container
      BY <2>3, <2>4, ElementOfSeq
    <3>2. /\ cache'[n][i].life = cache[n][i].life /\ cache'[n][i].idle = cache[n][i].idle + 1
      BY <2>1, <2>4, <3>1 DEF Container
    <3>3. cache[n][i] \in Shown
      BY <2>1, <3>1, ShownAre DEF Shown
    <3>4. owed(n, i) \in {0, 1}
      OBVIOUS
    <3> HIDE DEF owed
    <3> QED
      BY <1>0, <1>1, <3>2, <3>3, <3>4
  <2>6. ASSUME NEW o \in Nodes, o # n, NEW i \in DOMAIN cache'[o]
        PROVE  cache'[o][i].life + cache'[o][i].idle >= LifeTime + owed(o, i)
    <3>1. owed(o, i) = 0
      BY <2>1, <2>6
    <3>2. cache'[o][i] \in Shown
      BY <2>1, <2>6, ShownAre DEF Shown
    <3> HIDE DEF owed
    <3> QED
      BY <1>0, <1>1, <3>1, <3>2
  <2>7. InUse' = InUse
    BY <2>2 DEF InUse
  <2> QED
    BY <1>1, <2>5, <2>6, <2>7 DEF Shown
<1>6. CASE Age \/ Expire
  <2> DEFINE n == at[1]
             m == Len(cache[n])
  <2>1. pc = "age" /\ k < Len(aged) /\ UNCHANGED <<pc, at, active>>
    BY <1>6 DEF Age, Expire, Expired, lists
  <2>2. n \in Nodes /\ at = <<n, 0>> /\ cache[n] \in Seq(Container)
    BY <2>1, OlderIs
  <2>3. m \in Nat /\ DOMAIN cache[n] = 1 .. m /\ k \in Nat
    BY <2>2, LenProperties DEF TypeInv
  <2>4. \A i \in 1 .. m :
          /\ cache[n][i] \in Container
          /\ cache[n][i].life \in Int /\ cache[n][i].idle \in Nat
          /\ cache[n][i].life + cache[n][i].idle >= LifeTime
          /\ i > k => cache[n][i].life + cache[n][i].idle >= LifeTime + 1
    <3> SUFFICES ASSUME NEW i \in 1 .. m
                 PROVE  /\ cache[n][i] \in Container /\ cache[n][i] \in Shown
                        /\ i > k => cache[n][i].life + cache[n][i].idle >= LifeTime + 1
      BY <1>1
    <3>1. cache[n][i] \in Container /\ cache[n][i] \in Shown
      BY <2>2, <2>3, ElementOfSeq, ShownAre DEF Shown
    <3>2. ASSUME i > k PROVE cache[n][i].life + cache[n][i].idle >= LifeTime + 1
      <4>1. Owed(n, i) = 1
        BY <2>1, <2>2, <3>2 DEF Owed
      <4> HIDE DEF n
      <4> QED
        BY <2>2, <2>3, <4>1 DEF IdleInv
    <3> QED
      BY <3>1, <3>2
  <2> HIDE DEF n, m
  <2>5. /\ \A o \in Nodes \ {n} : cache'[o] = cache[o]
        /\ \A i \in DOMAIN cache'[n] :
             cache'[n][i].life + cache'[n][i].idle >= LifeTime + owed(n, i)
    <3>1. CASE Age
      <4>1. /\ cache' \in [Nodes -> Seq(Container)] /\ Len(cache'[n]) = m
            /\ \A o \in Nodes \ {n} : cache'[o] = cache[o]
            /\ \A i \in 1 .. m : cache'[n][i]
                 = IF i = k + 1 THEN MinusLife(cache[n][i]) ELSE cache[n][i]
        BY <3>1, AgeIs DEF n, m
      <4>2. DOMAIN cache'[n] = 1 .. m
        BY <2>2, <4>1, LenProperties
      <4>3. k' = k + 1
        BY <3>1 DEF Age
      <4>4. ASSUME NEW i \in 1 .. m
            PROVE  cache'[n][i].life + cache'[n][i].idle >= LifeTime + owed(n, i)
        <5>1. owed(n, i) \in {0, 1} /\ (owed(n, i) = 1 => i > k + 1)
          BY <4>3
        <5> HIDE DEF owed
        <5>2. CASE i = k + 1
          <6>1. /\ MinusLife(cache[n][i]).idle = cache[n][i].idle
                /\ MinusLife(cache[n][i]).life
                     = IF cache[n][i].life >= 1 THEN cache[n][i].life - 1 ELSE 0
            BY <2>4, MinusLifeIs
          <6>2. i > k /\ owed(n, i) = 0
            BY <2>3, <5>1, <5>2
          <6>3. cache'[n][i] = MinusLife(cache[n][i])
            BY <4>1, <5>2
          <6>4. /\ cache[n][i].life \in Int /\ cache[n][i].idle \in Nat
                /\ cache[n][i].life + cache[n][i].idle >= LifeTime + 1
            BY <2>4, <6>2
          <6> QED
            BY <1>0, <6>1, <6>2, <6>3, <6>4
        <5>3. CASE i # k + 1
          <6>1. cache'[n][i] = cache[n][i]
            BY <4>1, <5>3
          <6>2. owed(n, i) = 1 => i > k
            BY <2>3, <5>1
          <6>3. /\ cache[n][i].life \in Int /\ cache[n][i].idle \in Nat
                /\ cache[n][i].life + cache[n][i].idle >= LifeTime
                /\ i > k => cache[n][i].life + cache[n][i].idle >= LifeTime + 1
            BY <2>4
          <6> QED
            BY <1>0, <5>1, <6>1, <6>2, <6>3
        <5> QED
          BY <5>2, <5>3
      <4> HIDE DEF owed
      <4> QED
        BY <4>1, <4>2, <4>4
    <3>2. CASE Expire
      <4>1. /\ cache' \in [Nodes -> Seq(Container)]
            /\ \A o \in Nodes \ {n} : cache'[o] = cache[o]
            /\ k + 1 \in 1 .. m =>
                 /\ Len(cache'[n]) = m - 1
                 /\ \A i \in 1 .. Len(cache'[n]) :
                      cache'[n][i] = IF i < k + 1 THEN cache[n][i] ELSE cache[n][i + 1]
            /\ k + 1 \notin 1 .. m =>
                 /\ Len(cache'[n]) = m
                 /\ \A i \in 1 .. Len(cache'[n]) : cache'[n][i] = cache[n][i]
            /\ Len(cache'[n]) <= Len(aged)
        BY <3>2, ExpireIs DEF n, m
      <4>2. DOMAIN cache'[n] = 1 .. Len(cache'[n]) /\ Len(cache'[n]) \in Nat
        BY <2>2, <4>1, LenProperties
      <4>3. k' = IF k = 0 THEN Len(aged) ELSE k
        BY <3>2 DEF Expire, StepBack
      <4>4. ASSUME NEW i \in 1 .. Len(cache'[n])
            PROVE  cache'[n][i].life + cache'[n][i].idle >= LifeTime + owed(n, i)
        <5>0. Len(aged) \in Nat
          BY LenProperties DEF TypeInv
        <5>1. owed(n, i) \in {0, 1} /\ (owed(n, i) = 1 => i > k)
          <6>1. owed(n, i) \in {0, 1} /\ (owed(n, i) = 1 => i > k')
            OBVIOUS
          <6>2. i > k' => i > k
            BY <2>3, <4>1, <4>2, <4>3, <5>0
          <6> QED
            BY <6>1, <6>2
        <5> HIDE DEF owed
        <5>2. CASE k + 1 \in 1 .. m
          <6>1. i \in 1 .. m /\ i + 1 \in 1 .. m
            BY <2>3, <4>1, <5>2
          <6>2. CASE i < k + 1
            <7>1. cache'[n][i] = cache[n][i] /\ owed(n, i) = 0
              BY <2>3, <4>1, <5>1, <5>2, <6>1, <6>2
            <7> QED
              BY <1>0, <2>4, <6>1, <7>1
          <6>3. CASE ~ (i < k + 1)
            <7>1. cache'[n][i] = cache[n][i + 1] /\ i + 1 > k
              BY <2>3, <4>1, <5>2, <6>1, <6>3
            <7>2. /\ cache[n][i + 1].life \in Int /\ cache[n][i + 1].idle \in Nat
                  /\ cache[n][i + 1].life + cache[n][i + 1].idle >= LifeTime + 1
              BY <2>4, <6>1, <7>1
            <7> QED
              BY <1>0, <5>1, <7>1, <7>2
          <6> QED
            BY <6>2, <6>3
        <5>3. CASE k + 1 \notin 1 .. m
          <6>1. i \in 1 .. m /\ cache'[n][i] = cache[n][i]
            BY <4>1, <5>3
          <6>2. owed(n, i) = 0
            BY <2>3, <5>1, <5>3, <6>1
          <6> QED
            BY <1>0, <2>4, <6>1, <6>2
        <5> QED
          BY <5>2, <5>3
      <4> HIDE DEF owed
      <4> QED
        BY <4>1, <4>2, <4>4
    <3> QED
      BY <1>6, <3>1, <3>2
  <2>6. ASSUME NEW o \in Nodes, o # n, NEW i \in DOMAIN cache'[o]
        PROVE  cache'[o][i].life + cache'[o][i].idle >= LifeTime + owed(o, i)
    <3>1. owed(o, i) = 0
      <4>1. at' # <<o, 0>>
        BY <2>1, <2>2, <2>6
      <4> QED
        BY <4>1
    <3>2. cache'[o][i] \in Shown
      BY <2>5, <2>6, ShownAre DEF Shown
    <3> HIDE DEF owed
    <3> QED
      BY <1>0, <1>1, <3>1, <3>2
  <2>7. InUse' = InUse
    BY <2>1 DEF InUse
  <2> HIDE DEF owed
  <2> QED
    BY <1>1, <2>5, <2>6, <2>7 DEF Shown
<1> HIDE DEF owed
<1> QED
  BY <1>3, <1>4, <1>5, <1>6

-----------------------------------------------------------------------------
(* The order of the lists.                                                 *)

LEMMA OrderInvInit == Init => OrderInv
<1> SUFFICES ASSUME Init PROVE OrderInv
  OBVIOUS
<1>1. \A n \in Nodes : cache[n] = <<>>
  BY DEF Init
<1> QED
  BY <1>1 DEF OrderInv, InOrder, Gap, Sorted

\* Deleting from a list that is in order.
LEMMA RestInOrder ==
  ASSUME NEW s \in Seq(Container), Sorted(s), \A i \in DOMAIN s : s[i].prio = s[i].life,
         NEW q, DOMAIN q = 1 .. Len(s) - 1, NEW e \in Nat,
         \A p \in 1 .. Len(s) - 1 : q[p] = IF p < e THEN s[p] ELSE s[p + 1]
  PROVE  Sorted(q) /\ \A i \in DOMAIN q : q[i].prio = q[i].life
<1>1. DOMAIN s = 1 .. Len(s) /\ Len(s) \in Nat
  BY LenProperties
<1> DEFINE to(p) == IF p < e THEN p ELSE p + 1
<1>2. /\ \A p \in 1 .. Len(s) - 1 : to(p) \in 1 .. Len(s) /\ q[p] = s[to(p)]
      /\ \A o, p \in 1 .. Len(s) - 1 : o < p => to(o) < to(p)
  BY <1>1
<1> HIDE DEF to
<1> QED
  BY <1>1, <1>2 DEF Sorted

LEMMA SortedTail ==
  ASSUME NEW s \in Seq(Container), s # <<>>, Sorted(s),
         \A i \in DOMAIN s : s[i].prio = s[i].life
  PROVE  /\ Sorted(Tail(s)) /\ \A i \in DOMAIN Tail(s) : Tail(s)[i].prio = Tail(s)[i].life
         /\ \A i \in DOMAIN s : Head(s).life <= s[i].life
<1>1. /\ DOMAIN Tail(s) = 1 .. Len(s) - 1 /\ Head(s) = s[1] /\ 1 \in DOMAIN s
      /\ \A p \in 1 .. Len(s) - 1 : Tail(s)[p] = s[p + 1]
  BY HeadTailIs
<1>2. DOMAIN s = 1 .. Len(s) /\ Len(s) \in Nat
  BY LenProperties
<1>3. \A p \in 1 .. Len(s) - 1 : Tail(s)[p] = IF p < 1 THEN s[p] ELSE s[p + 1]
  BY <1>1, <1>2
<1>4. /\ Sorted(Tail(s)) /\ \A i \in DOMAIN Tail(s) : Tail(s)[i].prio = Tail(s)[i].life
  <2> DEFINE q == Tail(s)
  <2>1. DOMAIN q = 1 .. Len(s) - 1
    BY <1>1
  <2> DEFINE e == 1
  <2>2. e \in Nat /\ \A p \in 1 .. Len(s) - 1 : q[p] = IF p < e THEN s[p] ELSE s[p + 1]
    BY <1>3
  <2> HIDE DEF q, e
  <2>3. Sorted(q) /\ \A i \in DOMAIN q : q[i].prio = q[i].life
    BY <2>1, <2>2, RestInOrder
  <2> QED
    BY <2>3 DEF q
<1>5. ASSUME NEW i \in DOMAIN s
      PROVE  Head(s).life <= s[i].life
  <2>1. CASE i = 1
    <3>1. s[i] \in Container
      BY <1>2, ElementOfSeq
    <3>2. s[i].life \in Int
      BY <3>1 DEF Container
    <3> QED
      BY <1>1, <2>1, <3>2
  <2>2. CASE i # 1
    <3>1. 1 < i
      BY <1>2, <2>2
    <3> QED
      BY <1>1, <3>1 DEF Sorted
  <2> QED
    BY <2>1, <2>2
<1> QED
  BY <1>4, <1>5

\* fixedcaching's lists stay in the order of the lifetime left, while they age
\* one container after the other, too.
LEMMA OrderInvStep ==
  TypeInv /\ TypeInv' /\ PhaseInv /\ LifeInv /\ OrderInv /\ [Next]_vars => OrderInv'
<1> SUFFICES ASSUME TypeInv, TypeInv', PhaseInv, LifeInv, OrderInv, [Next]_vars, FixedCaching',
                    NEW n \in Nodes
             PROVE  InOrder(n)' /\ Gap(n)'
  BY DEF OrderInv
<1>1. FixedCaching
  BY DEF FixedCaching, vars, requests, Next, Deploy, UpdateCache, StartSlot, Finish,
     PlaceToCurrent, DeployToNeighbour, CreateToCurrent, CreateContainer, MakeRoom, PlaceNew,
     Evict, Refuse, SendResults, NextCache, Age, Expire, EndAging, NextSlice, CacheActive,
     FinishUpdate, WaitForSignal
<1>2. InOrder(n) /\ Gap(n)
  BY <1>1 DEF OrderInv
<1>3. /\ cache[n] \in Seq(Container) /\ cache'[n] \in Seq(Container)
      /\ DOMAIN cache[n] = 1 .. Len(cache[n]) /\ Len(cache[n]) \in Nat
      /\ DOMAIN cache'[n] = 1 .. Len(cache'[n]) /\ Len(cache'[n]) \in Nat
  <2>1. cache[n] \in Seq(Container) /\ cache'[n] \in Seq(Container)
    BY DEF TypeInv
  <2> QED
    BY <2>1, LenProperties
<1>4. CASE UNCHANGED vars
  <2>1. UNCHANGED <<pc, at, k, aged, cache>>
    BY <1>4 DEF vars, lists, loops
  <2> QED
    BY <1>2, <2>1 DEF InOrder, Gap
<1>5. CASE Next /\ ~NextCache /\ ~Age /\ ~Expire
  <2>1. pc' # "age" \/ at' = Nowhere
    BY <1>5 DEF Next, Deploy, UpdateCache, StartSlot, Finish, PlaceToCurrent, DeployToNeighbour,
         CreateToCurrent, CreateContainer, MakeRoom, PlaceNew, Evict, Refuse, SendResults,
         EndAging, NextSlice, CacheActive, FinishUpdate, WaitForSignal, vars, lists, loops,
         Deploying, PhaseInv
  <2>2. <<n, 0>> # Nowhere
    BY PlacesApart
  <2>3. Gap(n)'
    BY <2>1, <2>2 DEF Gap
  <2>4. InOrder(n)'
    <3>1. CASE cache'[n] = cache[n]
      BY <1>2, <3>1 DEF InOrder
    <3>2. CASE PlaceToCurrent
      BY <1>1, <3>2 DEF PlaceToCurrent
    <3>3. CASE DeployToNeighbour
      <4>1. TakenAt(n)
        BY <3>3, DeployToNeighbourTakes DEF Taken
      <4>2. CASE \E i \in DOMAIN cache[n] : cache'[n] = DeleteAt(cache[n], i)
        <5>1. PICK i \in DOMAIN cache[n] : cache'[n] = DeleteAt(cache[n], i)
          BY <4>2
        <5>2. /\ DOMAIN cache'[n] = 1 .. Len(cache[n]) - 1
              /\ \A p \in 1 .. Len(cache[n]) - 1 :
                   cache'[n][p] = IF p < i THEN cache[n][p] ELSE cache[n][p + 1]
          <6> DEFINE s == cache[n]
          <6>1. s \in Seq(Container) /\ i \in DOMAIN s /\ cache'[n] = DeleteAt(s, i)
            BY <1>3, <5>1
          <6> HIDE DEF s
          <6>2. /\ DOMAIN DeleteAt(s, i) = 1 .. Len(s) - 1
                /\ \A p \in 1 .. Len(s) - 1 :
                     DeleteAt(s, i)[p] = IF p < i THEN s[p] ELSE s[p + 1]
            BY <6>1, DeleteIs
          <6> QED
            BY <6>1, <6>2 DEF s
        <5>3. i \in Nat
          BY <1>3
        <5>4. Sorted(cache[n]) /\ \A j \in DOMAIN cache[n] : cache[n][j].prio = cache[n][j].life
          BY <1>2 DEF InOrder
        <5> DEFINE q == cache'[n]
        <5>5. Sorted(q) /\ \A j \in DOMAIN q : q[j].prio = q[j].life
          <6>1. /\ DOMAIN q = 1 .. Len(cache[n]) - 1
                /\ \A p \in 1 .. Len(cache[n]) - 1 :
                     q[p] = IF p < i THEN cache[n][p] ELSE cache[n][p + 1]
            BY <5>2
          <6> HIDE DEF q
          <6> QED
            BY <1>3, <5>3, <5>4, <6>1, RestInOrder
        <5> QED
          BY <5>5 DEF InOrder
      <4> QED
        BY <3>1, <4>1, <4>2 DEF TakenAt
    <3>4. CASE Evict
      <4>1. /\ cache' = [cache EXCEPT ![Req.ingress] = Tail(@)] /\ cache[Req.ingress] # <<>>
        BY <3>4 DEF Evict
      <4>2. n = Req.ingress \/ cache'[n] = cache[n]
        BY <4>1 DEF TypeInv
      <4>3. CASE n = Req.ingress
        <5>1. cache'[n] = Tail(cache[n]) /\ cache[n] # <<>>
          BY <4>1, <4>3 DEF TypeInv
        <5> QED
          BY <1>2, <1>3, <5>1, SortedTail DEF InOrder
      <4> QED
        BY <3>1, <4>2, <4>3
    <3>5. CASE CacheActive
      <4>1. PICK d \in Container :
              /\ FixedCaching => d.prio = d.life
              /\ cache' = [cache EXCEPT ![d.node] = SortList(Append(@, d))]
              /\ Range(cache'[d.node]) = Range(cache[d.node]) \cup {d}
        BY <3>5, CacheActiveMoves
      <4>2. CASE n = d.node
        <5>1. cache'[n] = SortList(Append(cache[n], d))
          BY <4>1, <4>2 DEF TypeInv
        <5>2. Append(cache[n], d) \in Seq(Container)
          BY <1>3, AppendIs
        <5>3. Sorted(cache'[n])
          BY <5>1, <5>2, SortListIs
        <5>4. \A c \in Range(cache[n]) : c.prio = c.life
          BY <1>2 DEF InOrder, Range
        <5>5. \A c \in Range(cache'[n]) : c.prio = c.life
          BY <1>1, <4>1, <4>2, <5>4
        <5> QED
          BY <5>3, <5>5 DEF InOrder, Range
      <4>3. CASE n # d.node
        <5>1. cache'[n] = cache[n]
          BY <4>1, <4>3 DEF TypeInv
        <5> QED
          BY <3>1, <5>1
      <4> QED
        BY <4>2, <4>3
    <3>6. CASE FinishUpdate
      <4>1. cache'[n] \in {cache[n], SortList(cache[n])} /\ Range(cache'[n]) = Range(cache[n])
        BY <3>6, FinishUpdateSorts
      <4>2. \A c \in Range(cache'[n]) : c.prio = c.life
        BY <1>2, <4>1 DEF InOrder, Range
      <4>3. Sorted(cache'[n])
        BY <1>2, <1>3, <4>1, SortListIs DEF InOrder
      <4> QED
        BY <4>2, <4>3 DEF InOrder, Range
    <3>7. CASE StartSlot \/ Finish \/ CreateToCurrent \/ MakeRoom \/ PlaceNew \/ Refuse
                 \/ SendResults \/ EndAging \/ NextSlice \/ WaitForSignal
      <4>1. cache' = cache
        BY <3>7 DEF StartSlot, Finish, CreateToCurrent, CreateContainer, MakeRoom, PlaceNew, Refuse,
           SendResults, EndAging, NextSlice, WaitForSignal, vars, lists
      <4> QED
        BY <3>1, <4>1
    <3> QED
      BY <1>5, <3>2, <3>3, <3>4, <3>5, <3>6, <3>7 DEF Next, Deploy, UpdateCache
  <2> QED
    BY <2>3, <2>4
<1>6. CASE NextCache
  <2>1. /\ at'[1] \in Nodes /\ at' = <<at'[1], 0>> /\ aged' = cache'[at'[1]]
        /\ Len(aged') = Len(cache[at'[1]])
        /\ \A i \in 1 .. Len(aged') : aged'[i] = [cache[at'[1]][i] EXCEPT !.idle = @ + 1]
        /\ \A o \in Nodes : o # at'[1] => cache'[o] = cache[o]
    BY <1>6, NextCacheIs
  <2>2. k' = 0
    BY <1>6 DEF NextCache
  <2>3. Gap(n)'
    BY <1>3, <2>2 DEF Gap
  <2>4. InOrder(n)'
    <3>1. CASE n = at'[1]
      <4>1. DOMAIN cache'[n] = DOMAIN cache[n]
        BY <1>3, <2>1, <3>1
      <4>2. ASSUME NEW i \in DOMAIN cache[n]
            PROVE  cache'[n][i].prio = cache[n][i].prio /\ cache'[n][i].life = cache[n][i].life
        <5>1. cache[n][i] \in Container
          BY <1>3, ElementOfSeq
        <5>2. cache'[n][i] = [cache[n][i] EXCEPT !.idle = @ + 1]
          BY <1>3, <2>1, <3>1
        <5> QED
          BY <5>1, <5>2 DEF Container
      <4> QED
        BY <1>2, <4>1, <4>2 DEF InOrder, Sorted
    <3>2. CASE n # at'[1]
      BY <1>2, <2>1, <3>2 DEF InOrder
    <3> QED
      BY <3>1, <3>2
  <2> QED
    BY <2>3, <2>4
<1>7. CASE Age \/ Expire
  <2>1. pc = "age" /\ k < Len(aged) /\ UNCHANGED <<pc, at>>
    BY <1>7 DEF Age, Expire, Expired
  <2>2. at[1] \in Nodes /\ at = <<at[1], 0>> /\ k + 1 \in 1 .. Len(aged)
    BY <2>1, OlderIs
  <2>3. ASSUME n # at[1]
        PROVE  InOrder(n)' /\ Gap(n)'
    <3>1. cache'[n] = cache[n]
      BY <1>7, <2>3, AgeIs, ExpireIs
    <3>2. at' # <<n, 0>>
      BY <2>1, <2>2, <2>3
    <3> QED
      BY <1>2, <3>1, <3>2 DEF InOrder, Gap
  <2>4. ASSUME n = at[1]
        PROVE  InOrder(n)' /\ Gap(n)'
    <3> DEFINE m == Len(cache[n])
    <3>1. /\ k \in Nat /\ m \in Nat /\ at = <<n, 0>>
          /\ \A i \in 1 .. m :
               /\ cache[n][i] \in Container /\ cache[n][i].life \in Int
               /\ cache[n][i].life >= 1 /\ cache[n][i].prio = cache[n][i].life
          /\ \A i, j \in 1 .. m : i < j => cache[n][i].life <= cache[n][j].life
          /\ \A i, j \in 1 .. m : i <= k /\ k < j => cache[n][i].life < cache[n][j].life
      <4>1. k \in Nat /\ m \in Nat /\ at = <<n, 0>>
        BY <1>3, <2>2, <2>4 DEF TypeInv
      <4>2. ASSUME NEW i \in 1 .. m
            PROVE  /\ cache[n][i] \in Container /\ cache[n][i].life \in Int
                   /\ cache[n][i].life >= 1 /\ cache[n][i].prio = cache[n][i].life
        <5>1. cache[n][i] \in Container /\ cache[n][i] \in Shown
          BY <1>3, ElementOfSeq, ShownAre DEF Shown
        <5>2. cache[n][i].life \in 1 .. LifeTime
          BY <5>1 DEF LifeInv
        <5> QED
          BY <1>2, <1>3, <5>1, <5>2 DEF InOrder
      <4>3. \A i, j \in 1 .. m : i <= k /\ k < j => cache[n][i].life < cache[n][j].life
        BY <1>2, <1>3, <2>1, <4>1 DEF Gap
      <4>4. \A i, j \in 1 .. m : i < j => cache[n][i].prio <= cache[n][j].prio
        BY <1>2, <1>3 DEF InOrder, Sorted
      <4> HIDE DEF m
      <4>5. \A i, j \in 1 .. m : i < j => cache[n][i].life <= cache[n][j].life
        BY <4>2, <4>4
      <4> QED
        BY <4>1, <4>2, <4>3, <4>5
    <3> HIDE DEF m
    <3>2. CASE Age
      <4>1. /\ Len(cache'[n]) = m
            /\ \A i \in 1 .. m : cache'[n][i]
                 = IF i = k + 1 THEN MinusLife(cache[n][i]) ELSE cache[n][i]
        BY <2>4, <3>2, AgeIs DEF m
      <4>2. k' = k + 1
        BY <3>2 DEF Age
      <4>3. ASSUME NEW i \in 1 .. m
            PROVE  /\ cache'[n][i].prio = cache'[n][i].life
                   /\ cache'[n][i].life = IF i = k + 1 THEN cache[n][i].life - 1
                                                       ELSE cache[n][i].life
        BY <1>1, <3>1, <4>1, MinusLifeIs
      <4>4. \A i, j \in 1 .. m : i < j => cache'[n][i].life <= cache'[n][j].life
        BY <3>1, <4>3
      <4>5. \A i, j \in 1 .. m : i <= k + 1 /\ k + 1 < j => cache'[n][i].life < cache'[n][j].life
        BY <3>1, <4>3
      <4>6. DOMAIN cache'[n] = 1 .. m
        BY <1>3, <4>1
      <4>7. \A i, j \in 1 .. m : i < j => cache'[n][i].prio <= cache'[n][j].prio
        BY <4>3, <4>4
      <4> QED
        BY <4>2, <4>3, <4>5, <4>6, <4>7 DEF InOrder, Gap, Sorted
    <3>3. CASE Expire
      <4>1. /\ k + 1 \in 1 .. m =>
                 /\ Len(cache'[n]) = m - 1
                 /\ \A i \in 1 .. Len(cache'[n]) :
                      cache'[n][i] = IF i < k + 1 THEN cache[n][i] ELSE cache[n][i + 1]
            /\ k + 1 \notin 1 .. m =>
                 /\ Len(cache'[n]) = m
                 /\ \A i \in 1 .. Len(cache'[n]) : cache'[n][i] = cache[n][i]
            /\ Len(aged') = Len(aged)
        BY <2>4, <3>3, ExpireIs DEF m
      <4>2. k' = IF k = 0 THEN Len(aged) ELSE k
        BY <3>3 DEF Expire, StepBack
      <4>3. CASE k + 1 \notin 1 .. m
        <5>1. /\ DOMAIN cache'[n] = 1 .. m /\ \A i \in 1 .. m : cache'[n][i] = cache[n][i]
          BY <1>3, <4>1, <4>3
        <5>2. InOrder(n)'
          BY <1>2, <1>3, <5>1 DEF InOrder, Sorted, m
        <5>3. \A j \in 1 .. m : j <= k
          BY <3>1, <4>3
        <5>4. CASE k = 0
          BY <3>1, <5>1, <5>2, <5>3, <5>4 DEF Gap
        <5>5. CASE k # 0
          <6>1. k' = k
            BY <4>2, <5>5
          <6> QED
            BY <3>1, <5>1, <5>2, <5>3, <6>1 DEF Gap
        <5> QED
          BY <5>4, <5>5
      <4>4. CASE k + 1 \in 1 .. m
        <5>1. k = 0
          <6>1. Older[k + 1].life < 1
            BY <3>3 DEF Expire, Expired
          <6>2. Older[k + 1] = MinusLife(aged[k + 1]) /\ aged[k + 1] = cache[n][k + 1]
            <7>1. Older[k + 1] = MinusLife(aged[k + 1])
              BY <2>1, OlderIs
            <7>2. aged[k + 1] = cache[n][k + 1]
              BY <1>3, <2>1, <2>2, <2>4, <4>4, PlacesApart DEF PhaseInv, m
            <7> QED
              BY <7>1, <7>2
          <6>3. cache[n][k + 1].life = 1
            BY <3>1, <4>4, <6>1, <6>2, MinusLifeIs
          <6> SUFFICES ASSUME k # 0 PROVE FALSE
            OBVIOUS
          <6>4. k \in 1 .. m /\ k <= k /\ k < k + 1
            BY <3>1, <4>4
          <6>5. cache[n][k].life < cache[n][k + 1].life /\ cache[n][k].life >= 1
            BY <3>1, <4>4, <6>4
          <6> QED
            BY <3>1, <6>3, <6>4, <6>5
        <5>2. k' = Len(aged) /\ ~ (k' < Len(aged'))
          <6>1. Len(aged) \in Nat
            BY LenProperties DEF TypeInv
          <6> QED
            BY <4>1, <4>2, <5>1, <6>1
        <5>3. Gap(n)'
          BY <5>2 DEF Gap
        <5>4. /\ DOMAIN cache'[n] = 1 .. m - 1
              /\ \A p \in 1 .. m - 1 :
                   cache'[n][p] = IF p < k + 1 THEN cache[n][p] ELSE cache[n][p + 1]
          BY <1>3, <4>1, <4>4
        <5>5. InOrder(n)'
          <6> DEFINE q == cache'[n]
                     e == k + 1
          <6>1. /\ DOMAIN q = 1 .. Len(cache[n]) - 1 /\ e \in Nat
                /\ \A p \in 1 .. Len(cache[n]) - 1 :
                     q[p] = IF p < e THEN cache[n][p] ELSE cache[n][p + 1]
            BY <3>1, <5>4 DEF m
          <6>2. /\ Sorted(cache[n])
                /\ \A j \in DOMAIN cache[n] : cache[n][j].prio = cache[n][j].life
            BY <1>2 DEF InOrder
          <6>3. Sorted(q) /\ \A j \in DOMAIN q : q[j].prio = q[j].life
            <7> HIDE DEF q, e
            <7> QED
              BY <1>3, <6>1, <6>2, RestInOrder
          <6> QED
            BY <6>3 DEF InOrder
        <5> QED
          BY <5>3, <5>5
      <4> QED
        BY <4>3, <4>4
    <3> QED
      BY <1>7, <3>2, <3>3
  <2> QED
    BY <2>3, <2>4
<1> QED
  BY <1>4, <1>5, <1>6, <1>7

-----------------------------------------------------------------------------
(* Which containers go, and when.                                          *)

ShownAreLive == \A c \in Shown : c.id \in LiveIds

LEMMA LiveIdsAre == TypeInv => ShownAreLive
<1>1. ASSUME NEW n \in Nodes, NEW c \in Range(cache[n])
      PROVE  c.id \in LiveIds
  <2>1. c.id \in Ids(cache[n])
    BY DEF Ids, Range
  <2> QED
    BY <2>1 DEF LiveIds
<1>2. ASSUME NEW s \in Slices, NEW c \in Range(active[s[1]][s[2]])
      PROVE  c.id \in LiveIds
  <2>1. s[1] \in Nodes /\ s[2] \in Types
    BY PlacesApart
  <2>2. c.id \in Ids(active[s[1]][s[2]])
    BY DEF Ids, Range
  <2> QED
    BY <2>1, <2>2 DEF LiveIds
<1> QED
  BY <1>1, <1>2 DEF ShownAreLive, Shown, Cached, InUse

LEMMA NextLiveIdsAre == TypeInv' => ShownAreLive'
BY LiveIdsAre, PTL

\* But for evictions and the aging loop, no step takes a container out of the
\* lists that is idle.
LEMMA NothingGoes ==
  ASSUME TypeInv, PhaseInv, Next, pc # "age", ~Evict
  PROVE  \A c \in Cached : \E d \in Shown' : d.id = c.id
<1> SUFFICES ASSUME NEW c \in Cached PROVE \E d \in Shown' : d.id = c.id
  OBVIOUS
<1>1. CASE cache' = cache
  BY <1>1 DEF Shown, Cached
<1>2. CASE PlaceToCurrent \/ DeployToNeighbour
  <2>1. Taken
    BY <1>2, PlaceToCurrentTakes, DeployToNeighbourTakes
  <2>2. PICK n \in Nodes : c \in Range(cache[n])
    BY DEF Cached
  <2>3. c \in Range(cache'[n]) \/ \E t \in Types : c \in Range(active'[n][t])
    BY <2>1, <2>2, TakenKeeps
  <2>4. CASE c \in Range(cache'[n])
    BY <2>4 DEF Shown, Cached
  <2>5. CASE \E t \in Types : c \in Range(active'[n][t])
    <3>1. PICK t \in Types : c \in Range(active'[n][t])
      BY <2>5
    <3>2. <<n, t>> \in Slices /\ <<n, t>>[1] = n /\ <<n, t>>[2] = t
      BY DEF Slices
    <3>3. c \in InUse'
      BY <3>1, <3>2 DEF InUse
    <3> QED
      BY <3>3 DEF Shown
  <2> QED
    BY <2>3, <2>4, <2>5
<1>3. CASE CacheActive
  <2>1. PICK d \in Container :
          /\ cache' = [cache EXCEPT ![d.node] = SortList(Append(@, d))]
          /\ Range(cache'[d.node]) = Range(cache[d.node]) \cup {d}
    BY <1>3, CacheActiveMoves
  <2>2. PICK n \in Nodes : c \in Range(cache[n])
    BY DEF Cached
  <2>3. n # d.node => cache'[n] = cache[n]
    BY <2>1 DEF TypeInv
  <2>4. c \in Range(cache'[n])
    BY <2>1, <2>2, <2>3
  <2> QED
    BY <2>4 DEF Shown, Cached
<1>4. CASE FinishUpdate
  <2>1. PICK n \in Nodes : c \in Range(cache[n])
    BY DEF Cached
  <2>2. c \in Range(cache'[n])
    BY <1>4, <2>1, FinishUpdateSorts
  <2> QED
    BY <2>2 DEF Shown, Cached
<1>5. CASE StartSlot \/ Finish \/ CreateToCurrent \/ MakeRoom \/ PlaceNew \/ Refuse
             \/ SendResults \/ NextSlice \/ WaitForSignal
  <2>1. cache' = cache
    BY <1>5 DEF StartSlot, Finish, CreateToCurrent, CreateContainer, MakeRoom, PlaceNew, Refuse,
       SendResults, NextSlice, WaitForSignal, vars, lists
  <2> QED
    BY <1>1, <2>1
<1> QED
  BY <1>2, <1>3, <1>4, <1>5
  DEF Next, Deploy, UpdateCache, NextCache, Age, Expire, Expired, EndAging

\* A step of the aging loop keeps what is not at the index, and what goes was
\* idle for its lifetime.
LEMMA AgingGoes ==
  ASSUME TypeInv, PhaseInv, LifeInv, IdleInv, Next, pc = "age",
         NEW n \in Nodes, NEW i \in DOMAIN cache[n], cache[n][i].idle < LifeTime
  PROVE  \E d \in Shown' : d.id = cache[n][i].id
<1>0. /\ LifeTime \in Nat /\ cache[n] \in Seq(Container)
      /\ DOMAIN cache[n] = 1 .. Len(cache[n]) /\ Len(cache[n]) \in Nat
      /\ cache[n][i] \in Container /\ cache[n][i].life \in Int /\ cache[n][i].idle \in Nat
  <2>1. cache[n] \in Seq(Container)
    BY DEF TypeInv
  <2>2. DOMAIN cache[n] = 1 .. Len(cache[n]) /\ Len(cache[n]) \in Nat
    BY <2>1, LenProperties
  <2>3. cache[n][i] \in Container
    BY <2>1, <2>2, ElementOfSeq
  <2>4. cache[n][i].life \in Int /\ cache[n][i].idle \in Nat
    BY <2>3 DEF Container
  <2> QED
    BY <2>1, <2>2, <2>3, <2>4, LifetimeConstantsOK
<1>1. SUFFICES \E j \in DOMAIN cache'[n] : cache'[n][j].id = cache[n][i].id
  BY DEF Shown, Cached, Range
<1>2. CASE cache'[n] = cache[n]
  BY <1>2
<1>3. CASE NextCache
  <2>1. /\ cache' \in [Nodes -> Seq(Container)] /\ aged' = cache'[at'[1]]
        /\ Len(aged') = Len(cache[at'[1]])
        /\ \A j \in 1 .. Len(aged') : aged'[j] = [cache[at'[1]][j] EXCEPT !.idle = @ + 1]
        /\ \A o \in Nodes : o # at'[1] => cache'[o] = cache[o]
    BY <1>3, NextCacheIs
  <2>2. CASE n = at'[1]
    <3>1. cache'[n][i] = [cache[n][i] EXCEPT !.idle = @ + 1]
      BY <1>0, <2>1, <2>2
    <3>2. cache'[n][i].id = cache[n][i].id
      BY <1>0, <3>1 DEF Container
    <3>3. i \in DOMAIN cache'[n]
      <4>1. cache'[n] \in Seq(Container) /\ Len(cache'[n]) = Len(cache[n])
        BY <2>1, <2>2
      <4> QED
        BY <1>0, <4>1, LenProperties
    <3> QED
      BY <3>2, <3>3
  <2> QED
    BY <1>2, <2>1, <2>2
<1>4. CASE Age /\ n = at[1]
  <2>1. /\ cache' \in [Nodes -> Seq(Container)] /\ Len(cache'[n]) = Len(cache[n])
        /\ \A j \in 1 .. Len(cache[n]) : cache'[n][j]
             = IF j = k + 1 THEN MinusLife(cache[n][j]) ELSE cache[n][j]
    BY <1>4, AgeIs
  <2>2. DOMAIN cache'[n] = 1 .. Len(cache[n])
    BY <2>1, LenProperties
  <2>3. cache'[n][i].id = cache[n][i].id
    BY <1>0, <2>1, MinusLifeIs
  <2> QED
    BY <1>0, <2>2, <2>3
<1>5. CASE Expire /\ n = at[1]
  <2> DEFINE m == Len(cache[n])
             r == Len(cache'[n])
  <2>1. /\ cache' \in [Nodes -> Seq(Container)]
        /\ k + 1 \in 1 .. m =>
             /\ r = m - 1
             /\ \A j \in 1 .. r :
                  cache'[n][j] = IF j < k + 1 THEN cache[n][j] ELSE cache[n][j + 1]
        /\ k + 1 \notin 1 .. m =>
             /\ r = m
             /\ \A j \in 1 .. r : cache'[n][j] = cache[n][j]
    BY <1>5, ExpireIs
  <2>2. DOMAIN cache'[n] = 1 .. r /\ r \in Nat /\ k \in Nat
    BY <2>1, LenProperties DEF TypeInv
  <2>3. i \in 1 .. m /\ m \in Nat
    BY <1>0
  <2>4. i # k + 1 \/ k + 1 \notin 1 .. m
    <3> SUFFICES ASSUME i = k + 1 PROVE FALSE
      BY <2>3
    <3>1. pc = "age" /\ k < Len(aged) /\ Older[k + 1].life < 1
      BY <1>5 DEF Expire, Expired
    <3>2. at = <<n, 0>> /\ Older[k + 1] = MinusLife(aged[k + 1])
      BY <1>5, <3>1, OlderIs
    <3>3. aged[k + 1] = cache[n][i]
      <4>1. at # Nowhere
        BY <3>1, OlderIs, PlacesApart
      <4> QED
        BY <1>5, <3>1, <4>1 DEF PhaseInv
    <3>4. cache[n][i].life <= 1
      BY <1>0, <3>1, <3>2, <3>3, MinusLifeIs
    <3>5. Owed(n, i) = 1
      BY <2>2, <3>1, <3>2 DEF Owed
    <3>6. cache[n][i].life + cache[n][i].idle >= LifeTime + 1
      BY <3>5 DEF IdleInv
    <3> QED
      BY <1>0, <3>4, <3>6
  <2> HIDE DEF m, r
  <2>5. CASE k + 1 \notin 1 .. m
    BY <2>1, <2>2, <2>3, <2>5
  <2>6. CASE k + 1 \in 1 .. m /\ i < k + 1
    <3>1. i \in 1 .. r
      BY <2>1, <2>2, <2>3, <2>6
    <3> QED
      BY <2>1, <2>2, <2>6, <3>1
  <2>7. CASE k + 1 \in 1 .. m /\ i > k + 1
    <3>1. i - 1 \in 1 .. r /\ ~ (i - 1 < k + 1) /\ (i - 1) + 1 = i
      BY <2>1, <2>2, <2>3, <2>7
    <3>2. cache'[n][i - 1] = cache[n][(i - 1) + 1]
      BY <2>1, <2>7, <3>1
    <3> QED
      BY <2>2, <3>1, <3>2
  <2> QED
    BY <2>2, <2>3, <2>4, <2>5, <2>6, <2>7
<1>6. CASE (Age \/ Expire) /\ n # at[1]
  <2>1. cache'[n] = cache[n]
    BY <1>6, AgeIs, ExpireIs
  <2> QED
    BY <1>2, <2>1
<1>7. CASE EndAging
  BY <1>2, <1>7 DEF EndAging, lists
<1>8. CASE WaitForSignal
  BY <1>2, <1>8 DEF WaitForSignal, vars, lists
<1> QED
  BY <1>3, <1>4, <1>5, <1>6, <1>7, <1>8
  DEF Next, StartSlot, Finish, Deploy, UpdateCache, PlaceToCurrent, DeployToNeighbour,
      CreateToCurrent, MakeRoom, PlaceNew, Evict, Refuse, SendResults, NextSlice, CacheActive,
      FinishUpdate, Deploying

\* The whole invariant of the lists.
ListsInv == LifetimeInv /\ IdleInv /\ OrderInv

LEMMA ListsInvHolds == Spec => []ListsInv
<1>1. Init => ListsInv
  BY TypePhaseInit, LifeInvInit, IdleInvInit, OrderInvInit DEF ListsInv, LifetimeInv
<1>2. ListsInv /\ [Next]_vars => ListsInv'
  <2>1. ListsInv /\ [Next]_vars => LifetimeInv'
    BY TypeInvStep, PhaseInvStep, LifeInvStep DEF ListsInv, LifetimeInv
  <2>2. ListsInv /\ [Next]_vars => IdleInv' /\ OrderInv'
    BY <2>1, IdleInvStep, OrderInvStep DEF ListsInv, LifetimeInv
  <2> QED
    BY <2>1, <2>2 DEF ListsInv
<1> QED
  BY <1>1, <1>2, PTL DEF Spec

\* The step form of KeptLongEnough and of EvictsTheOldest.
KeepsLongEnough ==
  pc = "age" => \A n \in Nodes : \A i \in DOMAIN cache[n] :
    cache[n][i].id \notin LiveIds' => cache[n][i].idle >= LifeTime

\* Aging terminates no container that was idle for less than its lifetime, in
\* whatever order the lists come and whatever the loop shifts under its index.
THEOREM KeptLongEnoughHolds == Spec => KeptLongEnough
<1>1. ListsInv /\ ListsInv' /\ [Next]_vars => [KeepsLongEnough]_vars
  <2> SUFFICES ASSUME ListsInv, ListsInv', Next, pc = "age",
                      NEW n \in Nodes, NEW i \in DOMAIN cache[n],
                      cache[n][i].id \notin LiveIds'
               PROVE  cache[n][i].idle >= LifeTime
    BY DEF KeepsLongEnough
  <2>1. TypeInv /\ PhaseInv /\ LifeInv /\ IdleInv
    BY DEF ListsInv, LifetimeInv
  <2>2. cache[n][i].idle \in Nat /\ LifeTime \in Nat
    <3>1. cache[n][i] \in Container
      BY <2>1, ShownAre DEF Shown
    <3> QED
      BY <3>1, LifetimeConstantsOK DEF Container
  <2>3. \A d \in Shown' : d.id \in LiveIds'
    BY NextLiveIdsAre DEF ShownAreLive, ListsInv, LifetimeInv
  <2>4. ~ (cache[n][i].idle < LifeTime)
    BY <2>1, <2>3, AgingGoes
  <2> QED
    BY <2>2, <2>4
<1> QED
  BY <1>1, ListsInvHolds, PTL DEF Spec, KeptLongEnough, KeepsLongEnough

EvictsOldest ==
  pc # "age" => \A n \in Nodes : \A i \in DOMAIN cache[n] :
    cache[n][i].id \notin LiveIds' =>
      /\ n = Req.ingress /\ ~Fits
      /\ cache[n][i].life < LifeTime
      /\ \A j \in DOMAIN cache[n] : cache[n][i].life <= cache[n][j].life

\* Only fixedcaching evicts, only for want of room on the node of the request,
\* and then what has least of its lifetime left, which is less than all of it.
THEOREM EvictsTheOldestHolds == Spec => EvictsTheOldest
<1>1. ListsInv /\ ListsInv' /\ [Next]_vars => [EvictsOldest]_vars
  <2> SUFFICES ASSUME ListsInv, ListsInv', Next, pc # "age",
                      NEW n \in Nodes, NEW i \in DOMAIN cache[n],
                      cache[n][i].id \notin LiveIds'
               PROVE  /\ n = Req.ingress /\ ~Fits
                      /\ cache[n][i].life < LifeTime
                      /\ \A j \in DOMAIN cache[n] : cache[n][i].life <= cache[n][j].life
    BY DEF EvictsOldest
  <2>1. TypeInv /\ PhaseInv /\ LifeInv /\ IdleInv /\ OrderInv
    BY DEF ListsInv, LifetimeInv
  <2>2. \A d \in Shown' : d.id # cache[n][i].id
    BY NextLiveIdsAre DEF ShownAreLive, ListsInv, LifetimeInv
  <2>3. Evict
    <3>1. cache[n][i] \in Cached
      BY <2>1, ShownAre
    <3> QED
      BY <2>1, <2>2, <3>1, NothingGoes
  <2> DEFINE m == Req.ingress
             s == cache[m]
  <2>4. /\ m \in Nodes /\ s # <<>> /\ s \in Seq(Container)
        /\ cache' = [cache EXCEPT ![m] = Tail(@)]
    BY <2>1, <2>3, EvictTakesFirst
  <2>5. ~Fits /\ (Head(s).life < LifeTime)
    BY <2>3, <2>4 DEF Evict, MayEvict
  <2>6. FixedCaching
    BY <2>1, <2>3 DEF Evict, PhaseInv
  <2>7. InOrder(m)
    BY <2>1, <2>4, <2>6 DEF OrderInv
  <2> HIDE DEF m
  <2>8. n = m
    <3> SUFFICES ASSUME n # m PROVE FALSE
      OBVIOUS
    <3>1. cache'[n] = cache[n]
      BY <2>1, <2>4 DEF TypeInv
    <3>2. cache[n][i] \in Shown'
      BY <3>1 DEF Shown, Cached, Range
    <3> QED
      BY <2>2, <3>2
  <2>9. cache'[m] = Tail(s) /\ s[i] = cache[n][i] /\ i \in DOMAIN s
    BY <2>1, <2>4, <2>8 DEF TypeInv
  <2> HIDE DEF s
  <2>10. s[i] = Head(s)
    <3>1. Range(s) \subseteq Range(Tail(s)) \cup {Head(s)}
      BY <2>4, HeadTailIs
    <3>2. s[i] \in Range(s)
      BY <2>9 DEF Range
    <3>3. s[i] \notin Range(Tail(s))
      BY <2>2, <2>4, <2>9 DEF Shown, Cached
    <3> QED
      BY <3>1, <3>2, <3>3
  <2>11. \A j \in DOMAIN s : Head(s).life <= s[j].life
    BY <2>4, <2>7, SortedTail DEF InOrder, s
  <2> QED
    BY <2>5, <2>8, <2>9, <2>10, <2>11 DEF m, s
<1> QED
  BY <1>1, ListsInvHolds, PTL DEF Spec, EvictsTheOldest, EvictsOldest

-----------------------------------------------------------------------------
(* Where the containers are.                                               *)

Ledger == Members(Nodes, Types, cache, active, leaked)

\* A list holds containers of its own node, and a slice those of its own type.
ListsOfOneNode ==
  /\ \A n \in Nodes : \A c \in Range(cache[n]) : c.node = n
  /\ \A n \in Nodes, t \in Types :
       \A c \in Range(active[n][t]) : c.node = n /\ c.type = t

\* No list names a container twice.
ListsDistinct ==
  /\ \A n \in Nodes : Distinct(cache[n])
  /\ \A n \in Nodes, t \in Types : Distinct(active[n][t])

\* No two entries have the same name, and the names are those given out.
OneEntryEach == \A c, d \in Ledger : c.id = d.id => c = d
NamesGiven == \A c \in Ledger : c.id \in 1 .. count

LeakedType == leaked \in [Nodes -> [Types -> Seq(Container)]]

PlacesInv == LeakedType /\ ListsOfOneNode /\ ListsDistinct /\ OneEntryEach /\ NamesGiven

LEMMA PlacesInvInit == Init => PlacesInv
<1> SUFFICES ASSUME Init PROVE PlacesInv
  OBVIOUS
<1>1. /\ \A n \in Nodes : cache[n] = <<>>
      /\ \A n \in Nodes, t \in Types : active[n][t] = <<>> /\ leaked[n][t] = <<>>
  BY DEF Init
<1>2. Range(<<>>) = {} /\ Distinct(<<>>)
  BY EmptySeq DEF Range, Distinct
<1>3. ListsOfOneNode /\ ListsDistinct
  BY <1>1, <1>2 DEF ListsOfOneNode, ListsDistinct
<1>4. Ledger = {}
  <2>1. \A e : e \notin Members(Nodes, Types, cache, active, leaked)
    BY <1>1, <1>2, InMembers
  <2> QED
    BY <2>1 DEF Ledger
<1>5. LeakedType
  BY EmptySeq DEF Init, LeakedType
<1> QED
  BY <1>3, <1>4, <1>5 DEF PlacesInv, OneEntryEach, NamesGiven

LedgerShowsLists ==
  /\ \A n \in Nodes : \A c \in Range(cache[n]) : c.type \in Types
  /\ \A n \in Nodes, t \in Types : \A i :
       /\ Entry(i, "idle", n, t) \in Ledger <=> i \in IdsOfType(cache[n], t)
       /\ Entry(i, "busy", n, t) \in Ledger <=> i \in IdsIn(active[n][t])
       /\ Entry(i, "lost", n, t) \in Ledger <=> i \in IdsIn(leaked[n][t])
  /\ \A e \in Ledger : /\ e.is \in Kinds /\ e.node \in Nodes /\ e.type \in Types
                      /\ e = Entry(e.id, e.is, e.node, e.type)

LEMMA InLedger == TypeInv => LedgerShowsLists
<1> SUFFICES ASSUME TypeInv PROVE LedgerShowsLists
  OBVIOUS
<1>1. ASSUME NEW n \in Nodes, NEW c \in Range(cache[n])
      PROVE  c.type \in Types
  <2>1. c \in Container
    BY ShownAre DEF Cached, Shown
  <2> QED
    BY <2>1 DEF Container
<1> QED
  BY <1>1, MembersAre DEF Ledger, LedgerShowsLists

LEMMA NextInLedger == TypeInv' => LedgerShowsLists'
BY InLedger, PTL

\* A step that takes the entries X out of the lists and puts Y in.
CacheChange(X, Y) ==
  \A n \in Nodes, t \in Types : \A i :
    i \in IdsOfType(cache'[n], t) <=>
      \/ i \in IdsOfType(cache[n], t) /\ Entry(i, "idle", n, t) \notin X
      \/ Entry(i, "idle", n, t) \in Y
ActiveChange(X, Y) ==
  \A n \in Nodes, t \in Types : \A i :
    i \in IdsIn(active'[n][t]) <=>
      \/ i \in IdsIn(active[n][t]) /\ Entry(i, "busy", n, t) \notin X
      \/ Entry(i, "busy", n, t) \in Y
LeakedChange(X, Y) ==
  \A n \in Nodes, t \in Types : \A i :
    i \in IdsIn(leaked'[n][t]) <=>
      \/ i \in IdsIn(leaked[n][t]) /\ Entry(i, "lost", n, t) \notin X
      \/ Entry(i, "lost", n, t) \in Y

LEMMA LedgerChange ==
  ASSUME TypeInv, TypeInv', NEW X, NEW Y,
         CacheChange(X, Y), ActiveChange(X, Y), LeakedChange(X, Y),
         \A e \in Y : /\ e.is \in Kinds /\ e.node \in Nodes /\ e.type \in Types
                      /\ e = Entry(e.id, e.is, e.node, e.type)
  PROVE  Ledger' = (Ledger \ X) \cup Y
<1>1. /\ \A n \in Nodes : \A c \in Range(cache[n]) : c.type \in Types
      /\ \A n \in Nodes : \A c \in Range(cache'[n]) : c.type \in Types
  <2>1. (\A n \in Nodes : \A c \in Range(cache[n]) : c.type \in Types)'
    BY NextInLedger DEF LedgerShowsLists
  <2>2. \A n \in Nodes : \A c \in Range(cache'[n]) : c.type \in Types
    BY <2>1 DEF Range
  <2> QED
    BY <2>2, InLedger DEF LedgerShowsLists
<1>2. ListsChange(Nodes, Types, cache, active, leaked, cache', active', leaked', X, Y)
  BY <1>1 DEF ListsChange, CacheChange, ActiveChange, LeakedChange
<1>3. Ledger' = Members(Nodes, Types, cache', active', leaked')
  BY DEF Ledger, Members
<1> QED
  BY <1>2, <1>3, MembersChange DEF Ledger

\* A list whose containers grow older has the same names.
SameNames(s, q) ==
  /\ DOMAIN q = DOMAIN s
  /\ \A i \in DOMAIN s : q[i].id = s[i].id /\ q[i].type = s[i].type /\ q[i].node = s[i].node

LEMMA SameNamesAre ==
  ASSUME NEW s, NEW q, SameNames(s, q)
  PROVE  /\ \A t : IdsOfType(q, t) = IdsOfType(s, t)
         /\ Distinct(s) => Distinct(q)
         /\ \A n : (\A c \in Range(s) : c.node = n) => \A c \in Range(q) : c.node = n
<1>1. ASSUME NEW t
      PROVE  IdsOfType(q, t) = IdsOfType(s, t)
  <2>1. \A x, y : SameNames(x, y) => \A j : j \in IdsOfType(x, t) => j \in IdsOfType(y, t)
    BY DEF SameNames, IdsOfType, Range
  <2>2. SameNames(q, s)
    BY DEF SameNames
  <2> QED
    BY <2>1, <2>2
<1> QED
  BY <1>1 DEF SameNames, Distinct, Range

\* The names in a list of cache that gains or loses none.
NamesStay ==
  /\ \A n \in Nodes : \A t \in Types : IdsOfType(cache'[n], t) = IdsOfType(cache[n], t)
  /\ \A n \in Nodes : Distinct(cache'[n]) /\ \A c \in Range(cache'[n]) : c.node = n

LEMMA SameNamesStay ==
  ASSUME PlacesInv, \A n \in Nodes : SameNames(cache[n], cache'[n])
  PROVE  NamesStay
<1>1. ASSUME NEW n \in Nodes
      PROVE  /\ \A t \in Types : IdsOfType(cache'[n], t) = IdsOfType(cache[n], t)
             /\ Distinct(cache'[n]) /\ \A c \in Range(cache'[n]) : c.node = n
  <2> DEFINE s == cache[n]
             q == cache'[n]
  <2>1. SameNames(s, q) /\ Distinct(s) /\ \A c \in Range(s) : c.node = n
    BY DEF PlacesInv, ListsDistinct, ListsOfOneNode
  <2> HIDE DEF s, q
  <2>2. \A t : IdsOfType(q, t) = IdsOfType(s, t)
    BY <2>1, SameNamesAre
  <2>3. Distinct(q)
    BY <2>1, SameNamesAre
  <2>4. \A c \in Range(q) : c.node = n
    BY <2>1, SameNamesAre
  <2> QED
    BY <2>2, <2>3, <2>4 DEF s, q
<1> QED
  BY <1>1 DEF NamesStay

LEMMA NamesStayPut ==
  ASSUME TypeInv, TypeInv', PlacesInv, NamesStay, active' = active, leaked' = leaked
  PROVE  LeakedType' /\ ListsOfOneNode' /\ ListsDistinct' /\ Ledger' = Ledger
<1>1. ListsOfOneNode' /\ ListsDistinct'
  BY DEF NamesStay, PlacesInv, ListsOfOneNode, ListsDistinct
<1>2. CacheChange({}, {}) /\ ActiveChange({}, {}) /\ LeakedChange({}, {})
  BY DEF NamesStay, CacheChange, ActiveChange, LeakedChange
<1>3. Ledger' = (Ledger \ {}) \cup {}
  BY <1>2, LedgerChange
<1> QED
  BY <1>1, <1>3 DEF PlacesInv, LeakedType

\* Aging changes no name.
LEMMA AgingStays ==
  ASSUME TypeInv, PhaseInv, Age \/ NextCache
  PROVE  \A n \in Nodes : SameNames(cache[n], cache'[n])
<1>1. CASE Age
  <2>1. /\ at[1] \in Nodes
        /\ cache' \in [Nodes -> Seq(Container)] /\ Len(cache'[at[1]]) = Len(cache[at[1]])
        /\ \A o \in Nodes \ {at[1]} : cache'[o] = cache[o]
        /\ \A i \in 1 .. Len(cache[at[1]]) : cache'[at[1]][i]
             = IF i = k + 1 THEN MinusLife(cache[at[1]][i]) ELSE cache[at[1]][i]
    BY <1>1, AgeIs, OlderIs DEF Age
  <2>2. cache[at[1]] \in Seq(Container)
    BY <2>1 DEF TypeInv
  <2>3. /\ DOMAIN cache[at[1]] = 1 .. Len(cache[at[1]])
        /\ DOMAIN cache'[at[1]] = 1 .. Len(cache[at[1]])
    BY <2>1, <2>2, LenProperties
  <2>4. \A i \in 1 .. Len(cache[at[1]]) : cache[at[1]][i] \in Container
    BY <2>2, ElementOfSeq
  <2>5. SameNames(cache[at[1]], cache'[at[1]])
    BY <2>1, <2>3, <2>4, MinusLifeIs DEF SameNames
  <2> QED
    BY <2>1, <2>5 DEF SameNames
<1>2. CASE NextCache
  <2>1. /\ cache' \in [Nodes -> Seq(Container)] /\ aged' = cache'[at'[1]]
        /\ at'[1] \in Nodes
        /\ Len(aged') = Len(cache[at'[1]])
        /\ \A j \in 1 .. Len(aged') : aged'[j] = [cache[at'[1]][j] EXCEPT !.idle = @ + 1]
        /\ \A o \in Nodes : o # at'[1] => cache'[o] = cache[o]
    BY <1>2, NextCacheIs
  <2> DEFINE n == at'[1]
  <2>2. n \in Nodes /\ cache[n] \in Seq(Container) /\ cache'[n] \in Seq(Container)
    BY <2>1 DEF TypeInv
  <2>3. /\ DOMAIN cache[n] = 1 .. Len(cache[n])
        /\ DOMAIN cache'[n] = 1 .. Len(cache[n])
    BY <2>1, <2>2, LenProperties
  <2>4. \A i \in 1 .. Len(cache[n]) : cache[n][i] \in Container
    BY <2>2, ElementOfSeq
  <2>5. \A i \in 1 .. Len(cache[n]) : cache'[n][i] = [cache[n][i] EXCEPT !.idle = @ + 1]
    BY <2>1
  <2> HIDE DEF n
  <2>6. SameNames(cache[n], cache'[n])
    <3>1. \A i \in 1 .. Len(cache[n]) : /\ cache'[n][i].id = cache[n][i].id
                                        /\ cache'[n][i].type = cache[n][i].type
                                        /\ cache'[n][i].node = cache[n][i].node
      BY <2>4, <2>5 DEF Container
    <3> QED
      BY <2>3, <3>1 DEF SameNames
  <2> QED
    BY <2>1, <2>6 DEF SameNames, n
<1> QED
  BY <1>1, <1>2

\* An idle container is terminated.
LEMMA DropMoves ==
  ASSUME TypeInv, TypeInv', PlacesInv, NEW n \in Nodes, NEW i \in DOMAIN cache[n],
         \A m \in Nodes : cache'[m] = IF m = n THEN DeleteAt(cache[n], i) ELSE cache[m],
         active' = active, leaked' = leaked
  PROVE  /\ LeakedType' /\ ListsOfOneNode' /\ ListsDistinct'
         /\ \E e \in Ledger : e.is = "idle" /\ Ledger' = Ledger \ {e}
<1> DEFINE s == cache[n]
           c == s[i]
           t == c.type
           X == {Entry(c.id, "idle", n, t)}
<1>1. s \in Seq(Container) /\ i \in DOMAIN s
  BY DEF TypeInv
<1>3. t \in Types
  <2>1. c \in Container
    BY <1>1, LenProperties, ElementOfSeq
  <2> QED
    BY <2>1 DEF Container
<1>4. \A m \in Nodes : cache'[m] = IF m = n THEN DeleteAt(s, i) ELSE cache[m]
  OBVIOUS
<1>6. Distinct(s)
  BY DEF PlacesInv, ListsDistinct
<1>a. s = cache[n] /\ s[i] = c /\ c.type = t
  OBVIOUS
<1> HIDE DEF c, t, s
<1>7. /\ c.id \in IdsOfType(s, t)
      /\ \A u : IdsOfType(DeleteAt(s, i), u)
                 = IF u = t THEN IdsOfType(s, u) \ {c.id} ELSE IdsOfType(s, u)
  <2>1. s[i].id \in IdsIn(s) /\ s[i].id \in IdsOfType(s, s[i].type)
    BY <1>1, <1>6, IdsAfterDelete
  <2>2. ASSUME NEW u
        PROVE  IdsOfType(DeleteAt(s, i), u)
                 = IF u = s[i].type THEN IdsOfType(s, u) \ {s[i].id} ELSE IdsOfType(s, u)
    BY <1>1, <1>6, IdsAfterDelete
  <2> QED
    BY <1>a, <2>1, <2>2
<1>8. Distinct(DeleteAt(s, i)) /\ Range(DeleteAt(s, i)) \subseteq Range(s)
  BY <1>1, <1>6, RangeOfDeleteAt
<1>9. Entry(c.id, "idle", n, t) \in Ledger
  BY <1>3, <1>7, <1>a, InLedger DEF LedgerShowsLists
<1>10. ListsDistinct'
  BY <1>4, <1>8 DEF PlacesInv, ListsDistinct
<1>11. ListsOfOneNode'
  BY <1>4, <1>8, <1>a DEF PlacesInv, ListsOfOneNode
<1>12. Ledger' = (Ledger \ X) \cup {}
  <2>1. CacheChange(X, {})
    <3> SUFFICES ASSUME NEW m \in Nodes, NEW u \in Types, NEW j
                 PROVE  j \in IdsOfType(cache'[m], u) <=>
                          j \in IdsOfType(cache[m], u) /\ Entry(j, "idle", m, u) \notin X
      BY DEF CacheChange
    <3>1. Entry(j, "idle", m, u) \in X <=> j = c.id /\ m = n /\ u = t
      BY EntryIsPair
    <3>2. CASE m = n
      BY <1>4, <1>7, <1>a, <3>1, <3>2
    <3>3. CASE m # n
      BY <1>4, <3>1, <3>3
    <3> QED
      BY <3>2, <3>3
  <2>2. ActiveChange(X, {}) /\ LeakedChange(X, {})
    BY EntryIsPair DEF ActiveChange, LeakedChange
  <2> HIDE DEF X
  <2> QED
    BY <2>1, <2>2, LedgerChange
<1>13. Entry(c.id, "idle", n, t).is = "idle"
  BY DEF Entry
<1> QED
  BY <1>9, <1>10, <1>11, <1>12, <1>13 DEF PlacesInv, LeakedType

LEMMA ExpireMoves ==
  ASSUME TypeInv, TypeInv', PhaseInv, PlacesInv, Expire
  PROVE  /\ LeakedType' /\ ListsOfOneNode' /\ ListsDistinct'
         /\ \/ Ledger' = Ledger
            \/ \E e \in Ledger : e.is = "idle" /\ Ledger' = Ledger \ {e}
<1> DEFINE n == at[1]
           m == Len(cache[n])
           r == Len(cache'[n])
<1>1. /\ n \in Nodes
      /\ cache' \in [Nodes -> Seq(Container)]
      /\ \A o \in Nodes \ {n} : cache'[o] = cache[o]
      /\ k + 1 \in 1 .. m =>
           /\ r = m - 1
           /\ \A i \in 1 .. r :
                cache'[n][i] = IF i < k + 1 THEN cache[n][i] ELSE cache[n][i + 1]
      /\ k + 1 \notin 1 .. m =>
           /\ r = m
           /\ \A i \in 1 .. r : cache'[n][i] = cache[n][i]
  BY ExpireIs, OlderIs DEF Expire, Expired
<1>2. active' = active /\ leaked' = leaked
  BY DEF Expire
<1> HIDE DEF n
<1>3. cache[n] \in Seq(Container) /\ DOMAIN cache[n] = 1 .. m /\ cache'[n] \in Seq(Container)
  BY <1>1, LenProperties DEF TypeInv
<1>4. CASE k + 1 \in 1 .. m
  <2> DEFINE i == k + 1
             d == DeleteAt(cache[n], i)
  <2>1. i \in DOMAIN cache[n]
    BY <1>3, <1>4
  <2> HIDE DEF i
  <2>2. /\ d \in Seq(Container) /\ Len(d) = m - 1
        /\ \A p \in 1 .. m - 1 : d[p] = IF p < i THEN cache[n][p] ELSE cache[n][p + 1]
    BY <1>3, <2>1, DeleteAtProperties
  <2> HIDE DEF d, m
  <2>3. r = m - 1 /\ \A p \in 1 .. r : cache'[n][p] = IF p < i THEN cache[n][p] ELSE cache[n][p + 1]
    BY <1>1, <1>4 DEF i
  <2>4. cache'[n] = d
    BY <1>3, <2>2, <2>3, SeqEqual
  <2>5. \A o \in Nodes : cache'[o] = IF o = n THEN DeleteAt(cache[n], i) ELSE cache[o]
    BY <1>1, <2>4 DEF d
  <2> QED
    BY <1>1, <1>2, <2>1, <2>5, DropMoves
<1>5. CASE k + 1 \notin 1 .. m
  <2>1. cache'[n] = cache[n]
    BY <1>1, <1>3, <1>5, SeqEqual
  <2>2. \A o \in Nodes : SameNames(cache[o], cache'[o])
    BY <1>1, <2>1 DEF SameNames
  <2> QED
    BY <1>2, <2>2, SameNamesStay, NamesStayPut
<1> QED
  BY <1>4, <1>5

LEMMA EvictMoves ==
  ASSUME TypeInv, TypeInv', PhaseInv, PlacesInv, Evict
  PROVE  /\ LeakedType' /\ ListsOfOneNode' /\ ListsDistinct'
         /\ \E e \in Ledger : e.is = "idle" /\ Ledger' = Ledger \ {e}
<1> DEFINE n == Req.ingress
<1>1. /\ n \in Nodes /\ cache[n] # <<>> /\ cache[n] \in Seq(Container)
      /\ cache' = [cache EXCEPT ![n] = Tail(@)]
  BY EvictTakesFirst
<1>2. active' = active /\ leaked' = leaked
  BY DEF Evict
<1> HIDE DEF n
<1>3. 1 \in DOMAIN cache[n] /\ Tail(cache[n]) = DeleteAt(cache[n], 1)
  BY <1>1, TailIsDeleteAt
<1>4. \A m \in Nodes : cache'[m] = IF m = n THEN DeleteAt(cache[n], 1) ELSE cache[m]
  BY <1>1, <1>3 DEF TypeInv
<1> QED
  BY <1>1, <1>2, <1>3, <1>4, DropMoves

\* Idle containers are put in use: what a slice gains the list of its node
\* loses.
LEMMA TakenAtNames ==
  ASSUME TypeInv, PlacesInv, NEW n \in Nodes, TakenAt(n)
  PROVE  /\ Distinct(cache'[n]) /\ \A c \in Range(cache'[n]) : c.node = n
         /\ \A t \in Types :
              /\ Distinct(active'[n][t])
              /\ \A c \in Range(active'[n][t]) : c.node = n /\ c.type = t
              /\ IdsOfType(cache'[n], t) \subseteq IdsOfType(cache[n], t)
              /\ IdsIn(active'[n][t]) = IdsIn(active[n][t])
                   \cup (IdsOfType(cache[n], t) \ IdsOfType(cache'[n], t))
<1>1. CASE cache'[n] = cache[n] /\ active'[n] = active[n]
  BY <1>1 DEF PlacesInv, ListsDistinct, ListsOfOneNode
<1>2. CASE \E i \in DOMAIN cache[n], t \in Types :
             /\ cache[n][i].type = t
             /\ cache'[n] = DeleteAt(cache[n], i)
             /\ active'[n] = [active[n] EXCEPT ![t] = Append(@, cache[n][i])]
  <2>0. PICK i \in DOMAIN cache[n], t \in Types :
          /\ cache[n][i].type = t
          /\ cache'[n] = DeleteAt(cache[n], i)
          /\ active'[n] = [active[n] EXCEPT ![t] = Append(@, cache[n][i])]
    BY <1>2
  <2> DEFINE s == cache[n]
             c == s[i]
             a == active[n][t]
  <2>1. s \in Seq(Container) /\ i \in DOMAIN s /\ a \in Seq(Container)
        /\ active[n] \in [Types -> Seq(Container)]
    BY DEF TypeInv
  <2>2. c \in Container /\ c \in Range(s)
    BY <2>1, LenProperties, ElementOfSeq DEF Range
  <2>3. /\ Distinct(s) /\ Distinct(a) /\ \A d \in Range(s) : d.node = n
        /\ \A u \in Types : /\ Distinct(active[n][u])
                            /\ \A d \in Range(active[n][u]) : d.node = n /\ d.type = u
    BY DEF PlacesInv, ListsDistinct, ListsOfOneNode
  <2>4. /\ cache'[n] = DeleteAt(s, i) /\ s = cache[n] /\ a = active[n][t]
        /\ \A u \in Types : active'[n][u] = IF u = t THEN Append(a, c) ELSE active[n][u]
    BY <2>0, <2>1
  <2>a. s[i] = c /\ c.type = t
    BY <2>0
  <2> HIDE DEF s, c, a
  <2>5. /\ c.id \in IdsOfType(s, t)
        /\ \A u : IdsOfType(DeleteAt(s, i), u)
                   = IF u = t THEN IdsOfType(s, u) \ {c.id} ELSE IdsOfType(s, u)
    <3>1. s[i].id \in IdsIn(s) /\ s[i].id \in IdsOfType(s, s[i].type)
      BY <2>1, <2>3, IdsAfterDelete
    <3>2. ASSUME NEW u
          PROVE  IdsOfType(DeleteAt(s, i), u)
                   = IF u = s[i].type THEN IdsOfType(s, u) \ {s[i].id} ELSE IdsOfType(s, u)
      BY <2>1, <2>3, IdsAfterDelete
    <3> QED
      BY <2>a, <3>1, <3>2
  <2>6. Distinct(DeleteAt(s, i)) /\ Range(DeleteAt(s, i)) \subseteq Range(s)
    BY <2>1, <2>3, RangeOfDeleteAt
  <2>7. c.id \notin IdsIn(a)
    <3>1. Entry(c.id, "idle", n, t) \in Ledger
      BY <2>4, <2>5, InLedger DEF LedgerShowsLists
    <3>2. Entry(c.id, "idle", n, t).id = c.id /\ Entry(c.id, "busy", n, t).id = c.id
      BY DEF Entry
    <3>3. Entry(c.id, "idle", n, t) # Entry(c.id, "busy", n, t)
      BY EntryIsPair
    <3>4. Entry(c.id, "busy", n, t) \notin Ledger
      BY <3>1, <3>2, <3>3 DEF PlacesInv, OneEntryEach
    <3> QED
      BY <2>4, <3>4, InLedger DEF LedgerShowsLists
  <2>8. /\ IdsIn(Append(a, c)) = IdsIn(a) \cup {c.id}
        /\ Range(Append(a, c)) = Range(a) \cup {c}
        /\ Distinct(Append(a, c))
    BY <2>1, <2>2, <2>3, <2>7, RangeOfAppend DEF IdsIn
  <2>9. Distinct(cache'[n]) /\ \A d \in Range(cache'[n]) : d.node = n
    BY <2>3, <2>4, <2>6
  <2>10. ASSUME NEW u \in Types
         PROVE  /\ Distinct(active'[n][u])
                /\ \A d \in Range(active'[n][u]) : d.node = n /\ d.type = u
    BY <2>2, <2>3, <2>4, <2>8, <2>a
  <2>11. ASSUME NEW u \in Types
         PROVE  /\ IdsOfType(cache'[n], u) \subseteq IdsOfType(cache[n], u)
                /\ IdsIn(active'[n][u]) = IdsIn(active[n][u])
                     \cup (IdsOfType(cache[n], u) \ IdsOfType(cache'[n], u))
    <3>1. CASE u = t
      <4>1. IdsOfType(cache'[n], u) = IdsOfType(s, t) \ {c.id}
        BY <2>4, <2>5, <3>1
      <4>2. IdsIn(active'[n][u]) = IdsIn(a) \cup {c.id}
        BY <2>4, <2>8, <3>1
      <4> QED
        BY <2>4, <2>5, <3>1, <4>1, <4>2
    <3>2. CASE u # t
      <4>1. IdsOfType(cache'[n], u) = IdsOfType(s, u)
        BY <2>4, <2>5, <3>2
      <4>2. active'[n][u] = active[n][u]
        BY <2>4, <3>2
      <4> QED
        BY <2>4, <4>1, <4>2
    <3> QED
      BY <3>1, <3>2
  <2> QED
    BY <2>9, <2>10, <2>11
<1> QED
  BY <1>1, <1>2 DEF TakenAt

\* The steps that move some containers of the ledger to another state.
Shift(from, to) ==
  \E X \in SUBSET Ledger :
    /\ \A e \in X : e.is = from
    /\ Ledger' = (Ledger \ X) \cup InState(X, to)

LEMMA InStateIs ==
  ASSUME TypeInv, NEW X \in SUBSET Ledger, NEW from, \A e \in X : e.is = from, NEW to \in Kinds
  PROVE  /\ \A e \in InState(X, to) : /\ e.is \in Kinds /\ e.node \in Nodes /\ e.type \in Types
                                      /\ e = Entry(e.id, e.is, e.node, e.type)
         /\ \A i, n, t : Entry(i, to, n, t) \in InState(X, to) <=> Entry(i, from, n, t) \in X
         /\ \A i, s, n, t : s # to => Entry(i, s, n, t) \notin InState(X, to)
         /\ \A i, s, n, t : s # from => Entry(i, s, n, t) \notin X
<1>1. \A i, s, n, t : /\ Entry(i, s, n, t).is = s /\ Entry(i, s, n, t).id = i
                      /\ Entry(i, s, n, t).node = n /\ Entry(i, s, n, t).type = t
  BY DEF Entry
<1>2. \A e \in X : e.node \in Nodes /\ e.type \in Types /\ e = Entry(e.id, from, e.node, e.type)
  BY InLedger DEF LedgerShowsLists
<1>3. ASSUME NEW e \in InState(X, to)
      PROVE  /\ e.is \in Kinds /\ e.node \in Nodes /\ e.type \in Types
             /\ e = Entry(e.id, e.is, e.node, e.type)
  <2>1. PICK d \in X : e = Entry(d.id, to, d.node, d.type)
    BY DEF InState
  <2>2. e.id = d.id /\ e.is = to /\ e.node = d.node /\ e.type = d.type
    BY <1>1, <2>1
  <2> QED
    BY <1>2, <2>1, <2>2
<1>4. ASSUME NEW i, NEW n, NEW t
      PROVE  Entry(i, to, n, t) \in InState(X, to) <=> Entry(i, from, n, t) \in X
  <2>1. ASSUME Entry(i, to, n, t) \in InState(X, to)
        PROVE  Entry(i, from, n, t) \in X
    <3>1. PICK d \in X : Entry(i, to, n, t) = Entry(d.id, to, d.node, d.type)
      BY <2>1 DEF InState
    <3>2. d.id = i /\ d.node = n /\ d.type = t
      BY <3>1, EntryIsPair
    <3> QED
      BY <1>2, <3>2
  <2>2. ASSUME Entry(i, from, n, t) \in X
        PROVE  Entry(i, to, n, t) \in InState(X, to)
    BY <1>1, <2>2 DEF InState
  <2> QED
    BY <2>1, <2>2
<1>5. \A i, s, n, t : s # to => Entry(i, s, n, t) \notin InState(X, to)
  BY EntryIsPair DEF InState
<1>6. \A i, s, n, t : s # from => Entry(i, s, n, t) \notin X
  BY <1>1
<1> QED
  BY <1>3, <1>4, <1>5, <1>6

LEMMA TakeMoves ==
  ASSUME TypeInv, TypeInv', PlacesInv, Taken, leaked' = leaked
  PROVE  LeakedType' /\ ListsOfOneNode' /\ ListsDistinct' /\ Shift("idle", "busy")
<1>1. \A n \in Nodes :
         /\ Distinct(cache'[n]) /\ \A c \in Range(cache'[n]) : c.node = n
         /\ \A t \in Types :
              /\ Distinct(active'[n][t])
              /\ \A c \in Range(active'[n][t]) : c.node = n /\ c.type = t
              /\ IdsOfType(cache'[n], t) \subseteq IdsOfType(cache[n], t)
              /\ IdsIn(active'[n][t]) = IdsIn(active[n][t])
                   \cup (IdsOfType(cache[n], t) \ IdsOfType(cache'[n], t))
  BY TakenAtNames DEF Taken
<1>2. LeakedType' /\ ListsOfOneNode' /\ ListsDistinct'
  BY <1>1 DEF PlacesInv, LeakedType, ListsOfOneNode, ListsDistinct
<1> DEFINE X == {e \in Ledger : e.is = "idle" /\ e.id \notin IdsOfType(cache'[e.node], e.type)}
           Y == InState(X, "busy")
<1>3. X \in SUBSET Ledger /\ \A e \in X : e.is = "idle"
  OBVIOUS
<1>4. \A n \in Nodes, t \in Types : \A i :
        Entry(i, "idle", n, t) \in X <=> /\ i \in IdsOfType(cache[n], t)
                                         /\ i \notin IdsOfType(cache'[n], t)
  BY InLedger DEF LedgerShowsLists, Entry
<1> HIDE DEF X
<1>5. /\ \A e \in Y : /\ e.is \in Kinds /\ e.node \in Nodes /\ e.type \in Types
                      /\ e = Entry(e.id, e.is, e.node, e.type)
      /\ \A i, n, t : Entry(i, "busy", n, t) \in Y <=> Entry(i, "idle", n, t) \in X
      /\ \A i, s, n, t : s # "busy" => Entry(i, s, n, t) \notin Y
      /\ \A i, s, n, t : s # "idle" => Entry(i, s, n, t) \notin X
  <2>1. "busy" \in Kinds
    BY DEF Kinds
  <2> QED
    BY <1>3, <2>1, InStateIs
<1> HIDE DEF Y
<1>6. CacheChange(X, Y)
  BY <1>1, <1>4, <1>5 DEF CacheChange
<1>7. ActiveChange(X, Y)
  BY <1>1, <1>4, <1>5 DEF ActiveChange
<1>8. LeakedChange(X, Y)
  BY <1>5 DEF LeakedChange
<1>9. Ledger' = (Ledger \ X) \cup Y
  BY <1>5, <1>6, <1>7, <1>8, LedgerChange
<1> QED
  BY <1>2, <1>3, <1>9 DEF Shift, Y

\* A new container is put in use, under a name not given out before.
IsCreated ==
  /\ count' = count + 1
  /\ \E n \in Nodes, t \in Types : Ledger' = Ledger \cup {Entry(count + 1, "busy", n, t)}

LEMMA CreateMoves ==
  ASSUME TypeInv, TypeInv', PlacesInv, cur <= Len(reqs), CreateContainer
  PROVE  LeakedType' /\ ListsOfOneNode' /\ ListsDistinct' /\ IsCreated
<1> DEFINE n == Req.ingress
           t == Req.type
           a == active[n][t]
           Y == {Entry(count + 1, "busy", n, t)}
<1>1. n \in Nodes /\ t \in Types /\ a \in Seq(Container)
  <2>1. n \in Nodes /\ t \in Types
    BY CurrentRequest
  <2> QED
    BY <2>1 DEF TypeInv
<1>2. PICK c \in Container :
        /\ c.id = count + 1 /\ c.type = t /\ c.node = n
        /\ active' = [active EXCEPT ![n][t] = Append(@, c)]
  BY CreateType
<1>3. count' = count + 1 /\ cache' = cache /\ leaked' = leaked
  BY DEF CreateContainer
<1>a. a = active[n][t]
  OBVIOUS
<1> HIDE DEF n, t, a
<1>4. \A m \in Nodes, u \in Types :
        active'[m][u] = IF m = n /\ u = t THEN Append(a, c) ELSE active[m][u]
  BY <1>1, <1>2, <1>a DEF TypeInv
<1>5. Distinct(a)
  BY <1>1, <1>a DEF PlacesInv, ListsDistinct
<1>6. \A e \in Ledger : e.id # c.id
  <2>1. count \in Nat
    BY DEF TypeInv
  <2> QED
    BY <1>2, <2>1 DEF PlacesInv, NamesGiven
<1>7. c.id \notin IdsIn(a)
  <2>1. Entry(c.id, "busy", n, t) \notin Ledger
    BY <1>6 DEF Entry
  <2> QED
    BY <1>1, <1>a, <2>1, InLedger DEF LedgerShowsLists
<1>8. /\ IdsIn(Append(a, c)) = IdsIn(a) \cup {c.id}
      /\ Range(Append(a, c)) = Range(a) \cup {c}
      /\ Distinct(Append(a, c))
  BY <1>1, <1>5, <1>7, RangeOfAppend DEF IdsIn
<1>9. ListsDistinct'
  BY <1>3, <1>4, <1>8 DEF PlacesInv, ListsDistinct
<1>10. ListsOfOneNode'
  BY <1>1, <1>2, <1>3, <1>4, <1>8, <1>a DEF PlacesInv, ListsOfOneNode
<1>11. LeakedType'
  BY <1>3 DEF PlacesInv, LeakedType
<1>12. Ledger' = (Ledger \ {}) \cup Y
  <2>1. CacheChange({}, Y) /\ LeakedChange({}, Y)
    BY <1>3, EntryIsPair DEF CacheChange, LeakedChange
  <2>2. ActiveChange({}, Y)
    BY <1>1, <1>2, <1>4, <1>8, <1>a, EntryIsPair DEF ActiveChange
  <2>3. \A e \in Y : /\ e.is \in Kinds /\ e.node \in Nodes /\ e.type \in Types
                     /\ e = Entry(e.id, e.is, e.node, e.type)
    BY <1>1 DEF Entry, Kinds
  <2> HIDE DEF Y
  <2> QED
    BY <2>1, <2>2, <2>3, LedgerChange
<1> QED
  BY <1>1, <1>3, <1>9, <1>10, <1>11, <1>12 DEF IsCreated

\* updateCache moves a container from its slice to the cache of its node.
LEMMA ReturnMoves ==
  ASSUME TypeInv, TypeInv', PhaseInv, PlacesInv, CacheActive
  PROVE  LeakedType' /\ ListsOfOneNode' /\ ListsDistinct' /\ Shift("busy", "idle")
<1> DEFINE n == at[1]
           t == at[2]
           s == active[n][t]
           c == s[k + 1]
           h == cache[n]
<1>1. /\ n \in Nodes /\ t \in Types /\ SliceAt = s
      /\ s \in Seq(Container) /\ k + 1 \in DOMAIN s /\ c \in Container
  BY SliceInUse, PlacesApart DEF CacheActive
<1>2. c \in Range(s)
  BY <1>1 DEF Range
<1>3. c.node = n /\ c.type = t /\ Distinct(s) /\ Distinct(h) /\ h \in Seq(Container)
  <2>1. c.node = n /\ c.type = t
    BY <1>1, <1>2 DEF PlacesInv, ListsOfOneNode
  <2>2. Distinct(s) /\ Distinct(h)
    BY <1>1 DEF PlacesInv, ListsDistinct
  <2>3. h \in Seq(Container)
    BY <1>1 DEF TypeInv
  <2> QED
    BY <2>1, <2>2, <2>3
<1>4. PICK d \in Container :
        /\ d.id = c.id /\ d.type = c.type /\ d.node = c.node
        /\ cache' = [cache EXCEPT ![d.node] = SortList(Append(@, d))]
        /\ active' = [active EXCEPT ![at[1]][at[2]] = DeleteAt(@, k + 1)]
  BY <1>1, CacheActiveMoves
<1>5. leaked' = leaked
  BY DEF CacheActive
<1> DEFINE q == SortList(Append(h, d))
           r == DeleteAt(s, k + 1)
           X == {Entry(c.id, "busy", n, t)}
           Y == InState(X, "idle")
<1>6. /\ \A m \in Nodes : cache'[m] = IF m = n THEN q ELSE cache[m]
      /\ \A m \in Nodes, u \in Types :
           active'[m][u] = IF m = n /\ u = t THEN r ELSE active[m][u]
  BY <1>1, <1>3, <1>4 DEF TypeInv
<1>a. s = active[n][t] /\ h = cache[n] /\ s[k + 1] = c
  OBVIOUS
<1> HIDE DEF s, c, h, n, t
<1>7. /\ IdsIn(r) = IdsIn(s) \ {c.id} /\ c.id \in IdsIn(s)
      /\ Distinct(r) /\ Range(r) \subseteq Range(s)
  <2>1. IdsIn(DeleteAt(s, k + 1)) = IdsIn(s) \ {s[k + 1].id} /\ s[k + 1].id \in IdsIn(s)
    BY <1>1, <1>3, IdsAfterDelete
  <2>2. Distinct(DeleteAt(s, k + 1)) /\ Range(DeleteAt(s, k + 1)) \subseteq Range(s)
    BY <1>1, <1>3, RangeOfDeleteAt
  <2> QED
    BY <1>a, <2>1, <2>2
<1>8. Entry(c.id, "busy", n, t) \in Ledger
  BY <1>1, <1>7, <1>a, InLedger DEF LedgerShowsLists
<1>9. c.id \notin IdsIn(h)
  <2> SUFFICES ASSUME NEW b \in Range(h), b.id = c.id PROVE FALSE
    BY DEF IdsIn
  <2>1. b.type \in Types
    BY <1>1, <1>a, InLedger DEF LedgerShowsLists
  <2>2. c.id \in IdsOfType(h, b.type)
    BY DEF IdsOfType
  <2>3. Entry(c.id, "idle", n, b.type) \in Ledger
    BY <1>1, <1>a, <2>1, <2>2, InLedger DEF LedgerShowsLists
  <2>4. Entry(c.id, "busy", n, t).id = c.id /\ Entry(c.id, "idle", n, b.type).id = c.id
    BY DEF Entry
  <2>5. Entry(c.id, "busy", n, t) # Entry(c.id, "idle", n, b.type)
    BY EntryIsPair
  <2> QED
    BY <1>8, <2>3, <2>4, <2>5 DEF PlacesInv, OneEntryEach
<1>10. /\ \A u : IdsOfType(q, u) = IF u = t THEN IdsOfType(h, u) \cup {c.id} ELSE IdsOfType(h, u)
       /\ Range(q) = Range(h) \cup {d} /\ Distinct(q)
  <2>0. \A e \in Container : e.prio \in Int
    BY DEF Container
  <2>1. ASSUME NEW u
        PROVE  IdsOfType(q, u) = IF u = d.type THEN IdsOfType(h, u) \cup {d.id}
                                               ELSE IdsOfType(h, u)
    BY <1>3, <2>0, IdsAfterAppend
  <2>2. Range(q) = Range(h) \cup {d}
    BY <1>3, <2>0, IdsAfterAppend
  <2>3. d.id \notin IdsIn(h)
    BY <1>4, <1>9
  <2>4. Distinct(q)
    BY <1>3, <2>0, <2>3, IdsAfterAppend
  <2> QED
    BY <1>3, <1>4, <2>1, <2>2, <2>4
<1> HIDE DEF q, r
<1>11. ListsDistinct'
  BY <1>6, <1>7, <1>10 DEF PlacesInv, ListsDistinct
<1>12. ListsOfOneNode'
  <2>1. \A m \in Nodes : \A e \in Range(cache'[m]) : e.node = m
    BY <1>3, <1>4, <1>6, <1>10, <1>a DEF PlacesInv, ListsOfOneNode
  <2>2. \A m \in Nodes, u \in Types : \A e \in Range(active'[m][u]) : e.node = m /\ e.type = u
    BY <1>6, <1>7, <1>a DEF PlacesInv, ListsOfOneNode
  <2> QED
    BY <2>1, <2>2 DEF ListsOfOneNode
<1>13. X \in SUBSET Ledger /\ \A e \in X : e.is = "busy"
  BY <1>8 DEF Entry
<1>14. \A i, m, u : Entry(i, "busy", m, u) \in X <=> i = c.id /\ m = n /\ u = t
  BY EntryIsPair
<1> HIDE DEF X
<1>15. /\ \A e \in Y : /\ e.is \in Kinds /\ e.node \in Nodes /\ e.type \in Types
                       /\ e = Entry(e.id, e.is, e.node, e.type)
       /\ \A i, m, u : Entry(i, "idle", m, u) \in Y <=> Entry(i, "busy", m, u) \in X
       /\ \A i, st, m, u : st # "idle" => Entry(i, st, m, u) \notin Y
       /\ \A i, st, m, u : st # "busy" => Entry(i, st, m, u) \notin X
  <2>1. "idle" \in Kinds
    BY DEF Kinds
  <2> QED
    BY <1>13, <2>1, InStateIs
<1> HIDE DEF Y
<1>16. CacheChange(X, Y)
  <2> SUFFICES ASSUME NEW m \in Nodes, NEW u \in Types, NEW j
               PROVE  j \in IdsOfType(cache'[m], u) <=>
                        \/ j \in IdsOfType(cache[m], u) /\ Entry(j, "idle", m, u) \notin X
                        \/ Entry(j, "idle", m, u) \in Y
    BY DEF CacheChange
  <2>1. IdsOfType(cache'[m], u) = IF m = n /\ u = t THEN IdsOfType(cache[m], u) \cup {c.id}
                                                    ELSE IdsOfType(cache[m], u)
    BY <1>6, <1>10, <1>a
  <2> QED
    BY <1>14, <1>15, <2>1
<1>17. ActiveChange(X, Y)
  <2> SUFFICES ASSUME NEW m \in Nodes, NEW u \in Types, NEW j
               PROVE  j \in IdsIn(active'[m][u]) <=>
                        \/ j \in IdsIn(active[m][u]) /\ Entry(j, "busy", m, u) \notin X
                        \/ Entry(j, "busy", m, u) \in Y
    BY DEF ActiveChange
  <2>1. IdsIn(active'[m][u]) = IF m = n /\ u = t THEN IdsIn(active[m][u]) \ {c.id}
                                                 ELSE IdsIn(active[m][u])
    BY <1>6, <1>7, <1>a
  <2> QED
    BY <1>14, <1>15, <2>1
<1>18. LeakedChange(X, Y)
  BY <1>5, <1>15 DEF LeakedChange
<1>19. Ledger' = (Ledger \ X) \cup Y
  BY <1>15, <1>16, <1>17, <1>18, LedgerChange
<1> QED
  BY <1>5, <1>11, <1>12, <1>13, <1>19 DEF Shift, Y, PlacesInv, LeakedType

\* What updateCache leaves in the slices is lost.
LEMMA LoseMoves ==
  ASSUME TypeInv, TypeInv', PlacesInv, FinishUpdate
  PROVE  LeakedType' /\ ListsOfOneNode' /\ ListsDistinct' /\ Shift("busy", "lost")
<1> DEFINE X == {e \in Ledger : e.is = "busy"}
           Y == InState(X, "lost")
<1>1. ASSUME NEW n \in Nodes
      PROVE  Range(cache'[n]) = Range(cache[n]) /\ Distinct(cache'[n])
  <2>1. cache[n] \in Seq(Container) /\ Distinct(cache[n])
    BY DEF TypeInv, PlacesInv, ListsDistinct
  <2>2. cache'[n] = SortList(cache[n]) \/ cache'[n] = cache[n]
    BY FinishUpdateSorts
  <2>3. \A e \in Container : e.prio \in Int
    BY DEF Container
  <2> QED
    BY <2>1, <2>2, <2>3, RangeOfSortList
<1>2. ASSUME NEW n \in Nodes, NEW t \in Types
      PROVE  active'[n][t] = <<>> /\ leaked'[n][t] = leaked[n][t] \o active[n][t]
  BY DEF FinishUpdate
<1>3. Range(<<>>) = {} /\ Distinct(<<>>) /\ IdsIn(<<>>) = {}
  BY EmptySeq DEF Range, Distinct, IdsIn
<1>4. ASSUME NEW n \in Nodes, NEW t \in Types
      PROVE  /\ leaked'[n][t] \in Seq(Container)
             /\ IdsIn(leaked'[n][t]) = IdsIn(leaked[n][t]) \cup IdsIn(active[n][t])
  <2> DEFINE a == active[n][t]
             l == leaked[n][t]
  <2>1. a \in Seq(Container) /\ l \in Seq(Container)
    BY DEF TypeInv, PlacesInv, LeakedType
  <2>2. leaked'[n][t] = l \o a
    BY <1>2
  <2> HIDE DEF a, l
  <2>3. l \o a \in Seq(Container) /\ Range(l \o a) = Range(l) \cup Range(a)
    BY <2>1, RangeOfConcat, ConcatProperties
  <2>4. IdsIn(l \o a) = IdsIn(l) \cup IdsIn(a)
    BY <2>3 DEF IdsIn
  <2> QED
    BY <2>2, <2>3, <2>4 DEF a, l
<1>5. ListsDistinct'
  BY <1>1, <1>2, <1>3 DEF ListsDistinct
<1>6. ListsOfOneNode'
  BY <1>1, <1>2, <1>3 DEF ListsOfOneNode, PlacesInv
<1>7. LeakedType'
  <2>1. leaked' = [n \in Nodes |-> [t \in Types |-> leaked'[n][t]]]
    BY DEF FinishUpdate
  <2> QED
    BY <1>4, <2>1 DEF LeakedType
<1>8. X \in SUBSET Ledger /\ \A e \in X : e.is = "busy"
  OBVIOUS
<1>9. \A n \in Nodes, t \in Types : \A i :
        Entry(i, "busy", n, t) \in X <=> i \in IdsIn(active[n][t])
  BY InLedger DEF LedgerShowsLists, Entry
<1> HIDE DEF X
<1>10. /\ \A e \in Y : /\ e.is \in Kinds /\ e.node \in Nodes /\ e.type \in Types
                       /\ e = Entry(e.id, e.is, e.node, e.type)
       /\ \A i, m, u : Entry(i, "lost", m, u) \in Y <=> Entry(i, "busy", m, u) \in X
       /\ \A i, s, m, u : s # "lost" => Entry(i, s, m, u) \notin Y
       /\ \A i, s, m, u : s # "busy" => Entry(i, s, m, u) \notin X
  <2>1. "lost" \in Kinds
    BY DEF Kinds
  <2> QED
    BY <1>8, <2>1, InStateIs
<1> HIDE DEF Y
<1>11. CacheChange(X, Y)
  <2>1. \A n \in Nodes, t \in Types : IdsOfType(cache'[n], t) = IdsOfType(cache[n], t)
    BY <1>1 DEF IdsOfType
  <2> QED
    BY <1>10, <2>1 DEF CacheChange
<1>12. ActiveChange(X, Y)
  BY <1>2, <1>3, <1>9, <1>10 DEF ActiveChange
<1>13. LeakedChange(X, Y)
  <2> SUFFICES ASSUME NEW n \in Nodes, NEW t \in Types, NEW i
               PROVE  i \in IdsIn(leaked'[n][t]) <=>
                        \/ i \in IdsIn(leaked[n][t]) /\ Entry(i, "lost", n, t) \notin X
                        \/ Entry(i, "lost", n, t) \in Y
    BY DEF LeakedChange
  <2>1. Entry(i, "lost", n, t) \notin X
    BY <1>10
  <2>2. Entry(i, "lost", n, t) \in Y <=> i \in IdsIn(active[n][t])
    BY <1>9, <1>10
  <2>3. IdsIn(leaked'[n][t]) = IdsIn(leaked[n][t]) \cup IdsIn(active[n][t])
    BY <1>4
  <2> QED
    BY <2>1, <2>2, <2>3
<1>14. Ledger' = (Ledger \ X) \cup Y
  BY <1>10, <1>11, <1>12, <1>13, LedgerChange
<1> QED
  BY <1>5, <1>6, <1>7, <1>8, <1>14 DEF Shift, Y

\* What the steps do to the ledger.
StaysPut      == count' = count /\ Ledger' = Ledger
IsShifted(from, to) == count' = count /\ Shift(from, to)
IsDropped     == count' = count /\ \E e \in Ledger : e.is = "idle" /\ Ledger' = Ledger \ {e}

\* Where a container is created.
Placing == pc \in {"deploy", "place"} /\ cur <= Len(reqs)

LEMMA StepMoves ==
  ASSUME TypeInv, TypeInv', PhaseInv, PlacesInv, [Next]_vars
  PROVE  /\ LeakedType' /\ ListsOfOneNode' /\ ListsDistinct'
         /\ \/ StaysPut \/ IsDropped \/ (IsCreated /\ Placing)
            \/ IsShifted("idle", "busy") \/ IsShifted("busy", "idle") \/ IsShifted("busy", "lost")
<1>1. CASE UNCHANGED <<count, cache, active, leaked>>
  BY <1>1 DEF StaysPut, Ledger, PlacesInv, LeakedType, ListsOfOneNode, ListsDistinct
<1>2. CASE PlaceToCurrent \/ DeployToNeighbour
  <2>1. Taken
    BY <1>2, PlaceToCurrentTakes, DeployToNeighbourTakes
  <2>2. leaked' = leaked /\ count' = count
    BY <1>2 DEF PlaceToCurrent, DeployToNeighbour
  <2> QED
    BY <2>1, <2>2, TakeMoves DEF IsShifted
<1>3. CASE CreateToCurrent \/ PlaceNew
  <2>1. CreateContainer /\ Placing
    BY <1>3 DEF CreateToCurrent, PlaceNew, Deploying, Placing, PhaseInv
  <2> QED
    BY <2>1, CreateMoves DEF Placing
<1>4. CASE Evict
  <2>1. count' = count
    BY <1>4 DEF Evict
  <2> QED
    BY <1>4, <2>1, EvictMoves DEF IsDropped
<1>5. CASE Age \/ NextCache
  <2>1. count' = count /\ active' = active /\ leaked' = leaked
    BY <1>5 DEF Age, NextCache, books
  <2>2. NamesStay
    BY <1>5, AgingStays, SameNamesStay
  <2> QED
    BY <2>1, <2>2, NamesStayPut DEF StaysPut
<1>6. CASE Expire
  <2>1. count' = count
    BY <1>6 DEF Expire
  <2> QED
    BY <1>6, <2>1, ExpireMoves DEF StaysPut, IsDropped
<1>7. CASE CacheActive
  <2>1. count' = count
    BY <1>7 DEF CacheActive
  <2> QED
    BY <1>7, <2>1, ReturnMoves DEF IsShifted
<1>8. CASE FinishUpdate
  <2>1. count' = count
    BY <1>8 DEF FinishUpdate, books
  <2> QED
    BY <1>8, <2>1, LoseMoves DEF IsShifted
<1>9. CASE \/ StartSlot \/ Finish \/ MakeRoom \/ Refuse \/ SendResults \/ EndAging
           \/ NextSlice \/ WaitForSignal \/ UNCHANGED vars
  <2>1. UNCHANGED <<count, cache, active, leaked>>
    BY <1>9 DEF StartSlot, Finish, MakeRoom, Refuse, SendResults, EndAging, NextSlice,
       WaitForSignal, vars, lists, books
  <2> QED
    BY <1>1, <2>1
<1> QED
  BY <1>2, <1>3, <1>4, <1>5, <1>6, <1>7, <1>8, <1>9 DEF Next, Deploy, UpdateCache

\* Every step keeps the invariant about places.
LEMMA PlacesInvStep ==
  TypeInv /\ TypeInv' /\ PhaseInv /\ PlacesInv /\ [Next]_vars => PlacesInv'
<1> SUFFICES ASSUME TypeInv, TypeInv', PhaseInv, PlacesInv, [Next]_vars PROVE PlacesInv'
  OBVIOUS
<1>1. LeakedType' /\ ListsOfOneNode' /\ ListsDistinct'
  BY StepMoves
<1> SUFFICES OneEntryEach' /\ NamesGiven'
  BY <1>1 DEF PlacesInv
<1>2. count \in Nat /\ \A i, s, n, t : Entry(i, s, n, t).id = i
  BY DEF TypeInv, Entry
<1>3. OneEntryEach /\ NamesGiven
  BY DEF PlacesInv
<1>4. CASE StaysPut
  BY <1>3, <1>4 DEF StaysPut, OneEntryEach, NamesGiven
<1>5. ASSUME NEW from, NEW to, IsShifted(from, to)
      PROVE  OneEntryEach' /\ NamesGiven'
  <2>1. PICK X \in SUBSET Ledger : Ledger' = (Ledger \ X) \cup InState(X, to)
    BY <1>5 DEF IsShifted, Shift
  <2>2. \A y \in InState(X, to) : \E e \in X : y.id = e.id /\ y = Entry(e.id, to, e.node, e.type)
    BY <1>2 DEF InState
  <2>3. count' = count
    BY <1>5 DEF IsShifted
  <2> QED
    BY <1>3, <2>1, <2>2, <2>3 DEF OneEntryEach, NamesGiven
<1>6. CASE IsCreated
  <2>1. PICK n \in Nodes, t \in Types :
          count' = count + 1 /\ Ledger' = Ledger \cup {Entry(count + 1, "busy", n, t)}
    BY <1>6 DEF IsCreated
  <2>2. \A c \in Ledger : c.id # count + 1
    BY <1>2, <1>3 DEF NamesGiven
  <2>3. OneEntryEach'
    BY <1>2, <1>3, <2>1, <2>2 DEF OneEntryEach
  <2>4. count + 1 \in 1 .. (count + 1) /\ \A i \in 1 .. count : i \in 1 .. (count + 1)
    BY <1>2
  <2>5. NamesGiven'
    BY <1>2, <1>3, <2>1, <2>4 DEF NamesGiven
  <2> QED
    BY <2>3, <2>5
<1>7. CASE IsDropped
  <2>1. count' = count /\ Ledger' \subseteq Ledger
    BY <1>7 DEF IsDropped
  <2> QED
    BY <1>3, <2>1 DEF OneEntryEach, NamesGiven
<1> QED
  BY <1>4, <1>5, <1>6, <1>7, StepMoves

-----------------------------------------------------------------------------
(* How many containers a run starts.                                       *)

\* At most one is started for a request.
Handled == IF pc \in {"deploy", "place"} THEN cur - 1
           ELSE IF pc \in {"age", "update"} THEN MaxRequests ELSE 0

CountInv ==
  /\ count <= slot * MaxRequests + Handled
  /\ pc \in {"deploy", "place"} => cur <= Len(reqs) + 1 /\ Len(reqs) <= MaxRequests
  /\ pc \in {"deploy", "place", "age", "update"} => slot < SlotNum

LEMMA CountInvInit == Init => CountInv
<1> SUFFICES ASSUME Init PROVE CountInv
  OBVIOUS
<1>1. 0 * MaxRequests = 0
  BY LifetimeConstantsOK
<1> QED
  BY <1>1 DEF Init, CountInv, Handled

LEMMA ServeCounts ==
  ASSUME TypeInv, NEW c, NEW n, Serve(c, n)
  PROVE  Len(reqs') = Len(reqs) /\ cur' = cur + 1
<1>1. reqs \in Seq(Request) /\ Len(reqs) \in Nat /\ DOMAIN reqs = 1 .. Len(reqs)
  BY LenProperties DEF TypeInv
<1>2. DOMAIN reqs' = 1 .. Len(reqs) /\ reqs' = [i \in 1 .. Len(reqs) |-> reqs'[i]]
  BY <1>1 DEF Serve
<1>3. reqs' \in Seq({reqs'[i] : i \in 1 .. Len(reqs)})
  BY <1>1, <1>2, IsASeq
<1>4. Len(reqs') = Len(reqs)
  BY <1>1, <1>2, <1>3, LenProperties
<1> QED
  BY <1>4 DEF Serve

LEMMA CountInvStep == TypeInv /\ PhaseInv /\ CountInv /\ [Next]_vars => CountInv'
<1> SUFFICES ASSUME TypeInv, PhaseInv, CountInv, [Next]_vars PROVE CountInv'
  OBVIOUS
<1> DEFINE base == slot * MaxRequests
<1>1. /\ slot \in Nat /\ cur \in Nat /\ count \in Nat /\ Len(reqs) \in Nat
      /\ MaxRequests \in Nat /\ SlotNum \in Nat
      /\ base \in Nat
  <2>1. slot \in Nat /\ cur \in Nat /\ count \in Nat /\ Len(reqs) \in Nat
    BY LenProperties DEF TypeInv
  <2>2. MaxRequests \in Nat /\ SlotNum \in Nat
    BY LifetimeConstantsOK
  <2> QED
    BY <2>1, <2>2, TimesMonotonic
<1>2. count <= base + Handled
  BY DEF CountInv
<1>3. ASSUME slot' = slot
      PROVE  slot' * MaxRequests = base
  BY <1>3
<1> HIDE DEF base
<1>4. CASE UNCHANGED vars
  BY <1>4 DEF vars, requests, books, CountInv, Handled
<1>5. CASE StartSlot
  <2>1. PICK m \in 1 .. MaxRequests :
          reqs' \in [1 .. m -> {FreshRequest(t, n) : t \in Types, n \in Nodes}]
    BY <1>5 DEF StartSlot, Batches
  <2>2. m \in Nat /\ m <= MaxRequests
    BY <1>1, <2>1
  <2>3. Len(reqs') = m
    <3>1. reqs' \in Seq({FreshRequest(t, n) : t \in Types, n \in Nodes})
      BY <2>1, <2>2, IsASeq
    <3> QED
      BY <2>1, <2>2, <3>1, LenProperties
  <2>4. /\ pc = "slot" /\ slot < SlotNum /\ pc' = "deploy" /\ cur' = 1
        /\ slot' = slot /\ count' = count
    BY <1>5 DEF StartSlot, books
  <2>5. Handled = 0 /\ Handled' = 0
    BY <2>4 DEF Handled
  <2> QED
    BY <1>1, <1>2, <1>3, <2>2, <2>3, <2>4, <2>5 DEF CountInv
<1>6. CASE Finish
  <2>1. pc = "slot" /\ pc' = "done" /\ slot' = slot /\ count' = count
    BY <1>6 DEF Finish, requests, books
  <2>2. Handled = 0 /\ Handled' = 0
    BY <2>1 DEF Handled
  <2> QED
    BY <1>1, <1>2, <1>3, <2>1, <2>2 DEF CountInv
<1>7. CASE PlaceToCurrent \/ DeployToNeighbour \/ CreateToCurrent \/ PlaceNew
  <2>1. Placing
    BY <1>7 DEF PlaceToCurrent, DeployToNeighbour, CreateToCurrent, PlaceNew, Deploying,
       Placing, PhaseInv
  <2>2. /\ slot' = slot /\ pc' = "deploy"
        /\ count' = count \/ count' = count + 1
        /\ \E c, n : Serve(c, n)
    BY <1>7 DEF PlaceToCurrent, DeployToNeighbour, CreateToCurrent, PlaceNew, CreateContainer,
       Deploying
  <2>3. Len(reqs') = Len(reqs) /\ cur' = cur + 1
    BY <2>2, ServeCounts
  <2>4. Handled = cur - 1 /\ Handled' = cur' - 1
    BY <2>1, <2>2 DEF Placing, Handled
  <2> QED
    BY <1>1, <1>2, <1>3, <2>1, <2>2, <2>3, <2>4 DEF CountInv, Placing
<1>8. CASE MakeRoom \/ Evict \/ Refuse
  <2>1. /\ pc \in {"deploy", "place"} /\ pc' \in {"deploy", "place"}
        /\ slot' = slot /\ reqs' = reqs /\ count' = count
        /\ cur' = cur \/ (Refuse /\ cur' = cur + 1)
    BY <1>8 DEF MakeRoom, Evict, Refuse, Deploying, requests, books
  <2>2. Refuse => cur <= Len(reqs)
    BY DEF Refuse, PhaseInv
  <2>3. Handled = cur - 1 /\ Handled' = cur' - 1
    BY <2>1 DEF Handled
  <2> QED
    BY <1>1, <1>2, <1>3, <2>1, <2>2, <2>3 DEF CountInv
<1>9. CASE SendResults
  <2>1. pc = "deploy" /\ pc' = "age" /\ slot' = slot /\ count' = count
    BY <1>9 DEF SendResults, requests, books
  <2>2. Handled = cur - 1 /\ Handled' = MaxRequests
    BY <2>1 DEF Handled
  <2> QED
    BY <1>1, <1>2, <1>3, <2>1, <2>2 DEF CountInv
<1>10. CASE NextCache \/ Age \/ Expire \/ EndAging \/ NextSlice \/ CacheActive
  <2>1. pc \in {"age", "update"} /\ pc' \in {"age", "update"} /\ slot' = slot /\ count' = count
    BY <1>10 DEF NextCache, Age, Expire, Expired, EndAging, NextSlice, CacheActive, requests, books
  <2>2. Handled = MaxRequests /\ Handled' = MaxRequests
    BY <2>1 DEF Handled
  <2> QED
    BY <1>1, <1>2, <1>3, <2>1, <2>2 DEF CountInv
<1>11. CASE FinishUpdate
  <2>1. pc = "update" /\ pc' = "slot" /\ slot' = slot + 1 /\ count' = count
    BY <1>11 DEF FinishUpdate, books
  <2>2. Handled = MaxRequests /\ Handled' = 0
    BY <2>1 DEF Handled
  <2>3. (slot + 1) * MaxRequests = base + MaxRequests
    BY <1>1, TimesMonotonic DEF base
  <2>4. count' <= slot' * MaxRequests + Handled'
    BY <1>1, <1>2, <2>1, <2>2, <2>3
  <2> QED
    BY <2>1, <2>4 DEF CountInv
<1> QED
  BY <1>4, <1>5, <1>6, <1>7, <1>8, <1>9, <1>10, <1>11
  DEF Next, Deploy, UpdateCache, WaitForSignal

\* There is a request for every container that is started.
LEMMA RoomForOneMore ==
  ASSUME TypeInv, CountInv, Placing
  PROVE  count + 1 <= SlotNum * MaxRequests
<1>1. /\ slot \in Nat /\ slot + 1 \in Nat /\ SlotNum \in Nat /\ MaxRequests \in Nat
      /\ slot + 1 <= SlotNum /\ count \in Nat /\ cur \in Nat
  BY LifetimeConstantsOK DEF TypeInv, CountInv, Placing
<1> DEFINE next == slot + 1
           a == slot * MaxRequests
           b == next * MaxRequests
           c == SlotNum * MaxRequests
<1>2. b <= c /\ b \in Nat /\ c \in Nat
  <2> HIDE DEF next
  <2>1. next \in Nat /\ next <= SlotNum
    BY <1>1 DEF next
  <2> QED
    BY <1>1, <2>1, TimesMonotonic
<1>3. b = a + MaxRequests /\ a \in Nat
  BY <1>1, TimesMonotonic
<1>4. count <= a + (cur - 1) /\ cur <= MaxRequests
  <2>1. Handled = cur - 1 /\ Len(reqs) <= MaxRequests /\ cur <= Len(reqs) /\ Len(reqs) \in Nat
    BY LenProperties DEF Placing, Handled, CountInv, TypeInv
  <2> QED
    BY <1>1, <2>1 DEF CountInv
<1> HIDE DEF a, b, c
<1>5. count + 1 <= c
  BY <1>1, <1>2, <1>3, <1>4
<1> QED
  BY <1>5 DEF c
-----------------------------------------------------------------------------
(* The refinement.                                                         *)

ThePool == AsPool(Ledger, count)

\* What WarmPool says of the load and of a move is what PoolProofs says.
LEMMA PoolIs ==
  /\ \A p, n : Pool!Load(p, n) = LoadOf(p, n, Size)
  /\ \A p, q, from, to : q \in Pool!Moved(p, from, to) <=> MovedTo(p, q, from, to)
  /\ Pool!Gone = NoPlace /\ Size \in [Types -> Nat]
<1>1. \A p, n : Pool!Load(p, n) = LoadOf(p, n, Size)
  BY DEF Pool!Load, Pool!On, Pool!Gone, Pool!FoldFunction, Pool!FoldFunctionOnSet,
         Pool!MapThenFoldSet, SumOf, MapThenSumSet, MapThenFoldSet, LoadOf, SizesOn, OnNode, NoPlace
<1>2. \A p, q, from, to : q \in Pool!Moved(p, from, to) <=> MovedTo(p, q, from, to)
  BY DEF Pool!Moved, MovedTo
<1>3. Size \in [Types -> Nat]
  BY LifetimeConstantsOK
<1> QED
  BY <1>1, <1>2, <1>3 DEF Pool!Gone, NoPlace

PoolOfLedger == IsPool(ThePool, Ledger, count, Types)

LEMMA ThePoolIsPool == TypeInv /\ PlacesInv => PoolOfLedger
<1> SUFFICES ASSUME TypeInv, PlacesInv PROVE PoolOfLedger
  OBVIOUS
<1>1. count \in Nat
  BY DEF TypeInv
<1>2. \A c \in Ledger : c.id \in 1 .. count /\ c.type \in Types
  BY InLedger DEF LedgerShowsLists, PlacesInv, NamesGiven
<1>3. \A c, d \in Ledger : c.id = d.id => c = d
  BY DEF PlacesInv, OneEntryEach
<1> QED
  BY <1>1, <1>2, <1>3, AsPoolIsPool DEF PoolOfLedger, ThePool

LEMMA NextPoolIsPool == TypeInv' /\ PlacesInv' => PoolOfLedger'
BY ThePoolIsPool, PTL

\* Where a container is started, the capacity that ImplementsPool gives the pool
\* holds all that were started, however large each of them is, and one more.
LEMMA RoomForAny ==
  ASSUME TypeInv, CountInv, Placing, NEW p, LooksLikePool(p, count, Types),
         NEW n, NEW t \in Types
  PROVE  LoadOf(p, n, Size) + Size[t] <= Unlimited
<1> DEFINE M == Max({Size[x] : x \in Types})
           next == count + 1
           all == SlotNum * MaxRequests
<1>1. /\ count \in Nat /\ next \in Nat /\ SlotNum \in Nat /\ MaxRequests \in Nat
      /\ Size \in [Types -> Nat]
  BY LifetimeConstantsOK DEF TypeInv
<1>2. M \in Nat /\ \A x \in Types : Size[x] <= M
  <2>1. IsFiniteSet(Types)
    BY LifetimeConstantsOK, FS_Interval DEF Types
  <2> QED
    BY <1>1, <2>1, LargestValue
<1>3. Unlimited = all * M
  <2>1. Range(Size) = {Size[x] : x \in Types}
    BY <1>1 DEF Range
  <2> QED
    BY <2>1 DEF Unlimited
<1>4. next <= all /\ all \in Nat
  BY <1>1, RoomForOneMore, TimesMonotonic
<1> HIDE DEF M, all
<1>5. next * M <= all * M /\ next * M \in Nat /\ all * M \in Nat
  <2> HIDE DEF next
  <2> QED
    BY <1>1, <1>2, <1>4, TimesMonotonic
<1>6. next * M = count * M + M /\ count * M \in Nat
  BY <1>1, <1>2, TimesMonotonic
<1>7. LoadOf(p, n, Size) <= count * M
  BY <1>1, <1>2, LoadBounded
<1>8. LoadOf(p, n, Size) \in Nat /\ Size[t] \in Nat /\ Size[t] <= M
  BY <1>1, <1>2, LoadIsSum
<1> DEFINE a == next * M
           b == all * M
           c == count * M
           load == LoadOf(p, n, Size)
           size == Size[t]
<1>9. /\ a <= b /\ a = c + M /\ load <= c /\ size <= M
      /\ a \in Nat /\ b \in Nat /\ c \in Nat /\ M \in Nat /\ load \in Nat /\ size \in Nat
  BY <1>2, <1>5, <1>6, <1>7, <1>8
<1> HIDE DEF a, b, c, load, size
<1>10. load + size <= b
  BY <1>9
<1> QED
  BY <1>3, <1>10 DEF b, load, size

\* A step of a scheduler is a step of the pool, or nothing to it.
LEMMA PoolStep ==
  ASSUME TypeInv, TypeInv', PhaseInv, PlacesInv, PlacesInv', CountInv, [Next]_vars
  PROVE  ThePool' = ThePool \/ Pool!Next
<1> DEFINE p == ThePool
           q == ThePool'
<1>1. IsPool(p, Ledger, count, Types) /\ IsPool(q, Ledger', count', Types)
  BY ThePoolIsPool, NextPoolIsPool DEF PoolOfLedger
<1>2. \A c, d \in Ledger : c.id = d.id => c = d
  BY DEF PlacesInv, OneEntryEach
<1>3. count \in Nat /\ Size \in [Types -> Nat]
  BY LifetimeConstantsOK DEF TypeInv
<1>4. /\ Pool!Take = (q \in Pool!Moved(p, "idle", "busy"))
      /\ Pool!Return = (q \in Pool!Moved(p, "busy", "idle"))
      /\ Pool!Lose = (q \in Pool!Moved(p, "busy", "lost"))
      /\ Pool!Start = (q \in Pool!Started(p))
      /\ Pool!Drop = (q \in Pool!Dropped(p))
  BY DEF ThePool, Ledger, Pool!Take, Pool!Return, Pool!Lose, Pool!Start, Pool!Drop
<1>5. ASSUME NEW from, NEW to, IsShifted(from, to)
      PROVE  q \in Pool!Moved(p, from, to)
  <2> HIDE DEF p, q
  <2>1. PICK X \in SUBSET Ledger :
          (\A e \in X : e.is = from) /\ Ledger' = (Ledger \ X) \cup InState(X, to)
    BY <1>5 DEF IsShifted, Shift
  <2>2. IsPool(q, Ledger', count, Types)
    BY <1>1, <1>5 DEF IsShifted
  <2>3. MovedTo(p, q, from, to)
    BY <1>1, <1>2, <2>1, <2>2, MovedShown
  <2> QED
    BY <2>3, PoolIs
<1>6. CASE StaysPut
  BY <1>6 DEF StaysPut, ThePool
<1>7. CASE IsShifted("idle", "busy")
  BY <1>4, <1>5, <1>7 DEF Pool!Next
<1>8. CASE IsShifted("busy", "idle")
  BY <1>4, <1>5, <1>8 DEF Pool!Next
<1>9. CASE IsShifted("busy", "lost")
  BY <1>4, <1>5, <1>9 DEF Pool!Next
<1>10. CASE IsCreated /\ Placing
  <2>1. PICK n \in Nodes, t \in Types :
          count' = count + 1 /\ Ledger' = Ledger \cup {Entry(count + 1, "busy", n, t)}
    BY <1>10 DEF IsCreated
  <2> DEFINE x == [is |-> "busy", node |-> n, type |-> t]
  <2> HIDE DEF p, q
  <2> DEFINE l == count
             e == Entry(l + 1, "busy", n, t)
  <2>2. IsPool(p, Ledger, l, Types) /\ IsPool(q, Ledger', l + 1, Types) /\ Ledger' = Ledger \cup {e}
    BY <1>1, <2>1
  <2>3. q = Append(p, x)
    <3> HIDE DEF l
    <3> QED
      BY <1>3, <2>2, StartedShown, SMTT(30)
  <2>4. LoadOf(p, n, Size) + Size[t] <= Unlimited
    BY <1>1, <1>10, RoomForAny DEF IsPool
  <2>5. q \in Pool!Started(p)
    <3>1. <<n, t>> \in {s \in Nodes \X Types : Pool!Load(p, s[1]) + Size[s[2]] <= Unlimited}
      BY <2>4, PoolIs
    <3>2. x = [is |-> "busy", node |-> <<n, t>>[1], type |-> <<n, t>>[2]]
      OBVIOUS
    <3> HIDE DEF x
    <3> QED
      BY <2>3, <3>1, <3>2, PoolIs DEF Pool!Started
  <2> QED
    BY <1>4, <2>5 DEF Pool!Next
<1>11. CASE IsDropped
  <2>1. PICK e \in Ledger : e.is = "idle" /\ Ledger' = Ledger \ {e}
    BY <1>11 DEF IsDropped
  <2> HIDE DEF p, q
  <2>2. IsPool(q, Ledger', count, Types)
    BY <1>1, <1>11 DEF IsDropped
  <2>3. e.id \in DOMAIN p /\ p[e.id].is = e.is /\ q = [p EXCEPT ![e.id] = NoPlace]
    BY <1>1, <1>2, <1>3, <2>1, <2>2, DroppedShown
  <2>4. q \in Pool!Dropped(p)
    BY <2>1, <2>3, PoolIs DEF Pool!Dropped
  <2> QED
    BY <1>4, <2>4 DEF Pool!Next
<1> QED
  BY <1>6, <1>7, <1>8, <1>9, <1>10, <1>11, StepMoves

LEMMA PoolInit == Init => ThePool = <<>>
<1> SUFFICES ASSUME Init PROVE ThePool = <<>>
  OBVIOUS
<1>1. count = 0
  BY DEF Init
<1>2. DOMAIN ThePool = 1 .. 0 /\ ThePool = [i \in DOMAIN ThePool |-> ThePool[i]]
  BY <1>1 DEF ThePool, AsPool
<1> QED
  BY <1>2

\* Both programs implement a pool of warm containers: aging, which deletes from
\* a list while it goes through it, brings no container back and stops none in
\* use, and each container is started once, for a request
\* (fixedcaching/algorithm.go:233-262, histogram/algorithm.go:177-215).
THEOREM LifetimeImplementsPool == Spec => ImplementsPool
<1>1. Init => Pool!Init
  BY PoolInit DEF Pool!Init, ThePool, Ledger
<1>2. TypeInv /\ TypeInv' /\ PhaseInv /\ PlacesInv /\ PlacesInv' /\ CountInv /\ [Next]_vars
        => [Pool!Next]_(AsPool(Members(Nodes, Types, cache, active, leaked), count))
  BY PoolStep DEF ThePool, Ledger
<1>3. LifetimeInv => TypeInv /\ PhaseInv
  BY DEF LifetimeInv
<1> QED
  BY <1>1, <1>2, <1>3, LifetimeInvHolds, PlacesInvInit, PlacesInvStep, CountInvInit, CountInvStep, PTL
  DEF Spec, ImplementsPool, Pool!Spec
=============================================================================
