------------------------- MODULE ContainerCacheProofs -------------------------
(***************************************************************************)
(* Proofs about ContainerCache, for any number of nodes, types, slots and  *)
(* requests.                                                               *)
(***************************************************************************)
EXTENDS ContainerCacheProperties, ListProofs

-----------------------------------------------------------------------------
(* Lists of containers.                                                    *)

LEMMA NodesFinite ==
  /\ IsFiniteSet(Nodes) /\ Cardinality(Nodes) = NodeNum
  /\ NodeNum \in Nat \ {0}
<1>1. NodeNum \in Nat \ {0}
  BY ConstantsOK
<1>2. 0 \in Int /\ NodeNum - 1 \in Int /\ ~(0 > NodeNum - 1)
  BY <1>1
<1>3. /\ IsFiniteSet(0 .. (NodeNum - 1))
      /\ Cardinality(0 .. (NodeNum - 1)) = (NodeNum - 1) - 0 + 1
  BY <1>2, FS_Interval
<1> QED
  BY <1>1, <1>3 DEF Nodes

LEMMA PriorityIsInt ==
  ASSUME NEW t \in Types, NEW f \in Int, NEW c \in Nat
  PROVE  c + f * Weight[t] \in Int
<1>1. Weight[t] \in Int
  BY ConstantsOK
<1>2. \A a, b \in Int : a * b \in Int
  OBVIOUS
<1>3. f * Weight[t] \in Int
  BY <1>1, <1>2
<1> QED
  BY <1>3

\* The two priorities are integers under each policy.
LEMMA PrioritiesAreInt ==
  ASSUME TypeOK, NEW f \in Int
  PROVE  /\ \A t \in Types : ActivePriority(t, f) \in Int
         /\ \A c \in Container : IdlePriority(c, f) \in Int
<1>1. slot \in Int /\ clock \in Nat
  BY DEF TypeOK
<1>0. HotScore(f) \in Int
  BY DEF HotScore
<1>2. \A t \in Types : ActivePriority(t, f) \in Int
  BY <1>0, <1>1, PriorityIsInt DEF ActivePriority
<1>3. ASSUME NEW c \in Container PROVE IdlePriority(c, f) \in Int
  <2>1. c.prio \in Int /\ c.clock \in Nat /\ c.type \in Types
    BY DEF Container
  <2> QED
    BY <1>0, <2>1, PriorityIsInt DEF IdlePriority
<1> QED
  BY <1>2, <1>3

LEMMA ContainersPrioritised ==
  ASSUME NEW s \in Seq(Container)
  PROVE  Prioritised(s)
<1>1. DOMAIN s = 1 .. Len(s)
  BY LenProperties
<1>2. \A i \in DOMAIN s : s[i] \in Container
  BY <1>1, ElementOfSeq
<1> QED
  BY <1>2 DEF Prioritised, Container

LEMMA SortListType ==
  ASSUME NEW s \in Seq(Container)
  PROVE  SortList(s) \in Seq(Container)
BY ContainersPrioritised, SortListProperties

LEMMA DeleteAtType ==
  ASSUME NEW s \in Seq(Container), NEW i
  PROVE  DeleteAt(s, i) \in Seq(Container)
<1>1. CASE i \in DOMAIN s
  BY <1>1, DeleteAtProperties
<1>2. CASE i \notin DOMAIN s
  BY <1>2 DEF DeleteAt
<1> QED
  BY <1>1, <1>2

\* getIdleFunction returns a place of the list that holds the type.
LEMMA FirstIdleIsIdle ==
  ASSUME NEW n \in Nodes, NEW t \in Types, cache[n] \in Seq(Container), HasIdle(n, t)
  PROVE  /\ FirstIdle(n, t) \in DOMAIN cache[n]
         /\ cache[n][FirstIdle(n, t)] \in Container
         /\ cache[n][FirstIdle(n, t)].type = t
<1>1. DOMAIN cache[n] = 1 .. Len(cache[n]) /\ Len(cache[n]) \in Nat
  BY LenProperties
<1>2. IdleIndexes(n, t) \in SUBSET (1 .. Len(cache[n])) /\ IdleIndexes(n, t) # {}
  BY <1>1 DEF IdleIndexes, HasIdle
<1>3. \E i \in IdleIndexes(n, t) : \A j \in IdleIndexes(n, t) : i <= j
  BY <1>1, <1>2, FirstPlace
<1>4. FirstIdle(n, t) \in IdleIndexes(n, t)
  BY <1>3 DEF FirstIdle
<1> QED
  BY <1>1, <1>4, ElementOfSeq DEF IdleIndexes

-----------------------------------------------------------------------------
(* The type invariant, with the range of cur that it needs.                *)

TypeInv ==
  /\ TypeOK
  /\ pc \in {"neighbour", "create"} => cur \in DOMAIN reqs

\* flame's turn is a node's.
LEMMA TurnIsNode ==
  ASSUME TypeOK, policy = "flame"
  PROVE  Turn \in Nodes /\ Turn + 1 \in 0 .. NodeNum
<1>1. NodeNum \in Nat /\ NodeNum > 1 /\ robin \in 0 .. NodeNum
  BY ConstantsOK, PoliciesOK DEF TypeOK
<1>2. CASE robin > NodeNum - 1
  BY <1>1, <1>2 DEF Turn, Nodes
<1>3. CASE ~(robin > NodeNum - 1)
  BY <1>1, <1>3 DEF Turn, Nodes
<1> QED
  BY <1>2, <1>3

LEMMA CurrentRequest ==
  ASSUME TypeOK, cur \in DOMAIN reqs
  PROVE  /\ reqs[cur] \in Request
         /\ reqs[cur].type \in Types /\ Target \in Nodes
<1>1. reqs[cur] \in Request
  BY LenProperties, ElementOfSeq DEF TypeOK
<1>2. reqs[cur].type \in Types /\ reqs[cur].ingress \in Nodes
  BY <1>1 DEF Request
<1>3. Target \in Nodes
  BY <1>2, TurnIsNode DEF Target
<1> QED
  BY <1>1, <1>2, <1>3

\* activeFunctions_G.add appends to one slice and adds one to one count.
LEMMA ActiveAddType ==
  ASSUME TypeOK, NEW c \in Container, NEW n \in Nodes, ActiveAdd(c, n)
  PROVE  /\ freq' \in [Types -> Int]
         /\ active' \in [Nodes -> [Types -> Seq(Container)]]
<1> DEFINE d == [c EXCEPT !.clock = clock,
                          !.prio = ActivePriority(c.type, freq[c.type] + 1)]
<1>1. c.type \in Types /\ freq[c.type] \in Int /\ clock \in Nat
  BY DEF Container, TypeOK
<1>2. ActivePriority(c.type, freq[c.type] + 1) \in Int
  <2>1. freq[c.type] + 1 \in Int
    BY <1>1
  <2> QED
    BY <1>1, <2>1, PrioritiesAreInt
<1>3. d \in Container
  BY <1>1, <1>2 DEF Container
<1> HIDE DEF d
<1>4. freq' \in [Types -> Int]
  BY <1>1 DEF TypeOK, ActiveAdd
<1>5. active' = [active EXCEPT ![n][c.type] = Append(active[n][c.type], d)]
  BY DEF ActiveAdd, d
<1>6. Append(active[n][c.type], d) \in Seq(Container)
  BY <1>1, <1>3, AppendProperties DEF TypeOK
<1>7. active' \in [Nodes -> [Types -> Seq(Container)]]
  BY <1>1, <1>5, <1>6 DEF TypeOK
<1> QED
  BY <1>4, <1>7

LEMMA CacheAddType ==
  ASSUME TypeOK, NEW c \in Container, CacheAdd(c)
  PROVE  /\ freq' \in [Types -> Int]
         /\ cache' \in [Nodes -> Seq(Container)]
         /\ cacheKeys' \subseteq Nodes
<1> DEFINE d == [c EXCEPT !.prio = IdlePriority(c, freq[c.type] - 1)]
<1>1. c.type \in Types /\ c.node \in Nodes /\ freq[c.type] \in Int /\ c.clock \in Nat
  BY DEF Container, TypeOK
<1>2. freq[c.type] - 1 \in Int
  BY <1>1
<1>3. IdlePriority(c, freq[c.type] - 1) \in Int
  BY <1>2, PrioritiesAreInt
<1>4. d \in Container
  BY <1>1, <1>3 DEF Container
<1> HIDE DEF d
<1>5. SortList(Append(cache[c.node], d)) \in Seq(Container)
  BY <1>1, <1>4, AppendProperties, SortListType DEF TypeOK
<1>6. cache' = [cache EXCEPT ![c.node] = SortList(Append(cache[c.node], d))]
  BY DEF CacheAdd, d
<1> QED
  BY <1>1, <1>2, <1>5, <1>6 DEF TypeOK, CacheAdd

LEMMA ServeType ==
  ASSUME TypeOK, cur \in DOMAIN reqs, NEW c \in Container, NEW n \in Nodes,
         NEW b \in BOOLEAN, Serve(c, n, b)
  PROVE  reqs' \in Seq(Request) /\ DOMAIN reqs' = DOMAIN reqs
<1> DEFINE r == [reqs[cur] EXCEPT !.fn = c.id, !.served = TRUE, !.node = n, !.cold = b]
<1>1. reqs[cur] \in Request /\ c.id \in Nat
  BY CurrentRequest DEF TypeOK, Container
<1>2. r \in Request
  BY <1>1 DEF Request
<1> HIDE DEF r
<1>3. reqs' = [reqs EXCEPT ![cur] = r]
  BY DEF Serve, r
<1>4. cur \in 1 .. Len(reqs)
  BY LenProperties DEF TypeOK
<1> QED
  BY <1>2, <1>3, <1>4, ExceptSeq DEF TypeOK

LEMMA NextRequestType ==
  ASSUME TypeOK, NextRequest
  PROVE  /\ pc' \in Pcs /\ pc' \notin {"neighbour", "create"}
         /\ cur' \in Nat \ {0} /\ slot' \in Nat
         /\ robin' \in 0 .. NodeNum /\ evicted' \in BOOLEAN
<1>1. cur \in Nat \ {0} /\ cur' = cur + 1
  BY DEF TypeOK, NextRequest
<1>2. cur' \in Nat \ {0}
  BY <1>1
<1>3. robin' \in 0 .. NodeNum
  BY TurnIsNode DEF TypeOK, NextRequest
<1> QED
  BY <1>2, <1>3 DEF TypeOK, NextRequest, Pcs

\* updateCache moves a container only when it ranges over a slice.
LEMMA SliceInUse ==
  ASSUME TypeOK, k < Len(SliceAt)
  PROVE  at \in Nodes \X Types /\ SliceAt = active[at[1]][at[2]]
<1>1. at # Nowhere
  <2> SUFFICES ASSUME at = Nowhere PROVE FALSE
    OBVIOUS
  <2>1. SliceAt = << >> /\ Len(<< >>) = 0
    BY DEF SliceAt
  <2> QED
    BY <2>1 DEF TypeOK
<1> QED
  BY <1>1 DEF SliceAt, TypeOK

THEOREM TypeInvInit == Init => TypeInv
<1> SUFFICES ASSUME Init PROVE TypeInv
  OBVIOUS
<1>1. NodeNum \in Nat \ {0} /\ TypeNum \in Nat \ {0} /\ MemCap \in Nat
  BY ConstantsOK
<1>2. 0 \in Nodes /\ 1 \in Types
  BY <1>1 DEF Nodes, Types
<1>3. /\ << >> \in Seq(Request) /\ << >> \in Seq(Nodes) /\ << >> \in Seq(Container)
  BY EmptySeq
<1>4. /\ active \in [Nodes -> [Types -> Seq(Container)]]
      /\ leaked \in [Nodes -> [Types -> Seq(Container)]]
      /\ cache \in [Nodes -> Seq(Container)]
      /\ mem \in [Nodes -> Int] /\ freq \in [Types -> Int]
  BY <1>1, <1>3 DEF Init
<1> QED
  BY <1>2, <1>3, <1>4 DEF Init, TypeInv, TypeOK, Pcs

\* Every step keeps the type invariant.
LEMMA TypeInvStep == TypeInv /\ [Next]_vars => TypeInv'
<1> SUFFICES ASSUME TypeInv, [Next]_vars PROVE TypeInv'
  OBVIOUS
<1> USE DEF TypeInv
<1>1. CASE UNCHANGED vars
  BY <1>1 DEF vars, request, neighbours, sweep, TypeOK
<1>2. CASE StartSlot
  <2>1. reqs' \in Seq(Request)
    <3>1. \A t \in Types, n \in Nodes : FreshRequest(t, n) \in Request
      <4>1. 0 \in Nodes
        BY ConstantsOK DEF Nodes
      <4> QED
        BY <4>1 DEF FreshRequest, Request
    <3>2. PICK m \in 1 .. MaxRequests :
            reqs' \in [1 .. m -> {FreshRequest(t, n) : t \in Types, n \in Nodes}]
      BY <1>2 DEF StartSlot, Batches
    <3>3. reqs' \in [1 .. m -> Request] /\ m \in Nat
      BY <3>1, <3>2, ConstantsOK
    <3> QED
      BY <3>3, SeqDef
  <2> QED
    <3>1. cur' \in Nat \ {0} /\ pc' \in Pcs /\ pc' \notin {"neighbour", "create"}
      BY <1>2 DEF StartSlot, Pcs
    <3> QED
      BY <1>2, <2>1, <3>1 DEF StartSlot, TypeOK, neighbours, sweep
<1>3. CASE Finish
  BY <1>3 DEF Finish, TypeOK, Pcs, request, neighbours, sweep
<1>4. CASE PlaceToCurrent
  <2> DEFINE n == Target
             t == reqs[cur].type
             i == FirstIdle(n, t)
  <2>1. cur \in DOMAIN reqs
    BY <1>4, LenProperties DEF PlaceToCurrent, TypeOK
  <2>2. n \in Nodes /\ t \in Types
    BY <2>1, CurrentRequest DEF TypeOK
  <2>3. /\ HasIdle(n, t) /\ ActiveAdd(cache[n][i], n)
        /\ cache' = [cache EXCEPT ![n] = DeleteAt(cache[n], i)]
        /\ Serve(cache[n][i], n, FALSE)
    BY <1>4 DEF PlaceToCurrent
  <2> HIDE DEF n, t
  <2>4. cache[n] \in Seq(Container) /\ cache[n][i] \in Container
    BY <2>2, <2>3, FirstIdleIsIdle DEF TypeOK
  <2> HIDE DEF i
  <2>5. freq' \in [Types -> Int] /\ active' \in [Nodes -> [Types -> Seq(Container)]]
    BY <2>2, <2>3, <2>4, ActiveAddType
  <2>6. cache' \in [Nodes -> Seq(Container)]
    BY <2>2, <2>3, <2>4, DeleteAtType DEF TypeOK
  <2>7. reqs' \in Seq(Request)
    BY <2>1, <2>2, <2>3, <2>4, ServeType
  <2> QED
    BY <1>4, <2>5, <2>6, <2>7, NextRequestType
    DEF PlaceToCurrent, TypeOK, neighbours, sweep
<1>4a. CASE CreateNew
  <2>1. cur \in DOMAIN reqs
    BY <1>4a, LenProperties DEF CreateNew, TypeOK
  <2> QED
    BY <1>4a, <2>1 DEF CreateNew, TypeOK, Pcs, request, neighbours, sweep
<1>5. CASE SearchNeighbours
  <2>1. cur \in DOMAIN reqs
    BY <1>5, LenProperties DEF SearchNeighbours, TypeOK
  <2>2. PICK o \in SetToSeqs(Nodes) : near' = Tail(o)
    BY <1>5 DEF SearchNeighbours, SortedNodes, Others
  <2>3. o \in Seq(Nodes) /\ Len(o) = NodeNum
    <3>1. o \in [1 .. NodeNum -> Nodes]
      BY <2>2, NodesFinite DEF SetToSeqs
    <3> QED
      BY <3>1, NodesFinite, IsASeq
  <2>4. near' \in Seq(Nodes)
    BY <2>2, <2>3, NodesFinite, HeadTailProperties, EmptySeq
  <2> QED
    BY <1>5, <2>1, <2>4 DEF SearchNeighbours, TypeOK, Pcs, request, sweep
<1>6. CASE PlaceToNeighbour
  <2> DEFINE n == Head(near)
             t == reqs[cur].type
             i == FirstIdle(n, t)
  <2>1. cur \in DOMAIN reqs /\ near # << >>
    BY <1>6 DEF PlaceToNeighbour
  <2>2. n \in Nodes /\ Tail(near) \in Seq(Nodes) /\ t \in Types
    BY <2>1, CurrentRequest, HeadTailProperties DEF TypeOK
  <2>3. /\ HasIdle(n, t) /\ ActiveAdd(cache[n][i], n)
        /\ cache' = [cache EXCEPT ![n] = DeleteAt(cache[n], i)]
        /\ Serve(cache[n][i], n, FALSE)
    BY <1>6 DEF PlaceToNeighbour
  <2> HIDE DEF n, t
  <2>4. cache[n] \in Seq(Container) /\ cache[n][i] \in Container
    BY <2>2, <2>3, FirstIdleIsIdle DEF TypeOK
  <2> HIDE DEF i
  <2>5. freq' \in [Types -> Int] /\ active' \in [Nodes -> [Types -> Seq(Container)]]
    BY <2>2, <2>3, <2>4, ActiveAddType
  <2>6. cache' \in [Nodes -> Seq(Container)]
    BY <2>2, <2>3, <2>4, DeleteAtType DEF TypeOK
  <2>7. reqs' \in Seq(Request) /\ DOMAIN reqs' = DOMAIN reqs
    BY <2>1, <2>2, <2>3, <2>4, ServeType
  <2> QED
    BY <1>6, <2>1, <2>2, <2>5, <2>6, <2>7
    DEF PlaceToNeighbour, TypeOK, Pcs, sweep
<1>7. CASE SkipNeighbour
  <2>1. Tail(near) \in Seq(Nodes)
    BY <1>7, HeadTailProperties DEF SkipNeighbour, TypeOK
  <2> QED
    BY <1>7, <2>1 DEF SkipNeighbour, TypeOK, Pcs, request, sweep
<1>8. CASE NeighbourFound
  BY <1>8, NextRequestType DEF NeighbourFound, TypeOK, sweep
<1>9. CASE NoNeighbour
  BY <1>9 DEF NoNeighbour, TypeOK, Pcs, request, neighbours, sweep
<1>10. CASE CreateContainer
  <2> DEFINE r == reqs[cur]
             c == [id |-> count + 1, type |-> r.type, node |-> Target,
                   clock |-> clock, prio |-> ActivePriority(r.type, freq[r.type])]
  <2>1. cur \in DOMAIN reqs
    BY <1>10 DEF CreateContainer
  <2>2. r.type \in Types /\ Target \in Nodes
    BY <2>1, CurrentRequest DEF TypeOK
  <2>3. c \in Container
    <3> HIDE DEF r
    <3>1. freq[r.type] \in Int /\ clock \in Nat /\ count + 1 \in Nat
      BY <2>2 DEF TypeOK
    <3>2. ActivePriority(r.type, freq[r.type]) \in Int
      BY <2>2, <3>1, PrioritiesAreInt
    <3> QED
      BY <2>2, <3>1, <3>2 DEF Container
  <2>4. /\ \E ok \in ApiOutcomes :
             services' = IF ok THEN services \cup {Name(c)} ELSE services
        /\ Serve(c, Target, TRUE) /\ ActiveAdd(c, Target)
        /\ count' = count + 1
        /\ mem' = [mem EXCEPT ![Target] = @ - Size[r.type]]
    BY <1>10 DEF CreateContainer
  <2>5. Name(c) \in Types \X Nat
    BY <2>3 DEF Name, Container
  <2> HIDE DEF c, r
  <2>6. services' \subseteq Types \X Nat
    BY <2>4, <2>5 DEF TypeOK
  <2>7. freq' \in [Types -> Int] /\ active' \in [Nodes -> [Types -> Seq(Container)]]
    BY <2>2, <2>3, <2>4, ActiveAddType
  <2>8. reqs' \in Seq(Request)
    BY <2>1, <2>2, <2>3, <2>4, ServeType
  <2>9. mem' \in [Nodes -> Int]
    <3>1. mem[Target] \in Int /\ Size[r.type] \in Int
      BY <2>2, ConstantsOK DEF TypeOK
    <3>2. mem[Target] - Size[r.type] \in Int
      BY <3>1
    <3> QED
      BY <2>2, <2>4, <3>2 DEF TypeOK
  <2> QED
    <3>1. count' \in Nat
      BY <2>4 DEF TypeOK
    <3> QED
      BY <1>10, <2>6, <2>7, <2>8, <2>9, <3>1, NextRequestType
      DEF CreateContainer, TypeOK, neighbours, sweep
<1>11. CASE Evict
  <2> DEFINE r == reqs[cur]
             n == Target
  <2>1. cur \in DOMAIN reqs
    BY <1>11 DEF Evict
  <2>2. n \in Nodes
    BY <2>1, CurrentRequest DEF TypeOK
  <2>3. /\ cache[n] # << >> /\ cache' = [cache EXCEPT ![n] = Tail(@)]
        /\ services' \subseteq services
        /\ mem' = [mem EXCEPT ![n] = @ + Size[Head(cache[n]).type]]
    BY <1>11 DEF Evict
  <2> HIDE DEF n
  <2>4. cache[n] \in Seq(Container) /\ mem[n] \in Int
    BY <2>2 DEF TypeOK
  <2>5. Head(cache[n]) \in Container /\ Tail(cache[n]) \in Seq(Container)
    BY <2>3, <2>4, HeadTailProperties
  <2>6. mem[n] + Size[Head(cache[n]).type] \in Int
    <3>1. Head(cache[n]).type \in Types
      BY <2>5 DEF Container
    <3>2. Size[Head(cache[n]).type] \in Int
      BY <3>1, ConstantsOK
    <3> QED
      BY <2>4, <3>2
  <2>7. cache' \in [Nodes -> Seq(Container)] /\ mem' \in [Nodes -> Int]
    BY <2>2, <2>3, <2>5, <2>6 DEF TypeOK
  <2> QED
    BY <1>11, <2>3, <2>7 DEF Evict, TypeOK, Pcs, request, neighbours, sweep
<1>12. CASE RefuseForPriority
  BY <1>12, NextRequestType DEF RefuseForPriority, TypeOK, neighbours, sweep
<1>12a. CASE RefuseForNode
  BY <1>12a, NextRequestType DEF RefuseForNode, TypeOK, neighbours, sweep
<1>13. CASE RefuseForSpace
  BY <1>13, NextRequestType DEF RefuseForSpace, TypeOK, neighbours, sweep
<1>14. CASE SendResults
  BY <1>14 DEF SendResults, TypeOK, Pcs, request, neighbours
<1>15. CASE NextSlice
  BY <1>15 DEF NextSlice, TypeOK, Pcs, request, neighbours
<1>16. CASE CacheActive
  <2> DEFINE c == SliceAt[k + 1]
  <2>1. /\ at[1] \in Nodes /\ at[2] \in Types
        /\ SliceAt = active[at[1]][at[2]]
    BY <1>16, SliceInUse DEF CacheActive
  <2>2. SliceAt \in Seq(Container)
    BY <2>1 DEF TypeOK
  <2>3. k < Len(SliceAt) /\ k \in Nat /\ CacheAdd(c)
    BY <1>16 DEF CacheActive, TypeOK
  <2>4. c \in Container
    <3>1. k + 1 \in 1 .. Len(SliceAt)
      BY <2>2, <2>3, LenProperties
    <3> QED
      BY <2>2, <3>1, ElementOfSeq
  <2>5. RemoveAt(SliceAt, k + 1) \in Seq(Container)
    BY <2>2, <2>3 DEF RemoveAt
  <2> HIDE DEF c
  <2>6. /\ freq' \in [Types -> Int] /\ cache' \in [Nodes -> Seq(Container)]
        /\ cacheKeys' \subseteq Nodes
    BY <2>3, <2>4, CacheAddType
  <2>7. active' \in [Nodes -> [Types -> Seq(Container)]]
    BY <1>16, <2>1, <2>5 DEF CacheActive, TypeOK
  <2>8. /\ UNCHANGED <<pc, request, neighbours, mem, policy, clock, count, left, at,
                        services, leaked>>
        /\ k' = k + 1 /\ k + 1 \in Nat /\ pc = "update"
    BY <1>16, <2>3 DEF CacheActive
  <2> HIDE DEF TypeInv
  <2>9. TypeOK'
    BY <2>6, <2>7, <2>8 DEF TypeInv, TypeOK, request, neighbours
  <2> QED
    BY <2>8, <2>9 DEF TypeInv
<1>17. CASE FinishUpdate
  <2>1. cache' \in [Nodes -> Seq(Container)]
    BY <1>17, SortListType DEF FinishUpdate, SortedCaches, TypeOK
  <2>2. leaked' \in [Nodes -> [Types -> Seq(Container)]]
    BY <1>17, ConcatProperties DEF FinishUpdate, TypeOK
  <2>3. active' \in [Nodes -> [Types -> Seq(Container)]]
    BY <1>17, EmptySeq DEF FinishUpdate
  <2>4. 0 \in Nodes /\ 1 \in Types /\ << >> \in Seq(Request)
    BY ConstantsOK, EmptySeq DEF Nodes, Types
  <2> QED
    <3>1. /\ cur' \in Nat \ {0} /\ pc' \in Pcs /\ pc' \notin {"neighbour", "create"}
          /\ slot' \in Nat /\ at' = Nowhere /\ k' \in Nat
          /\ reqs' \in Seq(Request)
      BY <1>17, <2>4 DEF FinishUpdate, TypeOK, Pcs
    <3> QED
      BY <1>17, <2>1, <2>2, <2>3, <3>1 DEF FinishUpdate, TypeOK, neighbours
<1>18. CASE WaitForSignal
  BY <1>1, <1>18 DEF WaitForSignal
<1> QED
  BY <1>1, <1>2, <1>3, <1>4, <1>4a, <1>5, <1>6, <1>7, <1>8, <1>9, <1>10, <1>11, <1>12,
     <1>12a, <1>13, <1>14, <1>15, <1>16, <1>17, <1>18 DEF Next, Deploy, UpdateCache

\* Every reachable state is well typed: no step of a placement, an eviction or
\* updateCache indexes a list, a slice or the topology outside its range.
THEOREM TypeCorrect == Spec => []TypeOK
<1>1. TypeInv => TypeOK
  BY DEF TypeInv
<1> QED
  BY <1>1, TypeInvInit, TypeInvStep, PTL DEF Spec

-----------------------------------------------------------------------------
(* Memory.                                                                 *)

\* Only a creation takes memory, and only when there is enough of it.
LEMMA NoOvercommitStep == TypeInv /\ NoOvercommit /\ [Next]_vars => NoOvercommit'
<1> SUFFICES ASSUME TypeInv, NoOvercommit, [Next]_vars PROVE NoOvercommit'
  OBVIOUS
<1>1. CASE mem' = mem
  BY <1>1 DEF NoOvercommit
<1>2. CASE CreateContainer
  <2> DEFINE n == Target
             t == reqs[cur].type
  <2>1. n \in Nodes /\ t \in Types
    BY <1>2, CurrentRequest DEF CreateContainer, TypeInv, TypeOK
  <2>2. Fits(n, t) /\ mem' = [mem EXCEPT ![n] = @ - Size[t]]
    BY <1>2 DEF CreateContainer
  <2> HIDE DEF n, t
  <2>3. mem[n] \in Int /\ Size[t] \in Int /\ Size[t] <= mem[n]
    BY <2>1, <2>2, ConstantsOK DEF TypeInv, TypeOK, Fits
  <2>4. mem[n] - Size[t] >= 0
    BY <2>3
  <2> QED
    BY <2>1, <2>2, <2>4 DEF NoOvercommit, TypeInv, TypeOK
<1>3. CASE Evict
  <2> DEFINE n == Target
             s == Size[Head(cache[n]).type]
  <2>1. n \in Nodes
    BY <1>3, CurrentRequest DEF Evict, TypeInv, TypeOK
  <2>2. cache[n] # << >> /\ mem' = [mem EXCEPT ![n] = mem[n] + s]
    BY <1>3 DEF Evict
  <2>3. Head(cache[n]) \in Container
    BY <2>1, <2>2, HeadTailProperties DEF TypeInv, TypeOK
  <2>4. mem[n] \in Int /\ s \in Nat
    BY <2>1, <2>3, ConstantsOK DEF TypeInv, TypeOK, Container
  <2> HIDE DEF n, s
  <2>5. mem[n] >= 0
    BY <2>1 DEF NoOvercommit
  <2>6. mem[n] + s >= 0
    BY <2>4, <2>5
  <2> QED
    BY <2>1, <2>2, <2>6 DEF NoOvercommit, TypeInv, TypeOK
<1> QED
  BY <1>1, <1>2, <1>3
  DEF Next, Deploy, UpdateCache, vars, StartSlot, Finish, PlaceToCurrent,
      SearchNeighbours, PlaceToNeighbour, SkipNeighbour, NeighbourFound,
      CreateNew, NoNeighbour, RefuseForPriority, RefuseForNode, RefuseForSpace,
      SendResults, NextSlice,
      CacheActive, FinishUpdate, WaitForSignal

\* For any topology, sizes and requests, the containers placed on a node never
\* take more than its memory.
THEOREM MemorySafe == Spec => []NoOvercommit
<1>1. Init => NoOvercommit
  BY ConstantsOK DEF Init, NoOvercommit
<1> QED
  BY <1>1, TypeInvInit, TypeInvStep, NoOvercommitStep, PTL DEF Spec

-----------------------------------------------------------------------------
(* The order of the cache lists.                                           *)

LEMMA CacheSortedStep == TypeInv /\ CacheSorted /\ [Next]_vars => CacheSorted'
<1> SUFFICES ASSUME TypeInv, CacheSorted, [Next]_vars PROVE CacheSorted'
  OBVIOUS
<1>0. \A n \in Nodes : cache[n] \in Seq(Container) /\ Sorted(cache[n])
  BY DEF TypeInv, TypeOK, CacheSorted
<1>1. CASE cache' = cache
  BY <1>1 DEF CacheSorted
<1>2. ASSUME NEW n \in Nodes, NEW q \in Seq(Container), Sorted(q),
             cache' = [cache EXCEPT ![n] = q]
      PROVE  CacheSorted'
  BY <1>0, <1>2 DEF CacheSorted, TypeInv, TypeOK
<1>3. ASSUME NEW n \in Nodes, NEW t \in Types, HasIdle(n, t),
             cache' = [cache EXCEPT ![n] = DeleteAt(@, FirstIdle(n, t))]
      PROVE  CacheSorted'
  <2> DEFINE q == DeleteAt(cache[n], FirstIdle(n, t))
  <2>1. FirstIdle(n, t) \in DOMAIN cache[n]
    BY <1>0, <1>3, FirstIdleIsIdle
  <2>2. q \in Seq(Container)
    BY <1>0, DeleteAtType
  <2>3. Sorted(q)
    BY <1>0, <2>1, ContainersPrioritised, DeleteAtKeepsSorted
  <2> QED
    BY <1>2, <1>3, <2>2, <2>3
<1>4. CASE PlaceToCurrent
  <2>1. Target \in Nodes /\ reqs[cur].type \in Types
    BY <1>4, LenProperties, CurrentRequest DEF PlaceToCurrent, TypeInv, TypeOK
  <2> QED
    BY <1>3, <1>4, <2>1 DEF PlaceToCurrent
<1>5. CASE PlaceToNeighbour
  <2>1. Head(near) \in Nodes /\ reqs[cur].type \in Types
    BY <1>5, CurrentRequest, HeadTailProperties DEF PlaceToNeighbour, TypeInv, TypeOK
  <2> QED
    BY <1>3, <1>5, <2>1 DEF PlaceToNeighbour
<1>6. CASE Evict
  <2> DEFINE n == Target
             q == Tail(cache[n])
  <2>1. n \in Nodes
    BY <1>6, CurrentRequest DEF Evict, TypeInv, TypeOK
  <2>2. cache[n] # << >> /\ cache' = [cache EXCEPT ![n] = q]
    BY <1>6 DEF Evict
  <2> HIDE DEF n
  <2>3. /\ q \in Seq(Container) /\ Len(q) = Len(cache[n]) - 1
        /\ \A i \in 1 .. Len(q) : q[i] = cache[n][i + 1]
    BY <1>0, <2>1, <2>2, HeadTailProperties
  <2>4. DOMAIN q = 1 .. Len(q) /\ DOMAIN cache[n] = 1 .. Len(cache[n])
        /\ Len(cache[n]) \in Nat
    BY <1>0, <2>1, <2>3, LenProperties
  <2>5. \A i \in DOMAIN q : i + 1 \in DOMAIN cache[n]
    BY <2>3, <2>4
  <2>6. Sorted(q)
    <3>1. \A i, j \in DOMAIN q : i < j => i + 1 < j + 1
      BY <2>4
    <3>2. \A i, j \in DOMAIN q : i < j => cache[n][i + 1].prio <= cache[n][j + 1].prio
      BY <1>0, <2>1, <2>5, <3>1 DEF Sorted
    <3> QED
      BY <2>3, <2>4, <3>2 DEF Sorted
  <2> QED
    BY <1>2, <2>1, <2>2, <2>3, <2>6
<1>7. CASE CacheActive
  <2> DEFINE c == SliceAt[k + 1]
             d == [c EXCEPT !.prio = IdlePriority(c, freq[c.type] - 1)]
             q == SortList(Append(cache[c.node], d))
  <2>1. SliceAt \in Seq(Container) /\ k + 1 \in 1 .. Len(SliceAt)
    BY <1>7, SliceInUse, LenProperties DEF CacheActive, TypeInv, TypeOK
  <2>2. c \in Container
    BY <2>1, ElementOfSeq
  <2>3. c.type \in Types /\ c.node \in Nodes /\ c.clock \in Nat /\ freq[c.type] - 1 \in Int
    <3> HIDE DEF c
    <3>1. c.type \in Types /\ c.node \in Nodes /\ c.clock \in Nat
      BY <2>2 DEF Container
    <3> QED
      BY <3>1 DEF TypeInv, TypeOK
  <2>4. d \in Container
    <3> HIDE DEF c
    <3>1. IdlePriority(c, freq[c.type] - 1) \in Int
      BY <2>2, <2>3, PrioritiesAreInt DEF TypeInv
    <3> QED
      BY <2>2, <3>1 DEF Container
  <2>5. cache' = [cache EXCEPT ![c.node] = q]
    BY <1>7 DEF CacheActive, CacheAdd
  <2> HIDE DEF c, d
  <2>6. Append(cache[c.node], d) \in Seq(Container)
    BY <1>0, <2>3, <2>4, AppendProperties
  <2>7. q \in Seq(Container) /\ Sorted(q)
    BY <2>6, ContainersPrioritised, SortListProperties
  <2> QED
    BY <1>2, <2>3, <2>5, <2>7
<1>8. CASE FinishUpdate
  <2>1. \A n \in Nodes : Sorted(SortList(cache[n]))
    BY <1>0, ContainersPrioritised, SortListProperties
  <2> QED
    BY <1>0, <1>8, <2>1 DEF FinishUpdate, SortedCaches, CacheSorted
<1> QED
  BY <1>1, <1>4, <1>5, <1>6, <1>7, <1>8
  DEF Next, Deploy, UpdateCache, vars, StartSlot, Finish, CreateContainer,
      SearchNeighbours, SkipNeighbour, NeighbourFound, NoNeighbour,
      CreateNew, RefuseForPriority, RefuseForNode, RefuseForSpace, SendResults,
      NextSlice, WaitForSignal

\* The head of a cache list is always one of its least valuable containers,
\* which is what eviction relies on.
THEOREM CacheStaysSorted == Spec => []CacheSorted
<1>1. Init => CacheSorted
  BY DEF Init, CacheSorted, Sorted
<1> QED
  BY <1>1, TypeInvInit, TypeInvStep, CacheSortedStep, PTL DEF Spec

-----------------------------------------------------------------------------
(* The use counts.                                                         *)

\* What FreqCountsUses needs to be inductive: a slice holds one type only, and
\* the uses are finitely many.
SlicesOfOneType ==
  \A n \in Nodes, t \in Types : \A i \in DOMAIN active[n][t] :
    active[n][t][i].type = t

FreqInv ==
  /\ SlicesOfOneType
  /\ \A t \in Types :
       IsFiniteSet(Units(Uses(t))) /\ freq[t] = Cardinality(Units(Uses(t)))

LEMMA SumIsNat == \A a, b \in Nat : a + b \in Nat
OBVIOUS

LEMMA SumShifts ==
  \A a, b \in Nat : \A d \in {1, -1} : (a + d) + b = (a + b) + d
OBVIOUS

LEMMA UsesAreNat ==
  ASSUME TypeOK, NEW t \in Types
  PROVE  /\ \A n \in Nodes : /\ Len(active[n][t]) \in Nat
                             /\ Len(leaked[n][t]) \in Nat
         /\ Uses(t) \in [Nodes -> Nat]
<1>1. ASSUME NEW n \in Nodes
      PROVE  Len(active[n][t]) \in Nat /\ Len(leaked[n][t]) \in Nat
  <2>1. active[n][t] \in Seq(Container) /\ leaked[n][t] \in Seq(Container)
    BY DEF TypeOK
  <2> QED
    BY <2>1, LenProperties
<1>2. \A n \in Nodes : Len(active[n][t]) + Len(leaked[n][t]) \in Nat
  BY <1>1, SumIsNat, Zenon
<1> QED
  BY <1>1, <1>2 DEF Uses

UsesNat == \A t \in Types : Uses(t) \in [Nodes -> Nat]

LEMMA NextUsesAreNat ==
  TypeOK' => \A t \in Types : Uses(t)' \in [Nodes -> Nat]
<1>1. TypeOK => UsesNat
  BY UsesAreNat DEF UsesNat
<1>2. TypeOK' => UsesNat'
  BY <1>1, PTL
<1> QED
  BY <1>2 DEF UsesNat

LEMMA UnitsMember ==
  ASSUME NEW f, NEW n, NEW i
  PROVE  <<n, i>> \in Units(f) <=> n \in DOMAIN f /\ i \in 1 .. f[n]
BY DEF Units

LEMMA UnitsArePairs ==
  \A f : \A x \in Units(f) :
    \E n \in DOMAIN f : \E i \in 1 .. f[n] : x = <<n, i>>
BY DEF Units

\* One unit more in one place.
LEMMA UnitsGrow ==
  ASSUME NEW f \in [Nodes -> Nat], NEW g \in [Nodes -> Nat], NEW n \in Nodes,
         g[n] = f[n] + 1, \A m \in Nodes : m # n => g[m] = f[m],
         IsFiniteSet(Units(f))
  PROVE  IsFiniteSet(Units(g)) /\ Cardinality(Units(g)) = Cardinality(Units(f)) + 1
<1> DEFINE e == <<n, f[n] + 1>>
<1>1. f[n] \in Nat /\ DOMAIN f = Nodes /\ DOMAIN g = Nodes
  OBVIOUS
<1>2. e \notin Units(f)
  BY <1>1, UnitsMember
<1>3. 1 .. g[n] = (1 .. f[n]) \cup {f[n] + 1}
  BY <1>1
<1>4. ASSUME NEW m \in Nodes, NEW i \in 1 .. g[m]
      PROVE  <<m, i>> \in Units(f) \cup {e}
  <2>1. CASE m = n
    BY <1>1, <1>3, <2>1, UnitsMember
  <2>2. CASE m # n
    BY <1>1, <2>2, UnitsMember
  <2> QED
    BY <2>1, <2>2
<1>5. ASSUME NEW m \in Nodes, NEW i \in 1 .. f[m]
      PROVE  <<m, i>> \in Units(g)
  <2>1. CASE m = n
    BY <1>1, <1>3, <2>1, UnitsMember
  <2>2. CASE m # n
    BY <1>1, <2>2, UnitsMember
  <2> QED
    BY <2>1, <2>2
<1>6. e \in Units(g)
  BY <1>1, <1>3, UnitsMember
<1> HIDE DEF e
<1>7. ASSUME NEW x \in Units(g)
      PROVE  x \in Units(f) \cup {e}
  <2>1. PICK m \in DOMAIN g : \E i \in 1 .. g[m] : x = <<m, i>>
    BY UnitsArePairs, Zenon
  <2> QED
    BY <1>1, <1>4, <2>1, Zenon
<1>8. ASSUME NEW x \in Units(f)
      PROVE  x \in Units(g)
  <2>1. PICK m \in DOMAIN f : \E i \in 1 .. f[m] : x = <<m, i>>
    BY UnitsArePairs, Zenon
  <2>2. PICK i \in 1 .. f[m] : x = <<m, i>>
    BY <2>1
  <2>3. <<m, i>> \in Units(g)
    BY <1>1, <1>5, <2>1
  <2> QED
    BY <2>2, <2>3
<1>9. Units(g) = Units(f) \cup {e}
  BY <1>6, <1>7, <1>8
<1>10. /\ IsFiniteSet(Units(f) \cup {e})
       /\ Cardinality(Units(f) \cup {e}) = Cardinality(Units(f)) + 1
  BY <1>2, FS_AddElement
<1> QED
  BY <1>9, <1>10, Zenon

\* One unit less in one place.
LEMMA UnitsShrink ==
  ASSUME NEW f \in [Nodes -> Nat], NEW g \in [Nodes -> Nat], NEW n \in Nodes,
         g[n] = f[n] - 1, \A m \in Nodes : m # n => g[m] = f[m],
         IsFiniteSet(Units(f))
  PROVE  IsFiniteSet(Units(g)) /\ Cardinality(Units(g)) = Cardinality(Units(f)) - 1
<1>1. f[n] \in Nat /\ g[n] \in Nat /\ f[n] = g[n] + 1
  OBVIOUS
<1>2. DOMAIN g = Nodes /\ DOMAIN f = Nodes
  OBVIOUS
<1>3. Units(g) \subseteq Units(f)
  <2> SUFFICES ASSUME NEW x \in Units(g)
               PROVE  x \in Units(f)
    OBVIOUS
  <2>1. PICK m \in DOMAIN g : \E i \in 1 .. g[m] : x = <<m, i>>
    BY UnitsArePairs, Zenon
  <2>2. m \in Nodes /\ g[m] \in Nat /\ f[m] \in Nat /\ g[m] <= f[m]
    BY <1>1, <1>2, <2>1
  <2>3. 1 .. g[m] \subseteq 1 .. f[m]
    BY <2>2
  <2> QED
    BY <1>2, <2>1, <2>2, <2>3, UnitsMember
<1>4. IsFiniteSet(Units(g))
  BY <1>3, FS_Subset
<1>5. Cardinality(Units(f)) = Cardinality(Units(g)) + 1
  BY <1>1, <1>2, <1>4, UnitsGrow
<1>6. Cardinality(Units(g)) \in Nat
  BY <1>4, FS_CardinalityType
<1> QED
  BY <1>4, <1>5, <1>6

\* What a change of one slice does to the units and to the use count.
LEMMA UseAdded ==
  ASSUME TypeOK, TypeOK', FreqInv, NEW n \in Nodes, NEW t \in Types,
         freq' = [freq EXCEPT ![t] = @ + 1],
         Uses(t)'[n] = Uses(t)[n] + 1,
         \A m \in Nodes : m # n => Uses(t)'[m] = Uses(t)[m],
         \A u \in Types : u # t => Uses(u)' = Uses(u)
  PROVE  \A u \in Types : /\ IsFiniteSet(Units(Uses(u)'))
                          /\ freq'[u] = Cardinality(Units(Uses(u)'))
<1> SUFFICES ASSUME NEW u \in Types
             PROVE  /\ IsFiniteSet(Units(Uses(u)'))
                    /\ freq'[u] = Cardinality(Units(Uses(u)'))
  OBVIOUS
<1>1. IsFiniteSet(Units(Uses(u))) /\ freq[u] = Cardinality(Units(Uses(u)))
  BY DEF FreqInv
<1>2. freq'[u] = IF u = t THEN freq[u] + 1 ELSE freq[u]
  BY DEF TypeOK
<1>3. CASE u = t
  <2>1. Uses(t) \in [Nodes -> Nat] /\ Uses(t)' \in [Nodes -> Nat]
    BY UsesAreNat, NextUsesAreNat
  <2>2. /\ IsFiniteSet(Units(Uses(t)'))
        /\ Cardinality(Units(Uses(t)')) = Cardinality(Units(Uses(t))) + 1
    BY <1>1, <1>3, <2>1, UnitsGrow
  <2> QED
    BY <1>1, <1>2, <1>3, <2>2
<1>4. CASE u # t
  BY <1>1, <1>2, <1>4
<1> QED
  BY <1>3, <1>4

LEMMA UseTakenBack ==
  ASSUME TypeOK, TypeOK', FreqInv, NEW n \in Nodes, NEW t \in Types,
         freq' = [freq EXCEPT ![t] = @ - 1],
         Uses(t)'[n] = Uses(t)[n] - 1,
         \A m \in Nodes : m # n => Uses(t)'[m] = Uses(t)[m],
         \A u \in Types : u # t => Uses(u)' = Uses(u)
  PROVE  \A u \in Types : /\ IsFiniteSet(Units(Uses(u)'))
                          /\ freq'[u] = Cardinality(Units(Uses(u)'))
<1> SUFFICES ASSUME NEW u \in Types
             PROVE  /\ IsFiniteSet(Units(Uses(u)'))
                    /\ freq'[u] = Cardinality(Units(Uses(u)'))
  OBVIOUS
<1>1. IsFiniteSet(Units(Uses(u))) /\ freq[u] = Cardinality(Units(Uses(u)))
  BY DEF FreqInv
<1>2. freq'[u] = IF u = t THEN freq[u] - 1 ELSE freq[u]
  BY DEF TypeOK
<1>3. CASE u = t
  <2>1. Uses(t) \in [Nodes -> Nat] /\ Uses(t)' \in [Nodes -> Nat]
    BY UsesAreNat, NextUsesAreNat
  <2>2. /\ IsFiniteSet(Units(Uses(t)'))
        /\ Cardinality(Units(Uses(t)')) = Cardinality(Units(Uses(t))) - 1
    BY <1>1, <1>3, <2>1, UnitsShrink
  <2> QED
    BY <1>1, <1>2, <1>3, <2>2
<1>4. CASE u # t
  BY <1>1, <1>2, <1>4
<1> QED
  BY <1>3, <1>4

\* Replacing one active slice by a longer or shorter one.
LEMMA SliceReplaced ==
  ASSUME TypeOK, NEW n \in Nodes, NEW t \in Types, NEW d \in {1, -1},
         Len(active'[n][t]) = Len(active[n][t]) + d, leaked' = leaked,
         \A m \in Nodes, u \in Types :
           m # n \/ u # t => active'[m][u] = active[m][u]
  PROVE  /\ Uses(t)'[n] = Uses(t)[n] + d
         /\ \A m \in Nodes : m # n => Uses(t)'[m] = Uses(t)[m]
         /\ \A u \in Types : u # t => Uses(u)' = Uses(u)
<1>2. \A m \in Nodes : Len(active[m][t]) \in Nat /\ Len(leaked[m][t]) \in Nat
  BY UsesAreNat
<1>3. Len(active'[n][t]) + Len(leaked[n][t])
        = (Len(active[n][t]) + Len(leaked[n][t])) + d
  BY <1>2, SumShifts, Zenon
<1>4. ASSUME NEW m \in Nodes
      PROVE  Len(active'[m][t]) + Len(leaked'[m][t])
               = IF m = n THEN (Len(active[m][t]) + Len(leaked[m][t])) + d
                          ELSE Len(active[m][t]) + Len(leaked[m][t])
  <2>1. leaked'[m][t] = leaked[m][t]
    OBVIOUS
  <2>3. CASE m = n
    BY <1>3, <2>1, <2>3, Zenon
  <2>4. CASE m # n
    <3>1. active'[m][t] = active[m][t]
      BY <2>4
    <3>2. Len(active'[m][t]) + Len(leaked'[m][t])
            = Len(active[m][t]) + Len(leaked[m][t])
      BY <2>1, <3>1, Zenon
    <3> QED
      BY <2>4, <3>2
  <2> QED
    BY <2>3, <2>4, Zenon
<1>5. /\ Uses(t)'[n] = Uses(t)[n] + d
      /\ \A m \in Nodes : m # n => Uses(t)'[m] = Uses(t)[m]
  <2>1. \A m \in Nodes :
          /\ Uses(t)[m] = Len(active[m][t]) + Len(leaked[m][t])
          /\ Uses(t)'[m] = Len(active'[m][t]) + Len(leaked'[m][t])
    BY DEF Uses
  <2> QED
    BY <1>4, <2>1
<1>6. ASSUME NEW u \in Types, u # t
      PROVE  Uses(u)' = Uses(u)
  <2>1. \A m \in Nodes : active'[m][u] = active[m][u] /\ leaked'[m][u] = leaked[m][u]
    BY <1>6
  <2>2. \A m \in Nodes : Len(active'[m][u]) + Len(leaked'[m][u])
                           = Len(active[m][u]) + Len(leaked[m][u])
    BY <2>1, Zenon
  <2> QED
    BY <2>2, Zenon DEF Uses
<1> QED
  BY <1>5, <1>6

\* Putting a container in use counts it, in its slice and in freq.
LEMMA FreqAfterActiveAdd ==
  ASSUME TypeOK, TypeOK', FreqInv, NEW c \in Container, NEW n \in Nodes,
         ActiveAdd(c, n), leaked' = leaked
  PROVE  FreqInv'
<1> DEFINE d == [c EXCEPT !.clock = clock,
                          !.prio = ActivePriority(c.type, freq[c.type] + 1)]
           t == c.type
           s == active[n][t]
           q == Append(s, d)
<1>1. t \in Types /\ active \in [Nodes -> [Types -> Seq(Container)]]
  BY DEF Container, TypeOK
<1>2. active' = [active EXCEPT ![n][t] = q] /\ freq' = [freq EXCEPT ![t] = @ + 1]
  BY DEF ActiveAdd
<1>3. d.type = t
  BY DEF Container
<1>5. s = active[n][t]
  OBVIOUS
<1> HIDE DEF d, t, s
<1>4. s \in Seq(Container)
  BY <1>1, <1>5
<1>6. /\ Len(q) = Len(s) + 1 /\ Len(s) \in Nat
      /\ \A i \in 1 .. Len(s) : q[i] = s[i]
      /\ q[Len(s) + 1] = d
      /\ DOMAIN q = 1 .. Len(s) + 1 /\ DOMAIN s = 1 .. Len(s)
  BY <1>4, AppendProperties, LenProperties
<1> HIDE DEF q
<1>9. /\ active'[n][t] = q
      /\ \A m \in Nodes, u \in Types :
           m # n \/ u # t => active'[m][u] = active[m][u]
  BY <1>1, <1>2
<1>7. /\ Uses(t)'[n] = Uses(t)[n] + 1
      /\ \A m \in Nodes : m # n => Uses(t)'[m] = Uses(t)[m]
      /\ \A u \in Types : u # t => Uses(u)' = Uses(u)
  <2>1. 1 \in {1, -1} /\ Len(active'[n][t]) = Len(active[n][t]) + 1
    BY <1>5, <1>6, <1>9
  <2> QED
    BY <1>1, <1>9, <2>1, SliceReplaced
<1>8. SlicesOfOneType'
  <2>1. \A i \in DOMAIN s : s[i].type = t
    BY <1>1, <1>5 DEF FreqInv, SlicesOfOneType
  <2>2. \A i \in DOMAIN q : q[i].type = t
    BY <1>3, <1>6, <2>1
  <2> QED
    BY <1>9, <2>2 DEF FreqInv, SlicesOfOneType
<1>10. \A u \in Types : /\ IsFiniteSet(Units(Uses(u)'))
                         /\ freq'[u] = Cardinality(Units(Uses(u)'))
  BY <1>1, <1>2, <1>7, UseAdded
<1> QED
  BY <1>8, <1>10 DEF FreqInv

\* The slice updateCache is in, without the container it moves to the cache.
LEMMA FreqAfterCacheActive ==
  ASSUME TypeOK, TypeOK', FreqInv, CacheActive
  PROVE  FreqInv'
<1>1. PICK n \in Nodes, t \in Types :
        at[1] = n /\ at[2] = t /\ SliceAt = active[n][t]
  BY SliceInUse DEF CacheActive
<1> DEFINE s == active[n][t]
           q == DeleteAt(s, k + 1)
<1>2. s \in Seq(Container) /\ k \in Nat /\ k < Len(s)
  BY <1>1 DEF CacheActive, TypeOK
<1>3. DOMAIN s = 1 .. Len(s) /\ Len(s) \in Nat /\ k + 1 \in DOMAIN s
  BY <1>2, LenProperties
<1>4. s[k + 1].type = t
  BY <1>1, <1>3 DEF FreqInv, SlicesOfOneType
<1>5. freq' = [freq EXCEPT ![t] = @ - 1]
  BY <1>1, <1>4 DEF CacheActive, CacheAdd
<1>6. active' = [active EXCEPT ![n][t] = q] /\ leaked' = leaked
  BY <1>1, <1>3 DEF CacheActive, DeleteAt
<1>7. s = active[n][t]
  OBVIOUS
<1> HIDE DEF s
<1>8. /\ q \in Seq(Container) /\ Len(q) = Len(s) - 1
      /\ \A i \in DOMAIN q : \E j \in DOMAIN s : q[i] = s[j]
  <2>1. /\ q \in Seq(Container) /\ Len(q) = Len(s) - 1
        /\ \A i \in 1 .. Len(s) - 1 : q[i] = IF i < k + 1 THEN s[i] ELSE s[i + 1]
    BY <1>2, <1>3, DeleteAtProperties
  <2> HIDE DEF q
  <2>2. DOMAIN q = 1 .. Len(s) - 1
    BY <2>1, LenProperties
  <2>3. ASSUME NEW i \in DOMAIN q
        PROVE  i \in DOMAIN s /\ i + 1 \in DOMAIN s
    BY <1>3, <2>2
  <2>4. \A i \in DOMAIN q : q[i] = s[i] \/ q[i] = s[i + 1]
    BY <2>1, <2>2
  <2> QED
    BY <2>1, <2>3, <2>4
<1> HIDE DEF q
<1>9. Len(q) = Len(s) + (-1)
  BY <1>3, <1>8
<1>11. /\ active'[n][t] = q
       /\ \A m \in Nodes, u \in Types :
            m # n \/ u # t => active'[m][u] = active[m][u]
  BY <1>1, <1>6 DEF TypeOK
<1>10. /\ Uses(t)'[n] = Uses(t)[n] + (-1)
       /\ \A m \in Nodes : m # n => Uses(t)'[m] = Uses(t)[m]
       /\ \A u \in Types : u # t => Uses(u)' = Uses(u)
  <2>1. -1 \in {1, -1} /\ Len(active'[n][t]) = Len(active[n][t]) + (-1)
    BY <1>7, <1>9, <1>11
  <2> QED
    BY <1>1, <1>6, <1>11, <2>1, SliceReplaced, Zenon
<1>12. Uses(t)'[n] = Uses(t)[n] - 1
  <2>1. Uses(t)[n] \in Nat
    BY <1>1, UsesAreNat
  <2> QED
    BY <1>10, <2>1
<1>13. SlicesOfOneType'
  <2>1. \A i \in DOMAIN s : s[i].type = t
    BY <1>1, <1>7 DEF FreqInv, SlicesOfOneType
  <2>2. \A i \in DOMAIN q : q[i].type = t
    BY <1>8, <2>1
  <2> QED
    BY <1>11, <2>2 DEF FreqInv, SlicesOfOneType
<1>14. \A u \in Types : /\ IsFiniteSet(Units(Uses(u)'))
                         /\ freq'[u] = Cardinality(Units(Uses(u)'))
  BY <1>1, <1>5, <1>10, <1>12, UseTakenBack, Zenon
<1> QED
  BY <1>13, <1>14 DEF FreqInv

LEMMA FreqInvStep == TypeInv /\ TypeInv' /\ FreqInv /\ [Next]_vars => FreqInv'
<1> SUFFICES ASSUME TypeInv, TypeInv', FreqInv, [Next]_vars PROVE FreqInv'
  OBVIOUS
<1> USE DEF TypeInv
<1>1. CASE active' = active /\ leaked' = leaked /\ freq' = freq
  BY <1>1 DEF FreqInv, SlicesOfOneType, Uses
<1>2. CASE PlaceToCurrent
  <2> DEFINE n == Target
             i == FirstIdle(n, reqs[cur].type)
  <2>1. n \in Nodes /\ reqs[cur].type \in Types
    <3>1. cur \in DOMAIN reqs
      BY <1>2, LenProperties DEF PlaceToCurrent, TypeOK
    <3> QED
      BY <3>1, CurrentRequest DEF TypeOK
  <2>2. i \in DOMAIN cache[n] /\ cache[n] \in Seq(Container)
    BY <1>2, <2>1, FirstIdleIsIdle DEF PlaceToCurrent, TypeOK
  <2>3. cache[n][i] \in Container
    BY <2>2, ElementOfSeq, LenProperties
  <2>4. ActiveAdd(cache[n][i], n) /\ leaked' = leaked
    BY <1>2 DEF PlaceToCurrent
  <2> HIDE DEF n, i
  <2> QED
    BY <2>1, <2>3, <2>4, FreqAfterActiveAdd
<1>3. CASE PlaceToNeighbour
  <2> DEFINE n == Head(near)
             i == FirstIdle(n, reqs[cur].type)
  <2>1. n \in Nodes /\ reqs[cur].type \in Types
    BY <1>3, CurrentRequest, HeadTailProperties DEF PlaceToNeighbour, TypeOK
  <2>2. i \in DOMAIN cache[n] /\ cache[n] \in Seq(Container)
    BY <1>3, <2>1, FirstIdleIsIdle DEF PlaceToNeighbour, TypeOK
  <2>3. cache[n][i] \in Container
    BY <2>2, ElementOfSeq, LenProperties
  <2>4. ActiveAdd(cache[n][i], n) /\ leaked' = leaked
    BY <1>3 DEF PlaceToNeighbour
  <2> HIDE DEF n, i
  <2> QED
    BY <2>1, <2>3, <2>4, FreqAfterActiveAdd
<1>4. CASE CreateContainer
  <2> DEFINE r == reqs[cur]
             c == [id |-> count + 1, type |-> r.type, node |-> Target,
                   clock |-> clock, prio |-> ActivePriority(r.type, freq[r.type])]
  <2>1. r.type \in Types /\ Target \in Nodes
    BY <1>4, CurrentRequest DEF CreateContainer, TypeOK
  <2>2. ActiveAdd(c, Target) /\ leaked' = leaked
    BY <1>4 DEF CreateContainer
  <2> HIDE DEF r
  <2>3. count \in Nat /\ clock \in Nat /\ freq[r.type] \in Int
    BY <2>1 DEF TypeOK
  <2>4. ActivePriority(r.type, freq[r.type]) \in Int
    BY <2>1, <2>3, PrioritiesAreInt
  <2>5. count + 1 \in Nat
    BY <2>3
  <2>6. c \in Container
    BY <2>1, <2>3, <2>4, <2>5 DEF Container
  <2> QED
    BY <2>1, <2>2, <2>6, FreqAfterActiveAdd
<1>5. CASE CacheActive
  BY <1>5, FreqAfterCacheActive
<1>6. CASE FinishUpdate
  <2>1. /\ leaked' = [n \in Nodes |-> [t \in Types |-> leaked[n][t] \o active[n][t]]]
        /\ active' = [n \in Nodes |-> [t \in Types |-> <<>>]] /\ freq' = freq
    BY <1>6 DEF FinishUpdate
  <2>2. SlicesOfOneType'
    BY <2>1 DEF SlicesOfOneType
  <2>3. ASSUME NEW n \in Nodes, NEW t \in Types
        PROVE  Len(active'[n][t]) + Len(leaked'[n][t])
                 = Len(active[n][t]) + Len(leaked[n][t])
    <3>1. active[n][t] \in Seq(Container) /\ leaked[n][t] \in Seq(Container)
      BY DEF TypeOK
    <3>2. Len(leaked[n][t] \o active[n][t]) = Len(leaked[n][t]) + Len(active[n][t])
      BY <3>1, ConcatProperties
    <3>3. Len(active[n][t]) \in Nat /\ Len(leaked[n][t]) \in Nat
      BY UsesAreNat
    <3>4. active'[n][t] = <<>> /\ leaked'[n][t] = leaked[n][t] \o active[n][t]
      BY <2>1
    <3>5. Len(active'[n][t]) = 0
      BY <3>4
    <3>6. \A a, b, x, y : a \in Nat /\ b \in Nat /\ x = 0 /\ y = b + a => x + y = a + b
      OBVIOUS
    <3>7. Len(leaked'[n][t]) = Len(leaked[n][t]) + Len(active[n][t])
      BY <3>2, <3>4, Zenon
    <3> DEFINE a == Len(active[n][t])
               b == Len(leaked[n][t])
    <3>8. a \in Nat /\ b \in Nat /\ Len(leaked'[n][t]) = b + a
      BY <3>3, <3>7
    <3> HIDE DEF a, b
    <3>9. Len(active'[n][t]) + Len(leaked'[n][t]) = a + b
      BY <3>5, <3>6, <3>8
    <3> QED
      BY <3>9 DEF a, b
  <2>4. \A t \in Types : Uses(t)' = Uses(t)
    BY <2>3 DEF Uses
  <2> QED
    BY <2>1, <2>2, <2>4 DEF FreqInv
<1> QED
  BY <1>1, <1>2, <1>3, <1>4, <1>5, <1>6
  DEF Next, Deploy, UpdateCache, vars, StartSlot, Finish, SearchNeighbours,
      SkipNeighbour, NeighbourFound, NoNeighbour, Evict, RefuseForPriority,
      CreateNew, RefuseForNode, RefuseForSpace, SendResults, NextSlice, WaitForSignal

\* The use count of a type, from which every priority is computed, is exactly
\* the number of its active containers and of those updateCache dropped
\* (algorithm.go:22).
THEOREM FreqCorrect == Spec => []FreqCountsUses
<1>1. Init => FreqInv
  <2> SUFFICES ASSUME Init PROVE FreqInv
    OBVIOUS
  <2>1. SlicesOfOneType
    BY DEF Init, SlicesOfOneType
  <2>2. ASSUME NEW t \in Types
        PROVE  Units(Uses(t)) = {}
    <3>1. \A n \in Nodes : Len(active[n][t]) = 0 /\ Len(leaked[n][t]) = 0
      BY DEF Init
    <3>0. 0 + 0 = 0
      OBVIOUS
    <3>2. DOMAIN Uses(t) = Nodes /\ \A n \in Nodes : Uses(t)[n] = 0
      BY <3>0, <3>1 DEF Uses
    <3> QED
      BY <3>2, UnitsArePairs
  <2> QED
    BY <2>1, <2>2, FS_EmptySet DEF FreqInv, Init
<1>2. FreqInv => FreqCountsUses
  BY DEF FreqInv, FreqCountsUses
<1> QED
  BY <1>1, <1>2, TypeInvInit, TypeInvStep, FreqInvStep, PTL DEF Spec
=============================================================================
