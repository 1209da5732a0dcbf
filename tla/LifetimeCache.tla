---------------------------- MODULE LifetimeCache ----------------------------
(***************************************************************************)
(* The schedulers that keep an idle container for a fixed number of slots  *)
(* (knative/sourceCode/fixedcaching and histogram: algorithm.go, types.go).*)
(*                                                                         *)
(* At the end of a slot updateCache first ages the idle containers and     *)
(* terminates the expired ones, and then moves the active ones to the      *)
(* cache.                                                                  *)
(*                                                                         *)
(* histogram puts an idle container of the ingress node in use, and sorts  *)
(* the idle ones by priority.  fixedcaching creates another container in   *)
(* that case, evicting idle ones for room, and sorts by the lifetime left. *)
(* Both create one whatever memory is left when no idle one is in reach.   *)
(* The calls of the Knative API succeed.                                   *)
(***************************************************************************)
EXTENDS Integers, Sequences, FiniteSets, SequencesExt, FiniteSetsExt, PriorityList

CONSTANTS
  Variants,     \* the programs to run, of fixedcaching and histogram
  LifeTime,     \* slots that a container may be idle
  NodeNum,      \* number of physical nodes; their ids are 0 .. NodeNum-1
  TypeNum,      \* number of function types; 1 .. TypeNum
  Size,         \* Size[t]: memory of a container of type t
  ColdStart,    \* ColdStart[t]: time a new container of type t needs
  Weight,       \* Weight[t]: ColdStartTime / (Size / 1000)
  Latency,      \* Latency[m][n]: distance between m and n times LatencyPara
  MemCap,       \* memory of a node before the first request
  MemBound,     \* bound: memory left on a node is not counted beyond it
  SlotNum,      \* number of time slots to run
  MaxRequests   \* bound: requests in one slot

Nodes == 0 .. (NodeNum - 1)
Types == 1 .. TypeNum

ASSUME LifetimeConstantsOK ==
  /\ Variants \subseteq {"fixedcaching", "histogram"} /\ LifeTime \in Nat \ {0}
  /\ NodeNum \in Nat \ {0} /\ TypeNum \in Nat \ {0}
  /\ Size \in [Types -> Nat \ {0}]
  /\ ColdStart \in [Types -> Nat] /\ Weight \in [Types -> Nat]
  /\ Latency \in [Nodes -> [Nodes -> Nat]]
  /\ MemCap \in Nat /\ MemBound \in Nat /\ MemCap <= MemBound
  /\ SlotNum \in Nat /\ MaxRequests \in Nat

VARIABLES
  variant,   \* which program runs
  pc,        \* where scheduleRequests is
  slot,      \* its loop variable i
  reqs,      \* the requests of the slot
  cur,       \* index of the request being deployed
  mem,       \* topo_G.Nodes[n].Mem
  active,    \* activeFunctions_G.Map[n].Functions[t].Slice
  cache,     \* cacheMap_G.Caches[n].FunctionList
  cacheKeys, \* the keys of cacheMap_G.Caches
  freq,      \* functionfreq_G.Map
  count,     \* count_G
  left,      \* lists that the loops of updateCache have not come to
  at,        \* the list they are in, <<n, 0>> for the cache of n, or Nowhere
  aged,      \* the aging loop's own slice of the list it is in
  k,         \* the index in that list, from 0
  services,  \* names of the Knative services that exist (external)
  leaked     \* history: containers updateCache dropped

requests == <<variant, slot, reqs, cur>>
books    == <<mem, freq, count, services>>
lists    == <<active, cache, cacheKeys, leaked>>
loops    == <<left, at, aged, k>>
vars     == <<pc, requests, books, lists, loops>>

FixedCaching == variant = "fixedcaching"

Nowhere == <<-1, 0>>

\* idle, a history, counts the slots the container was idle.
Container == [id : Nat, type : Types, node : Nodes, life : Int, prio : Int,
              idle : Nat]

Name(c) == <<c.type, c.id>>

FreshRequest(t, n) ==
  [type |-> t, ingress |-> n, served |-> FALSE, node |-> 0, fn |-> 0]

\* The requests of a slot come by type and then by ingress.  The application
\* of type 1 only has requests in slot 0, and the first request of each is at
\* node 0.
Precedes(a, b) == a.type < b.type \/ (a.type = b.type /\ a.ingress <= b.ingress)
Requested(t) == t = 1 => slot = 0
Batches ==
  {b \in UNION {[1 .. m -> {FreshRequest(t, n) : t \in Types, n \in Nodes}] :
                m \in 1 .. MaxRequests} :
     /\ \A i, j \in DOMAIN b : i < j => Precedes(b[i], b[j])
     /\ \A i \in DOMAIN b : Requested(b[i].type)
     /\ \A t \in Types : Requested(t) => FreshRequest(t, 0) \in Range(b)}

-----------------------------------------------------------------------------
(* Memory, lists and results.                                              *)

\* updateTopo("add", n, size)
GiveBack(m, size) == Min({m + size, MemBound})

IdleIndexes(n, t) == {i \in DOMAIN cache[n] : cache[n][i].type = t}
HasIdle(n, t) == IdleIndexes(n, t) # {}
FirstIdle(n, t) == Min(IdleIndexes(n, t))

\* What the list of the program is sorted by.
Key(c, f) == IF FixedCaching THEN c.life ELSE f * Weight[c.type]

\* cacheMap_G.add
CacheAdd(c) ==
  /\ freq' = [freq EXCEPT ![c.type] = @ - 1]
  /\ cache' = [cache EXCEPT ![c.node] =
       SortList(Append(@, [c EXCEPT !.prio = Key(c, freq[c.type] - 1)]))]
  /\ cacheKeys' = cacheKeys \cup {c.node}

\* requestPtr.update, and deployRequests goes on with the next one.
Serve(c, n) ==
  /\ reqs' = [reqs EXCEPT ![cur] =
                [@ EXCEPT !.fn = c.id, !.served = TRUE, !.node = n]]
  /\ cur' = cur + 1

-----------------------------------------------------------------------------
(* Placement of the request reqs[cur].                                     *)

StartSlot ==
  /\ pc = "slot" /\ slot < SlotNum
  /\ pc' = "deploy" /\ reqs' \in Batches /\ cur' = 1
  /\ UNCHANGED <<variant, slot, books, lists, loops>>

\* All slots are done, or the request file has no column for this one.
Finish ==
  /\ pc = "slot"
  /\ pc' = "done"
  /\ UNCHANGED <<requests, books, lists, loops>>

Deploying == pc = "deploy" /\ cur <= Len(reqs)
Req == reqs[cur]

\* histogram's placeToCurrent.
PlaceToCurrent ==
  /\ Deploying /\ ~FixedCaching /\ HasIdle(Req.ingress, Req.type)
  /\ LET n == Req.ingress
         i == FirstIdle(n, Req.type)
     IN /\ active' = [active EXCEPT ![n][Req.type] = Append(@, cache[n][i])]
        /\ cache' = [cache EXCEPT ![n] = DeleteAt(@, i)]
        /\ Serve(cache[n][i], n)
  /\ freq' = [freq EXCEPT ![Req.type] = @ + 1]
  /\ UNCHANGED <<pc, variant, slot, mem, count, services, cacheKeys, leaked, loops>>

\* The neighbours with an idle container that are nearer than a cold start.
Takers == {n \in Nodes \ {Req.ingress} :
             Latency[Req.ingress][n] < ColdStart[Req.type] /\ HasIdle(n, Req.type)}

\* Fault: the containers are filed under the node of the request.
DeployToNeighbourAtIngress ==
  /\ Deploying /\ ~HasIdle(Req.ingress, Req.type) /\ Takers # {}
  /\ active' = [active EXCEPT ![Req.ingress][Req.type] = @ \o
       SetToSeq({cache[n][FirstIdle(n, Req.type)] : n \in Takers})]
  /\ cache' = [n \in Nodes |-> IF n \notin Takers THEN cache[n]
       ELSE DeleteAt(cache[n], FirstIdle(n, Req.type))]
  /\ freq' = [freq EXCEPT ![Req.type] = @ + Cardinality(Takers)]
  /\ \E n \in Takers : Serve(cache[n][FirstIdle(n, Req.type)], n)
  /\ UNCHANGED <<pc, variant, slot, mem, count, services, cacheKeys, leaked, loops>>

\* deployToNeighbour does not stop at a success: it takes a container of every
\* such neighbour, and the request remembers the one that is farthest away.
DeployToNeighbour ==
  /\ Deploying /\ ~HasIdle(Req.ingress, Req.type) /\ Takers # {}
  /\ active' = [n \in Nodes |-> IF n \notin Takers THEN active[n]
       ELSE [active[n] EXCEPT ![Req.type] =
               Append(@, cache[n][FirstIdle(n, Req.type)])]]
  /\ cache' = [n \in Nodes |-> IF n \notin Takers THEN cache[n]
       ELSE DeleteAt(cache[n], FirstIdle(n, Req.type))]
  /\ freq' = [freq EXCEPT ![Req.type] = @ + Cardinality(Takers)]
  /\ \E n \in Takers :
       /\ \A m \in Takers : Latency[Req.ingress][m] <= Latency[Req.ingress][n]
       /\ Serve(cache[n][FirstIdle(n, Req.type)], n)
  /\ UNCHANGED <<pc, variant, slot, mem, count, services, cacheKeys, leaked, loops>>

\* createContainers, activeFunctions_G.add and updateTopo("minus").
CreateContainer ==
  /\ LET n == Req.ingress
         c == [id |-> count + 1, type |-> Req.type, node |-> n,
               life |-> LifeTime, prio |-> 0, idle |-> 0]
     IN /\ active' = [active EXCEPT ![n][c.type] = Append(@, c)]
        /\ services' = services \cup {Name(c)}
        /\ mem' = [mem EXCEPT ![n] = @ - Size[c.type]]
        /\ Serve(c, n)
  /\ count' = count + 1 /\ freq' = [freq EXCEPT ![Req.type] = @ + 1]
  /\ UNCHANGED <<variant, slot, cache, cacheKeys, leaked, loops>>

\* It does not look at the memory.
CreateToCurrent ==
  /\ Deploying /\ ~HasIdle(Req.ingress, Req.type) /\ Takers = {}
  /\ CreateContainer
  /\ UNCHANGED pc

\* fixedcaching's placeToCurrent leaves the idle container where it is.
MakeRoom ==
  /\ Deploying /\ FixedCaching /\ HasIdle(Req.ingress, Req.type)
  /\ pc' = "place"
  /\ UNCHANGED <<requests, books, lists, loops>>

Fits == Size[Req.type] <= mem[Req.ingress]

PlaceNew ==
  /\ pc = "place" /\ Fits
  /\ CreateContainer
  /\ pc' = "deploy"

\* Fault: a container that was never idle before is evicted too.
MayEvictFresh == TRUE

\* The lowest lifetime left on the node, 0 without an idle container, is less
\* than that of a new container.
MayEvict == LET s == cache[Req.ingress]
            IN s = <<>> \/ Head(s).life < LifeTime

\* One round of the loop of placeToCurrent, which gives back the memory that
\* termContainers has given back already.
Evict ==
  /\ pc = "place" /\ ~Fits /\ cache[Req.ingress] # <<>> /\ MayEvict
  /\ LET n == Req.ingress
         c == Head(cache[n])
     IN /\ cache' = [cache EXCEPT ![n] = Tail(@)]
        /\ services' = services \ {Name(c)}
        /\ mem' = [mem EXCEPT ![n] = GiveBack(@, 2 * Size[c.type])]
  /\ UNCHANGED <<pc, requests, freq, count, active, cacheKeys, leaked, loops>>

\* Nothing is left to evict, or all of it has its whole lifetime left.
Refuse ==
  /\ pc = "place" /\ ~Fits /\ (cache[Req.ingress] = <<>> \/ ~MayEvict)
  /\ pc' = "deploy" /\ cur' = cur + 1
  /\ UNCHANGED <<variant, slot, reqs, books, lists, loops>>

-----------------------------------------------------------------------------
(* updateCache: the idle containers grow older.                            *)

SendResults ==
  /\ pc = "deploy" /\ cur > Len(reqs)
  /\ pc' = "age"
  /\ left' = {<<n, 0>> : n \in cacheKeys}
  /\ UNCHANGED <<requests, books, lists, at, aged, k>>

\* A range loop over a map takes the nodes in any order.
NextCache ==
  /\ pc = "age" /\ k >= Len(aged) /\ left # {}
  /\ \E s \in left :
       /\ left' = left \ {s} /\ at' = s
       /\ aged' = [i \in DOMAIN cache[s[1]] |->
                     [cache[s[1]][i] EXCEPT !.idle = @ + 1]]
       /\ cache' = [cache EXCEPT ![s[1]] = aged']
  /\ k' = 0
  /\ UNCHANGED <<pc, requests, books, active, cacheKeys, leaked>>

\* Fault: a container grows younger.
PlusLife(c) == [c EXCEPT !.life = @ + 1]

\* minusLife; below 1 lifetimes are all alike.
MinusLife(c) ==
  LET life == Max({c.life - 1, 0})
  IN [c EXCEPT !.life = life, !.prio = IF FixedCaching THEN life ELSE @]

Older == [aged EXCEPT ![k + 1] = MinusLife(@)]

\* Fault: a container with one slot left is terminated.
ExpiredEarly == pc = "age" /\ k < Len(aged) /\ Older[k + 1].life < 2

\* Fault: a container with no slot left is kept for one more.
ExpiredLate == pc = "age" /\ k < Len(aged) /\ aged[k + 1].life < 1

Expired == pc = "age" /\ k < Len(aged) /\ Older[k + 1].life < 1

\* The slice of the loop and the list of the map share their elements.
Age ==
  /\ pc = "age" /\ k < Len(aged) /\ ~Expired
  /\ aged' = Older
  /\ cache' = [cache EXCEPT ![at[1]] = SubSeq(Older, 1, Len(@))]
  /\ k' = k + 1
  /\ UNCHANGED <<pc, requests, books, active, cacheKeys, leaked, left, at>>

\* Fault: the index is not stepped back behind index 0, so the loop never stops.
StayAtFirst == k' = k

\* i = i - 1; the loop over the list ends when that is below 0.
StepBack == k' = IF k = 0 THEN Len(aged) ELSE k

\* cacheMap_G.delete closes up the elements of the list of the map, if it still
\* has one at k, and leaves the last one where it was: behind the end of the
\* list, and in the slice of the loop.  termContainers gets the element that is
\* at k by then.
Expire ==
  /\ Expired
  /\ LET n    == at[1]
         rest == DeleteAt(SubSeq(Older, 1, Len(cache[n])), k + 1)
         c    == aged'[k + 1]
     IN /\ aged' = rest \o SubSeq(Older, Len(rest) + 1, Len(aged))
        /\ cache' = [cache EXCEPT ![n] = rest]
        /\ services' = services \ {Name(c)}
        /\ mem' = [mem EXCEPT ![n] = GiveBack(@, Size[c.type])]
  /\ StepBack
  /\ UNCHANGED <<pc, requests, freq, count, active, cacheKeys, leaked, left, at>>

-----------------------------------------------------------------------------
(* updateCache: the active containers become idle.                         *)

EndAging ==
  /\ pc = "age" /\ k >= Len(aged) /\ left = {}
  /\ pc' = "update" /\ at' = Nowhere /\ aged' = <<>> /\ k' = 0
  /\ left' = {s \in Nodes \X Types : active[s[1]][s[2]] # <<>>}
  /\ UNCHANGED <<requests, books, lists>>

SliceAt == IF at = Nowhere THEN <<>> ELSE active[at[1]][at[2]]

NextSlice ==
  /\ pc = "update" /\ k >= Len(SliceAt) /\ left # {}
  /\ \E s \in left :
       /\ (\E o \in left : o[1] = at[1]) => s[1] = at[1]
       /\ at' = s /\ left' = left \ {s}
  /\ k' = 0
  /\ UNCHANGED <<pc, requests, books, lists, aged>>

\* The element at k is moved to the cache; the slice closes up and k goes on.
CacheActive ==
  /\ pc = "update" /\ k < Len(SliceAt)
  /\ CacheAdd(SliceAt[k + 1])
  /\ active' = [active EXCEPT ![at[1]][at[2]] = RemoveAt(@, k + 1)]
  /\ k' = k + 1
  /\ UNCHANGED <<pc, requests, mem, count, services, leaked, left, at, aged>>

\* What is left in a slice is forgotten.  fixedcaching sorts the lists of the
\* keys below the number of keys.
FinishUpdate ==
  /\ pc = "update" /\ k >= Len(SliceAt) /\ left = {}
  /\ cache' = [n \in Nodes |->
       IF FixedCaching /\ n < Cardinality(cacheKeys) THEN SortList(cache[n])
                                                     ELSE cache[n]]
  /\ leaked' = [n \in Nodes |-> [t \in Types |-> leaked[n][t] \o active[n][t]]]
  /\ active' = [n \in Nodes |-> [t \in Types |-> <<>>]]
  /\ pc' = "slot" /\ slot' = slot + 1 /\ reqs' = <<>> /\ cur' = 1
  /\ at' = Nowhere /\ k' = 0
  /\ UNCHANGED <<variant, books, cacheKeys, left, aged>>

-----------------------------------------------------------------------------
Init ==
  /\ variant \in Variants
  /\ pc = "slot" /\ slot = 0 /\ reqs = <<>> /\ cur = 1
  /\ mem = [n \in Nodes |-> MemCap]
  /\ active = [n \in Nodes |-> [t \in Types |-> <<>>]]
  /\ cache = [n \in Nodes |-> <<>>] /\ cacheKeys = {}
  /\ freq = [t \in Types |-> 0] /\ count = 0
  /\ left = {} /\ at = Nowhere /\ aged = <<>> /\ k = 0
  /\ services = {}
  /\ leaked = [n \in Nodes |-> [t \in Types |-> <<>>]]

Deploy == \/ PlaceToCurrent \/ DeployToNeighbour \/ CreateToCurrent
          \/ MakeRoom \/ PlaceNew \/ Evict \/ Refuse

UpdateCache == \/ SendResults \/ NextCache \/ Age \/ Expire
               \/ EndAging \/ NextSlice \/ CacheActive \/ FinishUpdate

WaitForSignal == pc = "done" /\ UNCHANGED vars

Next == StartSlot \/ Finish \/ Deploy \/ UpdateCache \/ WaitForSignal

\* The goroutine keeps running, as in ContainerCache.
Spec == Init /\ [][Next]_vars /\ WF_vars(Next)
=============================================================================
