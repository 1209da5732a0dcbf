--------------------------- MODULE ContainerCache ---------------------------
(***************************************************************************)
(* The request placement and container cache of three schedulers: greedy   *)
(* dual, least recently used, and flame (algorithm.go and the cache types  *)
(* of types.go in knative/sourceCode/schedulerDemo, lru and flame).  They  *)
(* differ in the order of the idle containers, in when a request may evict *)
(* and in the node that is to serve it.                                    *)
(*                                                                         *)
(* One goroutine, scheduleRequests, takes the requests of one time slot    *)
(* after the other.  Each request is given an idle container of its type   *)
(* on its ingress node, else one on a near enough neighbour, else a new    *)
(* container on the ingress node, for which idle containers of lower       *)
(* priority are terminated; flame deals the requests to the nodes in turn  *)
(* and has no neighbours.  At the end of the slot updateCache moves the    *)
(* active containers back to the cache.                                    *)
(*                                                                         *)
(* Every loop of the code is a loop of steps here: one step per neighbour, *)
(* per eviction, and per container that updateCache moves.                 *)
(***************************************************************************)
EXTENDS Integers, Sequences, FiniteSets, SequencesExt, PriorityList

CONSTANTS
  NodeNum,      \* number of physical nodes; their ids are 0 .. NodeNum-1
  TypeNum,      \* number of function types; 1 .. TypeNum
  Size,         \* Size[t]: memory of a container of type t
  ColdStart,    \* ColdStart[t]: time a new container of type t needs
  Weight,       \* Weight[t]: ColdStartTime / (Size / 1000), the gain per use
  Latency,      \* Latency[m][n]: distance between m and n times LatencyPara
  MemCap,       \* memory of a node before the first request
  SlotNum,      \* number of time slots to run
  MaxRequests,  \* bound: requests in one slot
  Policies,     \* programs to choose from
  ApiOutcomes   \* outcomes of a call of the Knative API that may happen

Nodes == 0 .. (NodeNum - 1)
Types == 1 .. TypeNum

ASSUME ConstantsOK ==
  /\ NodeNum \in Nat \ {0}
  /\ TypeNum \in Nat \ {0}
  /\ Size \in [Types -> Nat \ {0}]
  /\ ColdStart \in [Types -> Nat]
  /\ Weight \in [Types -> Nat]
  /\ Latency \in [Nodes -> [Nodes -> Nat]]
  /\ MemCap \in Nat
  /\ SlotNum \in Nat
  /\ MaxRequests \in Nat
  /\ ApiOutcomes \subseteq BOOLEAN

ASSUME PoliciesOK ==
  /\ Policies \subseteq {"greedy dual", "lru", "flame"}
  /\ "flame" \in Policies => NodeNum > 1

\* No two nodes of a shipped topology have the same coordinates, so a node is
\* strictly nearer to itself than to any other.
ASSUME NodesApart ==
  \A m, n \in Nodes : m # n => Latency[m][m] < Latency[m][n]

VARIABLES
  pc,        \* where scheduleRequests is
  slot,      \* its loop variable i
  robin,     \* m_current_node_index_G of flame
  reqs,      \* the requests of the slot
  cur,       \* index of the request being deployed
  evicted,   \* flame's count of rounds of the eviction loop, of which it has one
  near,      \* nodes deployToNeighbour has not looked at yet
  placed,    \* its succFlag
  mem,       \* topo_G.Nodes[n].Mem
  active,    \* activeFunctions_G.Map[n].Functions[t].Slice
  cache,     \* cacheMap_G.Caches[n].FunctionList
  cacheKeys, \* the keys of cacheMap_G.Caches
  freq,      \* functionfreq_G.Map
  policy,    \* the program: which container is the first to go; chosen once
  clock,     \* clock_G
  count,     \* count_G
  left,      \* slices updateCache has not ranged over yet
  at,        \* the slice it is in, or Nowhere
  k,         \* its index k in that slice, from 0
  services,  \* names of the Knative services that exist (external)
  leaked     \* history: containers updateCache dropped, by node and type

request    == <<slot, robin, reqs, cur, evicted>>
neighbours == <<near, placed>>
sweep      == <<left, at, k>>
vars == <<pc, request, neighbours, mem, active, cache, cacheKeys, freq, policy,
          clock, count, sweep, services, leaked>>

Nowhere == <<-1, 0>>

Container == [id : Nat, type : Types, node : Nodes, clock : Nat, prio : Int]

Request == [type : Types, ingress : Nodes, served : BOOLEAN, node : Nodes,
            fn : Nat, cold : BOOLEAN]

\* init names a container by its type and the value of count_G.
Name(c) == <<c.type, c.id>>

-----------------------------------------------------------------------------
(* Requests of one slot.                                                   *)

\* Fault: the node of a request not served yet is none.
FreshRequestNoNode(t, n) ==
  [type |-> t, ingress |-> n, served |-> FALSE, node |-> -1, fn |-> 0,
   cold |-> TRUE]

\* genRequest; the fields that are not set are zero.
FreshRequest(t, n) ==
  [type |-> t, ingress |-> n, served |-> FALSE, node |-> 0, fn |-> 0,
   cold |-> TRUE]

\* genReqZipf goes through the applications in turn and, for each, through
\* the nodes: a slot lists its requests by type and then by ingress.
Precedes(a, b) == a.type < b.type \/ (a.type = b.type /\ a.ingress <= b.ingress)

\* Application 1 only has requests in slot 0.
Requested(t) == t = 1 => slot = 0

\* The sampler gives an application's first request of a slot to node 0 and
\* spreads the others; MaxRequests bounds their number.
Batches ==
  {b \in UNION {[1 .. m -> {FreshRequest(t, n) : t \in Types, n \in Nodes}] :
                m \in 1 .. MaxRequests} :
     /\ \A i, j \in DOMAIN b : i < j => Precedes(b[i], b[j])
     /\ \A i \in DOMAIN b : Requested(b[i].type)
     /\ \A t \in Types : Requested(t) => FreshRequest(t, 0) \in Range(b)}

-----------------------------------------------------------------------------
(* Cache lists.                                                            *)

IdleIndexes(n, t) == {i \in DOMAIN cache[n] : cache[n][i].type = t}
HasIdle(n, t) == IdleIndexes(n, t) # {}

\* getIdleFunction: the first one, so the one of lowest priority.
FirstIdle(n, t) ==
  CHOOSE i \in IdleIndexes(n, t) : \A j \in IdleIndexes(n, t) : i <= j

\* getLowestHotscore is the same for flame.
LowestPriority(n) == IF cache[n] = <<>> THEN 0 ELSE Head(cache[n]).prio

\* calcHotscore of flame: f / 2^(f - 1), which is highest for one use and for
\* two, falls from there and is 0 without use and, in a double, when the power
\* underflows.  Only the order of the scores matters.
HotScore(f) == IF f \notin 1 .. 1075 THEN 0 ELSE IF f = 1 THEN 1074 ELSE 1076 - f

\* The priority of a request's function, and of a container put in use: lru
\* sorts by the time of the last use, the arrival of the request.
ActivePriority(t, f) ==
  CASE policy = "lru"   -> slot
    [] policy = "flame" -> HotScore(f)
    [] OTHER            -> clock + f * Weight[t]

\* The priority of a container put into the cache with the clock of its last
\* use; that time stays as it is.
IdlePriority(c, f) ==
  CASE policy = "lru"   -> c.prio
    [] policy = "flame" -> HotScore(f)
    [] OTHER            -> c.clock + f * Weight[c.type]

-----------------------------------------------------------------------------
(* The steps of a placement that change more than one global.              *)

\* activeFunctions_G.add: the copy it stores gets the new priority.
ActiveAdd(c, n) ==
  /\ freq' = [freq EXCEPT ![c.type] = @ + 1]
  /\ active' = [active EXCEPT ![n][c.type] =
       Append(@, [c EXCEPT !.clock = clock,
                           !.prio = ActivePriority(c.type, freq[c.type] + 1)])]

\* Fault: the use is not taken back when the container becomes idle.
CacheAddKeepsFreq(c) ==
  /\ UNCHANGED freq
  /\ cache' = [cache EXCEPT ![c.node] =
       SortList(Append(@, [c EXCEPT !.prio = IdlePriority(c, freq[c.type])]))]
  /\ cacheKeys' = cacheKeys \cup {c.node}

\* cacheMap_G.add: the list is the one of the container's own node.
CacheAdd(c) ==
  /\ freq' = [freq EXCEPT ![c.type] = @ - 1]
  /\ cache' = [cache EXCEPT ![c.node] =
       SortList(Append(@, [c EXCEPT !.prio = IdlePriority(c, freq[c.type] - 1)]))]
  /\ cacheKeys' = cacheKeys \cup {c.node}

\* requestPtr.update
Serve(c, n, cold) ==
  reqs' = [reqs EXCEPT ![cur] = [@ EXCEPT !.fn = c.id, !.served = TRUE,
                                          !.node = n, !.cold = cold]]

\* The node whose turn it is; after the last one comes node 1, so that node 0
\* has one turn in all.
Turn == IF robin > NodeNum - 1 THEN 1 ELSE robin

\* The node that is to serve the current request.
Target == IF policy = "flame" THEN Turn ELSE reqs[cur].ingress

\* deployRequests goes on with the next request of the slot.
NextRequest ==
  /\ pc' = "deploy" /\ cur' = cur + 1 /\ evicted' = FALSE
  /\ robin' = IF policy = "flame" THEN Turn + 1 ELSE robin
  /\ UNCHANGED slot

\* The request of type t fits into what is left of the node's memory.
FitsOffByOne(n, t) == Size[t] <= mem[n] + 1
Fits(n, t) == Size[t] <= mem[n]

-----------------------------------------------------------------------------
Init ==
  /\ pc = "slot" /\ slot = 0 /\ robin = 0
  /\ reqs = <<>> /\ cur = 1 /\ evicted = FALSE
  /\ near = <<>> /\ placed = FALSE
  /\ mem = [n \in Nodes |-> MemCap]
  /\ active = [n \in Nodes |-> [t \in Types |-> <<>>]]
  /\ cache = [n \in Nodes |-> <<>>]
  /\ cacheKeys = {}
  /\ freq = [t \in Types |-> 0]
  /\ policy \in Policies
  /\ clock = 1 /\ count = 0
  /\ left = {} /\ at = Nowhere /\ k = 0
  /\ services = {}
  /\ leaked = [n \in Nodes |-> [t \in Types |-> <<>>]]

\* scheduleRequests takes the requests of slot i.
StartSlot ==
  /\ pc = "slot" /\ slot < SlotNum
  /\ pc' = "deploy" /\ reqs' \in Batches /\ cur' = 1
  /\ UNCHANGED <<slot, robin, evicted, neighbours, mem, active, cache, cacheKeys,
                 freq, policy, clock, count, sweep, services, leaked>>

\* All slots are done, or the request file has no column for this one.
Finish ==
  /\ pc = "slot"
  /\ pc' = "done"
  /\ UNCHANGED <<request, neighbours, mem, active, cache, cacheKeys, freq,
                 policy, clock, count, sweep, services, leaked>>

\* An idle container of the type waits on the node.
PlaceToCurrent ==
  /\ pc = "deploy" /\ cur <= Len(reqs)
  /\ LET n == Target
         i == FirstIdle(n, reqs[cur].type)
     IN /\ HasIdle(n, reqs[cur].type)
        /\ ActiveAdd(cache[n][i], n)
        /\ cache' = [cache EXCEPT ![n] = DeleteAt(@, i)]
        /\ Serve(cache[n][i], n, FALSE)
  /\ NextRequest
  /\ UNCHANGED <<neighbours, mem, cacheKeys, policy, clock, count, sweep, services,
                 leaked>>

\* sortPhyNodes: the nodes by their distance to the ingress node, nodes at
\* the same distance in any order (sort.Slice is not stable).
SortedNodes(n) ==
  {o \in SetToSeqs(Nodes) :
     \A i, j \in DOMAIN o : i < j => Latency[n][o[i]] <= Latency[n][o[j]]}

\* Fault: the loop over the neighbours starts one element too late.
SkipFirstTwo(o) == IF Len(o) < 2 THEN <<>> ELSE Tail(Tail(o))

\* The loop starts behind the first element.
Others(o) == Tail(o)

\* flame creates a container when the node whose turn it is has none.
CreateNew ==
  /\ pc = "deploy" /\ cur <= Len(reqs) /\ policy = "flame"
  /\ ~HasIdle(Target, reqs[cur].type)
  /\ pc' = "create"
  /\ UNCHANGED <<request, neighbours, mem, active, cache, cacheKeys, freq,
                 policy, clock, count, sweep, services, leaked>>

SearchNeighbours ==
  /\ pc = "deploy" /\ cur <= Len(reqs) /\ policy # "flame"
  /\ ~HasIdle(Target, reqs[cur].type)
  /\ pc' = "neighbour" /\ placed' = FALSE
  /\ \E o \in SortedNodes(reqs[cur].ingress) : near' = Others(o)
  /\ UNCHANGED <<request, mem, active, cache, cacheKeys, freq, policy, clock, count,
                 sweep, services, leaked>>

\* The node is near enough that its latency is less than a cold start.
Reachable(r, n) == Latency[r.ingress][n] < ColdStart[r.type]

\* The loop does not stop at a success: it takes one idle container of every
\* reachable neighbour, and the request remembers the last one.
PlaceToNeighbour ==
  /\ pc = "neighbour" /\ near # <<>>
  /\ LET n == Head(near)
         i == FirstIdle(n, reqs[cur].type)
     IN /\ Reachable(reqs[cur], n) /\ HasIdle(n, reqs[cur].type)
        /\ ActiveAdd(cache[n][i], n)
        /\ cache' = [cache EXCEPT ![n] = DeleteAt(@, i)]
        /\ Serve(cache[n][i], n, FALSE)
  /\ near' = Tail(near) /\ placed' = TRUE
  /\ UNCHANGED <<pc, slot, robin, cur, evicted, mem, cacheKeys, policy, clock, count, sweep, services,
                 leaked>>

SkipNeighbour ==
  /\ pc = "neighbour" /\ near # <<>>
  /\ ~(Reachable(reqs[cur], Head(near)) /\ HasIdle(Head(near), reqs[cur].type))
  /\ near' = Tail(near)
  /\ UNCHANGED <<pc, request, placed, mem, active, cache, cacheKeys, freq,
                 policy, clock, count, sweep, services, leaked>>

NeighbourFound ==
  /\ pc = "neighbour" /\ near = <<>> /\ placed
  /\ NextRequest
  /\ placed' = FALSE
  /\ UNCHANGED <<reqs, near, mem, active, cache, cacheKeys, freq, policy, clock,
                 count, sweep, services, leaked>>

NoNeighbour ==
  /\ pc = "neighbour" /\ near = <<>> /\ ~placed
  /\ pc' = "create"
  /\ UNCHANGED <<request, neighbours, mem, active, cache, cacheKeys, freq,
                 policy, clock, count, sweep, services, leaked>>

\* flame takes a node with the ID 0 for none.
NoNode == policy = "flame" /\ Target = 0

\* createContainers, activeFunctions_G.add and updateTopo("minus"): the
\* answer of the API is only logged.
CreateContainer ==
  /\ pc = "create"
  /\ LET r == reqs[cur]
         c == [id |-> count + 1, type |-> r.type, node |-> Target,
               clock |-> clock, prio |-> ActivePriority(r.type, freq[r.type])]
     IN /\ Fits(Target, r.type) /\ ~NoNode
        /\ count' = count + 1
        /\ \E ok \in ApiOutcomes :
             services' = IF ok THEN services \cup {Name(c)} ELSE services
        /\ Serve(c, Target, TRUE)
        /\ ActiveAdd(c, Target)
        /\ mem' = [mem EXCEPT ![Target] = @ - Size[r.type]]
  /\ NextRequest
  /\ UNCHANGED <<neighbours, cache, cacheKeys, policy, clock, sweep, leaked>>

\* Fault: an idle container of the same value is evicted as well.
MayEvictEqual(r) ==
  ~evicted /\ LowestPriority(Target) <= ActivePriority(r.type, freq[r.type])

\* The lowest priority on the node is below that of the request, and flame has
\* not evicted for it yet; lru does not compare.  (It gives up after 1000
\* rounds, more than a list is long.)
MayEvict(r) ==
  \/ policy = "lru"
  \/ ~evicted /\ LowestPriority(Target) < ActivePriority(r.type, freq[r.type])

\* Fault: the service terminated is the one that moved up to index 0.
VictimAfterDelete(n) == IF Len(cache[n]) > 1 THEN cache[n][2] ELSE Head(cache[n])

\* deleteLowFunction
Victim(n) == Head(cache[n])

\* Fault: the memory of a terminated container is not given back.
EvictKeepsMemory ==
  /\ pc = "create"
  /\ LET r == reqs[cur]
         n == Target
     IN /\ ~Fits(n, r.type) /\ MayEvict(r) /\ cache[n] # <<>>
        /\ cache' = [cache EXCEPT ![n] = Tail(@)]
        /\ \E ok \in ApiOutcomes :
             services' = IF ok THEN services \ {Name(Victim(n))} ELSE services
  /\ evicted' = (policy = "flame")
  /\ UNCHANGED <<pc, slot, robin, reqs, cur, neighbours, mem, active, cacheKeys, freq,
                 policy, clock, count, sweep, leaked>>

\* One round of the loop of createToCurrent, or createNew in flame.  The next
\* one creates the container as soon as it fits.
Evict ==
  /\ pc = "create"
  /\ LET r == reqs[cur]
         n == Target
     IN /\ ~Fits(n, r.type) /\ MayEvict(r) /\ cache[n] # <<>>
        /\ cache' = [cache EXCEPT ![n] = Tail(@)]
        /\ \E ok \in ApiOutcomes :
             services' = IF ok THEN services \ {Name(Victim(n))} ELSE services
        /\ mem' = [mem EXCEPT ![n] = @ + Size[Head(cache[n]).type]]
  /\ evicted' = (policy = "flame")
  /\ UNCHANGED <<pc, slot, robin, reqs, cur, neighbours, active, cacheKeys, freq,
                 policy, clock, count, sweep, leaked>>

\* Every idle container left on the node is worth more than the request.
RefuseForPriority ==
  /\ pc = "create"
  /\ ~Fits(Target, reqs[cur].type) /\ ~MayEvict(reqs[cur])
  /\ NextRequest
  /\ UNCHANGED <<reqs, neighbours, mem, active, cache, cacheKeys, freq, policy, clock,
                 count, sweep, services, leaked>>

\* Fault: the loop does not notice that there is nothing left to delete.
LoopOnEmptyCache ==
  /\ pc = "create"
  /\ ~Fits(Target, reqs[cur].type) /\ MayEvict(reqs[cur])
  /\ cache[Target] = <<>>
  /\ UNCHANGED vars

\* A node that flame does not take for one gets no container.
RefuseForNode ==
  /\ pc = "create"
  /\ Fits(Target, reqs[cur].type) /\ NoNode
  /\ NextRequest
  /\ UNCHANGED <<reqs, neighbours, mem, active, cache, cacheKeys, freq, policy, clock,
                 count, sweep, services, leaked>>

\* No more space to delete.
RefuseForSpace ==
  /\ pc = "create"
  /\ ~Fits(Target, reqs[cur].type) /\ MayEvict(reqs[cur])
  /\ cache[Target] = <<>>
  /\ NextRequest
  /\ UNCHANGED <<reqs, neighbours, mem, active, cache, cacheKeys, freq, policy, clock,
                 count, sweep, services, leaked>>

-----------------------------------------------------------------------------
(* The end of a slot.                                                      *)

\* sendResults posts every request of the slot, and updateCache starts.
\* The slices that are empty are left out: the loop does nothing for them.
SendResults ==
  /\ pc = "deploy" /\ cur > Len(reqs)
  /\ pc' = "update"
  /\ left' = {s \in Nodes \X Types : active[s[1]][s[2]] # <<>>}
  /\ UNCHANGED <<request, neighbours, mem, active, cache, cacheKeys, freq,
                 policy, clock, count, at, k, services, leaked>>

SliceAt == IF at = Nowhere THEN <<>> ELSE active[at[1]][at[2]]

\* Two nested range loops over maps: any node, and on it any type.
NextSlice ==
  /\ pc = "update" /\ k >= Len(SliceAt) /\ left # {}
  /\ \E s \in left :
       /\ (\E o \in left : o[1] = at[1]) => s[1] = at[1]
       /\ at' = s /\ left' = left \ {s}
  /\ k' = 0
  /\ UNCHANGED <<pc, request, neighbours, mem, active, cache, cacheKeys, freq,
                 policy, clock, count, services, leaked>>

\* The element at k is moved to the cache; the slice closes up and k goes on.
CacheActive ==
  /\ pc = "update" /\ k < Len(SliceAt)
  /\ CacheAdd(SliceAt[k + 1])
  /\ active' = [active EXCEPT ![at[1]][at[2]] = RemoveAt(@, k + 1)]
  /\ k' = k + 1
  /\ UNCHANGED <<pc, request, neighbours, mem, policy, clock, count, left, at,
                 services, leaked>>

\* cacheMap_G.sort looks up the keys below the number of keys only.
SortedCaches ==
  [n \in Nodes |-> IF n < Cardinality(cacheKeys) THEN SortList(cache[n])
                                                 ELSE cache[n]]

\* What is left in a slice is forgotten with activeFunctions_G.
FinishUpdate ==
  /\ pc = "update" /\ k >= Len(SliceAt) /\ left = {}
  /\ cache' = SortedCaches
  /\ leaked' = [n \in Nodes |-> [t \in Types |-> leaked[n][t] \o active[n][t]]]
  /\ active' = [n \in Nodes |-> [t \in Types |-> <<>>]]
  /\ pc' = "slot" /\ slot' = slot + 1 /\ reqs' = <<>> /\ cur' = 1
  /\ UNCHANGED <<robin, evicted>>
  /\ at' = Nowhere /\ k' = 0
  /\ UNCHANGED <<neighbours, mem, cacheKeys, freq, policy, clock, count, left, services>>

\* main waits for a signal.
WaitForSignal == pc = "done" /\ UNCHANGED vars

Deploy == \/ PlaceToCurrent \/ CreateNew \/ SearchNeighbours \/ PlaceToNeighbour
          \/ SkipNeighbour \/ NeighbourFound \/ NoNeighbour \/ CreateContainer
          \/ Evict \/ RefuseForPriority \/ RefuseForNode \/ RefuseForSpace

UpdateCache == SendResults \/ NextSlice \/ CacheActive \/ FinishUpdate

Next == StartSlot \/ Finish \/ Deploy \/ UpdateCache \/ WaitForSignal

\* The goroutine keeps running: nothing it waits for is held by another one,
\* and the calls of the API return.
Spec == Init /\ [][Next]_vars /\ WF_vars(Next)
=============================================================================
