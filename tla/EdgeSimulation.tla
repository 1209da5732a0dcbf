---------------------------- MODULE EdgeSimulation ----------------------------
(***************************************************************************)
(* The eight programs of the ns-3 simulation (src/ns3/src/mygraph/model:   *)
(* myAlgorithm.cc, lru.cc, fixedcaching.cc, hist.cc, flame.cc,             *)
(* faascache.cc, myAlgorithm-proactive.cc, myAlgorithm-onlypred.cc).       *)
(*                                                                         *)
(* They are copies of one program, on the data structures of type.h, that  *)
(* differ in where a request goes, what is evicted for it, how the idle    *)
(* containers of a node are ordered, and what the report counts.  Rules    *)
(* says for each program what it does; the actions are common to all.      *)
(*                                                                         *)
(* A run reads the numbers of requests, creates the requests of all slots, *)
(* serves them slot by slot and reports.  Nothing in it is concurrent.     *)
(***************************************************************************)
EXTENDS Integers, Sequences, FiniteSets, SequencesExt, FiniteSetsExt, Functions

CONSTANTS
  Programs,   \* the programs to run
  NodeNum,    \* number of nodes; their ids are 1 .. NodeNum
  TypeNum,    \* number of function types; 1 .. TypeNum
  SlotNum,    \* rows per type in the file of requests
  TimeSlots,  \* argument of deployRequests in flame and faascache (30)
  Nums,       \* bound: the numbers that a row of the file may hold
  MaxRequests,\* bound: requests of a run of each program
  ReduFactor, \* the numbers of the file are divided by it
  LifeTime,   \* slots that fixedcaching and hist keep a container
  Size,       \* Size[t]: memory of a container of type t
  ColdStart,  \* ColdStart[t]: time a new container of type t needs
  Weight,     \* Weight[t]: ColdStart / (Size / 1000), the gain per use
  Latency,    \* Latency[m][n]: distance between m and n times LatencyPara
  MemCap      \* memory of a node before the first request

Nodes == 1 .. NodeNum
Types == 1 .. TypeNum
Slots == 1 .. SlotNum

-----------------------------------------------------------------------------
(* What a program does:                                                    *)
(*   robin   it gives the requests to the nodes in turn                    *)
(*   warm    it puts idle containers in use                                *)
(*   rounds  how many containers it evicts for one request                 *)
(*   value   what it compares with the victim's before it evicts           *)
(*   charge  whose size it subtracts after an eviction                     *)
(*   order   by what it sorts the idle containers of a node                *)
(*   ages    idle containers expire                                        *)
(*   forgets it restores the memory of all nodes after a slot              *)
(*   predicts it reads predicted numbers too                               *)
(*   cold    which of the served requests it reports as cold starts        *)
(*   base    it records the memory before the first slot                   *)

\* The function of a request has priority 0 until it is active.
MyRules ==
  [robin |-> FALSE, warm |-> TRUE, rounds |-> 1000, value |-> "unset",
   charge |-> "new", order |-> "prio", ages |-> FALSE, forgets |-> FALSE,
   predicts |-> FALSE, cold |-> "cold", base |-> FALSE]

LruRules ==
  [robin |-> FALSE, warm |-> TRUE, rounds |-> 1000, value |-> "any",
   charge |-> "victim", order |-> "last", ages |-> FALSE, forgets |-> FALSE,
   predicts |-> FALSE, cold |-> "cold", base |-> TRUE]

\* Fault: the size of the victim is subtracted, as in lru and hist.
FixedChargesVictim ==
  [robin |-> FALSE, warm |-> TRUE, rounds |-> 1000, value |-> "any",
   charge |-> "victim", order |-> "life", ages |-> TRUE, forgets |-> FALSE,
   predicts |-> FALSE, cold |-> "cold", base |-> TRUE]

FixedRules ==
  [robin |-> FALSE, warm |-> TRUE, rounds |-> 1000, value |-> "any",
   charge |-> "new", order |-> "life", ages |-> TRUE, forgets |-> FALSE,
   predicts |-> FALSE, cold |-> "cold", base |-> TRUE]

HistRules ==
  [robin |-> FALSE, warm |-> TRUE, rounds |-> 1000, value |-> "any",
   charge |-> "victim", order |-> "life", ages |-> TRUE, forgets |-> FALSE,
   predicts |-> FALSE, cold |-> "cold", base |-> TRUE]

FlameRules ==
  [robin |-> TRUE, warm |-> TRUE, rounds |-> 1, value |-> "hot",
   charge |-> "new", order |-> "hot", ages |-> FALSE, forgets |-> FALSE,
   predicts |-> FALSE, cold |-> "cold", base |-> TRUE]

FaascacheRules ==
  [robin |-> TRUE, warm |-> TRUE, rounds |-> 1, value |-> "prio",
   charge |-> "new", order |-> "prio", ages |-> FALSE, forgets |-> FALSE,
   predicts |-> FALSE, cold |-> "cold", base |-> TRUE]

ProactiveRules ==
  [robin |-> FALSE, warm |-> TRUE, rounds |-> 1000, value |-> "unset",
   charge |-> "victim", order |-> "prio", ages |-> FALSE, forgets |-> FALSE,
   predicts |-> TRUE, cold |-> "cold_not_predicted", base |-> TRUE]

OnlypredRules ==
  [robin |-> FALSE, warm |-> FALSE, rounds |-> 0, value |-> "any",
   charge |-> "new", order |-> "prio", ages |-> FALSE, forgets |-> TRUE,
   predicts |-> TRUE, cold |-> "not_predicted", base |-> TRUE]

Rules ==
  [myAlgorithm |-> MyRules, lru |-> LruRules, fixedcaching |-> FixedRules,
   hist |-> HistRules, flame |-> FlameRules, faascache |-> FaascacheRules,
   proactive |-> ProactiveRules, onlypred |-> OnlypredRules]

ASSUME SimulationConstantsOK ==
  /\ Programs \subseteq DOMAIN Rules
  /\ NodeNum \in Nat \ {0} /\ TypeNum \in Nat \ {0} /\ SlotNum \in Nat \ {0}
  /\ TimeSlots \in Nat /\ Nums \subseteq Nat /\ MaxRequests \in [Programs -> Nat]
  /\ ReduFactor \in Nat \ {0} /\ LifeTime \in Nat \ {0} /\ MemCap \in Nat
  /\ Size \in [Types -> Nat \ {0}]
  /\ ColdStart \in [Types -> Nat] /\ Weight \in [Types -> Nat]
  /\ Latency \in [Nodes -> [Nodes -> Nat]]

VARIABLES
  program,    \* which program runs
  pc,         \* where it is
  row,        \* <<type, slot>> of the row of numbers createRequests is at
  requestMap, \* m_request_map: the requests of each slot
  slot,       \* the loop variable i of deployRequests
  cur,        \* index of the request being deployed
  rounds,     \* count of createToCurrent: containers evicted for it
  freed,      \* size of the last of them
  mem,        \* m_topo.m[n].mem
  active,     \* m_afs.m[n].functions, all types in one sequence
  cache,      \* m_cm.caches[n].functionList
  freq,       \* m_functionfreq.m
  clock,      \* m_clock
  robin,      \* m_current_node_index
  total,      \* m_total_req_num
  memoryLeft, \* m_memoryLeft
  report,     \* m_cold_req_num and m_served_req_num
  created     \* history: containers created

placing  == <<slot, cur, rounds, freed, robin, total>>
reported == <<memoryLeft, report>>
vars == <<program, pc, row, requestMap, placing, mem, active, cache, freq,
          clock, reported, created>>

Rule == Rules[program]

\* The fields of Function that differ between two containers of a type; born
\* is a history, the slot that created the container.
Container == [type : Types, node : Nodes, prio : Nat, life : Int,
              last : Nat, born : Slots]

Request == [type : Types, ingress : Nodes, served : BOOLEAN, cold : BOOLEAN,
            notPredicted : BOOLEAN, notUsed : BOOLEAN]

-----------------------------------------------------------------------------
(* Priorities.                                                             *)

\* FunctionFreq::get, FunctionFreq::add: only a key that is there changes,
\* and nothing ever inserts one.
FreqGet(f, t) == IF t \in DOMAIN f THEN f[t] ELSE 0
FreqAdd(f, t) == IF t \in DOMAIN f THEN [f EXCEPT ![t] = @ + 1] ELSE f

\* Function::activePriority; Weight stands for 1 / (size / 1000) and the cold
\* start together, and the count of uses adds to it.
Priority(t, f) == clock + FreqGet(f, t) + Weight[t]

\* Function::calcHotscore: 2 to the (1 - count), times count.
HotScore(t, f) == 2 ^ (1 - FreqGet(f, t)) * FreqGet(f, t)

\* By what the program sorts the idle containers of a node.
SortKey(c) == CASE Rule.order = "prio" -> c.prio
                [] Rule.order = "last" -> c.last
                [] Rule.order = "life" -> c.life
                [] Rule.order = "hot"  -> HotScore(c.type, freq)

\* std::sort is not stable: of the values of f, those with one key come in any
\* order.
SortedBy(f) ==
  {[i \in DOMAIN to |-> f[to[i]]] : to \in
     {to \in SetToSeqs(DOMAIN f) : \A i, j \in DOMAIN to :
        i < j => SortKey(f[to[i]]) <= SortKey(f[to[j]])}}

-----------------------------------------------------------------------------
(* Creating the requests.                                                  *)

\* The conversion of a quotient to int.
Truncated(d) == IF d < 0 THEN -((-d) \div ReduFactor) ELSE d \div ReduFactor

\* createRequest, for the i-th of a node's requests (from 0): what the
\* predictive programs note when d more are predicted than there are.
NewRequest(t, n, i, d) ==
  [type |-> t, ingress |-> n, served |-> FALSE, cold |-> FALSE,
   notPredicted |-> i < d, notUsed |-> d > 0 /\ i >= d /\ i - d <= d]

\* createRequestInSlot: num[n] requests at node n, by node.
RequestsOf(t, num, pred) ==
  FlattenSeq([n \in Nodes |->
    [i \in 1 .. Truncated(num[n]) |->
       NewRequest(t, n, i - 1, Truncated(pred[n] - num[n]))]])

RequestNum == SumFunction([s \in Slots |-> Len(requestMap[s])])

\* readRequests: a row of the file of requests holds a number for each node.
NumRows == [Nodes -> Nums]

\* readPredictRequests: so does one of the file of predictions.
PredictedRows(num) == IF Rule.predicts THEN [Nodes -> Nums] ELSE {num}

\* createRequests: all slots of a type, then the next type.
CreateRow ==
  /\ pc = "create" /\ row[1] <= TypeNum
  /\ \E num \in NumRows : \E pred \in PredictedRows(num) :
       LET rs == RequestsOf(row[1], num, pred)
       IN /\ RequestNum + Len(rs) <= MaxRequests[program]
          /\ requestMap' = [requestMap EXCEPT ![row[2]] = @ \o rs]
  /\ row' = IF row[2] < SlotNum THEN <<row[1], row[2] + 1>> ELSE <<row[1] + 1, 1>>
  /\ UNCHANGED <<program, pc, placing, mem, active, cache, freq, clock, reported,
                 created>>

\* The file of predicted numbers has no rows of this type: createRequests
\* leaves it and the types behind it out.
NoPrediction ==
  /\ pc = "create" /\ row[1] <= TypeNum /\ row[2] = 1 /\ Rule.predicts
  /\ row' = <<TypeNum + 1, 1>>
  /\ UNCHANGED <<program, pc, requestMap, placing, mem, active, cache, freq,
                 clock, reported, created>>

\* m_request_map.size(): the slots that have a request.
SlotsWithRequests == Cardinality({s \in Slots : requestMap[s] # <<>>})

\* How far the loop of deployRequests goes.
LastSlot == IF Rule.robin THEN TimeSlots ELSE SlotsWithRequests

\* NS_ASSERT_MSG of flame and faascache; a build without assertions goes on.
StartDeploying ==
  /\ pc = "create" /\ row[1] > TypeNum
  /\ pc' \in IF Rule.robin /\ TimeSlots > SlotsWithRequests
             THEN {"slot", "aborted"} ELSE {"slot"}
  /\ UNCHANGED <<program, row, requestMap, placing, mem, active, cache, freq,
                 clock, reported, created>>

-----------------------------------------------------------------------------
(* Placing the request of slot that is at cur.                             *)

StartSlot ==
  /\ pc = "slot" /\ slot <= LastSlot
  /\ pc' = "deploy" /\ cur' = 1
  /\ UNCHANGED <<program, row, requestMap, slot, rounds, freed, robin, total, mem,
                 active, cache, freq, clock, reported, created>>

RequestsInSlot == IF slot \in Slots THEN requestMap[slot] ELSE <<>>
Deploying == pc = "deploy" /\ cur <= Len(RequestsInSlot)
Req == RequestsInSlot[cur]

\* Fault: the index does not start over behind the last node.
RobinStays == IF robin > NodeNum THEN NodeNum ELSE robin

\* deployRoundRobin starts over when the index is behind the last node.
Robin == IF robin > NodeNum THEN 1 ELSE robin

\* The node that looks for a container first, and gets a new one.
Target == IF Rule.robin THEN Robin ELSE Req.ingress

IdleIndexes(n, t) == {i \in DOMAIN cache[n] : cache[n][i].type = t}
HasIdle(n, t) == Rule.warm /\ IdleIndexes(n, t) # {}

\* CacheMap::getIdleFunction
FirstIdle(n, t) == Min(IdleIndexes(n, t))

\* ActiveFunctions::add works on a copy of m_functionfreq.
Activated(c) == [c EXCEPT !.prio = Priority(c.type, FreqAdd(freq, c.type))]

\* Only lru notes when a container was used last.
Used(c) == IF Rule.order = "last" THEN [c EXCEPT !.last = slot] ELSE c

\* Request::update
Serve(cold) ==
  requestMap' = [requestMap EXCEPT ![slot][cur] =
                   [@ EXCEPT !.served = TRUE, !.cold = cold]]

NextRequest ==
  /\ cur' = cur + 1 /\ rounds' = 0 /\ freed' = 0
  /\ total' = total + 1
  /\ robin' = IF Rule.robin THEN Robin + 1 ELSE robin
  /\ UNCHANGED <<program, pc, row, slot, freq, clock, reported>>

\* placeToCurrent
PlaceToCurrent ==
  /\ Deploying /\ HasIdle(Target, Req.type)
  /\ LET i == FirstIdle(Target, Req.type)
         c == [cache[Target][i] EXCEPT !.node = Target]
     IN /\ active' = [active EXCEPT ![Target] = Append(@, Activated(Used(c)))]
        /\ cache' = [cache EXCEPT ![Target] = RemoveAt(@, i)]
  /\ Serve(FALSE) /\ NextRequest
  /\ UNCHANGED <<mem, created>>

\* sortPhyNodes, without the first, which is m: the nodes to which a request
\* travels faster than a container of type t starts.
Near(m, t) == {n \in Nodes \ {m} : Latency[m][n] < ColdStart[t]}

\* Neighbours with an idle container that are nearer than a cold start.
Takers ==
  IF Rule.robin THEN {} ELSE {n \in Near(Req.ingress, Req.type) : HasIdle(n, Req.type)}

\* deployToNeighbour and placeToNeighbour: the loop goes on after a success,
\* so that one container of each of those neighbours is put in use.
PlaceToNeighbours ==
  /\ Deploying /\ ~HasIdle(Target, Req.type) /\ Takers # {}
  /\ active' = [n \in Nodes |-> IF n \notin Takers THEN active[n]
       ELSE Append(active[n], Activated(Used(cache[n][FirstIdle(n, Req.type)])))]
  /\ cache' = [n \in Nodes |-> IF n \notin Takers THEN cache[n]
       ELSE RemoveAt(cache[n], FirstIdle(n, Req.type))]
  /\ Serve(FALSE) /\ NextRequest
  /\ UNCHANGED <<mem, created>>

\* Fault: an idle container on a neighbour is not looked for.
NeedsNewHere == Deploying /\ ~HasIdle(Target, Req.type)

\* No idle container will do.
NeedsNew == Deploying /\ ~HasIdle(Target, Req.type) /\ Takers = {}

\* Fault: one more than there is counts as enough.
FitsAlmost == Size[Req.type] <= mem[Target] + 1
Fits == Size[Req.type] <= mem[Target]

\* What a new container takes: lru and hist subtract the size of the last
\* container they evicted for it.
Charge == IF rounds > 0 /\ Rule.charge = "victim" THEN freed ELSE Size[Req.type]

\* createToCurrent, createNew
Create ==
  /\ NeedsNew /\ Fits
  /\ LET c == [type |-> Req.type, node |-> Target, prio |-> 0, last |-> 0,
               life |-> LifeTime, born |-> slot]
     IN active' = [active EXCEPT ![Target] = Append(@, Activated(Used(c)))]
  /\ mem' = [mem EXCEPT ![Target] = @ - Charge]
  /\ created' = created + 1
  /\ Serve(TRUE) /\ NextRequest
  /\ UNCHANGED cache

\* CacheMap::getLowestPriority and the like, 0 for an empty list, compared with
\* the value of the request's function.
Lowest == LET c == Head(cache[Target])
          IN CASE cache[Target] = <<>> -> 0
               [] cache[Target] # <<>> /\ Rule.value = "hot" -> HotScore(c.type, freq)
               [] OTHER -> c.prio
MayEvict ==
  CASE Rule.value = "any"   -> TRUE
    [] Rule.value = "unset" -> Lowest < 0
    [] Rule.value = "prio"  -> Lowest < Priority(Req.type, freq)
    [] Rule.value = "hot"   -> Lowest < HotScore(Req.type, freq)

\* The loop runs again.
AnotherRound == rounds < Rule.rounds /\ MayEvict /\ cache[Target] # <<>>

\* Fault: the last container of the list is evicted.
EvictLast ==
  /\ NeedsNew /\ ~Fits /\ AnotherRound
  /\ LET c == Last(cache[Target])
     IN /\ freed' = Size[c.type]
        /\ mem' = [mem EXCEPT ![Target] = @ + Size[c.type]]
  /\ cache' = [cache EXCEPT ![Target] = Front(@)]
  /\ rounds' = rounds + 1
  /\ UNCHANGED <<program, pc, row, requestMap, slot, cur, robin, total, active,
                 freq, clock, reported, created>>

\* deleteLowestPriority, deleteLeastUse, deleteLowestHotscore: the first one.
Evict ==
  /\ NeedsNew /\ ~Fits /\ AnotherRound
  /\ LET c == Head(cache[Target])
     IN /\ freed' = Size[c.type]
        /\ mem' = [mem EXCEPT ![Target] = @ + Size[c.type]]
  /\ cache' = [cache EXCEPT ![Target] = Tail(@)]
  /\ rounds' = rounds + 1
  /\ UNCHANGED <<program, pc, row, requestMap, slot, cur, robin, total, active,
                 freq, clock, reported, created>>

\* Fault: the request is tried again.
RefuseRetries ==
  /\ NeedsNew /\ ~Fits /\ ~AnotherRound
  /\ UNCHANGED vars

\* The request is not served; what was evicted for it is gone.
Refuse ==
  /\ NeedsNew /\ ~Fits /\ ~AnotherRound
  /\ NextRequest
  /\ UNCHANGED <<requestMap, mem, active, cache, created>>

-----------------------------------------------------------------------------
(* The end of a slot and of a run.                                         *)

\* The places of the active containers, filed under the node they say they are on.
Returned(n) ==
  {p \in UNION {{m} \X DOMAIN active[m] : m \in Nodes} : active[p[1]][p[2]].node = n}

\* The containers that are idle on n after the slot: those of its list, at
\* places <<0, i>>, and those that return to it.
Idle(n) ==
  [p \in ({0} \X DOMAIN cache[n]) \cup Returned(n) |->
     IF p[1] = 0 THEN cache[n][p[2]] ELSE active[p[1]][p[2]]]

\* Fault: a container that has just become idle does not age.
AgedFresh(n) ==
  [p \in DOMAIN Idle(n) |-> IF Rule.ages /\ p[1] = 0
                            THEN [Idle(n)[p] EXCEPT !.life = @ - 1] ELSE Idle(n)[p]]

\* They have one slot less to live.
Aged(n) ==
  [p \in DOMAIN Idle(n) |-> IF Rule.ages
                            THEN [Idle(n)[p] EXCEPT !.life = @ - 1] ELSE Idle(n)[p]]

Expired(c) == Rule.ages /\ c.life < 1
Kept(n) == [p \in {p \in DOMAIN Aged(n) : ~Expired(Aged(n)[p])} |-> Aged(n)[p]]

\* The memory of n after the slot.
MemAfter(n) ==
  IF Rule.forgets THEN MemCap
  ELSE mem[n] + SumFunction([p \in DOMAIN Aged(n) |->
         IF Expired(Aged(n)[p]) THEN Size[Aged(n)[p].type] ELSE 0])

\* updateCache, and what deployRequests does around it.  onlypred records the
\* memory that is left before it restores it.
UpdateCache ==
  /\ pc = "deploy" /\ cur > Len(RequestsInSlot)
  /\ LET sorted == [n \in Nodes |-> SortedBy(Kept(n))]
     IN cache' \in {c \in [Nodes -> UNION Range(sorted)] :
                      \A n \in Nodes : c[n] \in sorted[n]}
  /\ mem' = [n \in Nodes |-> MemAfter(n)]
  /\ memoryLeft' = Append(memoryLeft,
       SumFunction(IF Rule.forgets THEN mem ELSE mem'))
  /\ active' = [n \in Nodes |-> <<>>]
  /\ clock' = clock + 1
  /\ pc' = "slot" /\ slot' = slot + 1
  /\ UNCHANGED <<program, row, requestMap, cur, rounds, freed, robin, total, freq,
                 report, created>>

\* Which requests a report calls cold starts.
ReportedCold(r) ==
  CASE Rule.cold = "cold" -> r.cold
    [] Rule.cold = "cold_not_predicted" -> r.cold /\ r.notPredicted
    [] Rule.cold = "not_predicted" -> r.notPredicted

\* Fault: requests that were not served are reported too.
ServedOrNot(s) == DOMAIN requestMap[s]

\* The report goes through the same slots as the loop of myAlgorithm.
ServedIn(s) == {i \in DOMAIN requestMap[s] : requestMap[s][i].served}

\* printResult
Report ==
  /\ pc = "slot" /\ slot > LastSlot
  /\ pc' = "done"
  /\ LET rs == UNION {{s} \X ServedIn(s) : s \in 1 .. SlotsWithRequests}
     IN report' = [served |-> Cardinality(rs),
                   cold |-> Cardinality({r \in rs : ReportedCold(requestMap[r[1]][r[2]])})]
  /\ UNCHANGED <<program, row, requestMap, placing, mem, active, cache, freq,
                 clock, memoryLeft, created>>

\* The program has ended.
Ended == pc \in {"done", "aborted"} /\ UNCHANGED vars

-----------------------------------------------------------------------------
Init ==
  /\ program \in Programs
  /\ pc = "create" /\ row = <<1, 1>>
  /\ requestMap = [s \in Slots |-> <<>>]
  /\ slot = 1 /\ cur = 1 /\ rounds = 0 /\ freed = 0
  /\ mem = [n \in Nodes |-> MemCap]
  /\ active = [n \in Nodes |-> <<>>] /\ cache = [n \in Nodes |-> <<>>]
  /\ freq = <<>> /\ clock = 1 /\ robin = 1 /\ total = 0
  /\ memoryLeft = IF Rule.base THEN <<NodeNum * MemCap>> ELSE <<>>
  /\ report = [served |-> 0, cold |-> 0]
  /\ created = 0

DeployRequest == \/ PlaceToCurrent \/ PlaceToNeighbours
                 \/ Create \/ Evict \/ Refuse

Next == \/ CreateRow \/ NoPrediction \/ StartDeploying
        \/ StartSlot \/ DeployRequest \/ UpdateCache \/ Report \/ Ended

\* The simulation is one thread that runs to its end.
Spec == Init /\ [][Next]_vars /\ WF_vars(Next)
=============================================================================
