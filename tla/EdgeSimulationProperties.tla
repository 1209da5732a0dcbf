----------------------- MODULE EdgeSimulationProperties -----------------------
(***************************************************************************)
(* What the eight programs of the simulation promise.  The reports of the  *)
(* programs are compared with each other, so that a program that counts    *)
(* memory, containers or cold starts wrongly spoils the comparison.        *)
(***************************************************************************)
EXTENDS EdgeSimulation

\* Memory of the containers in a list.
SizeOf(cs) == SumFunction([i \in DOMAIN cs |-> Size[cs[i].type]])

\* Memory of the containers that live on node n; onlypred starts no container
\* from its list of idle ones, which only grows.
Held(n) == SizeOf(active[n]) + IF Rule.forgets THEN 0 ELSE SizeOf(cache[n])

\* All requests of a run, by slot and place.
AllRequests == UNION {{s} \X DOMAIN requestMap[s] : s \in Slots}
RequestAt(r) == requestMap[r[1]][r[2]]

\* Slots with requests come first.
NoGaps == \A s \in Slots : requestMap[s] # <<>> <=> s <= SlotsWithRequests

\* Type invariant of the variables of the programs.
SimTypeOK ==
  /\ program \in Programs
  /\ pc \in {"create", "slot", "deploy", "done", "aborted"}
  /\ row \in (1 .. TypeNum + 1) \X Slots
  /\ requestMap \in [Slots -> Seq(Request)]
  /\ slot \in Nat \ {0} /\ cur \in Nat \ {0}
  /\ rounds \in 0 .. Rule.rounds /\ freed \in Nat
  /\ mem \in [Nodes -> Nat]
  /\ active \in [Nodes -> Seq(Container)] /\ cache \in [Nodes -> Seq(Container)]
  /\ freq \in Seq(Nat) /\ clock \in Nat \ {0}
  /\ robin \in 1 .. NodeNum + 1 /\ total \in Nat
  /\ memoryLeft \in Seq(Nat)
  /\ report \in [served : Nat, cold : Nat]
  /\ created \in Nat

\* Memory balance: what a node has left and what its containers take is what
\* it had (m_topo.update in createToCurrent, createNew, updateCache).  lru and
\* hist subtract the size of the victim instead (lru.cc:637, hist.cc:642).
MemoryIsTrue ==
  program \notin {"lru", "hist"} => \A n \in Nodes : mem[n] + Held(n) = MemCap

\* The comment at the head of the programs (lru.cc:4): a container that could
\* be created has memory, and so has the cache it moves to.
MemoryIsEnough == \A n \in Nodes : Held(n) <= MemCap

\* A container is evicted only on the node that takes the request, for want
\* of memory, when nobody has a warm one, and it is one that the program
\* values least (getLowestPriority, deleteLeastUse, deleteLowestHotscore).
EvictsTheLeast ==
  [][\A n \in Nodes : pc = "deploy" /\ mem'[n] > mem[n] /\ pc' = "deploy" =>
       /\ n = Target /\ Size[Req.type] > mem[n] /\ IdleIndexes(n, Req.type) = {}
       /\ \E i \in DOMAIN cache[n] :
            /\ cache'[n] = RemoveAt(cache[n], i)
            /\ \A j \in DOMAIN cache[n] : SortKey(cache[n][i]) <= SortKey(cache[n][j])
    ]_vars

\* The life of a container counts the slots since it was created, those in
\* which it was used included, and an idle container has at least one left
\* (updateCache of fixedcaching and hist; use does not renew it).
LifeIsAge ==
  Rule.ages => \A n \in Nodes :
    /\ \A l \in {cache[n], active[n]} : \A i \in DOMAIN l :
         l[i].life = LifeTime - (slot - l[i].born)
    /\ \A i \in DOMAIN cache[n] : cache[n][i].life >= 1

\* A program that keeps containers warm counts a cold start only when no warm
\* container is near enough (deployRequest, deployRoundRobin).
ColdStartOnlyIfNeeded ==
  [][\A s \in Slots : \A i \in DOMAIN requestMap[s] :
       Rule.warm /\ i \in DOMAIN requestMap'[s] /\ requestMap'[s][i].cold
         /\ ~requestMap[s][i].cold =>
       LET r == requestMap[s][i]
       IN \A n \in Nodes : IdleIndexes(n, r.type) # {} =>
            IF Rule.robin THEN n # Robin
            ELSE n # r.ingress /\ Latency[r.ingress][n] >= ColdStart[r.type]
    ]_vars

\* flame and faascache deal the requests to the nodes in turn, over the ends
\* of the slots and over requests that are refused (deployRoundRobin).
InTurn == Rule.robin => Robin = (total % NodeNum) + 1

\* Every request was looked at once, and the report has each one that was
\* served and as many cold starts as containers were created (deployRequests,
\* printResult), unless the loops over the slots were shorter than the slots:
\* some slot had no requests, or flame and faascache were asked for fewer slots.
ReportIsTrue ==
  pc = "done" /\ NoGaps /\ LastSlot >= SlotsWithRequests =>
    /\ total = Cardinality(AllRequests)
    /\ report.served = Cardinality({r \in AllRequests : RequestAt(r).served})
    /\ Rule.cold = "cold" => report.cold = created

\* The simulation comes to its end, whatever is evicted or refused
\* (deployRequests, the loop of createToCurrent).
EveryRunEnds == <>(pc \in {"done", "aborted"})
=============================================================================
