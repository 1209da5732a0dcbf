----------------------- MODULE ContainerCacheProperties -----------------------
(***************************************************************************)
(* What the container cache of ContainerCache promises.                    *)
(***************************************************************************)
EXTENDS ContainerCache, PoolView

Pcs == {"slot", "deploy", "neighbour", "create", "update", "done"}

\* Every variable has its type; a list holds containers of its own node, and a
\* slice containers of its own node and type.  (algorithm.go:15-36)
TypeOK ==
  /\ pc \in Pcs /\ slot \in Nat /\ robin \in 0 .. NodeNum /\ cur \in Nat \ {0}
  /\ reqs \in Seq(Request)
  /\ evicted \in BOOLEAN /\ near \in Seq(Nodes) /\ placed \in BOOLEAN
  /\ mem \in [Nodes -> Int]
  /\ active \in [Nodes -> [Types -> Seq(Container)]]
  /\ cache \in [Nodes -> Seq(Container)]
  /\ cacheKeys \subseteq Nodes
  /\ freq \in [Types -> Int]
  /\ policy \in Policies /\ clock \in Nat /\ count \in Nat
  /\ left \subseteq Nodes \X Types /\ at \in (Nodes \X Types) \cup {Nowhere} /\ k \in Nat
  /\ services \subseteq Types \X Nat
  /\ leaked \in [Nodes -> [Types -> Seq(Container)]]

-----------------------------------------------------------------------------
(* Where containers are.                                                   *)

Stores == ({"cache"} \X Nodes \X {0})
          \cup ({"active", "leaked"} \X Nodes \X Types)

ListAt(s) == CASE s[1] = "cache"  -> cache[s[2]]
               [] s[1] = "active" -> active[s[2]][s[3]]
               [] s[1] = "leaked" -> leaked[s[2]][s[3]]

Positions == UNION {{s} \X DOMAIN ListAt(s) : s \in Stores}
Occupant(p) == ListAt(p[1])[p[2]]

Ids(s) == {s[i].id : i \in DOMAIN s}
LiveIds == UNION {Ids(ListAt(s)) : s \in {r \in Stores : r[1] # "leaked"}}

\* A container is in one place only: moving it between the cache and the
\* active slices neither duplicates it nor leaves a copy behind, also when one
\* request claims several, and count_G names no two containers alike.
\* (types.go:176 "this one must be unique")
UniqueContainers ==
  \A p, q \in Positions : Occupant(p).id = Occupant(q).id => p = q

-----------------------------------------------------------------------------
(* Memory and use counts.                                                  *)

\* One element per unit of memory held on node n, in whatever list.
UnitsHeld(n) ==
  UNION {{Occupant(p).id} \X (1 .. Size[Occupant(p).type]) :
         p \in {q \in Positions : q[1][2] = n}}

\* The memory left on a node is its capacity less what the containers on it
\* take, counting the ones updateCache has dropped: createToCurrent and the
\* eviction loop keep the books.  (algorithm.go:101, 112, 135)
MemoryBalance ==
  \A n \in Nodes : mem[n] + Cardinality(UnitsHeld(n)) = MemCap

\* No node is overcommitted, whatever the order of evictions and creations.
\* (algorithm.go:87, 104)
NoOvercommit == \A n \in Nodes : mem[n] >= 0

\* How many containers of type t every node has in its active slice or has
\* dropped from it.
Uses(t) == [n \in Nodes |-> Len(active[n][t]) + Len(leaked[n][t])]

\* One element per unit of f.
Units(f) == UNION {{n} \X (1 .. f[n]) : n \in DOMAIN f}

\* functionfreq_G counts, per type, the active containers and those dropped
\* while active: its priorities are computed from exactly that number.
\* (algorithm.go:22)
FreqCountsUses == \A t \in Types : freq[t] = Cardinality(Units(Uses(t)))

-----------------------------------------------------------------------------
(* Order and results.                                                      *)

\* A cache list is in ascending order of priority between any two steps, so
\* that its head is what eviction wants.  (types.go:274)
CacheSorted == \A n \in Nodes : Sorted(cache[n])

\* Until the results are sent, a served request has a container of its type
\* active on the node it was told, and shares it with no other request.
\* (algorithm.go:62, 159, 202)
ServedHaveTheirOwn ==
  pc \in {"deploy", "neighbour", "create"} =>
    \A a \in DOMAIN reqs : reqs[a].served =>
      /\ reqs[a].fn \in Ids(active[reqs[a].node][reqs[a].type])
      /\ \A b \in DOMAIN reqs : reqs[b].served /\ reqs[b].fn = reqs[a].fn => a = b

\* A cold start happens only when no idle container of the type was left on
\* the node that is to serve the request, or, but for flame, on any node nearer
\* than a cold start is long.  (algorithm.go:164, 168-172, 259)
ColdStartOnlyIfNeeded ==
  [][count' # count =>
       \A n \in Nodes :
         n = Target \/ (policy # "flame" /\ Reachable(reqs[cur], n))
           => ~HasIdle(n, reqs[cur].type)]_vars

\* A container that leaves the cache without being put in use was the least
\* valuable one of its node, worth less than the request it makes room for, of
\* another type, and not needed if the request had fitted; with lru it is the
\* one used longest ago, and not in this slot.
\* (schedulerDemo/algorithm.go:87-101, lru/algorithm.go:92-101, flame/algorithm.go:279-297)
EvictionsAreJustified ==
  [][\A n \in Nodes : \A i \in DOMAIN cache[n] :
       cache[n][i].id \notin LiveIds' =>
         /\ n = Target /\ ~Fits(n, reqs[cur].type)
         /\ cache[n][i].type # reqs[cur].type
         /\ cache[n][i].prio < ActivePriority(reqs[cur].type, freq[reqs[cur].type])
         /\ \A j \in DOMAIN cache[n] : cache[n][i].prio <= cache[n][j].prio]_vars

\* A service is deleted only when its container is no longer cached or active:
\* nothing the scheduler may still hand out is terminated.  (algorithm.go:95-99)
LiveServicesStay ==
  [][\A s \in services \ services' : s[2] \notin LiveIds']_vars

\* The slots end: the loop over the neighbours, the eviction loop and the
\* loops of updateCache all come to an end.  (algorithm.go:89-126)
EverySlotEnds == <>(pc = "done")

-----------------------------------------------------------------------------
(* The life of a container.                                                *)

Pool == INSTANCE WarmPool WITH Capacity <- MemCap,
          pool <- AsPool(Members(Nodes, Types, cache, active, leaked), count)

\* The scheduler implements a pool of warm containers: no step of a placement,
\* of an eviction or of updateCache moves a container to another node, stops
\* one in use, starts one without room or brings one back.
\* (algorithm.go:53-141, 231-245)
ImplementsPool == Pool!Spec

-----------------------------------------------------------------------------
(* What the comments of the code say and the code does not do.             *)

\* "at the end of each interval, move active containers to cached containers"
\* (algorithm.go:231): none is forgotten.
AllActiveAreCached == \A n \in Nodes, t \in Types : leaked[n][t] = <<>>

\* "deploy to a neighbour cached function" (algorithm.go:143): a request is
\* given one container, so that as many are active as were served.
OneContainerPerRequest ==
  pc = "deploy" =>
    Cardinality({p \in Positions : p[1][1] = "active"})
      = Cardinality({a \in DOMAIN reqs : reqs[a].served})
=============================================================================
