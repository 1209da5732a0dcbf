------------------------ MODULE LifetimeCacheProperties ------------------------
(***************************************************************************)
(* What the schedulers of LifetimeCache promise.                           *)
(***************************************************************************)
EXTENDS LifetimeCache, PoolView

\* Every variable has its type: no lifetime leaves its range, and no
\* service outlives the names that were given.  (algorithm.go:15-36)
LifetimeTypeOK ==
  /\ pc \in {"slot", "deploy", "place", "age", "update", "done"}
  /\ slot \in Nat /\ cur \in Nat \ {0} /\ k \in Nat
  /\ mem \in [Nodes -> Int] /\ \A n \in Nodes : mem[n] <= MemBound
  /\ \A n \in Nodes : \A i \in DOMAIN cache[n] :
       cache[n][i] \in Container /\ cache[n][i].life \in 0 .. LifeTime
  /\ \A n \in Nodes, t \in Types : \A i \in DOMAIN active[n][t] :
       active[n][t][i] \in Container /\ active[n][t][i].life \in 1 .. LifeTime
  /\ cacheKeys \subseteq Nodes /\ services \subseteq Types \X (1 .. count)
  /\ left \subseteq Nodes \X (Types \cup {0})
  /\ freq \in [Types -> Int] /\ count \in Nat

-----------------------------------------------------------------------------
(* Lifetimes.                                                              *)

Ids(s) == {s[i].id : i \in DOMAIN s}

\* The containers the scheduler may still hand out.
LiveIds == UNION ({Ids(cache[n]) : n \in Nodes}
                  \cup {Ids(active[n][t]) : n \in Nodes, t \in Types})

\* Between two slots an idle container has at least one slot left: one that
\* expired was found in every list, although elements move while the loop
\* goes on.  (fixedcaching/algorithm.go:236-251)
IdleHaveLife ==
  pc = "slot" => \A n \in Nodes : \A i \in DOMAIN cache[n] :
                   cache[n][i].life \in 1 .. LifeTime

\* Aging lets no container go before it was idle for its whole lifetime, over
\* all the times it was idle.  (fixedcaching/algorithm.go:13, 241)
KeptLongEnough ==
  [][pc = "age" => \A n \in Nodes : \A i \in DOMAIN cache[n] :
       cache[n][i].id \notin LiveIds' => cache[n][i].idle >= LifeTime]_vars

\* fixedcaching evicts the idle container with least life left on the node of
\* the request, never one that became idle in the last slot, and only while
\* the new one does not fit.  (fixedcaching/algorithm.go:62-100)
EvictsTheOldest ==
  [][pc # "age" => \A n \in Nodes : \A i \in DOMAIN cache[n] :
       cache[n][i].id \notin LiveIds' =>
         /\ n = Req.ingress /\ ~Fits
         /\ cache[n][i].life < LifeTime
         /\ \A j \in DOMAIN cache[n] : cache[n][i].life <= cache[n][j].life]_vars

\* Every slot of fixedcaching ends: the loop that evicts, and the loop that ages
\* a list and shortens it at the same time.
\* (fixedcaching/algorithm.go:64-101, 237-251)
FixedSlotsEnd == FixedCaching => <>(pc = "done")

-----------------------------------------------------------------------------
(* The life of a container.                                                *)

\* These programs start a container whatever room is left (CreateToCurrent).
Unlimited == SlotNum * MaxRequests * Max(Range(Size))

Pool == INSTANCE WarmPool WITH Capacity <- Unlimited,
          pool <- AsPool(Members(Nodes, Types, cache, active, leaked), count)

\* Both programs implement a pool of warm containers, but for its capacity:
\* aging, which deletes from a list while it goes through it, brings no
\* container back and stops none in use.
\* (fixedcaching/algorithm.go:233-262, histogram/algorithm.go:177-215)
ImplementsPool == Pool!Spec

-----------------------------------------------------------------------------
(* What the comments of the code say and the code does not do.             *)

\* "at the end of each interval, move active containers to cached containers"
\* (histogram/algorithm.go:200): the interval has an end.
EverySlotEnds == <>(pc = "done")

\* "find those container that lifetime is 0, remove it from cacheMap, delete it
\* from k8s" (fixedcaching/algorithm.go:236): a container that aging takes out
\* of its list is the one whose service goes.
ExpiredServicesGo ==
  [][pc = "age" => \A n \in Nodes : \A i \in DOMAIN cache[n] :
       cache[n][i].id \notin LiveIds' => Name(cache[n][i]) \notin services']_vars
=============================================================================
