-------------------------- MODULE PodSchedulerProofs --------------------------
(***************************************************************************)
(* Proofs about PodScheduler, for any pods, nodes, sizes and failures.     *)
(***************************************************************************)
EXTENDS PodSchedulerProperties, ListProofs

\* Where a worker has a pod to schedule.
HasPod(w) == pc[w] \in IF w = "monitor" THEN {"lock", "nodes", "pods", "bind"}
                                        ELSE {"nodes", "pods", "bind"}

GoesOn(w) == IF pc[w] = "stopped" THEN 0 ELSE 1

\* PodTypeOK with what keeps it: which worker lists, that a pod is a pod while
\* it is scheduled or sent, and that wg counts the goroutines that still run.
TypeInv ==
  /\ PodTypeOK
  /\ pc["monitor"] \notin {"list", "next"}
  /\ wg = GoesOn("monitor") + GoesOn("reconcile")
  /\ wpc = "send" => wpod \in Pods
  /\ \A w \in Workers : HasPod(w) => pod[w] \in Pods

\* What a worker read of the nodes: all of the first ones, and none that has
\* not joined, unless it was an error; a pod is on a node that joined.
NodesInv ==
  /\ \A p \in Pods : Bound(p) => node[p] \in joined
  /\ \A w \in Workers :
       pc[w] = "pods" => FirstNodes \subseteq up[w] \/ (up[w] = {} /\ faults > 0)
  /\ \A w \in Workers : pc[w] \in {"pods", "bind"} => up[w] \subseteq joined
  /\ CrashNeedsStaleNodes

\* The node a worker is about to bind to is the one that was asked for; what
\* was bound is not unbound again.
AskedInv ==
  /\ BoundWhereAsked
  /\ \A p \in mine : node[p] \in KubeNodes \cup {"gone"}
  /\ \A w \in Workers : pc[w] = "bind" => up[w] \subseteq {Wanted[pod[w]]}

\* The pod a worker is about to bind fits beside all that this scheduler has
\* on the node, if the worker has seen that.
RoomInv ==
  \A w \in Workers : pc[w] = "bind" /\ saw[w] =>
    \A n \in up[w] : OwnUsage(n) + Cpu[pod[w]] <= Alloc[n]

-----------------------------------------------------------------------------
\* The answer of the API is a sequence of all the pods asked for.
LEMMA InOrderProperties ==
  ASSUME NEW S \in SUBSET Pods
  PROVE  InOrder(S) \in Seq(S) /\ ToSet(InOrder(S)) = S
<1> DEFINE k == Cardinality(S)
           upTo(p) == {q \in S : q <= p}
           rank == [p \in S |-> Cardinality(upTo(p))]
           at == [i \in 1 .. k |-> CHOOSE p \in S : rank[p] = i]
<1>1. IsFiniteSet(S) /\ k \in Nat /\ \A p \in S : p \in Int
  <2>1. IsFiniteSet(Pods)
    BY PodConstantsOK, FS_Interval DEF Pods
  <2>2. \A p \in S : p \in Int
    BY PodConstantsOK DEF Pods
  <2> QED
    BY <2>1, <2>2, FS_Subset, FS_CardinalityType
<1>2. ASSUME NEW p \in S
      PROVE  IsFiniteSet(upTo(p)) /\ rank[p] \in 1 .. k
  <2>1. IsFiniteSet(upTo(p)) /\ Cardinality(upTo(p)) <= k
    BY <1>1, FS_Subset
  <2>2. Cardinality(upTo(p)) \in Nat
    BY <2>1, FS_CardinalityType
  <2>3. p \in upTo(p)
    BY <1>1
  <2>4. Cardinality(upTo(p)) # 0
    BY <2>1, <2>3, FS_EmptySet
  <2> QED
    BY <1>1, <2>1, <2>2, <2>4
<1>3. ASSUME NEW p \in S, NEW q \in S, p < q
      PROVE  rank[p] < rank[q]
  <2>1. upTo(p) \in SUBSET upTo(q)
    BY <1>1, <1>3
  <2>2. q \in upTo(q) /\ q \notin upTo(p)
    BY <1>1, <1>3
  <2>3. IsFiniteSet(upTo(p)) /\ IsFiniteSet(upTo(q))
    BY <1>2
  <2>4. /\ Cardinality(upTo(p)) <= Cardinality(upTo(q))
        /\ Cardinality(upTo(p)) # Cardinality(upTo(q))
    <3> HIDE DEF upTo
    <3> QED
      BY <2>1, <2>2, <2>3, FS_Subset
  <2>5. Cardinality(upTo(p)) \in Nat /\ Cardinality(upTo(q)) \in Nat
    BY <2>3, FS_CardinalityType
  <2> QED
    BY <2>4, <2>5
<1>4. rank \in Surjection(S, 1 .. k) /\ \A p, q \in S : rank[p] = rank[q] => p = q
  <2>1. \A p, q \in S : rank[p] = rank[q] => p = q
    <3> SUFFICES ASSUME NEW p \in S, NEW q \in S, rank[p] = rank[q]
                 PROVE  p = q
      OBVIOUS
    <3>1. rank[p] \in Int /\ rank[q] \in Int
      BY <1>1, <1>2
    <3> HIDE DEF rank
    <3> QED
      BY <1>1, <1>3, <3>1
  <2>2. rank \in Injection(S, 1 .. k)
    BY <1>2, <2>1 DEF Injection, IsInjective
  <2>3. IsFiniteSet(1 .. k) /\ Cardinality(1 .. k) = k
    BY <1>1, FS_Interval
  <2> HIDE DEF rank
  <2> QED
    BY <1>1, <2>1, <2>2, <2>3, FS_Injection
<1>5. \A i \in 1 .. k : at[i] \in S /\ rank[at[i]] = i
  <2> HIDE DEF rank
  <2>1. \A i \in 1 .. k : \E p \in S : rank[p] = i
    BY <1>4 DEF Surjection
  <2> QED
    BY <2>1
<1>6. at \in SetToSeqs(S)
  <2> HIDE DEF rank
  <2>1. at \in [1 .. k -> S]
    BY <1>5
  <2>2. \A i, j \in 1 .. k : i # j => at[i] # at[j]
    <3> HIDE DEF at
    <3> QED
      BY <1>5
  <2> QED
    BY <2>1, <2>2 DEF SetToSeqs
<1>7. \A i, j \in DOMAIN at : i < j => at[i] < at[j]
  <2> SUFFICES ASSUME NEW i \in 1 .. k, NEW j \in 1 .. k, i < j
               PROVE  at[i] < at[j]
    OBVIOUS
  <2>1. at[i] \in S /\ at[j] \in S /\ rank[at[i]] = i /\ rank[at[j]] = j
    BY <1>5
  <2> HIDE DEF rank, at
  <2>2. at[i] \in Int /\ at[j] \in Int /\ i \in Int /\ j \in Int
    BY <1>1, <2>1
  <2>3. ~ (at[j] < at[i]) /\ at[i] # at[j]
    BY <1>1, <1>3, <2>1, <2>2
  <2> QED
    BY <2>2, <2>3
<1>8. InOrder(S) \in SetToSeqs(S)
  <2> HIDE DEF at
  <2> QED
    BY <1>6, <1>7 DEF InOrder
<1>9. InOrder(S) \in [1 .. k -> S] /\ IsInjective(InOrder(S))
  BY <1>8 DEF SetToSeqs, IsInjective
<1>10. InOrder(S) \in Surjection(1 .. k, S)
  <2>1. IsFiniteSet(1 .. k) /\ Cardinality(1 .. k) = k
    BY <1>1, FS_Interval
  <2>2. InOrder(S) \in Injection(1 .. k, S)
    BY <1>9 DEF Injection
  <2> QED
    BY <1>1, <2>1, <2>2, FS_Injection
<1> QED
  BY <1>1, <1>9, <1>10 DEF Surjection, ToSet

\* reconcile gets a list of pods.
LEMMA UnscheduledType ==
  Unscheduled \in Seq(Pods)
<1>1. IsFiniteSet(Unbound \cap Annotated) /\ Unbound \in SUBSET (1 .. PodNum) /\ PodNum \in Nat
  <2>1. Unbound \in SUBSET Pods /\ IsFiniteSet(Pods)
    BY PodConstantsOK, FS_Interval DEF Pods, Unbound
  <2>2. IsFiniteSet(Unbound \cap Annotated)
    BY <2>1, FS_Subset
  <2> QED
    BY <2>1, <2>2, PodConstantsOK DEF Pods
<1>2. Cardinality(Unbound \cap Annotated) \in Nat
  BY <1>1, FS_CardinalityType
<1>3. Unbound # {} => Max(Unbound) \in Pods
  BY <1>1, LastPlace DEF Pods
<1>4. CASE Unbound = {}
  BY <1>4 DEF Unscheduled
<1>5. CASE Unbound # {}
  <2> DEFINE m == Max(Unbound)
             k == Cardinality(Unbound \cap Annotated)
  <2>1. Unscheduled = [i \in 1 .. k |-> m]
    BY <1>5 DEF Unscheduled
  <2>2. k \in Nat /\ m \in Pods
    BY <1>2, <1>3, <1>5
  <2> HIDE DEF m, k
  <2> QED
    BY <2>1, <2>2
<1> QED
  BY <1>4, <1>5

LEMMA TypeInvInit ==
  Init => TypeInv
<1>1. <<>> \in Seq(Pods)
  OBVIOUS
<1> SUFFICES ASSUME Init
             PROVE  TypeInv
  OBVIOUS
<1>2. PodTypeOK
  <2> USE PodConstantsOK DEF Init
  <2>1. /\ state \in {"running", "crashed", "exited"} /\ stopping \in BOOLEAN
        /\ wg \in 0 .. 2
    <3>1. stopping \in BOOLEAN
      BY Zenon
    <3>2. state = "running" /\ wg = 2
      OBVIOUS
    <3> QED
      BY <3>1, <3>2
  <2>2. /\ FirstNodes \subseteq joined /\ joined \subseteq KubeNodes
        /\ node \in [Pods -> KubeNodes \cup {"absent", "unbound", "gone"}]
        /\ running \subseteq {p \in Pods : Bound(p)}
    OBVIOUS
  <2>3. /\ connected \in BOOLEAN /\ stream \in Seq(Pods) /\ todo \in Seq(Pods)
    BY <1>1
  <2>4. /\ wpc \in {"connect", "decode", "send", "report"} /\ wpod \in 0 .. PodNum
        /\ errc \in 0 .. 1 /\ faults \in 0 .. MaxFaults /\ tried \subseteq Pods /\ mine \subseteq Pods
    OBVIOUS
  <2>5. /\ pc \in [Workers -> WorkerPcs] /\ pod \in [Workers -> 0 .. PodNum]
        /\ up \in [Workers -> SUBSET KubeNodes] /\ lock \in Workers \cup {"free"}
        /\ \A w \in Workers : pc[w] = "select"
    BY DEF WorkerPcs
  <2>6. saw \in [Workers -> BOOLEAN]
    OBVIOUS
  <2> QED
    BY <2>1, <2>2, <2>3, <2>4, <2>5, <2>6 DEF PodTypeOK
<1>3. wpc # "send" /\ wg = 2 /\ pc["monitor"] = "select" /\ pc["reconcile"] = "select"
  BY DEF Init, Workers
<1> QED
  BY <1>2, <1>3 DEF TypeInv, GoesOn, HasPod, Workers

\* The cluster and the watch change what the API and the watcher know only.
LEMMA ClusterType ==
  ASSUME TypeInv, Cluster \/ Watcher
  PROVE  TypeInv'
<1> USE PodConstantsOK DEF TypeInv, PodTypeOK, GoesOn, HasPod, Workers, WorkerPcs, Bound,
        process, api, watch, work, history, Fault
<1>1. ASSUME NEW p \in Pods, CreatePod(p)
      PROVE  TypeInv'
  <2>1. stream' \in Seq(Pods)
    BY <1>1, AppendProperties DEF CreatePod
  <2> QED
    BY <1>1, <2>1 DEF CreatePod
<1>2. ASSUME NEW p \in Pods, StartPod(p)
      PROVE  TypeInv'
  BY <1>2 DEF StartPod
<1>3. ASSUME NEW p \in Pods, DeletePod(p)
      PROVE  TypeInv'
  BY <1>3 DEF DeletePod
<1>4. ASSUME NEW p \in Pods, OtherSchedulerBinds(p)
      PROVE  TypeInv'
  BY <1>4 DEF OtherSchedulerBinds
<1>5. ASSUME NEW n \in KubeNodes, NodeJoins(n)
      PROVE  TypeInv'
  BY <1>5 DEF NodeJoins
<1>6. CASE WatchBreaks
  <2>1. stream' \in Seq(Pods)
    <3>1. <<>> \in Seq(Pods)
      OBVIOUS
    <3>2. stream' = stream \/ stream' = <<>>
      BY <1>6 DEF WatchBreaks
    <3> QED
      BY <3>1, <3>2
  <2>2. /\ faults < MaxFaults /\ faults' = faults + 1 /\ connected' = FALSE
        /\ UNCHANGED <<process, api, wpc, wpod, errc, work, history>>
    BY <1>6 DEF WatchBreaks
  <2>3. connected' \in BOOLEAN
    BY <2>2, Zenon
  <2>4. /\ faults' \in 0 .. MaxFaults
        /\ UNCHANGED <<process, api, wpc, wpod, errc, work, history>>
    BY <2>2
  <2> QED
    BY <2>1, <2>3, <2>4
<1>7. CASE Connect
  <2>1. Unbound \in SUBSET Pods
    BY DEF Unbound
  <2>2. InOrder(Unbound) \in Seq(Pods)
    BY <2>1, InOrderProperties, SeqMonotonic
  <2> QED
    BY <1>7, <2>2 DEF Connect
<1>8. CASE ConnectFails
  BY <1>8 DEF ConnectFails
<1>9. CASE Decode
  <2>1. stream' \in Seq(Pods) /\ wpod' \in Pods
    BY <1>9, HeadTailProperties DEF Decode
  <2>2. Pods \subseteq 0 .. PodNum
    BY DEF Pods
  <2> QED
    BY <1>9, <2>1, <2>2 DEF Decode
<1>10. CASE DecodeFails
  BY <1>10 DEF DecodeFails
<1>11. CASE Report
  BY <1>11 DEF Report
<1> QED
  BY <1>1, <1>2, <1>3, <1>4, <1>5, <1>6, <1>7, <1>8, <1>9, <1>10, <1>11 DEF Cluster, Watcher

\* So do the workers and main change their own, and the lock they hold.
LEMMA WorkersType ==
  ASSUME TypeInv,
         \/ TakePod \/ TakeError \/ Timer
         \/ \E w \in Workers : Lock(w) \/ Work(w) \/ Stop(w)
         \/ Signal \/ Exit
  PROVE  TypeInv'
<1> USE PodConstantsOK DEF TypeInv, PodTypeOK, GoesOn, HasPod, Workers, WorkerPcs, Bound,
        process, api, watch, work, history, Fault
<1>1. CASE TakePod
  BY <1>1 DEF TakePod
<1>2. CASE TakeError
  BY <1>2 DEF TakeError
<1>3. CASE Timer
  BY <1>3 DEF Timer
<1>4. ASSUME NEW w \in Workers, Lock(w)
      PROVE  TypeInv'
  BY <1>4 DEF Lock
<1>5. ASSUME NEW w \in Workers, Stop(w)
      PROVE  TypeInv'
  BY <1>5 DEF Stop
<1>6. ASSUME NEW w \in Workers, GetNodes(w)
      PROVE  TypeInv'
  BY <1>6 DEF GetNodes, Return
<1>7. ASSUME NEW w \in Workers, GetPods(w)
      PROVE  TypeInv'
  <2>1. \A listed : Selected(w, listed) \subseteq KubeNodes
    BY <1>7 DEF Selected, Room
  <2>2. saw' \in [Workers -> BOOLEAN]
    BY <1>7, Zenon DEF GetPods
  <2>3. /\ pc[w] = "pods" /\ faults' \in 0 .. MaxFaults
        /\ UNCHANGED <<process, api, watch, errc, pod, todo, tried, mine>>
    BY <1>7 DEF GetPods, Answered
  <2>4. up' = up \/ \E n \in KubeNodes : up' = [up EXCEPT ![w] = {n}]
    BY <1>7, <2>1, Zenon DEF GetPods
  <2>5. \/ pc' = [pc EXCEPT ![w] = "bind"] /\ lock' = lock
        \/ Return(w)
    BY <1>7, Zenon DEF GetPods
  <2> QED
    BY <2>2, <2>3, <2>4, <2>5 DEF Return
<1>8. ASSUME NEW w \in Workers, Panic(w)
      PROVE  TypeInv'
  BY <1>8 DEF Panic
<1>9. ASSUME NEW w \in Workers, Bind(w)
      PROVE  TypeInv'
  <2>1. node' \in [Pods -> KubeNodes \cup {"absent", "unbound", "gone"}]
    BY <1>9 DEF Bind
  <2>2. running' \subseteq {p \in Pods : Bound(p)'}
    BY <1>9 DEF Bind
  <2>3. mine' \subseteq Pods /\ faults' \in 0 .. MaxFaults
    BY <1>9 DEF Bind
  <2> QED
    BY <1>9, <2>1, <2>2, <2>3 DEF Bind, Return
<1>10. CASE ListPods
  <2>1. todo' \in Seq(Pods) /\ faults' \in 0 .. MaxFaults
    <3>1. <<>> \in Seq(Pods)
      OBVIOUS
    <3>2. todo' = Unscheduled \/ todo' = <<>>
      BY <1>10 DEF ListPods
    <3>3. todo' \in Seq(Pods)
      BY <3>1, <3>2, UnscheduledType, Zenon
    <3> QED
      BY <1>10, <3>3 DEF ListPods
  <2>2. /\ pc["reconcile"] = "list" /\ pc' = [pc EXCEPT !["reconcile"] = "next"]
        /\ UNCHANGED <<process, api, watch, errc, lock, pod, up, history>>
    BY <1>10 DEF ListPods
  <2> QED
    BY <2>1, <2>2
<1>11. CASE ListFails
  BY <1>11 DEF ListFails
<1>12. CASE NextListed
  <2>1. todo' \in Seq(Pods) /\ Head(todo) \in Pods
    BY <1>12, HeadTailProperties DEF NextListed
  <2>2. Pods \subseteq 0 .. PodNum
    BY DEF Pods
  <2> QED
    BY <1>12, <2>1, <2>2 DEF NextListed
<1>13. CASE EndOfList
  BY <1>13 DEF EndOfList
<1>14. CASE Signal
  BY <1>14 DEF Signal
<1>15. CASE Exit
  BY <1>15 DEF Exit
<1> QED
  BY <1>1, <1>2, <1>3, <1>4, <1>5, <1>6, <1>7, <1>8, <1>9, <1>10, <1>11, <1>12, <1>13,
     <1>14, <1>15 DEF Work, SchedulePod

LEMMA TypeInvStep ==
  TypeInv /\ [Next]_vars => TypeInv'
<1> SUFFICES ASSUME TypeInv, [Next]_vars
             PROVE  TypeInv'
  OBVIOUS
<1>1. CASE UNCHANGED vars
  BY <1>1 DEF vars, process, api, watch, work, history, TypeInv, PodTypeOK, GoesOn, HasPod, Bound
<1>2. CASE Step
  BY <1>2, ClusterType, WorkersType DEF Step
<1> QED
  BY <1>1, <1>2 DEF Next, Ended

\* Every variable of the pod scheduler keeps its type, the lock has at most
\* one holder, and who is in schedulePod or in its list holds it: processorLock
\* of processor.go, with its unlock on every way out.
THEOREM PodTypesCorrect == Spec => []PodTypeOK
<1>1. TypeInv => PodTypeOK
  BY DEF TypeInv
<1> QED
  BY TypeInvInit, TypeInvStep, <1>1, PTL DEF Spec

-----------------------------------------------------------------------------
(* The nodes that getNodes returned.                                       *)

\* No failure is taken back.
LEMMA FaultsGrow ==
  ASSUME TypeInv, [Next]_vars
  PROVE  faults' >= faults
<1> USE DEF process, api, watch, work, history, Fault
<1>1. faults \in Nat
  BY DEF TypeInv, PodTypeOK
<1>2. CASE UNCHANGED vars
  BY <1>1, <1>2 DEF vars
<1>3. CASE Cluster \/ Watcher
  BY <1>1, <1>3 DEF Cluster, Watcher, CreatePod, StartPod, DeletePod, OtherSchedulerBinds,
     NodeJoins, WatchBreaks, Connect, ConnectFails, Decode, DecodeFails, Report
<1>4. CASE TakePod \/ TakeError \/ Timer \/ Signal \/ Exit
  BY <1>1, <1>4 DEF TakePod, TakeError, Timer, Signal, Exit
<1>5. ASSUME NEW w \in Workers, Lock(w) \/ Stop(w) \/ GetNodes(w) \/ Panic(w) \/ Bind(w)
      PROVE  faults' >= faults
  BY <1>1, <1>5 DEF Lock, Stop, GetNodes, Panic, Bind
<1>6. ASSUME NEW w \in Workers, GetPods(w)
      PROVE  faults' >= faults
  BY <1>1, <1>6 DEF GetPods, Answered
<1>7. CASE ListPods \/ ListFails \/ NextListed \/ EndOfList
  BY <1>1, <1>7 DEF ListPods, ListFails, NextListed, EndOfList
<1> QED
  BY <1>2, <1>3, <1>4, <1>5, <1>6, <1>7 DEF Next, Ended, Step, Work, SchedulePod

LEMMA NodesInvStep ==
  ASSUME TypeInv, NodesInv, [Next]_vars
  PROVE  NodesInv'
<1> USE PodConstantsOK DEF process, api, watch, work, history, Fault, CrashNeedsStaleNodes, Bound
<1>t. /\ pc \in [Workers -> WorkerPcs] /\ up \in [Workers -> SUBSET KubeNodes]
      /\ node \in [Pods -> KubeNodes \cup {"absent", "unbound", "gone"}]
      /\ FirstNodes \subseteq joined /\ joined \subseteq KubeNodes
  BY DEF TypeInv, PodTypeOK
<1>g. faults > 0 => faults' > 0
  <2>1. faults \in Nat /\ TypeInv'
    BY TypeInvStep DEF TypeInv, PodTypeOK
  <2>2. faults' \in Nat
    BY <2>1 DEF TypeInv, PodTypeOK
  <2> QED
    BY <2>1, <2>2, FaultsGrow
<1>1. CASE UNCHANGED vars
  BY <1>1 DEF vars, NodesInv
<1>r. SUFFICES ASSUME state = "running", Step
               PROVE  NodesInv'
  BY <1>1 DEF Next, Ended
<1>2. ASSUME NEW p \in Pods, CreatePod(p) \/ DeletePod(p)
      PROVE  NodesInv'
  <2>1. /\ node' = [node EXCEPT ![p] = "unbound"] \/ node' = [node EXCEPT ![p] = "gone"]
        /\ UNCHANGED <<state, joined, pc, up, faults>>
    BY <1>2 DEF CreatePod, DeletePod
  <2> QED
    BY <2>1, <1>r, <1>t DEF NodesInv
<1>3. ASSUME NEW p \in Pods, OtherSchedulerBinds(p)
      PROVE  NodesInv'
  BY <1>3, <1>g, <1>r, <1>t DEF OtherSchedulerBinds, NodesInv
<1>4. ASSUME NEW n \in KubeNodes, NodeJoins(n)
      PROVE  NodesInv'
  BY <1>4, <1>g, <1>r, <1>t DEF NodeJoins, NodesInv
<1>5. ASSUME NEW w \in Workers, Lock(w) \/ Stop(w)
      PROVE  NodesInv'
  BY <1>5, <1>g, <1>r, <1>t DEF Lock, Stop, NodesInv
<1>6. ASSUME NEW w \in Workers, GetNodes(w)
      PROVE  NodesInv'
  <2>1. /\ pc[w] = "nodes" /\ UNCHANGED <<state, joined, node>>
        /\ \/ /\ up' = [up EXCEPT ![w] = joined] \/ (up' = [up EXCEPT ![w] = {}] /\ faults' > 0)
              /\ pc' = [pc EXCEPT ![w] = "pods"]
           \/ /\ up' = up
              /\ \/ pc' = [pc EXCEPT ![w] = "select"]
                 \/ pc' = [pc EXCEPT ![w] = "next"]
    <3>1. faults \in Nat
      BY DEF TypeInv, PodTypeOK
    <3> QED
      BY <1>6, <3>1 DEF GetNodes, Return
  <2> QED
    BY <2>1, <1>g, <1>r, <1>t DEF NodesInv
<1>7. ASSUME NEW w \in Workers, GetPods(w)
      PROVE  NodesInv'
  <2>1. \A listed : Selected(w, listed) \subseteq up[w]
    BY DEF Selected, Room
  <2>2. /\ pc[w] = "pods" /\ UNCHANGED <<state, joined, node>>
        /\ \/ \E n \in up[w] : up' = [up EXCEPT ![w] = {n}] /\ pc' = [pc EXCEPT ![w] = "bind"]
           \/ /\ up' = up
              /\ \/ pc' = [pc EXCEPT ![w] = "select"]
                 \/ pc' = [pc EXCEPT ![w] = "next"]
    BY <1>7, <2>1 DEF GetPods, Return
  <2> QED
    BY <2>2, <1>g, <1>r, <1>t DEF NodesInv
<1>8. ASSUME NEW w \in Workers, Panic(w)
      PROVE  NodesInv'
  <2>1. PICK p \in Pods : Bound(p) /\ node[p] \notin up[w]
    BY <1>8 DEF Panic, NilUsage, Counted
  <2>2. up[w] # joined /\ (FirstNodes \subseteq up[w] \/ (up[w] = {} /\ faults > 0))
    BY <1>8, <2>1 DEF NodesInv, Panic
  <2> QED
    BY <1>8, <2>2 DEF Panic, NodesInv
<1>9. ASSUME NEW w \in Workers, Bind(w)
      PROVE  NodesInv'
  <2>1. /\ pc[w] = "bind" /\ UNCHANGED <<state, joined, up>>
        /\ \/ pc' = [pc EXCEPT ![w] = "select"]
           \/ pc' = [pc EXCEPT ![w] = "next"]
        /\ \/ \E n \in up[w] : node' = [node EXCEPT ![pod[w]] = n]
           \/ node' = node
    BY <1>9 DEF Bind, Return
  <2> QED
    BY <2>1, <1>g, <1>r, <1>t DEF NodesInv
<1>10. CASE TakePod \/ Timer \/ ListPods \/ ListFails \/ NextListed \/ EndOfList
  BY <1>10, <1>g, <1>r, <1>t DEF TakePod, Timer, ListPods, ListFails, NextListed, EndOfList, NodesInv
<1>11. CASE Exit
  BY <1>11, <1>g, <1>r DEF Exit, NodesInv
<1>12. ASSUME NEW p \in Pods, StartPod(p)
       PROVE  NodesInv'
  BY <1>12, <1>g, <1>r DEF StartPod, NodesInv
<1>13. CASE WatchBreaks \/ Watcher \/ TakeError \/ Signal
  BY <1>13, <1>g, <1>r DEF WatchBreaks, Watcher, Connect, ConnectFails, Decode, DecodeFails,
     Report, TakeError, Signal, NodesInv
<1> QED
  BY <1>r, <1>2, <1>3, <1>4, <1>5, <1>6, <1>7, <1>8, <1>9, <1>10, <1>11, <1>12, <1>13
     DEF Step, Cluster, Work, SchedulePod

\* A scheduler that crashed because fit found no entry for the node of a pod
\* had read the nodes before that one joined, or had read an error as a list
\* without nodes: with the nodes it started with, and answers that are none, it
\* never crashes.  (kubernetes.go:102, 273)
THEOREM CrashNeedsStaleNodesHolds == Spec => []CrashNeedsStaleNodes
<1>1. Init => NodesInv
  BY PodConstantsOK DEF Init, NodesInv, CrashNeedsStaleNodes, Bound, Workers
<1>2. TypeInv /\ NodesInv /\ [Next]_vars => NodesInv'
  BY NodesInvStep
<1>3. NodesInv => CrashNeedsStaleNodes
  BY DEF NodesInv
<1> QED
  BY TypeInvInit, TypeInvStep, <1>1, <1>2, <1>3, PTL DEF Spec

-----------------------------------------------------------------------------
(* The node a pod is bound to.                                             *)

LEMMA AskedInvStep ==
  ASSUME TypeInv, AskedInv, [Next]_vars
  PROVE  AskedInv'
<1> USE PodConstantsOK DEF process, api, watch, work, history, Fault, BoundWhereAsked, Bound
<1>t. /\ pc \in [Workers -> WorkerPcs] /\ up \in [Workers -> SUBSET KubeNodes]
      /\ pod \in [Workers -> 0 .. PodNum] /\ mine \subseteq Pods
      /\ node \in [Pods -> KubeNodes \cup {"absent", "unbound", "gone"}]
      /\ \A w \in Workers : pc[w] = "bind" => pod[w] \in Pods
  BY DEF TypeInv, PodTypeOK, HasPod
<1>1. ASSUME UNCHANGED <<mine, node, pc, up, pod>>
      PROVE  AskedInv'
  BY <1>1 DEF AskedInv
<1>2. ASSUME NEW p \in Pods, CreatePod(p) \/ DeletePod(p)
      PROVE  AskedInv'
  BY <1>2, <1>t DEF CreatePod, DeletePod, AskedInv
<1>3. ASSUME NEW p \in Pods, OtherSchedulerBinds(p)
      PROVE  AskedInv'
  <2>1. p \notin mine
    BY <1>3 DEF AskedInv, OtherSchedulerBinds
  <2> QED
    BY <1>3, <1>t, <2>1 DEF OtherSchedulerBinds, AskedInv
<1>4. ASSUME NEW w \in Workers, Lock(w) \/ Stop(w)
      PROVE  AskedInv'
  BY <1>4, <1>t DEF Lock, Stop, AskedInv
<1>5. ASSUME NEW w \in Workers, GetNodes(w)
      PROVE  AskedInv'
  <2>1. /\ pc[w] = "nodes" /\ UNCHANGED <<node, mine, pod>>
        /\ \/ /\ up' = [up EXCEPT ![w] = joined] \/ up' = [up EXCEPT ![w] = {}]
              /\ pc' = [pc EXCEPT ![w] = "pods"]
           \/ /\ up' = up
              /\ \/ pc' = [pc EXCEPT ![w] = "select"]
                 \/ pc' = [pc EXCEPT ![w] = "next"]
    BY <1>5 DEF GetNodes, Return
  <2> QED
    BY <2>1, <1>t DEF AskedInv
<1>6. ASSUME NEW w \in Workers, GetPods(w)
      PROVE  AskedInv'
  <2>1. \A listed : Selected(w, listed) \subseteq {Wanted[pod[w]]}
    BY DEF Selected
  <2>2. /\ pc[w] = "pods" /\ UNCHANGED <<node, mine, pod>>
        /\ \/ /\ up' = [up EXCEPT ![w] = {Wanted[pod[w]]}]
              /\ pc' = [pc EXCEPT ![w] = "bind"]
           \/ /\ up' = up
              /\ \/ pc' = [pc EXCEPT ![w] = "select"]
                 \/ pc' = [pc EXCEPT ![w] = "next"]
    BY <1>6, <2>1 DEF GetPods, Return
  <2> QED
    BY <2>2, <1>t DEF AskedInv
<1>7. ASSUME NEW w \in Workers, Bind(w)
      PROVE  AskedInv'
  <2>1. /\ pc[w] = "bind" /\ UNCHANGED <<up, pod>>
        /\ \/ pc' = [pc EXCEPT ![w] = "select"]
           \/ pc' = [pc EXCEPT ![w] = "next"]
        /\ \/ /\ \E n \in up[w] : node' = [node EXCEPT ![pod[w]] = n]
              /\ mine' = mine \cup {pod[w]}
           \/ node' = node /\ mine' = mine
    BY <1>7 DEF Bind, Return
  <2> QED
    BY <2>1, <1>t DEF AskedInv
<1>8. CASE TakePod \/ Timer \/ ListPods \/ ListFails \/ NextListed \/ EndOfList
  BY <1>8, <1>t DEF TakePod, Timer, ListPods, ListFails, NextListed, EndOfList, AskedInv
<1>9. CASE UNCHANGED vars
  BY <1>1, <1>9 DEF vars
<1>10. ASSUME NEW p \in Pods, StartPod(p)
       PROVE  AskedInv'
  BY <1>1, <1>10 DEF StartPod
<1>11. ASSUME NEW n \in KubeNodes, NodeJoins(n)
       PROVE  AskedInv'
  BY <1>1, <1>11 DEF NodeJoins
<1>12. ASSUME NEW w \in Workers, Panic(w)
       PROVE  AskedInv'
  BY <1>1, <1>12 DEF Panic
<1>13. CASE WatchBreaks \/ Watcher \/ TakeError \/ Signal \/ Exit
  BY <1>1, <1>13 DEF WatchBreaks, Watcher, Connect, ConnectFails, Decode, DecodeFails, Report,
     TakeError, Signal, Exit
<1> QED
  BY <1>2, <1>3, <1>4, <1>5, <1>6, <1>7, <1>8, <1>9, <1>10, <1>11, <1>12, <1>13
     DEF Next, Ended, Step, Cluster, Work, SchedulePod

\* Whatever is full, fails or joins, a pod that this scheduler bound is on the
\* node its placement asked for, until it is deleted.  (bestprice.go:109)
THEOREM BoundWhereAskedHolds == Spec => []BoundWhereAsked
<1>1. Init => AskedInv
  BY DEF Init, AskedInv, BoundWhereAsked, Workers
<1>2. TypeInv /\ AskedInv /\ [Next]_vars => AskedInv'
  BY AskedInvStep
<1>3. AskedInv => BoundWhereAsked
  BY DEF AskedInv
<1> QED
  BY TypeInvInit, TypeInvStep, <1>1, <1>2, <1>3, PTL DEF Spec

-----------------------------------------------------------------------------
(* The pods on their way to schedulePod.                                   *)

\* Where pod p is waiting for its turn.
OnItsWay(p) ==
  \/ p \in ToSet(stream)
  \/ wpc = "send" /\ wpod = p
  \/ pod["monitor"] = p /\ pc["monitor"] \in {"lock", "nodes"}

\* Sending an event keeps those that were sent before.
LEMMA ToSetOfAppend ==
  ASSUME NEW E, NEW s \in Seq(E), NEW e \in E
  PROVE  ToSet(Append(s, e)) = ToSet(s) \cup {e}
<1>1. /\ Len(s) \in Nat /\ DOMAIN s = 1 .. Len(s)
      /\ DOMAIN Append(s, e) = 1 .. Len(s) + 1
      /\ Append(s, e)[Len(s) + 1] = e
      /\ \A i \in 1 .. Len(s) : Append(s, e)[i] = s[i]
  <2>1. /\ Append(s, e) \in Seq(E) /\ Len(Append(s, e)) = Len(s) + 1
        /\ Append(s, e)[Len(s) + 1] = e
        /\ \A i \in 1 .. Len(s) : Append(s, e)[i] = s[i]
    BY AppendProperties
  <2> QED
    BY <2>1, LenProperties
<1>2. ToSet(Append(s, e)) = {Append(s, e)[i] : i \in 1 .. Len(s) + 1}
  BY <1>1 DEF ToSet
<1>3. ToSet(s) = {s[i] : i \in 1 .. Len(s)}
  BY <1>1 DEF ToSet
<1>4. 1 .. Len(s) + 1 = 1 .. Len(s) \cup {Len(s) + 1}
  BY <1>1
<1> DEFINE n == Len(s)
           a == Append(s, e)
<1>5. /\ a[n + 1] = e /\ \A i \in 1 .. n : a[i] = s[i]
      /\ ToSet(a) = {a[i] : i \in 1 .. n \cup {n + 1}}
      /\ ToSet(s) = {s[i] : i \in 1 .. n}
  BY <1>1, <1>2, <1>3, <1>4
<1> HIDE DEF n, a
<1>6. ToSet(a) = ToSet(s) \cup {e}
  BY <1>5
<1> QED
  BY <1>6 DEF a

\* Taking one event out leaves the others.
LEMMA ToSetOfTail ==
  ASSUME NEW E, NEW s \in Seq(E), s # <<>>
  PROVE  ToSet(s) = {Head(s)} \cup ToSet(Tail(s))
<1> DEFINE n == Len(s)
           t == Tail(s)
<1>1. /\ n \in Nat /\ n > 0 /\ DOMAIN s = 1 .. n /\ Head(s) = s[1]
      /\ DOMAIN t = 1 .. n - 1 /\ \A i \in 1 .. n - 1 : t[i] = s[i + 1]
  <2>1. /\ Head(s) \in E /\ Tail(s) \in Seq(E) /\ Len(Tail(s)) = Len(s) - 1
        /\ \A i \in 1 .. Len(Tail(s)) : Tail(s)[i] = s[i + 1]
    BY HeadTailProperties
  <2>2. Len(s) \in Nat /\ DOMAIN s = 1 .. Len(s) /\ Len(s) # 0
    BY LenProperties, EmptySeq
  <2>3. Head(s) = s[1]
    OBVIOUS
  <2>4. DOMAIN t = 1 .. Len(Tail(s))
    BY <2>1, LenProperties
  <2> QED
    BY <2>1, <2>2, <2>3, <2>4
<1> HIDE DEF n, t
<1>2. ToSet(s) = {s[i] : i \in 1 .. n} /\ ToSet(t) = {t[i] : i \in 1 .. n - 1}
  BY <1>1 DEF ToSet
<1>3. \A i \in 1 .. n : i = 1 \/ (i - 1 \in 1 .. n - 1 /\ s[i] = t[i - 1])
  BY <1>1
<1>4. ToSet(s) = {Head(s)} \cup ToSet(t)
  <2>1. ASSUME NEW x \in ToSet(s)
        PROVE  x \in {Head(s)} \cup ToSet(t)
    BY <1>1, <1>2, <1>3
  <2>2. Head(s) \in ToSet(s)
    BY <1>1, <1>2
  <2>3. ASSUME NEW x \in ToSet(t)
        PROVE  x \in ToSet(s)
    <3>1. PICK i \in 1 .. n - 1 : x = t[i]
      BY <1>2
    <3>2. i + 1 \in 1 .. n /\ x = s[i + 1]
      BY <1>1, <3>1
    <3> QED
      BY <1>2, <3>2
  <2> QED
    BY <2>1, <2>2, <2>3
<1> QED
  BY <1>4 DEF t

LEMMA NoPodIsForgottenStep ==
  ASSUME TypeInv, NoPodIsForgotten, [Next]_vars
  PROVE  NoPodIsForgotten'
<1> USE DEF process, api, watch, work, history
<1>t. /\ pc \in [Workers -> WorkerPcs] /\ pod \in [Workers -> 0 .. PodNum]
      /\ node \in [Pods -> KubeNodes \cup {"absent", "unbound", "gone"}]
      /\ "monitor" \in Workers /\ "reconcile" \in Workers
  BY DEF TypeInv, PodTypeOK, Workers
<1>k. KubeNodes \cap {"absent", "unbound", "gone"} = {}
  BY PodConstantsOK
<1>n. connected => \A p \in Pods : node[p] = "unbound" /\ p \notin tried => OnItsWay(p)
  BY DEF NoPodIsForgotten, OnItsWay, Unbound
<1>p. SUFFICES ASSUME connected', NEW p \in Pods, node'[p] = "unbound", p \notin tried'
               PROVE  OnItsWay(p)'
  BY DEF NoPodIsForgotten, OnItsWay, Unbound
<1>o. OnItsWay(p)' <=> \/ p \in ToSet(stream')
                       \/ wpc' = "send" /\ wpod' = p
                       \/ pod'["monitor"] = p /\ pc'["monitor"] \in {"lock", "nodes"}
  BY DEF OnItsWay, ToSet
<1>1. ASSUME UNCHANGED <<connected, node, tried, stream, wpc, wpod, pod, pc>>
      PROVE  OnItsWay(p)'
  BY <1>1, <1>n, <1>p, <1>o DEF OnItsWay
<1>2. ASSUME NEW q \in Pods, CreatePod(q)
      PROVE  OnItsWay(p)'
  <2>1. connected /\ stream' = Append(stream, q)
    BY <1>2, <1>p DEF CreatePod
  <2>2. ToSet(stream') = ToSet(stream) \cup {q}
    BY <2>1, ToSetOfAppend DEF TypeInv, PodTypeOK
  <2>3. p = q \/ OnItsWay(p)
    BY <1>2, <1>n, <1>p, <1>t, <2>1 DEF CreatePod
  <2> QED
    BY <1>2, <1>o, <2>2, <2>3 DEF CreatePod, OnItsWay
<1>3. ASSUME NEW q \in Pods, DeletePod(q) \/ OtherSchedulerBinds(q)
      PROVE  OnItsWay(p)'
  <2>1. node[p] = "unbound" /\ connected /\ p \notin tried
    <3>1. CASE DeletePod(q)
      BY <1>p, <1>t, <3>1 DEF DeletePod
    <3>2. CASE OtherSchedulerBinds(q)
      BY <1>p, <1>t, <1>k, <3>2, PodConstantsOK DEF OtherSchedulerBinds, TypeInv, PodTypeOK
    <3> QED
      BY <1>3, <3>1, <3>2
  <2>2. OnItsWay(p)
    BY <1>n, <2>1
  <2> QED
    BY <1>3, <1>o, <2>2 DEF DeletePod, OtherSchedulerBinds, OnItsWay
<1>4. CASE Connect
  <2>1. stream' = InOrder(Unbound) /\ node[p] = "unbound"
    BY <1>4, <1>p DEF Connect
  <2>2. p \in ToSet(stream')
    BY <2>1, InOrderProperties DEF Unbound
  <2> QED
    BY <1>o, <2>2
<1>5. CASE Decode
  <2>1. ToSet(stream) = {Head(stream)} \cup ToSet(stream')
    BY <1>5, ToSetOfTail DEF Decode, TypeInv, PodTypeOK
  <2>2. OnItsWay(p)
    BY <1>5, <1>n, <1>p DEF Decode
  <2> QED
    BY <1>5, <1>o, <2>1, <2>2 DEF Decode, OnItsWay
<1>6. CASE ConnectFails \/ DecodeFails \/ Report
  <2>1. OnItsWay(p)
    BY <1>6, <1>n, <1>p DEF ConnectFails, DecodeFails, Report
  <2> QED
    BY <1>6, <1>o, <2>1 DEF ConnectFails, DecodeFails, Report, OnItsWay
<1>7. CASE WatchBreaks
  BY <1>7, <1>p DEF WatchBreaks
<1>8. CASE TakePod
  <2>1. OnItsWay(p)
    BY <1>8, <1>n, <1>p DEF TakePod
  <2> QED
    BY <1>8, <1>o, <1>t, <2>1 DEF TakePod, OnItsWay
<1>9. ASSUME NEW w \in Workers, Lock(w) \/ Stop(w)
      PROVE  OnItsWay(p)'
  <2>1. OnItsWay(p)
    BY <1>9, <1>n, <1>p DEF Lock, Stop
  <2>2. pc["monitor"] \in {"lock", "nodes"} => pc'["monitor"] \in {"lock", "nodes"}
    BY <1>9, <1>t DEF Lock, Stop
  <2> QED
    BY <1>9, <1>o, <2>1, <2>2 DEF Lock, Stop, OnItsWay
<1>10. ASSUME NEW w \in Workers, GetNodes(w)
       PROVE  OnItsWay(p)'
  <2>1. OnItsWay(p) /\ p # pod[w]
    BY <1>10, <1>n, <1>p DEF GetNodes
  <2>2. w # "monitor" => pc'["monitor"] = pc["monitor"]
    BY <1>10, <1>t DEF GetNodes, Return
  <2> QED
    BY <1>10, <1>o, <2>1, <2>2 DEF GetNodes, OnItsWay
<1>11. ASSUME NEW w \in Workers, GetPods(w)
       PROVE  OnItsWay(p)'
  <2>1. OnItsWay(p)
    BY <1>11, <1>n, <1>p DEF GetPods
  <2>2. pc["monitor"] \in {"lock", "nodes"} => pc'["monitor"] = pc["monitor"]
    BY <1>11, <1>t DEF GetPods, Return
  <2> QED
    BY <1>11, <1>o, <2>1, <2>2 DEF GetPods, OnItsWay
<1>12. ASSUME NEW w \in Workers, Bind(w)
       PROVE  OnItsWay(p)'
  <2>1. pc[w] = "bind" /\ pod[w] \in Pods /\ up[w] \subseteq KubeNodes
    BY <1>12 DEF Bind, TypeInv, PodTypeOK, HasPod
  <2>2. node[p] = "unbound"
    BY <1>12, <1>p, <1>t, <1>k, <2>1 DEF Bind
  <2>3. OnItsWay(p)
    BY <1>12, <1>n, <1>p, <2>2 DEF Bind
  <2>4. pc["monitor"] \in {"lock", "nodes"} => pc'["monitor"] = pc["monitor"]
    BY <1>12, <1>t DEF Bind, Return
  <2> QED
    BY <1>12, <1>o, <2>3, <2>4 DEF Bind, OnItsWay
<1>13. CASE Timer \/ ListPods \/ ListFails \/ NextListed \/ EndOfList
  <2>1. OnItsWay(p)
    BY <1>13, <1>n, <1>p DEF Timer, ListPods, ListFails, NextListed, EndOfList
  <2>2. pc'["monitor"] = pc["monitor"] /\ pod'["monitor"] = pod["monitor"]
    BY <1>13, <1>t DEF Timer, ListPods, ListFails, NextListed, EndOfList
  <2> QED
    BY <1>13, <1>o, <2>1, <2>2 DEF Timer, ListPods, ListFails, NextListed, EndOfList, OnItsWay
<1>14. CASE UNCHANGED vars
  BY <1>1, <1>14 DEF vars
<1>15. ASSUME NEW q \in Pods, StartPod(q)
       PROVE  OnItsWay(p)'
  BY <1>1, <1>15 DEF StartPod
<1>16. ASSUME NEW n \in KubeNodes, NodeJoins(n)
       PROVE  OnItsWay(p)'
  BY <1>1, <1>16 DEF NodeJoins
<1>17. ASSUME NEW w \in Workers, Panic(w)
       PROVE  OnItsWay(p)'
  BY <1>1, <1>17 DEF Panic
<1>18. CASE TakeError \/ Signal \/ Exit
  BY <1>1, <1>18 DEF TakeError, Signal, Exit
<1> QED
  BY <1>2, <1>3, <1>4, <1>5, <1>6, <1>7, <1>8, <1>9, <1>10, <1>11, <1>12, <1>13, <1>14,
     <1>15, <1>16, <1>17, <1>18 DEF Next, Ended, Step, Cluster, Watcher, Work, SchedulePod

\* As long as the watch is open an unbound pod was tried already or is on its
\* way to the monitor, whatever breaks or is taken in between.
\* (kubernetes.go:149)
THEOREM NoPodIsForgottenHolds == Spec => []NoPodIsForgotten
<1>1. Init => NoPodIsForgotten
  BY DEF Init, NoPodIsForgotten
<1>2. TypeInv /\ NoPodIsForgotten /\ [Next]_vars => NoPodIsForgotten'
  BY NoPodIsForgottenStep
<1> QED
  BY TypeInvInit, TypeInvStep, <1>1, <1>2, PTL DEF Spec

-----------------------------------------------------------------------------
(* The room the bound pods take.                                           *)

LEMMA PodsFinite ==
  IsFiniteSet(Pods)
<1>1. PodNum \in Int
  BY PodConstantsOK
<1>2. IsFiniteSet(1 .. PodNum)
  BY <1>1, FS_Interval
<1> QED
  BY <1>2 DEF Pods

LEMMA OwnUsageSums ==
  \A n : OwnUsage(n) = SumOf(Cpu, OwnPods(n))
BY DEF OwnUsage, SumOf, OwnPods

LEMMA OwnUsageSumsNext ==
  (\A n : OwnUsage(n) = SumOf(Cpu, OwnPods(n)))'
BY OwnUsageSums, PTL

LEMMA OwnUsageIsSum ==
  ASSUME TypeInv, NEW n
  PROVE  /\ OwnUsage(n) = SumOf(Cpu, OwnPods(n))
         /\ OwnPods(n) \in SUBSET Pods /\ IsFiniteSet(OwnPods(n))
         /\ OwnUsage(n) \in Nat
<1>1. OwnPods(n) \in SUBSET Pods /\ IsFiniteSet(Pods)
  BY PodsFinite DEF OwnPods, TypeInv, PodTypeOK
<1>2. IsFiniteSet(OwnPods(n)) /\ OwnUsage(n) = SumOf(Cpu, OwnPods(n))
  BY <1>1, FS_Subset, OwnUsageSums
<1>3. SumOf(Cpu, OwnPods(n)) \in Nat
  BY <1>1, <1>2, PodConstantsOK, SumOfType
<1> QED
  BY <1>1, <1>2, <1>3

\* An answer of getPods that holds what this scheduler has on a node counts it.
LEMMA OwnUsageIsCounted ==
  ASSUME TypeInv, NEW listed \in SUBSET Pods, NEW n \in KubeNodes, OwnPods(n) \subseteq listed
  PROVE  OwnUsage(n) <= Usage(listed, n) /\ Usage(listed, n) \in Nat
<1> DEFINE U == {p \in listed : node[p] = n}
<1>1. U \in SUBSET Pods /\ IsFiniteSet(U)
  <2>1. U \in SUBSET Pods /\ IsFiniteSet(Pods)
    BY PodsFinite
  <2> QED
    BY <2>1, FS_Subset
<1>2. Usage(listed, n) = SumOf(Cpu, U)
  BY DEF Usage, SumOf
<1>3. OwnPods(n) \in SUBSET U
  BY DEF OwnPods
<1>4. SumOf(Cpu, OwnPods(n)) <= SumOf(Cpu, U) /\ SumOf(Cpu, U) \in Nat
  <2> HIDE DEF U
  <2> QED
    BY <1>1, <1>3, PodConstantsOK, SumOfMonotonic, SumOfType
<1> QED
  BY <1>2, <1>4, OwnUsageIsSum

LEMMA RoomInvStep ==
  ASSUME TypeInv, AskedInv, RoomInv, [Next]_vars, TypeInv'
  PROVE  RoomInv'
<1> USE DEF process, api, watch, work, history
<1>t. /\ pc \in [Workers -> WorkerPcs] /\ up \in [Workers -> SUBSET KubeNodes]
      /\ saw \in [Workers -> BOOLEAN]
      /\ pod \in [Workers -> 0 .. PodNum] /\ mine \subseteq Pods
      /\ node \in [Pods -> KubeNodes \cup {"absent", "unbound", "gone"}]
      /\ Cpu \in [Pods -> Nat] /\ Alloc \in [KubeNodes -> Nat]
      /\ \A w \in Workers : pc[w] \in {"nodes", "pods", "bind"} => pod[w] \in Pods /\ lock = w
  BY PodConstantsOK DEF TypeInv, PodTypeOK, HasPod
<1>k. KubeNodes \cap {"absent", "unbound", "gone"} = {}
  BY PodConstantsOK
<1>s. (\A n : OwnUsage(n) = SumOf(Cpu, OwnPods(n)))'
  BY OwnUsageSumsNext
<1>u. \A n \in KubeNodes : OwnUsage(n) \in Nat /\ OwnUsage(n)' \in Nat
  <2> SUFFICES ASSUME NEW n \in KubeNodes
               PROVE  OwnUsage(n) \in Nat /\ OwnUsage(n)' \in Nat
    OBVIOUS
  <2>1. OwnUsage(n)' = SumOf(Cpu, OwnPods(n)')
    BY <1>s
  <2>2. OwnPods(n)' \in SUBSET Pods /\ IsFiniteSet(Pods)
    BY PodsFinite DEF OwnPods, TypeInv, PodTypeOK
  <2>3. IsFiniteSet(OwnPods(n)')
    BY <2>2, FS_Subset
  <2>4. SumOf(Cpu, OwnPods(n)') \in Nat
    BY <2>2, <2>3, PodConstantsOK, SumOfType
  <2> QED
    BY <2>1, <2>4, OwnUsageIsSum
\* Steps that bind no pod of this scheduler take no room, and start no binding.
<1>1. ASSUME \A n \in KubeNodes : OwnPods(n)' \subseteq OwnPods(n),
             UNCHANGED <<up, saw>>,
             \A w \in Workers : pc'[w] = "bind" => pc[w] = "bind" /\ pod'[w] = pod[w]
      PROVE  RoomInv'
  <2>1. \A n \in KubeNodes : OwnUsage(n)' <= OwnUsage(n)
    <3> SUFFICES ASSUME NEW n \in KubeNodes
                 PROVE  OwnUsage(n)' <= OwnUsage(n)
      OBVIOUS
    <3>1. OwnUsage(n)' = SumOf(Cpu, OwnPods(n)')
      BY <1>s
    <3> QED
      BY <1>1, <1>t, <3>1, OwnUsageIsSum, SumOfMonotonic
  <2> DEFINE u == [n \in KubeNodes |-> OwnUsage(n)]
             v == [n \in KubeNodes |-> OwnUsage(n)']
  <2>2. /\ \A n \in KubeNodes : u[n] \in Nat /\ v[n] \in Nat /\ v[n] <= u[n]
        /\ \A w \in Workers : pc[w] = "bind" /\ saw[w] =>
             \A n \in up[w] : u[n] + Cpu[pod[w]] <= Alloc[n]
    BY <2>1, <1>u, <1>t DEF RoomInv
  <2>3. RoomInv' <=> \A w \in Workers : pc'[w] = "bind" /\ saw[w] =>
                       \A n \in up[w] : v[n] + Cpu[pod'[w]] <= Alloc[n]
    BY <1>1, <1>t DEF RoomInv
  <2> HIDE DEF u, v
  <2>4. ASSUME NEW w \in Workers, pc'[w] = "bind", saw[w], NEW n \in up[w]
        PROVE  v[n] + Cpu[pod'[w]] <= Alloc[n]
    <3>1. pc[w] = "bind" /\ n \in KubeNodes /\ pod[w] \in Pods /\ pod'[w] = pod[w]
      BY <1>1, <1>t, <2>4
    <3>2. /\ u[n] \in Nat /\ v[n] \in Nat /\ Cpu[pod[w]] \in Nat /\ Alloc[n] \in Nat
          /\ v[n] <= u[n] /\ u[n] + Cpu[pod[w]] <= Alloc[n]
      BY <1>t, <2>2, <2>4, <3>1
    <3> QED
      BY <3>1, <3>2
  <2> QED
    BY <2>3, <2>4
<1>2. ASSUME NEW w \in Workers, GetPods(w)
      PROVE  RoomInv'
  <2>0. mine' = mine /\ node' = node /\ pod' = pod /\ pc[w] = "pods"
    BY <1>2 DEF GetPods
  <2>1. CASE pc' # [pc EXCEPT ![w] = "bind"]
    <3>1. up' = up /\ saw' = saw /\ \/ pc' = [pc EXCEPT ![w] = "select"]
                                    \/ pc' = [pc EXCEPT ![w] = "next"]
      BY <1>2, <2>1 DEF GetPods, Return
    <3> QED
      BY <1>1, <1>t, <2>0, <3>1 DEF OwnPods
  <2>2. CASE pc' = [pc EXCEPT ![w] = "bind"]
    <3>1. PICK listed \in {Counted, {}}, n \in KubeNodes :
            /\ n \in Selected(w, listed) /\ up' = [up EXCEPT ![w] = {n}]
            /\ saw' = [saw EXCEPT ![w] = OwnPods(n) \subseteq listed]
      <4>1. \A l : Selected(w, l) \subseteq KubeNodes
        BY <1>t DEF Selected, Room
      <4>2. ~Return(w)
        BY <1>t, <2>0, <2>2 DEF Return
      <4> QED
        BY <1>2, <4>1, <4>2 DEF GetPods
    <3>2. listed \in SUBSET Pods
      BY DEF Counted
    <3>3. n \in KubeNodes /\ Alloc[n] - Usage(listed, n) >= Cpu[pod[w]]
      BY <3>1 DEF Selected, Room
    <3>4. ASSUME OwnPods(n) \subseteq listed
          PROVE  OwnUsage(n) + Cpu[pod[w]] <= Alloc[n]
      <4>1. OwnUsage(n) \in Nat /\ Usage(listed, n) \in Nat /\ OwnUsage(n) <= Usage(listed, n)
        BY <3>2, <3>3, <3>4, <1>u, OwnUsageIsCounted
      <4>2. Alloc[n] \in Nat /\ Cpu[pod[w]] \in Nat
        BY <1>t, <2>0, <3>3
      <4> QED
        BY <3>3, <4>1, <4>2
    <3>5. \A m : OwnUsage(m)' = OwnUsage(m)
      <4>1. \A m : OwnPods(m)' = OwnPods(m)
        BY <2>0 DEF OwnPods
      <4> QED
        BY <1>s, <4>1, OwnUsageSums
    <3>6. \A v \in Workers : pc'[v] = "bind" => v = w
      BY <1>t, <2>2, <2>0
    <3>7. up'[w] = {n} /\ pod'[w] = pod[w] /\ (saw'[w] => OwnPods(n) \subseteq listed)
      BY <1>t, <2>0, <3>1
    <3> QED
      BY <3>4, <3>5, <3>6, <3>7 DEF RoomInv
  <2> QED
    BY <2>1, <2>2
<1>3. ASSUME NEW w \in Workers, Bind(w)
      PROVE  RoomInv'
  <2>1. /\ pc[w] = "bind"
        /\ \/ pc' = [pc EXCEPT ![w] = "select"]
           \/ pc' = [pc EXCEPT ![w] = "next"]
    BY <1>3 DEF Bind, Return
  <2>2. \A v \in Workers : pc'[v] # "bind"
    BY <1>t, <2>1
  <2> QED
    BY <2>2 DEF RoomInv
<1>4. ASSUME NEW w \in Workers, GetNodes(w)
      PROVE  RoomInv'
  <2>1. /\ pc[w] = "nodes" /\ UNCHANGED <<node, mine, pod, saw>>
        /\ \/ /\ up' = [up EXCEPT ![w] = joined] \/ up' = [up EXCEPT ![w] = {}]
              /\ pc' = [pc EXCEPT ![w] = "pods"]
           \/ /\ up' = up
              /\ \/ pc' = [pc EXCEPT ![w] = "select"]
                 \/ pc' = [pc EXCEPT ![w] = "next"]
    BY <1>4 DEF GetNodes, Return
  <2>2. \A v \in Workers : pc'[v] = "bind" => pc[v] = "bind" /\ v # w
    BY <1>t, <2>1
  <2>3. \A m : OwnUsage(m)' = OwnUsage(m)
    <3>1. \A m : OwnPods(m)' = OwnPods(m)
      BY <2>1 DEF OwnPods
    <3> QED
      BY <1>s, <3>1, OwnUsageSums
  <2>4. \A v \in Workers : v # w => up'[v] = up[v]
    BY <1>t, <2>1
  <2> QED
    BY <2>1, <2>2, <2>3, <2>4 DEF RoomInv
<1>5. ASSUME NEW p \in Pods, CreatePod(p) \/ DeletePod(p) \/ OtherSchedulerBinds(p)
      PROVE  RoomInv'
  <2>1. UNCHANGED <<mine, up, pc, pod, saw>>
    BY <1>5 DEF CreatePod, DeletePod, OtherSchedulerBinds
  <2>2. \E x : /\ node' = [node EXCEPT ![p] = x]
               /\ x \notin KubeNodes \/ p \notin mine
    <3>1. CASE CreatePod(p)
      BY <1>k, <3>1 DEF CreatePod
    <3>2. CASE DeletePod(p)
      BY <1>k, <3>2 DEF DeletePod
    <3>3. CASE OtherSchedulerBinds(p)
      <4>1. p \notin mine
        BY <1>k, <3>3 DEF OtherSchedulerBinds, AskedInv
      <4> QED
        BY <3>3, <4>1 DEF OtherSchedulerBinds
    <3> QED
      BY <1>5, <3>1, <3>2, <3>3
  <2>3. \A n \in KubeNodes : OwnPods(n)' \subseteq OwnPods(n)
    BY <1>t, <2>1, <2>2 DEF OwnPods
  <2> QED
    BY <1>1, <2>1, <2>3
<1>6. CASE \/ Timer \/ TakePod \/ ListPods \/ ListFails \/ NextListed \/ EndOfList
           \/ \E w \in Workers : Lock(w) \/ Stop(w)
  <2>1. UNCHANGED <<mine, node, up, saw>>
    BY <1>6 DEF Timer, TakePod, ListPods, ListFails, NextListed, EndOfList, Lock, Stop
  <2>2. \A w \in Workers : pc'[w] = "bind" => pc[w] = "bind" /\ pod'[w] = pod[w]
    BY <1>6, <1>t DEF Timer, TakePod, ListPods, ListFails, NextListed, EndOfList, Lock, Stop
  <2> QED
    BY <1>1, <2>1, <2>2 DEF OwnPods
<1>7. ASSUME UNCHANGED <<mine, node, up, pc, pod, saw>>
      PROVE  RoomInv'
  BY <1>1, <1>7 DEF OwnPods
<1>8. CASE \/ WatchBreaks \/ Watcher \/ TakeError \/ Signal \/ Exit
           \/ \E w \in Workers : Panic(w)
           \/ \E p \in Pods : StartPod(p)
           \/ \E n \in KubeNodes : NodeJoins(n)
           \/ UNCHANGED vars
  BY <1>7, <1>8 DEF WatchBreaks, Watcher, Connect, ConnectFails, Decode, DecodeFails, Report,
     TakeError, Signal, Exit, Panic, StartPod, NodeJoins, vars
<1> QED
  BY <1>2, <1>3, <1>4, <1>5, <1>6, <1>8 DEF Next, Ended, Step, Cluster, Work, SchedulePod

\* Only the worker that is at its bind adds to what this scheduler bound, and it
\* fits if the worker has seen the rest.
LEMMA RoomLeftStep ==
  ASSUME TypeInv, AskedInv, RoomInv, [Next]_vars, TypeInv',
         NEW w \in Workers, NEW n \in KubeNodes,
         pc[w] = "bind", saw[w], pod[w] \in mine' \ mine, node'[pod[w]] = n
  PROVE  OwnUsage(n)' <= Alloc[n]
<1> USE DEF process, api, watch, work, history
<1>t. /\ pc \in [Workers -> WorkerPcs] /\ up \in [Workers -> SUBSET KubeNodes]
      /\ pod[w] \in Pods /\ mine \subseteq Pods
      /\ node \in [Pods -> KubeNodes \cup {"absent", "unbound", "gone"}]
      /\ Cpu \in [Pods -> Nat] /\ Alloc \in [KubeNodes -> Nat]
      /\ \A v \in Workers : pc[v] = "bind" => v = w
  BY PodConstantsOK DEF TypeInv, PodTypeOK, HasPod
<1>1. Bind(w)
  <2>1. mine' # mine
    OBVIOUS
  <2>2. \E v \in Workers : Bind(v)
    <3>1. CASE Cluster \/ Watcher
      BY <2>1, <3>1 DEF Cluster, Watcher, CreatePod, StartPod, DeletePod, OtherSchedulerBinds,
         NodeJoins, WatchBreaks, Connect, ConnectFails, Decode, DecodeFails, Report
    <3>2. CASE TakePod \/ TakeError \/ Timer \/ Signal \/ Exit \/ UNCHANGED vars
      BY <2>1, <3>2 DEF TakePod, TakeError, Timer, Signal, Exit, vars
    <3>3. ASSUME NEW v \in Workers, Lock(v) \/ Stop(v) \/ GetNodes(v) \/ GetPods(v) \/ Panic(v)
          PROVE  FALSE
      BY <2>1, <3>3 DEF Lock, Stop, GetNodes, GetPods, Panic
    <3>4. CASE ListPods \/ ListFails \/ NextListed \/ EndOfList
      BY <2>1, <3>4 DEF ListPods, ListFails, NextListed, EndOfList
    <3> QED
      BY <3>1, <3>2, <3>3, <3>4 DEF Next, Ended, Step, Work, SchedulePod
  <2> QED
    BY <1>t, <2>2 DEF Bind
<1>2. /\ mine' = mine \cup {pod[w]} /\ n \in up[w]
      /\ node' = [node EXCEPT ![pod[w]] = n]
  BY <1>1, <1>t DEF Bind
<1>3. OwnPods(n)' = OwnPods(n) \cup {pod[w]} /\ pod[w] \notin OwnPods(n)
  BY <1>t, <1>2 DEF OwnPods
<1>4. OwnUsage(n)' = SumOf(Cpu, OwnPods(n)')
  BY OwnUsageSumsNext
<1>5. SumOf(Cpu, OwnPods(n) \cup {pod[w]}) = Cpu[pod[w]] + SumOf(Cpu, OwnPods(n))
  BY <1>t, <1>3, OwnUsageIsSum, SumOfAdd
<1>6. OwnUsage(n) + Cpu[pod[w]] <= Alloc[n]
  BY <1>2 DEF RoomInv
<1>7. OwnUsage(n) \in Nat /\ Cpu[pod[w]] \in Nat /\ OwnUsage(n) = SumOf(Cpu, OwnPods(n))
  BY <1>t, OwnUsageIsSum
<1> QED
  BY <1>3, <1>4, <1>5, <1>6, <1>7

\* The room that the answer of getPods showed is still there at the bind,
\* although monitor and reconcile both bind, because both hold processorLock
\* from the one to the other: for every query, and if other answers were errors.
\* (processor.go:50, 89)
THEOREM RoomSeenIsLeftHolds == Spec => RoomSeenIsLeft
<1> DEFINE Left == \A w \in Workers, n \in KubeNodes :
             pc[w] = "bind" /\ saw[w] /\ pod[w] \in mine' \ mine /\ node'[pod[w]] = n
               => OwnUsage(n)' <= Alloc[n]
<1>1. Init => RoomInv
  BY DEF Init, RoomInv
<1>2. TypeInv /\ AskedInv /\ RoomInv /\ [Next]_vars => RoomInv'
  BY TypeInvStep, RoomInvStep
<1>3. TypeInv /\ AskedInv /\ RoomInv /\ [Next]_vars => [Left]_vars
  BY TypeInvStep, RoomLeftStep
<1>4. Init => AskedInv
  BY DEF Init, AskedInv, BoundWhereAsked, Workers
<1>5. TypeInv /\ AskedInv /\ [Next]_vars => AskedInv'
  BY AskedInvStep
<1>6. RoomSeenIsLeft <=> [][Left]_vars
  BY DEF RoomSeenIsLeft
<1> QED
  BY TypeInvInit, TypeInvStep, <1>1, <1>2, <1>3, <1>4, <1>5, <1>6, PTL DEF Spec
=============================================================================
