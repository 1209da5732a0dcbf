------------------------ MODULE PodSchedulerProperties ------------------------
(***************************************************************************)
(* What the pod scheduler of PodScheduler promises.                        *)
(***************************************************************************)
EXTENDS PodScheduler

WorkerPcs == {"select", "lock", "list", "next", "nodes", "pods", "bind", "stopped"}

\* Every variable has its type; the lock is held by a worker that is inside
\* schedulePod or its list.  (processor.go:23)
PodTypeOK ==
  /\ state \in {"running", "crashed", "exited"} /\ stopping \in BOOLEAN
  /\ wg \in 0 .. 2
  /\ FirstNodes \subseteq joined /\ joined \subseteq KubeNodes
  /\ node \in [Pods -> KubeNodes \cup {"absent", "unbound", "gone"}]
  /\ running \subseteq {p \in Pods : Bound(p)}
  /\ connected \in BOOLEAN /\ stream \in Seq(Pods)
  /\ wpc \in {"connect", "decode", "send", "report"} /\ wpod \in 0 .. PodNum
  /\ errc \in 0 .. 1
  /\ pc \in [Workers -> WorkerPcs] /\ pod \in [Workers -> 0 .. PodNum]
  /\ up \in [Workers -> SUBSET KubeNodes] /\ todo \in Seq(Pods)
  /\ faults \in 0 .. MaxFaults /\ tried \subseteq Pods /\ mine \subseteq Pods
  /\ saw \in [Workers -> BOOLEAN]
  /\ lock \in Workers \cup {"free"}
  /\ \A w \in Workers :
       pc[w] \in {"list", "next", "nodes", "pods", "bind"} => lock = w

\* While the watch is open no unbound pod is forgotten: it has been tried, or
\* it is still on its way to the monitor.  (kubernetes.go:149-160)
NoPodIsForgotten ==
  connected =>
    \A p \in Unbound \ tried :
      \/ p \in ToSet(stream)
      \/ wpc = "send" /\ wpod = p
      \/ pod["monitor"] = p /\ pc["monitor"] \in {"lock", "nodes"}

OwnUsage(n) == MapThenSumSet(LAMBDA p : Cpu[p], OwnPods(n))

\* A pod that is bound on an answer which showed all that this scheduler has on
\* the node fits beside it all when it is bound: monitor and reconcile both
\* bind, and neither takes the room that the other one has read.
\* (processor.go:50, 89; kubernetes.go:312)
RoomSeenIsLeft ==
  [][\A w \in Workers, n \in KubeNodes :
       pc[w] = "bind" /\ saw[w] /\ pod[w] \in mine' \ mine /\ node'[pod[w]] = n
         => OwnUsage(n)' <= Alloc[n]]_vars

\* A pod is bound by this scheduler to the node its placement asked for, or not
\* at all: also when that node is full and others are not.  (bestprice.go:109)
BoundWhereAsked == \A p \in mine : node[p] \in {Wanted[p], "gone"}

\* fit finds no entry for the node of a pod only if a node joined since getNodes
\* was answered, or if an error was taken for an answer without nodes.
\* (kubernetes.go:273)
CrashNeedsStaleNodes ==
  state = "crashed" =>
    \E w \in Workers :
      /\ pc[w] = "pods"
      /\ \/ FirstNodes \subseteq up[w] /\ up[w] # joined
         \/ up[w] = {} /\ faults > 0

Over == stopping \/ state # "running"

\* Every unbound pod is tried, whatever breaks the watch or fails on the way.
\* (processor.go:49, kubernetes.go:158)
EveryPodIsTried ==
  \A p \in Pods : p \in Unbound ~> (p \in tried \/ p \notin Unbound \/ Over)

\* After the signal both goroutines stop and main exits, whoever holds the
\* lock then.  (main.go:94-98)
ShutdownEnds == stopping ~> state # "running"
=============================================================================
