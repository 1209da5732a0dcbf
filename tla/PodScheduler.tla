----------------------------- MODULE PodScheduler -----------------------------
(***************************************************************************)
(* The Kubernetes scheduler that binds the pods of the services to nodes   *)
(* (schedulerDemo: main.go, processor.go, kubernetes.go, bestprice.go; the *)
(* other schedulers have the same files).                                  *)
(*                                                                         *)
(* A goroutine reads the watch of unscheduled pods and hands them one by   *)
(* one to monitorUnscheduledPods; reconcileUnscheduledPods lists the       *)
(* unscheduled pods every 50 ms.  Both call schedulePod under              *)
(* processorLock: it reads the nodes, then the pods, and binds the pod to  *)
(* the node that the placement wrote into its environment.                 *)
(*                                                                         *)
(* External, and modelled by what the code uses of it: the API server, the *)
(* kubelets that start pods, and the scheduler of the other pods.          *)
(***************************************************************************)
EXTENDS Integers, Sequences, FiniteSets, SequencesExt, FiniteSetsExt

CONSTANTS
  PodNum,        \* pods are 1 .. PodNum, in the order the API lists them
  KubeNodes,     \* names of Kubernetes nodes
  FirstNodes,    \* the ones that are there from the beginning
  Wanted,        \* Wanted[p]: node whose label is the phynodeid of p
  NoNode,        \* Wanted[p] of a pod without phynodeid or without such a node
  Annotated,     \* pods annotated with the name of this scheduler
  Foreign,       \* pods that another scheduler binds
  Cpu,           \* Cpu[p]: millicores that the containers of p request
  Alloc,         \* Alloc[n]: allocatable millicores of node n
  CountedPhases, \* phases of the pods that the query of getPods returns
  MaxFaults      \* bound: calls and connections that fail

Pods == 1 .. PodNum

ASSUME PodConstantsOK ==
  /\ PodNum \in Nat
  /\ FirstNodes \subseteq KubeNodes /\ NoNode \notin KubeNodes
  /\ KubeNodes \cap {"absent", "unbound", "gone"} = {}  \* what node[p] says of no node
  /\ Wanted \in [Pods -> KubeNodes \cup {NoNode}]
  /\ Annotated \subseteq Pods /\ Foreign \subseteq Pods
  /\ Cpu \in [Pods -> Nat] /\ Alloc \in [KubeNodes -> Nat]
  /\ CountedPhases \subseteq {"Pending", "Running"}
  /\ MaxFaults \in Nat

Workers == {"monitor", "reconcile"}

VARIABLES
  state,     \* of the process: "running", "crashed" or "exited"
  stopping,  \* doneChan is closed
  wg,        \* goroutines main still waits for
  joined,    \* API: the nodes
  node,      \* API: nodeName of a pod, or "absent", "unbound", "gone"
  running,   \* API: pods whose phase is Running
  connected, \* API: the watch is open
  stream,    \* pods of the ADDED events not decoded yet
  wpc,       \* where the goroutine of watchUnscheduledPods is
  wpod,      \* the pod it sends on the channel pods
  errc,      \* errors in the buffered channel errc, 0 or 1
  lock,      \* holder of processorLock, or "free"
  pc,        \* where each worker is
  pod,       \* the pod it schedules
  up,        \* the answer of its getNodes, then the node selected from it
  todo,      \* pods of the list that reconcile has not scheduled yet
  faults,    \* failures so far
  tried,     \* history: pods schedulePod was called for
  mine,      \* history: pods this scheduler bound
  saw        \* history: a worker chose its node knowing all of mine on it

api     == <<joined, node, running>>
watch   == <<connected, stream, wpc, wpod>>
work    == <<lock, pc, pod, up, todo>>
process == <<state, stopping, wg>>
history == <<tried, mine, saw>>
vars == <<process, api, watch, errc, work, faults, history>>

-----------------------------------------------------------------------------
(* The API server (external).                                              *)

Unbound == {p \in Pods : node[p] = "unbound"}
Bound(p) == node[p] \in KubeNodes
InOrder(S) == CHOOSE s \in SetToSeqs(S) : \A i, j \in DOMAIN s : i < j => s[i] < s[j]
Phase(p) == IF p \in running THEN "Running" ELSE "Pending"

\* An ADDED event is sent to the watch if it is open.
CreatePod(p) ==
  /\ node[p] = "absent"
  /\ node' = [node EXCEPT ![p] = "unbound"]
  /\ stream' = IF connected THEN Append(stream, p) ELSE stream
  /\ UNCHANGED <<process, joined, running, connected, wpc, wpod, errc, work,
                 faults, history>>

StartPod(p) ==
  /\ Bound(p) /\ p \notin running
  /\ running' = running \cup {p}
  /\ UNCHANGED <<process, joined, node, watch, errc, work, faults, history>>

\* A service is deleted or scaled to zero.
DeletePod(p) ==
  /\ node[p] \notin {"absent", "gone"}
  /\ node' = [node EXCEPT ![p] = "gone"] /\ running' = running \ {p}
  /\ UNCHANGED <<process, joined, watch, errc, work, faults, history>>

OtherSchedulerBinds(p) ==
  /\ p \in Foreign /\ node[p] = "unbound"
  /\ \E n \in joined : node' = [node EXCEPT ![p] = n]
  /\ UNCHANGED <<process, joined, running, watch, errc, work, faults, history>>

NodeJoins(n) ==
  /\ n \notin joined /\ joined' = joined \cup {n}
  /\ UNCHANGED <<process, node, running, watch, errc, work, faults, history>>

\* What was sent already may be read still or be lost.
WatchBreaks ==
  /\ connected /\ faults < MaxFaults /\ faults' = faults + 1
  /\ connected' = FALSE /\ stream' \in {stream, <<>>}
  /\ UNCHANGED <<process, api, wpc, wpod, errc, work, history>>

\* A call of a worker fails.
Fault == faults < MaxFaults /\ faults' = faults + 1

-----------------------------------------------------------------------------
(* The goroutine of watchUnscheduledPods.                                  *)

\* The answer starts with an ADDED event for every pod that is unbound.
Connect ==
  /\ wpc = "connect"
  /\ connected' = TRUE /\ stream' = InOrder(Unbound) /\ wpc' = "decode"
  /\ UNCHANGED <<process, api, wpod, errc, work, faults, history>>

ConnectFails ==
  /\ wpc = "connect" /\ Fault
  /\ wpc' = "report"
  /\ UNCHANGED <<process, api, connected, stream, wpod, errc, work, history>>

\* Fault: an event is dropped when the monitor is not waiting for it.
DecodeOrDrop ==
  /\ wpc = "decode" /\ stream # <<>>
  /\ stream' = Tail(stream)
  /\ IF pc["monitor"] = "select" THEN wpc' = "send" /\ wpod' = Head(stream)
                                 ELSE UNCHANGED <<wpc, wpod>>
  /\ UNCHANGED <<process, api, connected, errc, work, faults, history>>

\* Events of another type than ADDED are passed over.
Decode ==
  /\ wpc = "decode" /\ stream # <<>>
  /\ stream' = Tail(stream) /\ wpc' = "send" /\ wpod' = Head(stream)
  /\ UNCHANGED <<process, api, connected, errc, work, faults, history>>

DecodeFails ==
  /\ wpc = "decode" /\ stream = <<>> /\ ~connected
  /\ wpc' = "report"
  /\ UNCHANGED <<process, api, connected, stream, wpod, errc, work, faults,
                 history>>

\* errc <- err blocks while an error is in it; then it connects again.
Report ==
  /\ wpc = "report" /\ errc = 0
  /\ errc' = 1 /\ wpc' = "connect"
  /\ UNCHANGED <<process, api, connected, stream, wpod, work, faults, history>>

-----------------------------------------------------------------------------
(* schedulePod, with processorLock held.                                   *)

\* Where worker w goes on when schedulePod returns: monitor unlocks, and
\* reconcile takes the next pod of its list.
Return(w) ==
  IF w = "monitor"
    THEN lock' = "free" /\ pc' = [pc EXCEPT ![w] = "select"]
    ELSE UNCHANGED lock /\ pc' = [pc EXCEPT ![w] = "next"]

\* Fault: it asks only for the node that the pod wants.
GetNodesWanted(w) ==
  /\ pc[w] = "nodes"
  /\ tried' = tried \cup {pod[w]} /\ pc' = [pc EXCEPT ![w] = "pods"]
  /\ up' = [up EXCEPT ![w] = joined \cap {Wanted[pod[w]]}]
  /\ UNCHANGED <<process, api, watch, errc, lock, pod, todo, faults, mine, saw>>

\* The status of the answer is not looked at: an error with a body in JSON is
\* read as a list without nodes.
GetNodes(w) ==
  /\ pc[w] = "nodes"
  /\ tried' = tried \cup {pod[w]}
  /\ \/ /\ \/ up' = [up EXCEPT ![w] = joined] /\ UNCHANGED faults
           \/ up' = [up EXCEPT ![w] = {}] /\ Fault
        /\ pc' = [pc EXCEPT ![w] = "pods"] /\ UNCHANGED lock
     \/ Fault /\ Return(w) /\ UNCHANGED up
  /\ UNCHANGED <<process, api, watch, errc, pod, todo, mine, saw>>

Counted == {p \in Pods : Bound(p) /\ Phase(p) \in CountedPhases}

\* The pods that getPods returns; the status is not looked at here either.
Answered(listed) == \/ listed = Counted /\ UNCHANGED faults
                    \/ listed = {} /\ Fault

Usage(listed, n) == MapThenSumSet(LAMBDA p : Cpu[p], {p \in listed : node[p] = n})

\* The nodes of fit: those of getNodes that have enough free millicores.
Room(w, listed) == {n \in up[w] : Alloc[n] - Usage(listed, n) >= Cpu[pod[w]]}

\* Fault: a pod whose node has no room goes to any node that has.
AnyOf(w, listed) ==
  {n \in Room(w, listed) : Wanted[pod[w]] \in Room(w, listed) => n = Wanted[pod[w]]}

\* selectNode: the node whose label index is the phynodeid of the pod.
Selected(w, listed) == {n \in Room(w, listed) : n = Wanted[pod[w]]}

\* A pod on a node that getNodes did not return: its entry in resourceUsage is
\* nil.
NilUsage(w, listed) == \E p \in listed : Cpu[p] > 0 /\ node[p] \notin up[w]

OwnPods(n) == {p \in mine : node[p] = n}

GetPods(w) ==
  /\ pc[w] = "pods"
  /\ \/ \E listed \in {Counted, {}} :
          /\ Answered(listed) /\ ~NilUsage(w, listed)
          /\ \/ /\ \E n \in Selected(w, listed) :
                     /\ up' = [up EXCEPT ![w] = {n}]
                     /\ saw' = [saw EXCEPT ![w] = OwnPods(n) \subseteq listed]
                /\ pc' = [pc EXCEPT ![w] = "bind"] /\ UNCHANGED lock
             \/ Selected(w, listed) = {} /\ Return(w) /\ UNCHANGED <<up, saw>>
     \/ Fault /\ Return(w) /\ UNCHANGED <<up, saw>>
  /\ UNCHANGED <<process, api, watch, errc, pod, todo, tried, mine>>

\* A nil dereference in a goroutine ends the process.
Panic(w) ==
  /\ pc[w] = "pods" /\ NilUsage(w, Counted)
  /\ state' = "crashed"
  /\ UNCHANGED <<stopping, wg, api, watch, errc, work, faults, history>>

\* The server binds an unbound pod only; an error is only logged, and it may
\* come after the pod was bound.  The event that is posted then changes nothing.
Bind(w) ==
  /\ pc[w] = "bind"
  /\ \/ /\ node[pod[w]] = "unbound"
        /\ \E n \in up[w] : node' = [node EXCEPT ![pod[w]] = n]
        /\ mine' = mine \cup {pod[w]}
        /\ (UNCHANGED faults \/ Fault)
     \/ node[pod[w]] # "unbound" /\ UNCHANGED <<node, mine, faults>>
     \/ Fault /\ UNCHANGED <<node, mine>>
  /\ Return(w) /\ saw' = [saw EXCEPT ![w] = FALSE]
  /\ UNCHANGED <<process, joined, running, watch, errc, pod, up, todo, tried>>

-----------------------------------------------------------------------------
(* The two workers.                                                        *)

TakePod ==
  /\ pc["monitor"] = "select" /\ wpc = "send"
  /\ pod' = [pod EXCEPT !["monitor"] = wpod] /\ wpc' = "decode"
  /\ pc' = [pc EXCEPT !["monitor"] = "lock"]
  /\ UNCHANGED <<process, api, connected, stream, wpod, errc, lock, up, todo,
                 faults, history>>

TakeError ==
  /\ pc["monitor"] = "select" /\ errc = 1
  /\ errc' = 0
  /\ UNCHANGED <<process, api, watch, work, faults, history>>

Timer ==
  /\ pc["reconcile"] = "select"
  /\ pc' = [pc EXCEPT !["reconcile"] = "lock"]
  /\ UNCHANGED <<process, api, watch, errc, lock, pod, up, todo, faults, history>>

\* Fault: the monitor forgets to take the lock.
LockReconcileOnly(w) ==
  /\ pc[w] = "lock"
  /\ IF w = "monitor" THEN UNCHANGED lock ELSE lock = "free" /\ lock' = w
  /\ pc' = [pc EXCEPT ![w] = IF w = "monitor" THEN "nodes" ELSE "list"]
  /\ UNCHANGED <<process, api, watch, errc, pod, up, todo, faults, history>>

\* processorLock.Lock; monitor has its pod already.
Lock(w) ==
  /\ pc[w] = "lock" /\ lock = "free"
  /\ lock' = w
  /\ pc' = [pc EXCEPT ![w] = IF w = "monitor" THEN "nodes" ELSE "list"]
  /\ UNCHANGED <<process, api, watch, errc, pod, up, todo, faults, history>>

\* getUnscheduledPods: one element per annotated pod, and each of them points
\* to the loop variable, which holds the last pod of the answer.  An error
\* whose status is not looked at is an empty list.
Unscheduled ==
  IF Unbound = {} THEN <<>>
  ELSE [i \in 1 .. Cardinality(Unbound \cap Annotated) |-> Max(Unbound)]

ListPods ==
  /\ pc["reconcile"] = "list"
  /\ \/ todo' = Unscheduled /\ UNCHANGED faults
     \/ todo' = <<>> /\ Fault
  /\ pc' = [pc EXCEPT !["reconcile"] = "next"]
  /\ UNCHANGED <<process, api, watch, errc, lock, pod, up, history>>

\* Fault: the early return on an error does not unlock.
ListFailsLocked ==
  /\ pc["reconcile"] = "list" /\ Fault
  /\ pc' = [pc EXCEPT !["reconcile"] = "select"]
  /\ UNCHANGED <<process, api, watch, errc, lock, pod, up, todo, history>>

ListFails ==
  /\ pc["reconcile"] = "list" /\ Fault
  /\ lock' = "free" /\ pc' = [pc EXCEPT !["reconcile"] = "select"]
  /\ UNCHANGED <<process, api, watch, errc, pod, up, todo, history>>

NextListed ==
  /\ pc["reconcile"] = "next" /\ todo # <<>>
  /\ pod' = [pod EXCEPT !["reconcile"] = Head(todo)] /\ todo' = Tail(todo)
  /\ pc' = [pc EXCEPT !["reconcile"] = "nodes"]
  /\ UNCHANGED <<process, api, watch, errc, lock, up, faults, history>>

EndOfList ==
  /\ pc["reconcile"] = "next" /\ todo = <<>>
  /\ lock' = "free" /\ pc' = [pc EXCEPT !["reconcile"] = "select"]
  /\ UNCHANGED <<process, api, watch, errc, pod, up, todo, faults, history>>

\* Fault: the goroutine returns without wg.Done.
StopSilently(w) ==
  /\ pc[w] = "select" /\ stopping
  /\ pc' = [pc EXCEPT ![w] = "stopped"] /\ UNCHANGED wg
  /\ UNCHANGED <<state, stopping, api, watch, errc, lock, pod, up, todo, faults,
                 history>>

Stop(w) ==
  /\ pc[w] = "select" /\ stopping
  /\ pc' = [pc EXCEPT ![w] = "stopped"] /\ wg' = wg - 1
  /\ UNCHANGED <<state, stopping, api, watch, errc, lock, pod, up, todo, faults,
                 history>>

-----------------------------------------------------------------------------
(* main, which waits for the signal once scheduleRequests has returned.    *)

Signal ==
  /\ ~stopping /\ stopping' = TRUE
  /\ UNCHANGED <<state, wg, api, watch, errc, work, faults, history>>

Exit ==
  /\ stopping /\ wg = 0
  /\ state' = "exited"
  /\ UNCHANGED <<stopping, wg, api, watch, errc, work, faults, history>>

Init ==
  /\ state = "running" /\ stopping = FALSE /\ wg = 2
  /\ joined = FirstNodes /\ node = [p \in Pods |-> "absent"] /\ running = {}
  /\ connected = FALSE /\ stream = <<>> /\ wpc = "connect" /\ wpod = 0
  /\ errc = 0
  /\ lock = "free" /\ pc = [w \in Workers |-> "select"]
  /\ pod = [w \in Workers |-> 0] /\ up = [w \in Workers |-> {}] /\ todo = <<>>
  /\ faults = 0 /\ tried = {} /\ mine = {} /\ saw = [w \in Workers |-> FALSE]

Cluster ==
  \/ \E p \in Pods : \/ CreatePod(p) \/ StartPod(p) \/ DeletePod(p)
                     \/ OtherSchedulerBinds(p)
  \/ \E n \in KubeNodes : NodeJoins(n)
  \/ WatchBreaks

Watcher == Connect \/ ConnectFails \/ Decode \/ DecodeFails \/ Report

SchedulePod(w) == GetNodes(w) \/ GetPods(w) \/ Panic(w) \/ Bind(w)

\* Everything a worker does on its own once it has left its select.
Work(w) == \/ SchedulePod(w)
           \/ w = "reconcile" /\ (ListPods \/ ListFails \/ NextListed \/ EndOfList)

Step == \/ Cluster \/ Watcher \/ TakePod \/ TakeError \/ Timer
        \/ \E w \in Workers : Lock(w) \/ Work(w) \/ Stop(w)
        \/ Signal \/ Exit

Ended == state # "running" /\ UNCHANGED vars

Next == (state = "running" /\ Step) \/ Ended

\* Goroutines run on.  sync.Mutex hands the lock to a waiter that was passed
\* over for a millisecond, and a select whose doneChan is closed does not pass
\* it over forever.
Alive(A) == state = "running" /\ A
Fairness ==
  /\ WF_vars(Alive(Watcher)) /\ WF_vars(Alive(TakePod)) /\ WF_vars(Alive(TakeError))
  /\ WF_vars(Alive(Timer)) /\ WF_vars(Alive(Exit))
  /\ \A w \in Workers : /\ WF_vars(Alive(Work(w)))
                        /\ SF_vars(Alive(Lock(w))) /\ SF_vars(Alive(Stop(w)))

Spec == Init /\ [][Next]_vars /\ Fairness
=============================================================================
