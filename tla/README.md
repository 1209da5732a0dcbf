# A verification project for FaasOrc

FaasOrc places the requests of a serverless platform on the nodes of an edge
network. A scheduler program keeps, per physical node, the containers that are
in use and those that are idle, decides for each request whether an idle
container takes it or a new one is started, and creates and deletes Knative
services accordingly. The same program is also a Kubernetes scheduler: the pods
of those services are bound by it to the node the placement chose. The
repository has six variants of the program in Go, with different rules for what
stays warm, and eight C++ versions of the same rules in an ns-3 simulation,
which also sends traffic for the requests it placed.

This directory models the placement and the caches of the Go programs, the pod
scheduler they share, the eight programs of the simulation and its traffic. TLC
checks them on small instances, and TLAPS proves the safety properties of every
model for every value of the constants.

Paths below are relative to `src/knative/sourceCode/` unless they start with
`src/`; a file name alone is one of `schedulerDemo/`, or, in C++, one of
`src/ns3/src/mygraph/model/`.

## 1. Inventory

### 1.1 The parts of a scheduler program

    traces, topology          scheduleRequests (one goroutine: main's own)
    read.go, zipf.go,   --->  deployRequests  -> sendResults -> updateCache, per slot
    operation.go                 |  functions in use, idle caches, use counts, memory
                                 |  createService/postService, deleteService (scaler.go)
                                 v
                              Knative / Kubernetes API server  <--- kubelets, others
                                 |  watch                ^ bind
                                 v                       |
    watchUnscheduledPods -> monitorUnscheduledPods, reconcileUnscheduledPods
    (three goroutines, processorLock; kubernetes.go, processor.go, bestprice.go)

    sendResults  --HTTP-->  traffic generator (traffic-gen/server.py)  -->  the containers

### 1.2 The parts of the simulation

    createRequests --> deployRequests, updateCache per slot --> printResult
         |  (myAlgorithm.cc, lru.cc, ..., on the structures of type.h)
         v  with the option "simu" of scratch/test-*.cc
    genTraffic --> network_controller: a ring of links, an application per served
         |         request, a sink per node
         v
    Simulator::Run: traffic_gen_application --packets, sfc_tag--> sfc_sink

### 1.3 State, operations and what makes them correct

| part | state | operations | what makes it correct |
|---|---|---|---|
| container cache (`algorithm.go`, `types.go`), and with other orders of eviction `lru/`, and node by node in turn `flame/` | active slices per node and type, an idle list per node, use counts, memory left, clock, container count, whose turn it is | `placeToCurrent`, `deployToNeighbour`, `createToCurrent`, `createNew`, `termContainers`, `updateCache` | a container is in one place; memory and use counts match the lists; lists are sorted; an eviction is justified; every slot ends |
| fixed keep-alive (`fixedcaching/`) and histogram (`histogram/`) | as the container cache, and a lifetime per container | the same, and the aging loop of `updateCache` | a container is kept for its lifetime, not less; the loop finds every expired one and ends |
| proactive (`my-proactive/`, `my-proactive-off/`) | as the container cache | the `algorithm.go` of the container cache on predicted requests | as the container cache |
| requests and topology (`operation.go`, `zipf.go`, `read.go`, `function.go`) | the requests per slot, the nodes and their distances | `genReqZipf`, `loadTopo`, `sortPhyNodes`, `createFunc` | requests come by type and ingress; a node is nearest to itself |
| pod scheduler (`main.go`, `processor.go`, `kubernetes.go`, `bestprice.go`) | `processorLock`, channels `pods`, `errc`, `doneChan`, the wait group | watch, monitor, reconcile, `fit`, `bind`, shutdown | room is not given away twice; no pod goes elsewhere than asked; no unbound pod is forgotten; both workers stop |
| Knative client (`scaler.go`) | none of its own; the services of the API | `postService`, `deleteService` | the service of a live container is not deleted |
| traffic generator (`traffic-gen/server.py`, `Gen_traffic.py`) | counters that nothing reads, a CSV file | one thread per posted result, a retry every half second for eight seconds | a retry ends |
| programs of the simulation (`myAlgorithm*.cc`, `lru.cc`, `fixedcaching.cc`, `hist.cc`, `flame.cc`, `faascache.cc`, `type.h`) | C++ maps with the same meaning, the memory recorded per slot, the report | the same rules over 125 nodes, `printResult` | as the container cache; the report counts what happened |
| traffic of the simulation (`network_controller.cc`, `traffic_gen_application.cc`, `sfc_sink.cc`, `sfc_tag.cc`) | the links and addresses, per request an application with its pending events, the tag in a packet | `genTraffic`, the handlers of the application, `Serialize`, `HandleRead` | packets leave in the slot of the request and no faster than the rate; a sink knows whose packet it reads |

The older copies under `src/knative/traffic` and `src/knative/operation`, the
annotator, the topology scripts, the functions that run in the containers and
the vendored darknet keep no state another part reads.

### 1.4 What is hard

* **Lists changed while they are ranged over.** `updateCache` of all Go programs
  deletes from the slice its loop indexes; the aging loop of `fixedcaching` and
  `histogram` deletes from the map's list while it holds an older slice header
  over the same array. Which container such a loop skips, moves twice or
  terminates depends on the lengths and on several slots of history.
* **Books that must agree.** Memory left, use counts and lists are updated at
  different places by different functions; a missed or doubled update shows
  only several slots later. In C++ several of them are passed by value.
* **Loops without a bound**: the eviction loop, the aging loop, the watch.
* **Two workers on one lock**, each deciding on free millicores that it read a
  moment before, with an API server that changes in between; a bind that is
  carried out and answered with an error; a watch that breaks with events in it.
* **Shutdown** while a worker holds the lock, waits for it, or waits in `select`.
* **Failing API calls**, whose errors are logged and dropped, and error answers
  that are taken for empty lists, since their status is not looked at.
* **Timers that cancel each other**: start, stop, on, off and send events of an
  application at one time of the simulator, with bits carried over between them.
* **Numbers that go through a byte** or wrap around: the fields of the tag, the
  bits left of a packet.

`PROJECT.json` lists these hazards one by one with the line where each bites
and the properties that would catch it.

## 2. Modules

| module | models |
|---|---|
| `PriorityList` | the list of idle containers of a node: stable sort, deletion by index (`Cache.sortList`, `Cache.delete`) |
| `Sublists` | the part of a list at some of its places, for loops that leave elements out |
| `ListProofs` | what sorting, deleting and picking return and preserve; sums over finite sets and lists |
| `PoolProofs` | the ids that lists hold after a change, how the lists show a pool (`PoolView`), the load of a pool and what a change of the lists is for it |
| `ContainerCache` | `scheduleRequests` and everything it calls in `schedulerDemo` (greedy dual), `lru` and `flame`, chosen by the variable `policy` |
| `ContainerCacheProperties` | its properties |
| `ContainerCacheProofs`, `ContainerPlacesProofs` | theorems: types, memory, order and use counts; which container is where, the balance of memory and the refinement of `WarmPool` |
| `LifetimeCache`, `LifetimeCacheProperties`, `LifetimeCacheProofs` | the same for `fixedcaching` and `histogram`, chosen by the variable `variant`; its theorems |
| `WarmPool` | the abstract specification: the life of a container under any policy |
| `PoolView` | how the lists of a scheduler show such a pool |
| `PodScheduler`, `PodSchedulerProperties`, `PodSchedulerProofs` | the three goroutines of the Kubernetes scheduler, the lock, the shutdown, and the API server around them; its theorems |
| `EdgeSimulation`, `EdgeSimulationProperties`, `EdgeSimulationProofs` | the eight programs of the simulation; its theorems |
| `EdgeNetwork`, `EdgeNetworkProperties`, `EdgeNetworkProofs` | the traffic of the simulation; its theorems |
| `MCContainerCache`, `MCLifetimeCache`, `MCPodScheduler`, `MCEdgeSimulation`, `MCEdgeNetwork` | values of the constants for TLC |

Operators whose comment begins with `Fault:` model a plausible mistake (a
dropped guard, a wrong index). No specification uses them; they are the mutated
forms that `PROJECT.json` names, and each property is violated by one of them.

### 2.1 ContainerCache

| state | code |
|---|---|
| `reqs`, `cur`, `slot` | the requests of a slot, the index in `deployRequests`, the loop variable of `scheduleRequests` |
| `robin`, `evicted` | of `flame`: `m_current_node_index_G`, and the count of `createNew`, whose loop has one round |
| `near`, `placed` | the rest of the distance slice and `succFlag` in `deployToNeighbour` |
| `active`, `cache`, `cacheKeys` | `activeFunctions_G`, `cacheMap_G`, the keys of its map |
| `mem`, `freq`, `clock`, `count` | `topo_G.Nodes[n].Mem`, `functionfreq_G`, `clock_G`, `count_G` |
| `left`, `at`, `k` | what the map ranges of `updateCache` have left, the slice they are in, the index |
| `services` | the Knative services that exist (external) |
| `policy` | which of the three programs runs; chosen once |
| `leaked` | history: containers that `updateCache` forgets |

Each loop of the code is a loop of steps: one per neighbour
(`PlaceToNeighbour`, `SkipNeighbour`), per eviction (`Evict`), and per container
moved (`CacheActive`). The order of a Go map range is a free choice. `CacheActive`
does exactly what lines 236-239 do: it deletes element `k` and goes on with
`k + 1`, so that it skips the element that moved up, and `FinishUpdate` drops
what is left. A call of the API succeeds or fails, as the constant `ApiOutcomes`
allows; the code continues in either case, and so does the model. A request that
is served by a container whose creation failed is counted as served; nothing in
the repository says otherwise.

Requests: `Batches` is every list of requests, in the order of
`genReqZipf`, in which an application's first request of a slot is at node 0 (where the
sampler puts it), and application 1 has requests in slot 0 only (line 450). How
the Zipf sampler spreads the rest depends on the trace and the exponent, and is
left open.

Priorities, in `prio` of a container:

* greedy dual: `clock + freq * cold start / size`. The quotient is a constant
  per type, `Weight`; only its order matters, so it is a natural number here and
  a float in the code.
* `lru`: the slot of the last use. It evicts the head of the list without a
  comparison, at most 1000 times, which no list here reaches.
* `flame`: the hot score `f / 2^(f - 1)`. `HotScore` is a natural number in the
  same order: 0 for no use and for more than 1075 uses, where the double
  underflows, equal for one and two uses, falling from there. A request evicts
  one container at most, and only one of lower score than its own, so a type
  without a use evicts nothing. Requests are dealt to the nodes in turn (`Turn`);
  node 0 has the first turn only, and since `createNew` takes the ID 0 for no
  node, that request is refused (`RefuseForNode`), after an eviction if there was
  one to make. The neighbour functions are in `flame` but called by nothing.

### 2.2 LifetimeCache

Its state is that of `ContainerCache` with a lifetime per container, without the
steps of the neighbour loop (`DeployToNeighbour` is one step: the code has no
other effect in between), and with `aged`, the slice header that the aging loop
holds. `Expire` writes out what Go does: the map's list closes up and is one
shorter; the last element stays where it was, behind the list and inside the
loop's slice; the service deleted is the one of the element that has moved up;
the index is stepped back, and below 0 the loop over that list ends.

`fixedcaching` has the two placements swapped: `placeToCurrent`, which is called
when an idle container was found, creates one (with the memory check and the
evictions: `MakeRoom`, `PlaceNew`, `Evict`, `Refuse`), and `createToCurrent`
creates without a check. The model has them as they are. API calls succeed
here; their failure is modelled in `ContainerCache`.

`MemBound` caps memory that is given back again and again; lifetimes below 1
are one value, since the code only compares with 1.

### 2.3 WarmPool: what every scheduler implements

`WarmPool` has one variable, the sequence of all containers ever started, and
five steps: one is started on a node with room and in use; some idle ones are
put in use; some become idle; some are lost; an idle one is terminated.
`PoolView` computes that sequence from the lists of a scheduler, and
`ImplementsPool == Pool!Spec` with `pool <- AsPool(...)` says that every step of
the scheduler is one of those five or none. A container that is in two lists
shows as `"in two places"`, which no step of `WarmPool` produces. Steps may move several
containers since `deployToNeighbour` of `LifetimeCache` and the end of
`updateCache` do. `LifetimeCache` is compared with a pool without a limit
(`Unlimited`), since its programs create without a look at the memory.

### 2.4 PodScheduler

| state | code |
|---|---|
| `wpc`, `wpod`, `stream`, `connected`, `errc` | the goroutine of `watchUnscheduledPods`, the pod it sends, the events not decoded, the connection, the buffered error channel |
| `pc`, `pod`, `up`, `todo` | per worker: where it is, its pod, the answer of `getNodes`, the list of reconcile |
| `lock`, `wg`, `stopping` | `processorLock`, the wait group, `doneChan` |
| `node`, `running`, `joined` | the API server (external): where pods are bound, which run, which nodes there are |
| `tried`, `mine`, `saw` | history |

`schedulePod` is three calls with the world moving between them: `GetNodes`,
`GetPods` (with `fit` and `selectNode`), `Bind`. Each may fail while `faults`
is below `MaxFaults`; a bind may fail after it took effect. `Unscheduled` keeps
the aliasing of `getUnscheduledPods`: with the language version of `go.mod`
(1.13), every element of the list is the address of one loop variable.
`Panic` is the nil dereference of `fit` when a pod runs on a node that
`getNodes` did not return.

`CountedPhases`: `getPods` adds two `fieldSelector` parameters to its query.
Which pods a server returns for that is not decided in the repository, so it is
a constant. `pods_bound` has a server that heeds the first, `{"Running"}`, for
which a bound pod takes no room until it runs; `pods_live` one that heeds
both. The properties that hold are proved for every value.

`getNodes`, `getPods` and `getUnscheduledPods` do not look at the status of the
answer. An error of the server whose body is JSON is decoded to a list without
items and no error, and the caller goes on with it: `GetNodes` may leave `up[w]`
empty, `Answered` may be `{}`, `ListPods` may find nothing. Every such answer
counts as a fault. `watchUnscheduledPods` and `bind` do check the status.

What holds in spite of that: `RoomSeenIsLeft` speaks of the bindings that were
decided on an answer which showed all that this scheduler has on the node
(`saw`, history), and says that the room is still there at the bind;
`CrashNeedsStaleNodes` says that a crash needs a node that joined after
`getNodes` was answered, or an error taken for an answer. That the pods fit on
their node does not hold (section 4).

The other five programs have copies of these files that differ in names, the
token and log lines.

### 2.5 EdgeSimulation

The eight C++ files are copies of one program. `Rules` is a record per program
of the points at which they differ: who looks for a container, how many it
evicts and against what it compares, whose size it subtracts, how the idle
lists are sorted, whether containers expire, what is reported. The actions are
common to all and read the record.

| state | code |
|---|---|
| `program`, `pc`, `row` | the program, where it is, the row of the request file |
| `requestMap` | `m_request_map`, with the marks of the predictive programs |
| `slot`, `cur`, `rounds`, `freed` | the loops of `deployRequests` and `createToCurrent`, and the size of the container evicted last |
| `mem`, `active`, `cache`, `freq`, `clock` | `m_topo`, `m_afs`, `m_cm`, `m_functionfreq`, `m_clock` |
| `robin`, `total` | `m_current_node_index`, `m_total_req_num` |
| `memoryLeft`, `report` | `m_memoryLeft`, `m_cold_req_num` and `m_served_req_num` |
| `created`; `born` in a container | history |

The model keeps what the C++ does and Go does not: the use counts are passed by
value, so that `m_functionfreq` stays empty (`type.h:653`); `myAlgorithm` and
`proactive` compare with a priority that was never computed, and so never evict;
`std::sort` is not stable, so equal keys come in any order (`SortedBy`); the
loop over the slots goes to the number of slots that *have* requests. A row of
the request file and of the file of predictions is any row of numbers from
`Nums`.

`updateCache` goes through the idle containers of all nodes. `Idle(n)` is what is
idle on `n` then, as a function on places: `<<0, i>>` in the list of the node, or
`<<m, i>>` among the active containers of `m`, so that containers need no names.
`Aged(n)` has a slot less to live, `Kept(n)` leaves the expired ones out, and the new list
is any order of `Kept(n)` that the sort may give.

`SimTypeOK` bounds memory from below only: `lru` and `hist` subtract the size of
the container they evicted last, so that they may count more free memory than
the node has (`sim_memory`); for the other programs `MemoryIsTrue` says more.
`ReportIsTrue` speaks of runs whose slots without requests come last, since the
loops go to the number of slots that have requests.

### 2.6 EdgeNetwork

| state | code |
|---|---|
| `requests` | `m_request_map`, what the placement left of it: ingress, deploy node, slot, served |
| `onTime`, `offTime`, `maxBits` | attributes of the application, chosen once |
| `now`, `events` | the clock and the queue of the simulator, ordered by time and, at one time, by when they were scheduled |
| `app` | per request: the socket, `m_residualBits`, `m_lastStartTime`, `m_totBytes`, whether a packet is kept that the socket refused |
| `wire`, `results` | packets that no sink has read; what the sinks computed |
| `pc` | `exited` is the `exit(1)` of `ScheduleNextTx` |

Each handler of `traffic_gen_application` is an action that takes the head of
the queue. `create_traffic` looks up the address of a node under the link that
leads to it; no link leads to node 1 under that name, so requests placed there
get no traffic (`HasAddress`), and no routes are computed, so only a node on that link
reaches the address (`Reached`): a socket elsewhere refuses every packet. The
tag is written with five fields that nobody sets, and read by dropping every
byte of the value of the filler, 255.

## 3. Runs

| run | instance | what it shows |
|---|---|---|
| `two_nodes` | greedy dual, `lru`, `flame`; 2 nodes of 3 units, types of 1 and 2 units, 4 slots, up to 6 requests | `TypeOK`, `MemoryBalance`, `NoOvercommit`, `FreqCountsUses`, `CacheSorted`, `EvictionsAreJustified`, `LiveServicesStay`, `ImplementsPool`, `EverySlotEnds` |
| `three_nodes` | the same programs, 3 nodes, 2 slots, up to 4 requests, API calls that fail | `UniqueContainers`, `ServedHaveTheirOwn`, `ColdStartOnlyIfNeeded` |
| `active_leak` | greedy dual, 2 nodes, 1 slot | violated: `updateCache` caches every active container |
| `many_neighbours` | greedy dual, 3 nodes, 2 slots | violated: a request is given one container |
| `lifetime_slots` | `fixedcaching`, `histogram`; 2 nodes, lifetime 2, 4 slots, up to 4 requests | `LifetimeTypeOK`, `IdleHaveLife`, `KeptLongEnough`, `EvictsTheOldest`, `ImplementsPool`, `FixedSlotsEnd` |
| `histogram_aging` | `histogram`, 2 nodes, lifetime 2, 3 slots, up to 5 requests | violated: every slot ends |
| `expired_services` | `fixedcaching`, the instance of `lifetime_slots` | violated: the service of an expired container goes |
| `pods_bound` | 3 pods (one foreign), 2 nodes of which one joins, 1 fault | `PodTypeOK`, `CrashNeedsStaleNodes`, `NoPodIsForgotten`, `BoundWhereAsked`, `RoomSeenIsLeft` |
| `pods_live` | 2 pods, 2 nodes, 2 faults | `EveryPodIsTried`, `ShutdownEnds` |
| `sim_caches` | all eight programs, 2 nodes, 2 types, 3 slots, every request file with at most 5 requests (3 with predictions) | `SimTypeOK`, `MemoryIsTrue`, `LifeIsAge`, `InTurn`, `ReportIsTrue`, `EvictsTheLeast`, `ColdStartOnlyIfNeeded`, `EveryRunEnds` |
| `sim_memory` | `lru` of the simulation | violated: containers fit into the memory of their node |
| `edge_network` | 2 requests, a ring of 3 nodes, 4 slots | `NetTypeOK`, `OneOfEach`, `NeverFaster`, `TagTellsRequest`, `SentInItsSlot`, `EveryRequestSends`, `SimulationEnds` |

**Why the bounds are enough.**

* *Caches.* A node of 3 units with types of 1 and 2 has every
  case of the eviction loop: no room after one eviction, room after one, two
  victims, nothing left, a victim worth more than the request. Only type 2 starts
  slower than a neighbour is far, so both outcomes of the distance test occur.
  Three containers of a type on a node are the fewest with which the sweep of
  `updateCache` skips one and goes on. Three nodes are the fewest on which one
  request can claim two neighbours. Two slots give an idle list with a history,
  three one whose priorities were computed at different times, and with the
  fourth `flame` has idle containers of different scores and evicts. `flame`
  evicts and gives up in both instances.
* *Lifetimes.* With lifetime 2, four slots let a container expire and the next
  slot see the consequences; three slots are the lifetime plus one, the shape of
  the shipped values (lifetime 29 in `histogram/function.go`, 30 slots).
* *Pods.* Two own pods that want one node with room for one are the fewest that
  can overcommit it; the foreign pod and the node that joins are what `fit` can
  trip over; one fault reaches every failing call, error answer and broken
  watch once. `pods_live` has two, the fewest with which the second error finds
  `errc` full: if the monitor never took an error, one fault would not show it.
* *Simulation.* The files of requests are exhausted up to the bound on their
  number, so every way the requests of three slots fall on nodes and types
  occurs, slots without any included. `LifeTime` 3 lets a container that was
  used in between expire at the end of slot 3.
* *Traffic.* A slot has 8 ticks and a packet 3 bits, so a slot ends within a
  packet and bits are carried over; the shipped values (a packet each 0.512 s of a
  slot of 1 s) do the same. `OnTimes` are one that is shorter than a packet, one of
  two packets, and 1000, the constant rate that the helper sets; the other
  attributes are values the application allows and the programs do not set:
  off times of 0 and 1, a limit of 6 bits or none. The ids are one that fits
  into a byte, the value of the filler and one whose byte is that of the first.
  In `edge_network` one request may be placed at any of the three nodes from
  any other; the second goes along a link.

**Deadlock** is checked in every run but `edge_network`, where the simulation
stops: `Simulator::Stop` leaves nothing to do. The other programs end by waiting for a signal
(`WaitForSignal`) or by exiting (`Ended`), which are stutters.

**Fairness.** `ContainerCache`, `LifetimeCache` and `EdgeSimulation` are one
thread that never waits for another: `WF_vars(Next)` says that it keeps running.
In `EdgeNetwork` it is `Step`, the loop of `Simulator::Run` that takes one event
after the other; nothing is assumed of what the sinks read. In `PodScheduler`
each goroutine keeps running when it can (weak fairness of its steps). Strong
fairness is assumed in two places: of `Lock`, since `sync.Mutex` hands the lock
over to a waiter that was passed over for a millisecond, and of `Stop`, since a
`select` picks at random among the ready cases and so does not pass over a closed
channel for ever. Nothing is assumed of the cluster: pods need not be created,
started or deleted, nodes need not join, and the signal need not come.

## 4. What the code does and its comments do not say

Five runs that TLC finds violated, listed with their lines in `PROJECT.json`:

1. `active_leak`: `updateCache` moves every other active container of a slice to
   the cache and forgets the rest. Their services, memory and use counts stay.
2. `many_neighbours`: `deployToNeighbour` does not stop at a success.
3. `histogram_aging`: when a container that is last in its list, and not first,
   expires, `histogram` never leaves the loop.
4. `sim_memory`: `lru` of the simulation subtracts the size of the container it
   evicted, not of the one it created (`lru.cc:637`; `hist.cc:642` too).
5. `expired_services`: the aging loop of `fixedcaching` deletes the service of the
   container behind the expired one (`fixedcaching/algorithm.go:243`; `histogram`
   has the same lines). The container that expired is forgotten and its service
   lives on; the other is handed out without one.

Met while modelling, and without a run of their own. In the Go programs:

* `clock_G` is assigned once, so priorities do not age (`algorithm.go:28` says it
  is updated in each round).
* An eviction that was not enough is not undone: the request is refused and the
  container is gone.
* A creation that failed is logged; its request counts as served, and later ones
  are given that container as a warm one.
* After a restart every list is empty and `count_G` is 0, so that new names
  collide with the services of the life before.
* `fixedcaching` never uses the idle container it found, and creates without a
  check where none was found (`fixedcaching/algorithm.go:131`), so the memory
  left goes below 0. An eviction gives memory back twice (lines 76 and 222).
* When the first container of a list expires, the aging loop of `fixedcaching`
  over that list ends, and the others keep the lifetime they had.
* A delete whose call fails is dropped too: the container is forgotten and its
  service lives on.
* `getPods` does not check the status of the answer: an error that is read as no
  pods makes a full node look empty, and a pod is bound to it
  (`kubernetes.go:234`). After such an answer to `getNodes` no node fits, or
  `fit` dereferences nil (`kubernetes.go:102`, 273).
* With a server that counts running pods only, a bound pod takes no room in `fit`
  until it runs.
* `flame` never gives node 0 a container.
* The reconciler only ever tries the last pod of its list, which may be another
  scheduler's; the others are tried because the watch brings them to the monitor. The error of
  `genRequest` is ignored (`operation.go:436`). main registers for signals only
  after `scheduleRequests` returned (`main.go:85`).

In the simulation:

* `myAlgorithm` and `proactive` compare with the priority of a request before it
  is computed, and so refuse where "this request priority is higher than the
  cached one" (`myAlgorithm.cc:656`) as well; they never evict (line 664).
* The predictive programs mark the first requests of a node as not predicted when
  more were predicted than came (`myAlgorithm-proactive.cc:462`); the comment of
  line 460 means the opposite, and a request that was not predicted is reported
  as a warm start.
* Use counts are passed by value and never change (`type.h:653`); `totalDelay`
  is added to itself; `m_memoryLeft` begins with the total in all programs but
  `myAlgorithm` (`myAlgorithm.h:102`).
* Requests placed on node 1 get no traffic; the applications of nodes that are
  not on the link of the destination send nothing.
* The sink looks at the first request of each slot only (`type.h:241`), so that it finds no
  other. A field of the tag of 255 is lost, one above is another number. `sfc_tag::SetData`
  returns nothing where a value is declared.
* With a slot without requests before the last one, the last slots are never
  placed: the loop goes to the number of slots that have requests
  (`myAlgorithm.cc:784`).
* An application that sent its `MaxBytes` ends the whole simulation (`exit(1)`).
  Requests of slot `SlotNum` never start, since `Simulator::Stop` comes first.

`active_leak` also says how the other properties must be read. `MemoryBalance`,
`FreqCountsUses`, `UniqueContainers` and `ImplementsPool` count the forgotten
containers: they say that the books are right about what exists, not that
nothing is lost.

## 5. Proofs

The theorems hold for every value of the constants that the assumptions allow:
any number of nodes, types, slots, pods and requests, any sizes, distances and
capacities, any outcome of a call. TLC checks the same formulas on the small
instances of section 3; it also checked the larger inductive invariants below
before they were proved.

### 5.1 Assumptions

* `ConstantsOK`, `PoliciesOK`, `LifetimeConstantsOK`, `PodConstantsOK`,
  `SimulationConstantsOK`, `NetworkAssumption`: the types of the constants, and what the code relies on
  of its inputs. `flame` needs a second node, whose turn it is after the last
  (`PoliciesOK`); the names of nodes are none of the words that stand for "no
  node" (`PodConstantsOK`); ids of requests differ and the requests come in the
  order of their slots (`NetworkAssumption`).
* `NodesApart`: no node is as near to another as to itself. `sortPhyNodes`
  relies on it to have the ingress first. It is in `ContainerCache` and used by
  its proofs.

No theorem has a hypothesis of its own.

### 5.2 What is proved

**`ContainerCache`**, with each of its three policies.

* `TypeCorrect`, `MemorySafe`, `CacheStaysSorted`, `FreqCorrect`
  (`ContainerCacheProofs`). `TypeOK` is not inductive: the steps of the neighbour
  and creation loops read `reqs[cur]`, so `TypeInv` adds that `cur` is an index
  of `reqs` there. `CacheStaysSorted` follows from what `ListProofs` says of
  `SortList` and `DeleteAt` and needs of the priorities only that they are
  integers, so that it holds for each order. `FreqCorrect` counts uses as the
  cardinality of a set with one element per use; `UnitsGrow` and `UnitsShrink` say
  that one use more or less is one element more or less.
* `ContainersAreUnique`, `ServedHaveOwn` and the action properties
  `ColdStartsAreNeeded`, `EvictionsJustified`, `ServicesOfLiveStay`
  (`ContainerPlacesProofs`). `Ledger` is the set of all containers, idle, busy or
  lost, with the place they are in. `PlacesInv` says that no list has a container
  twice, that no two entries of the ledger share a name and that every name was
  given out; it is needed because the sweep of `updateCache` moves elements of a
  list while it goes through it. `SearchInv` remembers which neighbours were
  passed over without an idle container, so that a creation can be blamed on
  their absence; `LruInv` says that no container was used later than in this slot,
  so that under `lru` the head of the list is always worth less than the request.
* `BooksBalance` and `SchedulerImplementsPool` (`ContainerPlacesProofs`).
  `BooksInv` counts memory as the cardinality of a set with one element per unit
  that a container of the ledger takes; `LoadInv` is the same balance against the
  load of the pool, which the refinement shows. The refinement is shown step by
  step: the initial states show an empty pool, each action is one of the five
  steps of `WarmPool` or leaves the pool as it is, and the containers that a step
  does not name are where they were.

**`LifetimeCache`** (`LifetimeCacheProofs`), in both variants:
`LifetimeTypesCorrect`, `IdleHaveLifeHolds`, the action properties
`KeptLongEnoughHolds` and `EvictsTheOldestHolds`, and the refinement
`LifetimeImplementsPool`. Besides types (`TypeInv`) the
invariant has four parts. `PhaseInv` says where `updateCache` is and that, while it
ages a list, the list of the map is the beginning of the slice the loop goes
through: that is where the aliasing of the two matters. `LifeInv` says that no list
shows an expired container, though that slice may; `IdleInv` that the slots a
container was idle and those it has left make its lifetime, and one more for those
the loop has yet to age; `OrderInv` that `fixedcaching` keeps its lists sorted by
what is left, and that behind the index everything has a slot more.

The refinement needs two invariants more. `PlacesInv` is that of `ContainerCache`: no
list has a container twice and no two entries of the ledger share a name, while
`CacheActive` fills the list of a node from a slice that it cuts at the same
time. `CountInv` bounds the containers that were started by the requests there
were, finished slots and the running one: these programs start a container
whatever room is left, and the pool they implement has room for as many
containers of the largest size as there can be requests (`RoomForAny`).

**`PodScheduler`** (`PodSchedulerProofs`): `PodTypesCorrect`,
`CrashNeedsStaleNodesHolds`, `BoundWhereAskedHolds`, `NoPodIsForgottenHolds` and the
action property `RoomSeenIsLeftHolds`, for any number of pods and nodes, any
failures and error answers, any phases that the server counts, and every
interleaving of the goroutines and the server. `TypeInv` ties the lock to the places of the workers
that hold it; `NodesInv` says that the list a worker read has only nodes that
joined and all of the first ones, unless it was an error; `AskedInv` that a pod on its way to `Bind` goes to the node it asks for;
`RoomInv` that the pod a worker is about to bind, if the worker has seen what this
scheduler has on the node, fits beside it, which lasts because the lock is held
from reading to binding: `mine` grows in `Bind` only, and what others take away
only makes room.
`NoPodIsForgotten` speaks of the time while the
watch is open.

**`EdgeNetwork`** (`EdgeNetworkProofs`): `NetTypesCorrect`, `OneOfEachHolds`,
`NeverFasterHolds`, `TagsAreRead`, and the action properties
`SentInItsSlotHolds` and `EveryRequestHasSent`.

* `NetInv` is about the queue of the simulator: it is ordered by time, holds one
  event per application and timer, and what waits for an application agrees with
  its state (`EventOK`): a packet is due when its missing bits are through, the
  stop of an open application waits, and an event that is due with the stop or
  later comes behind it (`StopsFirst`). The last is why no packet leaves in the
  first tick of the next slot. `NetTypeOK` needs all of it: that no more bits are
  carried over than a packet has follows from where its event is in the queue.
* `FitsInv` is `NeverFaster`, said of the queue; `WaitsInv` says what an
  application that has sent nothing is waiting for.
* `TagIsRead` says what `Deserialize` makes of the bytes of `Serialize`, for
  any bytes in the fields that nobody sets.

**`EdgeSimulation`** (`EdgeSimulationProofs`), for all eight programs:
`SimTypesCorrect`, `LifeIsAgeHolds`, `InTurnHolds`, `MemoryIsTrueHolds`,
`ReportIsTrueHolds`, and the action properties `EvictsTheLeastHolds` and
`ColdStartOnlyIfNeededHolds`.

* `SimInv` adds three things to the types. `freq` stays empty, so that keys are
  integers. `ListInv`: a container says the node it is on (`updateCache` files it
  by what it says), its life is its age, and lists are sorted, which makes the
  head the least. `RoundInv`: while containers are evicted for a request, the size
  of the last one is free, so that `lru` and `hist`, which subtract it, never
  count below 0.
* `MemoryIsTrue` is kept by `updateCache` since what is idle after the slot is
  either in a list again or given back (`NothingIsLost`); both sides are sums over
  places, and sorting renames the places (`SumOfRenamed`).
* `ReportInv` says of the requests looked at so far that each counts once, and of
  the others that they are neither served nor cold.

**Lists** (`ListProofs`): sorting and deleting (`SortListProperties`,
`DeleteAtKeepsSorted`), what `Picked` returns (`PickedIs`), sums over finite
sets: of one element more, of a union, of zeros, under a renaming, and the bound
that a bound on each element gives (`SumOfBounded`). tlapm knows the
function of `SelectSeq` by name but has no fact about it;
where a proof needs a list without some of its elements the model says `Picked`.

**Pools** (`PoolProofs`): what the members of the lists are after some of them
move (`MembersChange`), and what that is for the pool they show: `MovedShown`,
`StartedShown`, `DroppedShown`. Both refinements use them.

### 5.3 What is only model-checked

* Liveness, which is out of the prover's reach: `EverySlotEnds`,
  `EveryPodIsTried`, `ShutdownEnds`, `FixedSlotsEnd`, `SimulationEnds`,
  `EveryRunEnds`.

## 6. Not modelled

* The traffic generator. Its threads share two counters that nothing reads and
  the file they append to, its retry ends after eight seconds, and nothing flows
  back: the scheduler has its answer with the headers, before the request is
  sent on.
* A restart. The code has no recovery: every list is in memory and no service is
  read back.
* Reading and parsing of CSV and JSON, the numeric Zipf sampler, great circle
  distances, log lines, the 60 s sleep between slots, HTTP details other than a
  call that fails and an error answer that is decoded.
* Nodes that leave the cluster, and pods whose node is deleted under them.
* Of the Go predictive programs, the marks `isNotPredicted` and `isNotUsed`, which
  are only logged and sent along (the branch of `my-proactive/operation.go` that
  sets the second cannot be reached); of `flame`, the counts of `collectResult`
  and `printResult`.
* Of the ns-3 traffic: `PacketReceived` and the sequence numbers, whose attribute
  nobody enables; the result row of `HandleRead`, whose write is commented out;
  the callbacks `ConnectionFailed` and `HandleAccept`, of which the model keeps
  that a socket with a route connects and its packets reach `HandleRead` (the
  fatal error of the first is not met: every node listens from time 0); the stop of the sinks, which the end of the simulation precedes. Sockets, links
  and routing are ns-3's.
* Files of `src/ns3/src/mygraph/model` that its `wscript` does not build (`sfc.cc`,
  `sfc_routing.cc`, `sa_application.cc`, `dis_application.cc` and others): an
  earlier project on service chains.
* The vendored darknet, which is most of the C and C++ in the repository: a
  neural network that one of the demonstration containers runs.
* The link between the two halves of the program (a pod appears because a
  service was created): `PodScheduler` lets pods appear at any time, which
  covers it. main registers for signals only after `scheduleRequests` returned;
  `Signal` may come earlier in the model, while the code would be killed.

## 7. Plan

Done: `PriorityList`, `ContainerCache` with its theorems and three policies,
`LifetimeCache`, `WarmPool` and the refinements, `PodScheduler`,
`EdgeSimulation`, `EdgeNetwork`; theorems about all of them.

Next: `ZipfSampler`, the spread of an application's requests over the nodes, as a
recursive function.
