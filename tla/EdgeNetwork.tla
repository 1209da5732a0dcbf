----------------------------- MODULE EdgeNetwork ------------------------------
(***************************************************************************)
(* The traffic of the ns-3 programs (genTraffic, network_controller.cc,    *)
(* traffic_gen_application.cc, sfc_sink.cc, sfc_tag.cc): the nodes form a  *)
(* ring of links; every request that was served gets an application on the *)
(* node it arrived at, which sends packets to the node its container runs  *)
(* on, for one slot; a sink on every node reads the tag of what arrives.   *)
(*                                                                         *)
(* The simulator runs one event after the other, those of one time in the  *)
(* order they were scheduled in.  Time counts in bits: a tick is what the  *)
(* rate of an application needs for one, so that a packet of PktBits takes *)
(* PktBits ticks.  Sockets, links and routes are ns-3's, not this code's.  *)
(***************************************************************************)
EXTENDS Integers, Sequences, FiniteSets, SequencesExt, Sublists

CONSTANTS
  NodeNum,        \* m_topo.size()
  SlotNum,        \* m_slot_num, and the end that the programs give Simulator::Stop
  SlotTicks,      \* m_time_slot_length
  PktBits,        \* m_pktSize * 8
  OnTimes, OffTimes, MaxBits, \* attributes of the application: sets of choices
  RequestMaps,    \* possible m_request_map: sequences in the order of the slots
  JunkBytes       \* what a field of requestTag holds that nobody writes

Nodes == 1 .. NodeNum
End   == SlotNum * SlotTicks

ASSUME NetworkAssumption ==
  /\ NodeNum \in Nat \ {0, 1} /\ SlotNum \in Nat \ {0}
  /\ SlotTicks \in Nat \ {0} /\ PktBits \in Nat \ {0}
  /\ OnTimes \subseteq Nat \ {0} /\ OffTimes \subseteq Nat /\ MaxBits \subseteq Nat
  /\ RequestMaps \subseteq Seq([id : Nat, ingress : Nat, deploy : Nat,
                             slot : Nat, served : BOOLEAN])
  /\ \A m \in RequestMaps : \A i, j \in DOMAIN m :
       i < j => m[i].id # m[j].id /\ m[i].slot <= m[j].slot
  /\ JunkBytes \subseteq 0 .. 255

VARIABLES
  requests, onTime, offTime, maxBits, \* chosen once
  now, events,    \* the simulator's clock and its queue, sorted by time
  app,            \* request |-> the state of its application
  wire,           \* request |-> bits of its packets that no sink has read yet
  results,        \* what the sinks computed from the tags they read
  pc              \* "running", "stopped", "exited" (exit(1)), "aborted"

choices == <<requests, onTime, offTime, maxBits>>
vars == <<choices, now, events, app, wire, results, pc>>

-----------------------------------------------------------------------------
(* The ring and its addresses. *)

\* Link i leads from node i to the next one, the last one back to node 1.
Links == {<<i, i + 1>> : i \in 1 .. NodeNum - 1} \cup {<<NodeNum, 1>>}

\* The address that stands for node dst: the side of a link it is on, the
\* second (1) of the link before it or the first (0) of one that leads back.
\* Node 1 has none, unless a link leads to node 0.
Address(dst) ==
  CASE <<dst - 1, dst>> \in Links -> [link |-> <<dst - 1, dst>>, side |-> 1]
    [] <<dst, dst - 1>> \in Links /\ <<dst - 1, dst>> \notin Links
         -> [link |-> <<dst, dst - 1>>, side |-> 0]
    [] OTHER -> [link |-> <<>>, side |-> 0]

HasAddress(dst) == Address(dst).link # <<>>
Owner(a) == a.link[a.side + 1]

\* No routes are computed: only a node on the link reaches its addresses.
Reached(r) == \E k \in 1 .. 2 : Address(r.deploy).link[k] = r.ingress

-----------------------------------------------------------------------------
(* The queue of the simulator. *)

Event(t, a, what) == [at |-> t, app |-> a, do |-> what]

Schedule(q, e) ==
  InsertAt(q, SelectLastInSeq(q, LAMBDA x : x.at <= e.at) + 1, e)

\* The kinds of events an application cancels.
Own == {"send", "on", "off"}

\* Fault: m_startStopEvent stays.
OnlySend == {"send"}

Cancelled == Own

Cancel(q, a) == Picked(q, {i \in DOMAIN q : ~ (q[i].app = a /\ q[i].do \in Cancelled)})

-----------------------------------------------------------------------------
(* Set-up. *)

StartAt(r) == r.slot * SlotTicks
\* Fault: the 1 is added to the time and not to the slot.
StopTooEarly(r) == r.slot * SlotTicks + 1
\* Fault: the end is a slot and not a time.
StopOfSlot(r) == r.slot + 1
StopAt(r) == (r.slot + 1) * SlotTicks

\* The loop of genTraffic counts to the number of slots that have requests.
Visited(m) == 1 .. Cardinality({m[i].slot : i \in DOMAIN m})

HasTraffic(m, i) ==
  m[i].slot \in Visited(m) /\ m[i].served /\ HasAddress(m[i].deploy)

\* The events q and those of request i, which starts and stops an application.
WithTraffic(q, m, i) ==
  IF HasTraffic(m, i)
  THEN Schedule(Schedule(q, Event(StartAt(m[i]), i, "start")),
                Event(StopAt(m[i]), i, "stop"))
  ELSE q

\* Simulator::Stop is called before the applications schedule anything.
FirstEvents(m) ==
  LET Upto[n \in 0 .. Len(m)] ==
        IF n = 0 THEN <<Event(End, 0, "end")>> ELSE WithTraffic(Upto[n - 1], m, n)
  IN Upto[Len(m)]

NoApp == [socket |-> "none", residual |-> 0, lastStart |-> 0,
          sent |-> 0, unsent |-> FALSE]

Init ==
  /\ requests \in RequestMaps
  /\ onTime \in OnTimes /\ offTime \in OffTimes /\ maxBits \in MaxBits
  /\ now = 0 /\ events = FirstEvents(requests)
  /\ app = [i \in DOMAIN requests |-> NoApp]
  /\ wire = [i \in DOMAIN requests |-> 0]
  /\ results = {} /\ pc = "running"

-----------------------------------------------------------------------------
(* The application of a request. *)

\* The next event is one of this kind for application a; it takes the clock
\* to its time.
Due(a, what) ==
  /\ pc = "running"
  /\ Head(events).app = a /\ Head(events).do = what
  /\ now' = Head(events).at

Pending(q, a, what) == \E i \in DOMAIN q : q[i].app = a /\ q[i].do = what

\* Bits of the packet that is due, counted since the last one.
Begun(a, t) == t - app[a].lastStart

\* CancelEvents at time t: the bits begun are kept, the packet that the
\* socket refused is not.
CancelEvents(a, t) ==
  [app[a] EXCEPT
     !.residual = @ + IF Pending(events, a, "send") THEN Begun(a, t) ELSE 0,
     !.unsent = FALSE]

StartApplication(a) ==
  /\ Due(a, "start")
  /\ app' = [app EXCEPT ![a] = [CancelEvents(a, now') EXCEPT !.socket = "open"]]
  /\ events' = Schedule(Cancel(Tail(events), a), Event(now' + offTime, a, "on"))
  /\ UNCHANGED <<choices, wire, results, pc>>

StopApplication(a) ==
  /\ Due(a, "stop")
  /\ app' = [app EXCEPT ![a] = [CancelEvents(a, now') EXCEPT !.socket = "closed"]]
  /\ events' = Cancel(Tail(events), a)
  /\ UNCHANGED <<choices, wire, results, pc>>

MayGoOn(s) == maxBits = 0 \/ s.sent < maxBits
Overflows(s) == s.residual > PktBits

\* ScheduleNextTx for an application in state s at time t, with the events q
\* pending and one more of them, or none, to follow: the next packet, NS_ABORT, or, when all
\* is sent, StopApplication and exit(1), which ends the whole simulation.
ScheduleNextTx(a, s, q, t, more) ==
  /\ app' = [app EXCEPT ![a] = IF MayGoOn(s) THEN s ELSE [s EXCEPT !.socket = "closed"]]
  /\ pc' = CASE ~ MayGoOn(s) -> "exited" [] MayGoOn(s) /\ Overflows(s) -> "aborted"
             [] OTHER -> pc
  /\ events' = IF pc' # "running" THEN Cancel(q, a)
               ELSE LET sending == Schedule(q, Event(t + PktBits - s.residual, a, "send"))
                  IN IF more = <<>> THEN sending ELSE Schedule(sending, Head(more))

\* Fault: the clock of the packet runs on while the application is off.
Unmoved(s, t) == s
Restarted(s, t) == [s EXCEPT !.lastStart = t]

StartSending(a) ==
  /\ Due(a, "on")
  /\ ScheduleNextTx(a, Restarted(app[a], now'), Tail(events), now',
                    <<Event(now' + onTime, a, "off")>>)
  /\ UNCHANGED <<choices, wire, results>>

StopSending(a) ==
  /\ Due(a, "off")
  /\ app' = [app EXCEPT ![a] = CancelEvents(a, now')]
  /\ events' = Schedule(Cancel(Tail(events), a), Event(now' + offTime, a, "on"))
  /\ UNCHANGED <<choices, wire, results, pc>>

\* The application after a packet that the socket took or not, at time t.
\* Fault: the bits counted before the packet stay.
SentKeepingBits(s, t, taken) ==
  [s EXCEPT !.lastStart = t, !.unsent = ~ taken, !.sent = @ + IF taken THEN PktBits ELSE 0]
AfterSend(s, t, taken) ==
  [s EXCEPT !.residual = 0, !.lastStart = t, !.unsent = ~ taken,
            !.sent = @ + IF taken THEN PktBits ELSE 0]

\* A socket that is open refuses a packet when its buffer is full, and every
\* packet when there was no route to connect along.
SendPacket(a) ==
  /\ Due(a, "send")
  /\ \E taken \in BOOLEAN :
       /\ taken => app[a].socket = "open" /\ Reached(requests[a])
       /\ wire' = [wire EXCEPT ![a] = @ + IF taken THEN PktBits ELSE 0]
       /\ ScheduleNextTx(a, AfterSend(app[a], now', taken), Tail(events), now', <<>>)
  /\ UNCHANGED <<choices, results>>

\* Simulator::Stop: what is pending is dropped, the sinks' own end included.
EndSimulation ==
  /\ Due(0, "end")
  /\ pc' = "stopped" /\ events' = <<>>
  /\ UNCHANGED <<choices, app, wire, results>>

-----------------------------------------------------------------------------
(* The tag and the sinks. *)

\* Serialize: every field as one byte; create_traffic sets the first and the
\* last one, the five between hold what they held.
TagBytes(r, junk) == <<r.id % 256>> \o junk \o <<r.slot % 256>>

Filled(bytes) == bytes \o [i \in 1 .. 20 - Len(bytes) |-> 255]

\* Fault: the filler is kept.
AllBytes(bytes) == bytes
\* Deserialize drops the filler, and every field of that value.
Deserialize(bytes) == Picked(bytes, {i \in DOMAIN bytes : bytes[i] # 255})

\* setRequestTag takes the first byte for the id and the last for the slot.
ReadTag(r, junk) ==
  LET b == Deserialize(Filled(TagBytes(r, junk))) IN [id |-> Head(b), slot |-> Last(b)]

\* RequestsMap::find looks at the first request of each slot, in their order,
\* and not at the slot it is given; 0 when no one has the id.
FirstOfSlot(i) == \A j \in 1 .. i - 1 : requests[j].slot # requests[i].slot
Find(id) ==
  LET found == {i \in DOMAIN requests : FirstOfSlot(i) /\ requests[i].id = id}
  IN IF found = {} THEN 0 ELSE CHOOSE i \in found : \A j \in found : i <= j

\* The sink reads some of the bits that came from one application.
HandleRead(a) ==
  /\ pc = "running" /\ wire[a] > 0
  /\ \E n \in 1 .. wire[a] : wire' = [wire EXCEPT ![a] = @ - n]
  /\ \E junk \in [1 .. 5 -> JunkBytes] :
       LET tag == ReadTag(requests[a], junk)
       IN results' = results \cup {[from |-> a, node |-> Owner(Address(requests[a].deploy)),
                                    id |-> tag.id, slot |-> tag.slot, found |-> Find(tag.id)]}
  /\ UNCHANGED <<choices, now, events, app, pc>>

-----------------------------------------------------------------------------
Next ==
  \/ \E a \in DOMAIN requests :
       \/ StartApplication(a) \/ StopApplication(a)
       \/ StartSending(a) \/ StopSending(a)
       \/ SendPacket(a) \/ HandleRead(a)
  \/ EndSimulation

\* Simulator::Run takes one event after the other.
Step ==
  \/ \E a \in DOMAIN requests :
       \/ StartApplication(a) \/ StopApplication(a)
       \/ StartSending(a) \/ StopSending(a) \/ SendPacket(a)
  \/ EndSimulation

Spec == Init /\ [][Next]_vars /\ WF_vars(Step)
=============================================================================
