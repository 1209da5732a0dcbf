------------------------ MODULE EdgeNetworkProperties -------------------------
(***************************************************************************)
(* What the traffic of the ns-3 programs has to be for a delay measured at *)
(* a sink to be the delay of the request it is booked for.                 *)
(***************************************************************************)
EXTENDS EdgeNetwork

Apps == DOMAIN requests

\* Events of an application that are pending, of these kinds.
PendingOf(a, kinds) == {i \in DOMAIN events : events[i].app = a /\ events[i].do \in kinds}

\* Type invariant of the simulator, the applications and the sinks.  The bits
\* carried over from one time on to the next never exceed a packet, whose
\* missing bits are a difference of unsigned numbers (ScheduleNextTx).
NetTypeOK ==
  /\ now \in 0 .. End
  /\ \A i \in DOMAIN events : events[i].at >= now /\ events[i].app \in {0} \cup Apps
  /\ app \in [Apps -> [socket : {"none", "open", "closed"}, residual : 0 .. PktBits,
                       lastStart : 0 .. End, sent : Nat, unsent : BOOLEAN]]
  /\ wire \in [Apps -> Nat]
  /\ pc \in {"running", "stopped", "exited"}

\* An application has one packet to send and one change between on and off at
\* most, and nothing at all before its slot and once it was stopped: what a
\* closed application still schedules would go on for ever (CancelEvents).
OneOfEach ==
  \A a \in Apps :
    /\ Cardinality(PendingOf(a, {"send"})) <= 1
    /\ Cardinality(PendingOf(a, {"on", "off"})) <= 1
    /\ app[a].socket # "open" => PendingOf(a, {"send", "on", "off"}) = {}

\* A packet of a request is sent in its slot, the first tick of it included
\* and the last one not (create_request_traffic: "we assume all reuqest are
\* finished in one sec").
SentInItsSlot ==
  [][\A a \in Apps : app'[a].sent > app[a].sent =>
       /\ now' >= requests[a].slot * SlotTicks
       /\ now' < (requests[a].slot + 1) * SlotTicks]_vars

\* However often it goes on and off and whatever the socket refuses, an
\* application sends no faster than its rate: the bits sent, those carried over
\* and those begun fit into the time since its slot began.
NeverFaster ==
  \A a \in Apps : app[a].socket = "open" =>
    app[a].sent + app[a].residual
      + (IF PendingOf(a, {"send"}) = {} THEN 0 ELSE now - app[a].lastStart)
      <= now - requests[a].slot * SlotTicks

\* A packet needs less than a slot (genTraffic: "data rate can not be too small
\* otherwise the packet will not arrive"), so a request whose node is reached
\* has sent one when its application stops, unless the socket refused the last
\* one; said of applications that never pause, as those of genTraffic.
EveryRequestSends ==
  [][\A a \in Apps :
       (StopApplication(a) /\ Reached(requests[a]) /\ PktBits < SlotTicks
          /\ offTime = 0 /\ onTime >= SlotTicks /\ ~ app[a].unsent)
         => app[a].sent > 0]_vars

\* What a sink books comes from a request that was deployed to its node: the
\* address that create_traffic looks up under (dst - 1, dst) is the one of dst.
\* While ids and slots are below 255, the tag tells the sink that request, and
\* the one it finds under the id is the same; above, the byte of the tag is
\* another one or is taken for the filler.
TagTellsRequest ==
  \A r \in results :
    LET q == requests[r.from]
    IN /\ q.served /\ q.deploy = r.node
       /\ q.id < 255 /\ q.slot < 255 =>
            r.id = q.id /\ r.slot = q.slot /\ r.found \in {0, r.from}

\* The simulation comes to its end: no application schedules event upon event
\* without time going on, which a packet with no bits left to wait for would do.
SimulationEnds == <>(pc # "running")
=============================================================================
