---------------------------- MODULE MCEdgeNetwork -----------------------------
(* Constants of the run of EdgeNetwork.                                    *)
EXTENDS EdgeNetworkProperties

\* Requests of three ids: one that fits into a byte of the tag, the value of
\* its filler, and one whose byte is that of the first.
Req(id, from, to, slot, served) ==
  [id |-> id, ingress |-> from, deploy |-> to, slot |-> slot, served |-> served]

TwoRequests ==
  {<<Req(4, m, n, s, TRUE), Req(id, 1, 2, t, served)>> :
     m \in Nodes, n \in Nodes, s \in 1 .. 2, t \in 2 .. SlotNum,
     id \in {255, 260}, served \in BOOLEAN}
=============================================================================
