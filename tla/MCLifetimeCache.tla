---------------------------- MODULE MCLifetimeCache ----------------------------
(***************************************************************************)
(* Small instances of LifetimeCache.                                       *)
(***************************************************************************)
EXTENDS LifetimeCacheProperties

\* As in MCContainerCache: only type 2 starts so slowly that a neighbour is
\* the better choice, and two of them do not fit on one node.
MCSize == <<1, 2>>
MCColdStart == <<1, 4>>
MCWeight == <<1, 2>>
MCLatency == [m \in Nodes |-> [n \in Nodes |-> IF m = n THEN 0 ELSE 1]]
=============================================================================
