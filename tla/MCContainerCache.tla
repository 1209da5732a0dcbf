---------------------------- MODULE MCContainerCache ----------------------------
(***************************************************************************)
(* Small instances of ContainerCache.                                      *)
(***************************************************************************)
EXTENDS ContainerCacheProperties

\* The weights are ColdStart[t] / Size[t].  A container of type 2 takes two of
\* the three units of a node and is worth the more the oftener it is used; only
\* type 2 starts so slowly that a neighbour is the better choice.
MCSize == <<1, 2>>
MCColdStart == <<1, 4>>
MCWeight == <<1, 2>>
MCLatency == [m \in Nodes |-> [n \in Nodes |-> IF m = n THEN 0 ELSE 1]]
=============================================================================
