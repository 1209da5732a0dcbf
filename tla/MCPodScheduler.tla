---------------------------- MODULE MCPodScheduler ----------------------------
(***************************************************************************)
(* Small instances of PodScheduler.                                        *)
(***************************************************************************)
EXTENDS PodSchedulerProperties

\* Two pods ask for node n1, which has room for one of them; the last one asks
\* for no node of this scheduler.
MCWanted == [p \in Pods |-> IF p <= 2 THEN "n1" ELSE NoNode]
MCCpu == [p \in Pods |-> 1]
MCAlloc == [n \in KubeNodes |-> 1]
=============================================================================
