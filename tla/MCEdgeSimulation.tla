-------------------------- MODULE MCEdgeSimulation ----------------------------
(* Constants of the runs of EdgeSimulation.                                *)
EXTENDS EdgeSimulationProperties

AllPrograms == DOMAIN Rules
OnlyLru     == {"lru"}

\* The predictive programs have more requests that differ.
Few  == [p \in Programs |-> IF Rules[p].predicts THEN 3 ELSE 5]
Five == [p \in Programs |-> 5]

\* Type 2 is twice as large; a container of type 1 starts as fast as a request
\* travels to the other node, one of type 2 starts slower.
Sizes      == <<1, 2>>
ColdStarts == <<1, 3>>
Weights    == <<2, 1>>
OneApart   == [m \in Nodes |-> [n \in Nodes |-> IF m = n THEN 0 ELSE 1]]
=============================================================================
