------------------------------- MODULE WarmPool -------------------------------
(***************************************************************************)
(* What a cache of warm containers promises, whatever its policy: the life *)
(* of a container.                                                         *)
(*                                                                         *)
(* A container is started for a request, on a node that has room for it,   *)
(* and stays there.  It is in use or idle; only an idle one is put in use, *)
(* and only an idle one is terminated.  The n-th container that is started *)
(* has the name n for ever.  A container may be lost: the scheduler        *)
(* forgets it while it is in use, and it keeps its memory.                 *)
(***************************************************************************)
EXTENDS Naturals, Sequences, Functions

CONSTANTS
  Nodes,    \* where containers run
  Types,    \* types of functions
  Size,     \* Size[t]: memory of a container of type t
  Capacity  \* memory of a node

VARIABLE
  pool      \* pool[i]: the i-th container that was started

Gone == [is |-> "gone"]
PoolTypeOK ==
  pool \in Seq([is : {"busy", "idle", "lost"}, node : Nodes, type : Types] \cup {Gone})

Init == pool = <<>>

\* The memory that the containers on n take.
On(p, n) == {i \in DOMAIN p : p[i] # Gone /\ p[i].node = n}
Load(p, n) == FoldFunction(+, 0, [i \in On(p, n) |-> Size[p[i].type]])

\* What may come next after p.  A request gets a new container.
Started(p) ==
  {Append(p, [is |-> "busy", node |-> s[1], type |-> s[2]]) :
     s \in {s \in Nodes \X Types : Load(p, s[1]) + Size[s[2]] <= Capacity}}

\* Some containers go from one state to another.
Moved(p, from, to) ==
  {[i \in DOMAIN p |-> IF i \in S THEN [p[i] EXCEPT !.is = to] ELSE p[i]] :
     S \in SUBSET {i \in DOMAIN p : p[i].is = from}}

\* An idle container is terminated.
Dropped(p) ==
  {[p EXCEPT ![i] = Gone] : i \in {i \in DOMAIN p : p[i].is = "idle"}}

Start  == pool' \in Started(pool)
Take   == pool' \in Moved(pool, "idle", "busy")
Return == pool' \in Moved(pool, "busy", "idle")
Lose   == pool' \in Moved(pool, "busy", "lost")
Drop   == pool' \in Dropped(pool)

Next == Start \/ Take \/ Return \/ Lose \/ Drop

Spec == Init /\ [][Next]_pool
=============================================================================
