------------------------------- MODULE PoolView -------------------------------
(* How the lists of a scheduler show a pool of warm containers (WarmPool). *)
EXTENDS Naturals, Functions

\* The containers in the lists: idle in a cache, in use in the slice of their
\* type, or lost.
Members(nodes, types, cache, active, leaked) ==
  UNION {{[id |-> c.id, is |-> "idle", node |-> n, type |-> c.type] : c \in Range(cache[n])}
         \cup (UNION {{[id |-> c.id, is |-> "busy", node |-> n, type |-> t] :
                       c \in Range(active[n][t])} : t \in types})
         \cup (UNION {{[id |-> c.id, is |-> "lost", node |-> n, type |-> t] :
                       c \in Range(leaked[n][t])} : t \in types}) : n \in nodes}

\* The pool of the containers with the names 1 .. count.
AsPool(members, count) ==
  [i \in 1 .. count |->
     LET named == {c \in members : c.id = i}
     IN IF named = {} THEN [is |-> "gone"]
        ELSE LET c == CHOOSE c \in named : TRUE
             IN [is |-> IF named = {c} THEN c.is ELSE "in two places",
                 node |-> c.node, type |-> c.type]]
=============================================================================
