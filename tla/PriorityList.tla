----------------------------- MODULE PriorityList -----------------------------
(***************************************************************************)
(* The lists of idle containers that a node keeps (Cache in types.go of    *)
(* the schedulers): sequences of records with a field prio, in ascending   *)
(* order of it.                                                            *)
(***************************************************************************)
EXTENDS Integers, Sequences, FiniteSets, SequencesExt

\* Fault: the list is left in the order of arrival.
KeepOrder(s) == s

\* sort.SliceStable by priority: an element goes behind the smaller ones and
\* behind the equal ones that stood before it.
Before(s, i, j) == s[i].prio < s[j].prio \/ (s[i].prio = s[j].prio /\ i < j)
Rank(s, i) == 1 + Cardinality({j \in DOMAIN s : Before(s, j, i)})
SortList(s) == [p \in DOMAIN s |-> s[CHOOSE i \in DOMAIN s : Rank(s, i) = p]]

\* Fault: the element behind the one asked for is deleted.
DeleteNext(s, i) == IF i + 1 \in DOMAIN s THEN RemoveAt(s, i + 1) ELSE s

\* Cache.delete: nothing happens when there is no such element.
DeleteAt(s, i) == IF i \in DOMAIN s THEN RemoveAt(s, i) ELSE s

Sorted(s) == \A i, j \in DOMAIN s : i < j => s[i].prio <= s[j].prio
=============================================================================
