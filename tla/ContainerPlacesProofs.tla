------------------------ MODULE ContainerPlacesProofs ------------------------
(***************************************************************************)
(* Proofs about where the containers of ContainerCache are: each in one    *)
(* list, moved from one to the other, and terminated only when it should.  *)
(* Last, the balance of memory and the refinement of WarmPool.             *)
(***************************************************************************)
EXTENDS ContainerCacheProofs, PoolProofs

-----------------------------------------------------------------------------
(* The ledger: every container, with the place it is in.                   *)

Ledger == Members(Nodes, Types, cache, active, leaked)

LEMMA ContainersOrdered == \A c \in Container : c.prio \in Int
BY DEF Container

-----------------------------------------------------------------------------
(* The invariant about places.                                             *)

\* A list holds containers of its own node, and a slice those of its own type.
ListsOfOneNode ==
  /\ \A n \in Nodes : \A c \in Range(cache[n]) : c.node = n
  /\ \A n \in Nodes, t \in Types :
       \A c \in Range(active[n][t]) : c.node = n /\ c.type = t

\* No list names a container twice.
ListsDistinct ==
  /\ \A n \in Nodes : Distinct(cache[n])
  /\ \A n \in Nodes, t \in Types : Distinct(active[n][t]) /\ Distinct(leaked[n][t])

\* No two entries have the same name, and the names are those given out.
OneEntryEach == \A c, d \in Ledger : c.id = d.id => c = d
NamesGiven == \A c \in Ledger : c.id \in 1 .. count

PlacesInv == ListsOfOneNode /\ ListsDistinct /\ OneEntryEach /\ NamesGiven

LEMMA PlacesInvInit == Init => PlacesInv
<1> SUFFICES ASSUME Init PROVE PlacesInv
  OBVIOUS
<1>1. /\ \A n \in Nodes : cache[n] = <<>>
      /\ \A n \in Nodes, t \in Types : active[n][t] = <<>> /\ leaked[n][t] = <<>>
  BY DEF Init
<1>2. Range(<<>>) = {} /\ Distinct(<<>>)
  BY EmptySeq DEF Range, Distinct
<1>3. ListsOfOneNode /\ ListsDistinct
  BY <1>1, <1>2 DEF ListsOfOneNode, ListsDistinct
<1>4. Ledger = {}
  <2>1. \A e : e \notin Members(Nodes, Types, cache, active, leaked)
    BY <1>1, <1>2, InMembers
  <2> QED
    BY <2>1 DEF Ledger
<1> QED
  BY <1>3, <1>4 DEF PlacesInv, OneEntryEach, NamesGiven

-----------------------------------------------------------------------------
(* What each step does to the ledger.                                      *)

LedgerShowsLists ==
  /\ \A n \in Nodes, t \in Types : \A i :
       /\ Entry(i, "idle", n, t) \in Ledger <=> i \in IdsOfType(cache[n], t)
       /\ Entry(i, "busy", n, t) \in Ledger <=> i \in IdsIn(active[n][t])
       /\ Entry(i, "lost", n, t) \in Ledger <=> i \in IdsIn(leaked[n][t])
  /\ \A e \in Ledger : /\ e.is \in Kinds /\ e.node \in Nodes /\ e.type \in Types
                      /\ e = Entry(e.id, e.is, e.node, e.type)

LEMMA TypesOfIdle == TypeOK => \A n \in Nodes : \A c \in Range(cache[n]) : c.type \in Types
<1> SUFFICES ASSUME TypeOK, NEW n \in Nodes, NEW c \in Range(cache[n])
             PROVE  c.type \in Types
  OBVIOUS
<1>1. PICK i \in DOMAIN cache[n] : c = cache[n][i]
  BY DEF Range
<1>2. cache[n][i] \in Container
  BY LenProperties, ElementOfSeq DEF TypeOK
<1> QED
  BY <1>1, <1>2 DEF Container

LEMMA NextTypesOfIdle ==
  TypeOK' => \A n \in Nodes : \A c \in Range(cache'[n]) : c.type \in Types
<1>1. TypeOK' => (\A n \in Nodes : \A c \in Range(cache[n]) : c.type \in Types)'
  BY TypesOfIdle, PTL
<1> QED
  BY <1>1 DEF Range

LEMMA InLedger == TypeOK => LedgerShowsLists
BY TypesOfIdle, MembersAre DEF Ledger, LedgerShowsLists

LEMMA NextInLedger == TypeOK' => LedgerShowsLists'
BY InLedger, PTL

\* A step that takes the entries X out of the lists and puts Y in.
LEMMA LedgerChange ==
  ASSUME TypeOK, TypeOK', NEW X, NEW Y,
         \A n \in Nodes, t \in Types : \A i :
           i \in IdsOfType(cache'[n], t) <=>
             \/ i \in IdsOfType(cache[n], t) /\ Entry(i, "idle", n, t) \notin X
             \/ Entry(i, "idle", n, t) \in Y,
         \A n \in Nodes, t \in Types : \A i :
           i \in IdsIn(active'[n][t]) <=>
             \/ i \in IdsIn(active[n][t]) /\ Entry(i, "busy", n, t) \notin X
             \/ Entry(i, "busy", n, t) \in Y,
         \A n \in Nodes, t \in Types : \A i :
           i \in IdsIn(leaked'[n][t]) <=>
             \/ i \in IdsIn(leaked[n][t]) /\ Entry(i, "lost", n, t) \notin X
             \/ Entry(i, "lost", n, t) \in Y,
         \A e \in Y : /\ e.is \in Kinds /\ e.node \in Nodes /\ e.type \in Types
                      /\ e = Entry(e.id, e.is, e.node, e.type)
  PROVE  Ledger' = (Ledger \ X) \cup Y
<1>1. /\ \A n \in Nodes : \A c \in Range(cache[n]) : c.type \in Types
      /\ \A n \in Nodes : \A c \in Range(cache'[n]) : c.type \in Types
  BY TypesOfIdle, NextTypesOfIdle
<1>2. ListsChange(Nodes, Types, cache, active, leaked, cache', active', leaked', X, Y)
  BY <1>1 DEF ListsChange
<1>3. Ledger' = Members(Nodes, Types, cache', active', leaked')
  BY DEF Ledger, Members
<1> QED
  BY <1>2, <1>3, MembersChange DEF Ledger

\* An idle container is put in use.
LEMMA TakeMoves ==
  ASSUME TypeOK, TypeOK', PlacesInv, NEW n \in Nodes, NEW i \in DOMAIN cache[n],
         ActiveAdd(cache[n][i], n), cache' = [cache EXCEPT ![n] = DeleteAt(@, i)],
         leaked' = leaked
  PROVE  LET c == cache[n][i]
         IN /\ ListsOfOneNode' /\ ListsDistinct'
            /\ c.type \in Types /\ Entry(c.id, "idle", n, c.type) \in Ledger
            /\ Ledger' = (Ledger \ {Entry(c.id, "idle", n, c.type)})
                           \cup {Entry(c.id, "busy", n, c.type)}
<1> DEFINE c == cache[n][i]
           t == c.type
           s == cache[n]
           a == active[n][t]
           d == [c EXCEPT !.clock = clock, !.prio = ActivePriority(t, freq[t] + 1)]
           X == {Entry(c.id, "idle", n, t)}
           Y == {Entry(c.id, "busy", n, t)}
<1>1. s \in Seq(Container) /\ c \in Container /\ t \in Types /\ a \in Seq(Container)
  <2>1. s \in Seq(Container)
    BY DEF TypeOK
  <2>2. c \in Container
    BY <2>1, LenProperties, ElementOfSeq
  <2>3. t \in Types
    BY <2>2 DEF Container
  <2> QED
    BY <2>1, <2>2, <2>3 DEF TypeOK
<1>2. d \in Container /\ d.id = c.id /\ d.node = c.node /\ d.type = t
  <2>1. freq[t] + 1 \in Int /\ clock \in Nat
    BY <1>1 DEF TypeOK
  <2>2. ActivePriority(t, freq[t] + 1) \in Int
    BY <1>1, <2>1, PrioritiesAreInt
  <2> QED
    BY <1>1, <2>1, <2>2 DEF Container
<1>3. /\ active' = [active EXCEPT ![n][t] = Append(a, d)]
      /\ cache' = [cache EXCEPT ![n] = DeleteAt(s, i)]
  BY DEF ActiveAdd
<1>4. /\ \A m \in Nodes : cache'[m] = IF m = n THEN DeleteAt(s, i) ELSE cache[m]
      /\ \A m \in Nodes, u \in Types :
           active'[m][u] = IF m = n /\ u = t THEN Append(a, d) ELSE active[m][u]
  BY <1>1, <1>3 DEF TypeOK
<1>5. c \in Range(s) /\ c.node = n
  BY DEF Range, PlacesInv, ListsOfOneNode
<1>6. Distinct(s) /\ Distinct(a)
  BY <1>1 DEF PlacesInv, ListsDistinct
<1>a. s = cache[n] /\ a = active[n][t] /\ i \in DOMAIN s /\ s[i] = c /\ c.type = t
  OBVIOUS
<1> HIDE DEF c, t, s, a, d
<1>7. /\ IdsIn(DeleteAt(s, i)) = IdsIn(s) \ {c.id}
      /\ c.id \in IdsIn(s) /\ c.id \in IdsOfType(s, t)
      /\ \A u : IdsOfType(DeleteAt(s, i), u)
                 = IF u = t THEN IdsOfType(s, u) \ {c.id} ELSE IdsOfType(s, u)
  <2>1. /\ IdsIn(DeleteAt(s, i)) = IdsIn(s) \ {s[i].id}
        /\ s[i].id \in IdsIn(s) /\ s[i].id \in IdsOfType(s, s[i].type)
        /\ \A u : IdsOfType(DeleteAt(s, i), u)
                   = IF u = s[i].type THEN IdsOfType(s, u) \ {s[i].id} ELSE IdsOfType(s, u)
    <3>1. s \in Seq(Container) /\ Distinct(s) /\ i \in DOMAIN s
      BY <1>1, <1>6, <1>a
    <3>2. IdsIn(DeleteAt(s, i)) = IdsIn(s) \ {s[i].id}
      BY <3>1, IdsAfterDelete
    <3>3. s[i].id \in IdsIn(s) /\ s[i].id \in IdsOfType(s, s[i].type)
      BY <3>1, IdsAfterDelete
    <3>4. ASSUME NEW u
          PROVE  IdsOfType(DeleteAt(s, i), u)
                   = IF u = s[i].type THEN IdsOfType(s, u) \ {s[i].id} ELSE IdsOfType(s, u)
      BY <3>1, IdsAfterDelete
    <3> QED
      BY <3>2, <3>3, <3>4
  <2> QED
    BY <1>a, <2>1, Zenon
<1>8. Distinct(DeleteAt(s, i)) /\ Range(DeleteAt(s, i)) \subseteq Range(s)
  BY <1>1, <1>6, <1>a, RangeOfDeleteAt
<1>9. Entry(c.id, "idle", n, t) \in Ledger /\ Entry(c.id, "busy", n, t) \notin Ledger
  <2>1. Entry(c.id, "idle", n, t) \in Ledger
    BY <1>1, <1>7, <1>a, InLedger DEF LedgerShowsLists
  <2>2. Entry(c.id, "idle", n, t).id = c.id /\ Entry(c.id, "busy", n, t).id = c.id
    BY DEF Entry
  <2>3. Entry(c.id, "idle", n, t) # Entry(c.id, "busy", n, t)
    BY EntryIsPair
  <2> QED
    BY <2>1, <2>2, <2>3 DEF PlacesInv, OneEntryEach
<1>10. c.id \notin IdsIn(a)
  BY <1>1, <1>9, <1>a, InLedger DEF LedgerShowsLists
<1>11. /\ IdsIn(Append(a, d)) = IdsIn(a) \cup {c.id}
       /\ Range(Append(a, d)) = Range(a) \cup {d}
       /\ Distinct(Append(a, d))
  BY <1>1, <1>2, <1>6, <1>10, ContainersOrdered, IdsAfterAppend, RangeOfAppend
<1>12. ListsDistinct'
  BY <1>4, <1>8, <1>11 DEF PlacesInv, ListsDistinct
<1>13. ListsOfOneNode'
  <2>1. \A m \in Nodes : \A e \in Range(cache'[m]) : e.node = m
    BY <1>4, <1>8, <1>a DEF PlacesInv, ListsOfOneNode
  <2>2. \A m \in Nodes, u \in Types : \A e \in Range(active'[m][u]) : e.node = m /\ e.type = u
    BY <1>1, <1>2, <1>4, <1>5, <1>11, <1>a DEF PlacesInv, ListsOfOneNode
  <2> QED
    BY <2>1, <2>2 DEF ListsOfOneNode
<1>14. Ledger' = (Ledger \ X) \cup Y
  <2>1. \A m \in Nodes, u \in Types : \A j :
           j \in IdsOfType(cache'[m], u) <=>
             \/ j \in IdsOfType(cache[m], u) /\ Entry(j, "idle", m, u) \notin X
             \/ Entry(j, "idle", m, u) \in Y
    <3> TAKE m \in Nodes, u \in Types
    <3> TAKE j
    <3>1. Entry(j, "idle", m, u) \in X <=> j = c.id /\ m = n /\ u = t
      BY EntryIsPair
    <3>2. Entry(j, "idle", m, u) \notin Y
      BY EntryIsPair
    <3>3. IdsOfType(cache'[m], u) = IF m = n /\ u = t THEN IdsOfType(cache[m], u) \ {c.id}
                                                    ELSE IdsOfType(cache[m], u)
      BY <1>4, <1>7, <1>a
    <3> QED
      BY <3>1, <3>2, <3>3
  <2>2. \A m \in Nodes, u \in Types : \A j :
           j \in IdsIn(active'[m][u]) <=>
             \/ j \in IdsIn(active[m][u]) /\ Entry(j, "busy", m, u) \notin X
             \/ Entry(j, "busy", m, u) \in Y
    BY <1>1, <1>4, <1>11, <1>a, EntryIsPair
  <2>3. \A m \in Nodes, u \in Types : \A j :
           j \in IdsIn(leaked'[m][u]) <=>
             \/ j \in IdsIn(leaked[m][u]) /\ Entry(j, "lost", m, u) \notin X
             \/ Entry(j, "lost", m, u) \in Y
    BY EntryIsPair
  <2>4. \A e \in Y : /\ e.is \in Kinds /\ e.node \in Nodes /\ e.type \in Types
                      /\ e = Entry(e.id, e.is, e.node, e.type)
    BY <1>1 DEF Entry, Kinds
  <2> HIDE DEF X, Y
  <2> QED
    BY <2>1, <2>2, <2>3, <2>4, LedgerChange
<1> QED
  BY <1>1, <1>9, <1>12, <1>13, <1>14 DEF t, c

\* A new container is put in use, under a name not given out before.
LEMMA CreateMoves ==
  ASSUME TypeOK, TypeOK', PlacesInv, NEW c \in Container, NEW n \in Nodes,
         c.node = n, c.id = count + 1, ActiveAdd(c, n),
         cache' = cache, leaked' = leaked
  PROVE  /\ ListsOfOneNode' /\ ListsDistinct'
         /\ \A e \in Ledger : e.id # c.id
         /\ Ledger' = Ledger \cup {Entry(c.id, "busy", n, c.type)}
<1> DEFINE t == c.type
           a == active[n][t]
           d == [c EXCEPT !.clock = clock, !.prio = ActivePriority(t, freq[t] + 1)]
           Y == {Entry(c.id, "busy", n, t)}
<1>1. t \in Types /\ a \in Seq(Container)
  <2>1. t \in Types
    BY DEF Container
  <2> QED
    BY <2>1 DEF TypeOK
<1>2. d \in Container /\ d.id = c.id /\ d.node = n /\ d.type = t
  <2>1. freq[t] + 1 \in Int /\ clock \in Nat
    BY <1>1 DEF TypeOK
  <2>2. ActivePriority(t, freq[t] + 1) \in Int
    BY <1>1, <2>1, PrioritiesAreInt
  <2> QED
    BY <1>1, <2>1, <2>2 DEF Container
<1>3. active' = [active EXCEPT ![n][t] = Append(a, d)]
  BY DEF ActiveAdd
<1>4. \A m \in Nodes, u \in Types :
        active'[m][u] = IF m = n /\ u = t THEN Append(a, d) ELSE active[m][u]
  BY <1>1, <1>3 DEF TypeOK
<1>6. Distinct(a)
  BY <1>1 DEF PlacesInv, ListsDistinct
<1>a. a = active[n][t] /\ c.type = t
  OBVIOUS
<1> HIDE DEF t, a, d
<1>9. \A e \in Ledger : e.id # c.id
  <2>1. count \in Nat
    BY DEF TypeOK
  <2> QED
    BY <2>1 DEF PlacesInv, NamesGiven
<1>10. c.id \notin IdsIn(a)
  <2>1. Entry(c.id, "busy", n, t) \notin Ledger
    BY <1>9 DEF Entry
  <2> QED
    BY <1>1, <1>a, <2>1, InLedger DEF LedgerShowsLists
<1>11. /\ IdsIn(Append(a, d)) = IdsIn(a) \cup {c.id}
       /\ Range(Append(a, d)) = Range(a) \cup {d}
       /\ Distinct(Append(a, d))
  BY <1>1, <1>2, <1>6, <1>10, ContainersOrdered, IdsAfterAppend, RangeOfAppend
<1>12. ListsDistinct'
  BY <1>4, <1>11 DEF PlacesInv, ListsDistinct
<1>13. ListsOfOneNode'
  BY <1>1, <1>2, <1>4, <1>11, <1>a DEF PlacesInv, ListsOfOneNode
<1>14. Ledger' = (Ledger \ {}) \cup Y
  <2>1. \A m \in Nodes, u \in Types : \A j :
           j \in IdsOfType(cache'[m], u) <=>
             \/ j \in IdsOfType(cache[m], u) /\ Entry(j, "idle", m, u) \notin {}
             \/ Entry(j, "idle", m, u) \in Y
    BY EntryIsPair
  <2>2. \A m \in Nodes, u \in Types : \A j :
           j \in IdsIn(active'[m][u]) <=>
             \/ j \in IdsIn(active[m][u]) /\ Entry(j, "busy", m, u) \notin {}
             \/ Entry(j, "busy", m, u) \in Y
    BY <1>1, <1>4, <1>11, <1>a, EntryIsPair
  <2>3. \A m \in Nodes, u \in Types : \A j :
           j \in IdsIn(leaked'[m][u]) <=>
             \/ j \in IdsIn(leaked[m][u]) /\ Entry(j, "lost", m, u) \notin {}
             \/ Entry(j, "lost", m, u) \in Y
    BY EntryIsPair
  <2>4. \A e \in Y : /\ e.is \in Kinds /\ e.node \in Nodes /\ e.type \in Types
                      /\ e = Entry(e.id, e.is, e.node, e.type)
    BY <1>1 DEF Entry, Kinds
  <2> HIDE DEF Y
  <2> QED
    BY <2>1, <2>2, <2>3, <2>4, LedgerChange
<1> QED
  BY <1>9, <1>12, <1>13, <1>14 DEF t

\* The first container of a cache list is terminated.
LEMMA EvictMoves ==
  ASSUME TypeOK, TypeOK', PlacesInv, NEW n \in Nodes, cache[n] # <<>>,
         cache' = [cache EXCEPT ![n] = Tail(@)], active' = active, leaked' = leaked
  PROVE  LET c == Head(cache[n])
         IN /\ ListsOfOneNode' /\ ListsDistinct'
            /\ c = cache[n][1] /\ 1 \in DOMAIN cache[n]
            /\ c.type \in Types /\ Entry(c.id, "idle", n, c.type) \in Ledger
            /\ Ledger' = Ledger \ {Entry(c.id, "idle", n, c.type)}
<1> DEFINE s == cache[n]
           c == s[1]
           t == c.type
           X == {Entry(c.id, "idle", n, t)}
<1>1. s \in Seq(Container)
  BY DEF TypeOK
<1>2. 1 \in DOMAIN s /\ Head(s) = c /\ Tail(s) = DeleteAt(s, 1)
  BY <1>1, TailIsDeleteAt
<1>3. t \in Types
  <2>1. c \in Container
    BY <1>1, <1>2, LenProperties, ElementOfSeq
  <2> QED
    BY <2>1 DEF Container
<1>4. \A m \in Nodes : cache'[m] = IF m = n THEN DeleteAt(s, 1) ELSE cache[m]
  BY <1>2 DEF TypeOK
<1>6. Distinct(s)
  BY DEF PlacesInv, ListsDistinct
<1>a. s = cache[n] /\ s[1] = c /\ c.type = t
  OBVIOUS
<1> HIDE DEF c, t, s
<1>7. /\ c.id \in IdsOfType(s, t)
      /\ \A u : IdsOfType(DeleteAt(s, 1), u)
                 = IF u = t THEN IdsOfType(s, u) \ {c.id} ELSE IdsOfType(s, u)
  <2>1. s[1].id \in IdsIn(s) /\ s[1].id \in IdsOfType(s, s[1].type)
    BY <1>1, <1>2, <1>6, IdsAfterDelete
  <2>2. ASSUME NEW u
        PROVE  IdsOfType(DeleteAt(s, 1), u)
                 = IF u = s[1].type THEN IdsOfType(s, u) \ {s[1].id} ELSE IdsOfType(s, u)
    BY <1>1, <1>2, <1>6, IdsAfterDelete
  <2> QED
    BY <1>a, <2>1, <2>2
<1>8. Distinct(DeleteAt(s, 1)) /\ Range(DeleteAt(s, 1)) \subseteq Range(s)
  BY <1>1, <1>2, <1>6, RangeOfDeleteAt
<1>9. Entry(c.id, "idle", n, t) \in Ledger
  BY <1>3, <1>7, <1>a, InLedger DEF LedgerShowsLists
<1>12. ListsDistinct'
  BY <1>4, <1>8 DEF PlacesInv, ListsDistinct
<1>13. ListsOfOneNode'
  BY <1>4, <1>8, <1>a DEF PlacesInv, ListsOfOneNode
<1>14. Ledger' = (Ledger \ X) \cup {}
  <2>1. \A m \in Nodes, u \in Types : \A j :
           j \in IdsOfType(cache'[m], u) <=>
             \/ j \in IdsOfType(cache[m], u) /\ Entry(j, "idle", m, u) \notin X
             \/ Entry(j, "idle", m, u) \in {}
    <3> TAKE m \in Nodes, u \in Types
    <3> TAKE j
    <3>1. Entry(j, "idle", m, u) \in X <=> j = c.id /\ m = n /\ u = t
      BY EntryIsPair
    <3>3. IdsOfType(cache'[m], u) = IF m = n /\ u = t THEN IdsOfType(cache[m], u) \ {c.id}
                                                    ELSE IdsOfType(cache[m], u)
      <4>1. CASE m = n
        BY <1>4, <1>7, <1>a, <4>1
      <4>2. CASE m # n
        BY <1>4, <4>2
      <4> QED
        BY <4>1, <4>2
    <3> QED
      BY <3>1, <3>3
  <2>2. \A m \in Nodes, u \in Types : \A j :
           j \in IdsIn(active'[m][u]) <=>
             \/ j \in IdsIn(active[m][u]) /\ Entry(j, "busy", m, u) \notin X
             \/ Entry(j, "busy", m, u) \in {}
    BY EntryIsPair
  <2>3. \A m \in Nodes, u \in Types : \A j :
           j \in IdsIn(leaked'[m][u]) <=>
             \/ j \in IdsIn(leaked[m][u]) /\ Entry(j, "lost", m, u) \notin X
             \/ Entry(j, "lost", m, u) \in {}
    BY EntryIsPair
  <2> HIDE DEF X
  <2> QED
    BY <2>1, <2>2, <2>3, LedgerChange
<1> QED
  BY <1>2, <1>3, <1>9, <1>12, <1>13, <1>14, <1>a DEF t, s

\* updateCache moves a container from its slice to the cache of its node.
LEMMA ReturnMoves ==
  ASSUME TypeOK, TypeOK', PlacesInv, CacheActive
  PROVE  /\ ListsOfOneNode' /\ ListsDistinct'
         /\ \E n \in Nodes, t \in Types, i \in Nat :
              /\ Entry(i, "busy", n, t) \in Ledger
              /\ Ledger' = (Ledger \ {Entry(i, "busy", n, t)}) \cup {Entry(i, "idle", n, t)}
<1>1. PICK n \in Nodes, t \in Types :
        at[1] = n /\ at[2] = t /\ SliceAt = active[n][t]
  BY SliceInUse DEF CacheActive
<1> DEFINE s == active[n][t]
           c == s[k + 1]
           h == cache[n]
           d == [c EXCEPT !.prio = IdlePriority(c, freq[c.type] - 1)]
           q == SortList(Append(h, d))
           X == {Entry(c.id, "busy", n, t)}
           Y == {Entry(c.id, "idle", n, t)}
<1>2. s \in Seq(Container) /\ h \in Seq(Container) /\ k \in Nat /\ k < Len(s)
  BY <1>1 DEF CacheActive, TypeOK
<1>3. DOMAIN s = 1 .. Len(s) /\ Len(s) \in Nat /\ k + 1 \in DOMAIN s
  BY <1>2, LenProperties
<1>4. c \in Container /\ c \in Range(s)
  BY <1>2, <1>3, ElementOfSeq DEF Range
<1>5. c.node = n /\ c.type = t /\ Distinct(s) /\ Distinct(h)
  BY <1>4 DEF PlacesInv, ListsOfOneNode, ListsDistinct
<1>6. d \in Container /\ d.id = c.id /\ d.node = n /\ d.type = t
  <2>1. freq[c.type] - 1 \in Int
    BY <1>5 DEF TypeOK
  <2>2. IdlePriority(c, freq[c.type] - 1) \in Int
    BY <1>4, <2>1, PrioritiesAreInt
  <2> QED
    BY <1>4, <1>5, <2>2 DEF Container
<1>7. CacheAdd(c)
  BY <1>1 DEF CacheActive
<1>8. /\ cache' = [cache EXCEPT ![n] = q]
      /\ active' = [active EXCEPT ![n][t] = DeleteAt(s, k + 1)] /\ leaked' = leaked
  BY <1>1, <1>3, <1>5, <1>7 DEF CacheActive, CacheAdd, DeleteAt
<1>a. s = active[n][t] /\ h = cache[n] /\ s[k + 1] = c
  OBVIOUS
<1> HIDE DEF s, c, h, d
<1>9. /\ \A m \in Nodes : cache'[m] = IF m = n THEN q ELSE cache[m]
      /\ \A m \in Nodes, u \in Types :
           active'[m][u] = IF m = n /\ u = t THEN DeleteAt(s, k + 1) ELSE active[m][u]
  BY <1>8 DEF TypeOK
<1>10. /\ IdsIn(DeleteAt(s, k + 1)) = IdsIn(s) \ {c.id} /\ c.id \in IdsIn(s)
       /\ Distinct(DeleteAt(s, k + 1)) /\ Range(DeleteAt(s, k + 1)) \subseteq Range(s)
  <2>1. IdsIn(DeleteAt(s, k + 1)) = IdsIn(s) \ {s[k + 1].id} /\ s[k + 1].id \in IdsIn(s)
    BY <1>2, <1>3, <1>5, IdsAfterDelete
  <2>2. Distinct(DeleteAt(s, k + 1)) /\ Range(DeleteAt(s, k + 1)) \subseteq Range(s)
    BY <1>2, <1>3, <1>5, RangeOfDeleteAt
  <2> QED
    BY <1>a, <2>1, <2>2
<1>11. Entry(c.id, "busy", n, t) \in Ledger
  BY <1>10, <1>a, InLedger DEF LedgerShowsLists
<1>12. \A u \in Types : Entry(c.id, "idle", n, u) \notin Ledger
  <2> TAKE u \in Types
  <2>1. Entry(c.id, "busy", n, t).id = c.id /\ Entry(c.id, "idle", n, u).id = c.id
    BY DEF Entry
  <2>2. Entry(c.id, "busy", n, t) # Entry(c.id, "idle", n, u)
    BY EntryIsPair
  <2> QED
    BY <1>11, <2>1, <2>2 DEF PlacesInv, OneEntryEach
<1>13. c.id \notin IdsIn(h)
  <2> SUFFICES ASSUME NEW b \in Range(h), b.id = c.id PROVE FALSE
    BY DEF IdsIn
  <2>1. b.type \in Types
    <3>1. PICK i \in DOMAIN h : b = h[i]
      BY DEF Range
    <3>2. h[i] \in Container
      BY <1>2, LenProperties, ElementOfSeq
    <3> QED
      BY <3>1, <3>2 DEF Container
  <2>2. c.id \in IdsOfType(h, b.type)
    BY DEF IdsOfType
  <2> QED
    BY <1>12, <1>a, <2>1, <2>2, InLedger DEF LedgerShowsLists
<1>14. /\ \A u : IdsOfType(q, u) = IF u = t THEN IdsOfType(h, u) \cup {c.id} ELSE IdsOfType(h, u)
       /\ Range(q) = Range(h) \cup {d} /\ Distinct(q)
  <2>1. ASSUME NEW u
        PROVE  IdsOfType(q, u) = IF u = d.type THEN IdsOfType(h, u) \cup {d.id}
                                               ELSE IdsOfType(h, u)
    BY <1>2, <1>6, ContainersOrdered, IdsAfterAppend
  <2>2. Range(q) = Range(h) \cup {d}
    BY <1>2, <1>6, ContainersOrdered, IdsAfterAppend
  <2>3. Distinct(q)
    BY <1>2, <1>5, <1>6, <1>13, ContainersOrdered, IdsAfterAppend
  <2> QED
    BY <1>6, <2>1, <2>2, <2>3
<1> HIDE DEF q
<1>15. ListsDistinct'
  BY <1>8, <1>9, <1>10, <1>14 DEF PlacesInv, ListsDistinct
<1>16. ListsOfOneNode'
  <2>1. \A m \in Nodes : \A e \in Range(cache'[m]) : e.node = m
    BY <1>6, <1>9, <1>14, <1>a DEF PlacesInv, ListsOfOneNode
  <2>2. \A m \in Nodes, u \in Types : \A e \in Range(active'[m][u]) : e.node = m /\ e.type = u
    BY <1>9, <1>10, <1>a DEF PlacesInv, ListsOfOneNode
  <2> QED
    BY <2>1, <2>2 DEF ListsOfOneNode
<1>17. Ledger' = (Ledger \ X) \cup Y
  <2>1. \A m \in Nodes, u \in Types : \A j :
           j \in IdsOfType(cache'[m], u) <=>
             \/ j \in IdsOfType(cache[m], u) /\ Entry(j, "idle", m, u) \notin X
             \/ Entry(j, "idle", m, u) \in Y
    <3> TAKE m \in Nodes, u \in Types
    <3> TAKE j
    <3>1. Entry(j, "idle", m, u) \notin X /\ (Entry(j, "idle", m, u) \in Y <=> j = c.id /\ m = n /\ u = t)
      BY EntryIsPair
    <3>2. IdsOfType(cache'[m], u) = IF m = n /\ u = t THEN IdsOfType(cache[m], u) \cup {c.id}
                                                    ELSE IdsOfType(cache[m], u)
      BY <1>9, <1>14, <1>a
    <3> QED
      BY <3>1, <3>2
  <2>2. \A m \in Nodes, u \in Types : \A j :
           j \in IdsIn(active'[m][u]) <=>
             \/ j \in IdsIn(active[m][u]) /\ Entry(j, "busy", m, u) \notin X
             \/ Entry(j, "busy", m, u) \in Y
    <3> TAKE m \in Nodes, u \in Types
    <3> TAKE j
    <3>1. Entry(j, "busy", m, u) \notin Y /\ (Entry(j, "busy", m, u) \in X <=> j = c.id /\ m = n /\ u = t)
      BY EntryIsPair
    <3>2. IdsIn(active'[m][u]) = IF m = n /\ u = t THEN IdsIn(active[m][u]) \ {c.id}
                                                 ELSE IdsIn(active[m][u])
      BY <1>9, <1>10, <1>a
    <3> QED
      BY <3>1, <3>2
  <2>3. \A m \in Nodes, u \in Types : \A j :
           j \in IdsIn(leaked'[m][u]) <=>
             \/ j \in IdsIn(leaked[m][u]) /\ Entry(j, "lost", m, u) \notin X
             \/ Entry(j, "lost", m, u) \in Y
    BY <1>8, EntryIsPair
  <2>4. \A e \in Y : /\ e.is \in Kinds /\ e.node \in Nodes /\ e.type \in Types
                      /\ e = Entry(e.id, e.is, e.node, e.type)
    BY DEF Entry, Kinds
  <2> HIDE DEF X, Y
  <2> QED
    BY <2>1, <2>2, <2>3, <2>4, LedgerChange
<1>18. c.id \in Nat
  BY <1>4 DEF Container
<1> QED
  BY <1>11, <1>15, <1>16, <1>17, <1>18

\* What updateCache leaves in the slices is lost.
LEMMA LoseMoves ==
  ASSUME TypeOK, TypeOK', PlacesInv, FinishUpdate
  PROVE  /\ ListsOfOneNode' /\ ListsDistinct'
         /\ LET X == {e \in Ledger : e.is = "busy"}
            IN Ledger' = (Ledger \ X) \cup {Entry(e.id, "lost", e.node, e.type) : e \in X}
<1> DEFINE X == {e \in Ledger : e.is = "busy"}
           Y == {Entry(e.id, "lost", e.node, e.type) : e \in X}
<1>1. ASSUME NEW n \in Nodes
      PROVE  /\ Range(cache'[n]) = Range(cache[n])
             /\ Distinct(cache'[n])
  <2>1. cache[n] \in Seq(Container) /\ Distinct(cache[n])
    BY DEF TypeOK, PlacesInv, ListsDistinct
  <2>2. cache'[n] = SortList(cache[n]) \/ cache'[n] = cache[n]
    BY DEF FinishUpdate, SortedCaches
  <2> QED
    BY <2>1, <2>2, ContainersOrdered, RangeOfSortList
<1>2. ASSUME NEW n \in Nodes, NEW t \in Types
      PROVE  /\ active'[n][t] = <<>>
             /\ leaked'[n][t] = leaked[n][t] \o active[n][t]
  BY DEF FinishUpdate
<1>3. Range(<<>>) = {} /\ Distinct(<<>>) /\ IdsIn(<<>>) = {}
  BY EmptySeq DEF Range, Distinct, IdsIn
<1>4. ASSUME NEW n \in Nodes, NEW t \in Types
      PROVE  /\ Distinct(leaked'[n][t])
             /\ IdsIn(leaked'[n][t]) = IdsIn(leaked[n][t]) \cup IdsIn(active[n][t])
  <2> DEFINE a == active[n][t]
             l == leaked[n][t]
  <2>1. a \in Seq(Container) /\ l \in Seq(Container) /\ Distinct(a) /\ Distinct(l)
    BY DEF TypeOK, PlacesInv, ListsDistinct
  <2>2. ASSUME NEW c \in Range(l), NEW d \in Range(a), c.id = d.id
        PROVE  FALSE
    <3>1. Entry(c.id, "lost", n, t) \in Ledger /\ Entry(c.id, "busy", n, t) \in Ledger
      BY <2>2, InLedger DEF LedgerShowsLists, IdsIn
    <3>2. Entry(c.id, "lost", n, t).id = c.id /\ Entry(c.id, "busy", n, t).id = c.id
      BY DEF Entry
    <3>3. Entry(c.id, "lost", n, t) # Entry(c.id, "busy", n, t)
      BY EntryIsPair
    <3> QED
      BY <3>1, <3>2, <3>3 DEF PlacesInv, OneEntryEach
  <2>3. leaked'[n][t] = l \o a
    BY <1>2
  <2> HIDE DEF a, l
  <2>4. Distinct(l \o a) /\ Range(l \o a) = Range(l) \cup Range(a)
    BY <2>1, <2>2, RangeOfConcat
  <2>5. IdsIn(l \o a) = IdsIn(l) \cup IdsIn(a)
    BY <2>4 DEF IdsIn
  <2> QED
    BY <2>3, <2>4, <2>5 DEF a, l
<1>5. ListsDistinct'
  BY <1>1, <1>2, <1>3, <1>4 DEF ListsDistinct
<1>6. ListsOfOneNode'
  BY <1>1, <1>2, <1>3 DEF ListsOfOneNode, PlacesInv
<1>7. Ledger' = (Ledger \ X) \cup Y
  <2>2. ASSUME NEW n \in Nodes, NEW t \in Types, NEW i
        PROVE  /\ Entry(i, "idle", n, t) \notin X /\ Entry(i, "lost", n, t) \notin X
               /\ Entry(i, "busy", n, t) \in X <=> i \in IdsIn(active[n][t])
               /\ Entry(i, "idle", n, t) \notin Y /\ Entry(i, "busy", n, t) \notin Y
               /\ Entry(i, "lost", n, t) \in Y <=> i \in IdsIn(active[n][t])
    <3>1. \A s : Entry(i, s, n, t).is = s /\ Entry(i, s, n, t).id = i
                /\ Entry(i, s, n, t).node = n /\ Entry(i, s, n, t).type = t
      BY DEF Entry
    <3>2. /\ Entry(i, "idle", n, t) \notin X /\ Entry(i, "lost", n, t) \notin X
          /\ Entry(i, "busy", n, t) \in X <=> i \in IdsIn(active[n][t])
      BY <3>1, InLedger DEF LedgerShowsLists
    <3>3. /\ Entry(i, "idle", n, t) \notin Y /\ Entry(i, "busy", n, t) \notin Y
      BY EntryIsPair
    <3>4. ASSUME Entry(i, "lost", n, t) \in Y
          PROVE  Entry(i, "busy", n, t) \in X
      <4>1. PICK e \in X : Entry(i, "lost", n, t) = Entry(e.id, "lost", e.node, e.type)
        BY <3>4
      <4>2. e.id = i /\ e.node = n /\ e.type = t
        BY <4>1, EntryIsPair
      <4>3. e = Entry(i, "busy", n, t)
        BY <4>2, InLedger DEF LedgerShowsLists
      <4> QED
        BY <4>3
    <3>5. ASSUME Entry(i, "busy", n, t) \in X
          PROVE  Entry(i, "lost", n, t) \in Y
      BY <3>1, <3>5
    <3> QED
      BY <3>2, <3>3, <3>4, <3>5
  <2>3. \A e \in Y : /\ e.is \in Kinds /\ e.node \in Nodes /\ e.type \in Types
                      /\ e = Entry(e.id, e.is, e.node, e.type)
    <3> TAKE e \in Y
    <3>1. PICK d \in X : e = Entry(d.id, "lost", d.node, d.type)
      OBVIOUS
    <3>2. d.node \in Nodes /\ d.type \in Types
      BY InLedger DEF LedgerShowsLists
    <3> QED
      BY <3>1, <3>2 DEF Entry, Kinds
  <2> HIDE DEF X, Y
  <2>4. \A n \in Nodes, t \in Types : IdsOfType(cache'[n], t) = IdsOfType(cache[n], t)
    BY <1>1 DEF IdsOfType
  <2>5. \A n \in Nodes, t \in Types : \A i :
          i \in IdsOfType(cache'[n], t) <=>
             \/ i \in IdsOfType(cache[n], t) /\ Entry(i, "idle", n, t) \notin X
             \/ Entry(i, "idle", n, t) \in Y
    BY <2>2, <2>4
  <2>6. \A n \in Nodes, t \in Types : \A i :
          i \in IdsIn(active'[n][t]) <=>
             \/ i \in IdsIn(active[n][t]) /\ Entry(i, "busy", n, t) \notin X
             \/ Entry(i, "busy", n, t) \in Y
    BY <1>2, <1>3, <2>2
  <2>7. \A n \in Nodes, t \in Types : \A i :
          i \in IdsIn(leaked'[n][t]) <=>
             \/ i \in IdsIn(leaked[n][t]) /\ Entry(i, "lost", n, t) \notin X
             \/ Entry(i, "lost", n, t) \in Y
    BY <1>4, <2>2
  <2> QED
    BY <2>3, <2>5, <2>6, <2>7, LedgerChange
<1> QED
  BY <1>5, <1>6, <1>7

\* The six things a step may do to the ledger, the memory and the names.
Moves(i, from, to, n, t) ==
  /\ Entry(i, from, n, t) \in Ledger
  /\ Ledger' = (Ledger \ {Entry(i, from, n, t)}) \cup {Entry(i, to, n, t)}

StaysPut == UNCHANGED <<mem, count>> /\ Ledger' = Ledger

IsTaken ==
  UNCHANGED <<mem, count>> /\ \E n \in Nodes, t \in Types, i \in Nat : Moves(i, "idle", "busy", n, t)

IsReturned ==
  UNCHANGED <<mem, count>> /\ \E n \in Nodes, t \in Types, i \in Nat : Moves(i, "busy", "idle", n, t)

IsCreated ==
  \E n \in Nodes, t \in Types :
    /\ Size[t] <= mem[n] /\ mem' = [mem EXCEPT ![n] = @ - Size[t]]
    /\ count' = count + 1
    /\ Ledger' = Ledger \cup {Entry(count + 1, "busy", n, t)}

IsEvicted ==
  /\ Evict
  /\ LET n == Target
         c == Head(cache[n])
     IN /\ n \in Nodes /\ c.type \in Types /\ c.id \in Nat
        /\ c = cache[n][1] /\ 1 \in DOMAIN cache[n]
        /\ Entry(c.id, "idle", n, c.type) \in Ledger
        /\ mem' = [mem EXCEPT ![n] = @ + Size[c.type]]
        /\ count' = count
        /\ Ledger' = Ledger \ {Entry(c.id, "idle", n, c.type)}

AreLost ==
  /\ UNCHANGED <<mem, count>>
  /\ LET X == {e \in Ledger : e.is = "busy"}
     IN Ledger' = (Ledger \ X) \cup {Entry(e.id, "lost", e.node, e.type) : e \in X}

LEMMA EvictIsEvicted ==
  ASSUME TypeInv, TypeInv', PlacesInv, Evict
  PROVE  ListsOfOneNode' /\ ListsDistinct' /\ IsEvicted
<1>t. TypeOK /\ TypeOK'
  BY DEF TypeInv
<1> DEFINE n == Target
           c == Head(cache[n])
<1>1. n \in Nodes
  BY <1>t, CurrentRequest DEF Evict, TypeInv
<1>2. /\ cache[n] # <<>> /\ cache' = [cache EXCEPT ![n] = Tail(@)]
      /\ active' = active /\ leaked' = leaked /\ count' = count
      /\ mem' = [mem EXCEPT ![n] = @ + Size[c.type]]
  BY DEF Evict
<1> HIDE DEF n
<1>3. /\ ListsOfOneNode' /\ ListsDistinct'
      /\ c = cache[n][1] /\ 1 \in DOMAIN cache[n]
      /\ c.type \in Types /\ Entry(c.id, "idle", n, c.type) \in Ledger
      /\ Ledger' = Ledger \ {Entry(c.id, "idle", n, c.type)}
  BY <1>t, <1>1, <1>2, EvictMoves
<1>4. c.id \in Nat
  <2>1. c \in Container
    BY <1>t, <1>1, <1>2, HeadTailProperties DEF TypeOK
  <2> QED
    BY <2>1 DEF Container
<1> QED
  BY <1>1, <1>2, <1>3, <1>4 DEF IsEvicted, n

LEMMA StepMoves ==
  ASSUME TypeInv, TypeInv', PlacesInv, [Next]_vars
  PROVE  /\ ListsOfOneNode' /\ ListsDistinct'
         /\ StaysPut \/ IsTaken \/ IsReturned \/ IsCreated \/ IsEvicted \/ AreLost
<1>t. TypeOK /\ TypeOK'
  BY DEF TypeInv
<1>1. CASE UNCHANGED <<mem, count, cache, active, leaked>>
  BY <1>1 DEF StaysPut, Ledger, PlacesInv, ListsOfOneNode, ListsDistinct
<1>2. ASSUME NEW n \in Nodes, HasIdle(n, reqs[cur].type), reqs[cur].type \in Types,
             ActiveAdd(cache[n][FirstIdle(n, reqs[cur].type)], n),
             cache' = [cache EXCEPT ![n] = DeleteAt(@, FirstIdle(n, reqs[cur].type))],
             UNCHANGED <<mem, count, leaked>>
      PROVE  ListsOfOneNode' /\ ListsDistinct' /\ IsTaken
  <2> DEFINE i == FirstIdle(n, reqs[cur].type)
             c == cache[n][i]
  <2>1. i \in DOMAIN cache[n] /\ c \in Container
    BY <1>2, <1>t, FirstIdleIsIdle DEF TypeOK
  <2>2. c.id \in Nat
    BY <2>1 DEF Container
  <2>3. leaked' = leaked /\ ActiveAdd(c, n) /\ cache' = [cache EXCEPT ![n] = DeleteAt(@, i)]
    BY <1>2
  <2> HIDE DEF i
  <2>4. /\ ListsOfOneNode' /\ ListsDistinct'
        /\ c.type \in Types /\ Entry(c.id, "idle", n, c.type) \in Ledger
        /\ Ledger' = (Ledger \ {Entry(c.id, "idle", n, c.type)})
                       \cup {Entry(c.id, "busy", n, c.type)}
    BY <1>t, <2>1, <2>3, TakeMoves
  <2> QED
    BY <1>2, <2>2, <2>4 DEF IsTaken, Moves
<1>3. CASE PlaceToCurrent
  <2>1. cur \in DOMAIN reqs
    BY <1>3, <1>t, LenProperties DEF PlaceToCurrent, TypeOK
  <2>2. Target \in Nodes /\ reqs[cur].type \in Types
    BY <1>t, <2>1, CurrentRequest
  <2> QED
    BY <1>2, <1>3, <2>2 DEF PlaceToCurrent
<1>4. CASE PlaceToNeighbour
  <2>1. cur \in DOMAIN reqs /\ near # <<>>
    BY <1>4 DEF PlaceToNeighbour, TypeInv
  <2>2. Head(near) \in Nodes /\ reqs[cur].type \in Types
    BY <1>t, <2>1, CurrentRequest, HeadTailProperties DEF TypeOK
  <2> QED
    BY <1>2, <1>4, <2>2 DEF PlaceToNeighbour
<1>5. CASE CreateContainer
  <2> DEFINE r == reqs[cur]
             c == [id |-> count + 1, type |-> r.type, node |-> Target,
                   clock |-> clock, prio |-> ActivePriority(r.type, freq[r.type])]
  <2>1. r.type \in Types /\ Target \in Nodes
    BY <1>5, <1>t, CurrentRequest DEF CreateContainer, TypeInv
  <2>2. /\ ActiveAdd(c, Target) /\ cache' = cache /\ leaked' = leaked
        /\ Fits(Target, r.type) /\ count' = count + 1
        /\ mem' = [mem EXCEPT ![Target] = @ - Size[r.type]]
    BY <1>5 DEF CreateContainer
  <2> HIDE DEF r
  <2>3. count \in Nat /\ clock \in Nat /\ freq[r.type] \in Int
    BY <1>t, <2>1 DEF TypeOK
  <2>4. ActivePriority(r.type, freq[r.type]) \in Int
    BY <1>t, <2>1, <2>3, PrioritiesAreInt
  <2>5. count + 1 \in Nat
    BY <2>3
  <2>6. c \in Container /\ c.id = count + 1 /\ c.node = Target /\ c.type = r.type
    BY <2>1, <2>3, <2>4, <2>5 DEF Container
  <2> HIDE DEF c
  <2>7. /\ ListsOfOneNode' /\ ListsDistinct'
        /\ Ledger' = Ledger \cup {Entry(c.id, "busy", Target, c.type)}
    BY <1>t, <2>1, <2>2, <2>6, CreateMoves
  <2>8. Ledger' = Ledger \cup {Entry(count + 1, "busy", Target, r.type)}
    BY <2>6, <2>7
  <2>9. Size[r.type] <= mem[Target]
    BY <2>2 DEF Fits
  <2> QED
    BY <2>1, <2>2, <2>7, <2>8, <2>9 DEF IsCreated
<1>6. CASE Evict
  BY <1>6, EvictIsEvicted
<1>7. CASE CacheActive
  <2>1. UNCHANGED <<mem, count>>
    BY <1>7 DEF CacheActive
  <2> QED
    BY <1>7, <1>t, <2>1, ReturnMoves DEF IsReturned, Moves
<1>8. CASE FinishUpdate
  <2>1. UNCHANGED <<mem, count>>
    BY <1>8 DEF FinishUpdate
  <2> QED
    BY <1>8, <1>t, <2>1, LoseMoves DEF AreLost
<1> QED
  BY <1>1, <1>3, <1>4, <1>5, <1>6, <1>7, <1>8
  DEF Next, Deploy, UpdateCache, vars, StartSlot, Finish, SearchNeighbours,
      SkipNeighbour, NeighbourFound, NoNeighbour, RefuseForPriority,
      CreateNew, RefuseForNode, RefuseForSpace, SendResults, NextSlice, WaitForSignal

\* Every step keeps the invariant about places.
LEMMA PlacesInvStep == TypeInv /\ TypeInv' /\ PlacesInv /\ [Next]_vars => PlacesInv'
<1> SUFFICES ASSUME TypeInv, TypeInv', PlacesInv, [Next]_vars PROVE PlacesInv'
  OBVIOUS
<1>1. ListsOfOneNode' /\ ListsDistinct'
  BY StepMoves
<1> SUFFICES OneEntryEach' /\ NamesGiven'
  BY <1>1 DEF PlacesInv
<1>2. count \in Nat /\ \A i, s, n, t : Entry(i, s, n, t).id = i
  BY DEF TypeInv, TypeOK, Entry
<1>3. OneEntryEach /\ NamesGiven
  BY DEF PlacesInv
<1>4. CASE StaysPut
  BY <1>3, <1>4 DEF StaysPut, OneEntryEach, NamesGiven
<1>5. ASSUME NEW i, NEW s, NEW r, NEW n, NEW t, Moves(i, s, r, n, t), count' = count
      PROVE  OneEntryEach' /\ NamesGiven'
  BY <1>2, <1>3, <1>5 DEF Moves, OneEntryEach, NamesGiven
<1>6. CASE IsTaken
  BY <1>5, <1>6 DEF IsTaken
<1>7. CASE IsReturned
  BY <1>5, <1>7 DEF IsReturned
<1>8. CASE IsCreated
  <2>1. PICK n \in Nodes, t \in Types :
          count' = count + 1 /\ Ledger' = Ledger \cup {Entry(count + 1, "busy", n, t)}
    BY <1>8 DEF IsCreated
  <2>2. \A c \in Ledger : c.id # count + 1
    BY <1>2, <1>3 DEF NamesGiven
  <2>3. OneEntryEach'
    BY <1>2, <1>3, <2>1, <2>2 DEF OneEntryEach
  <2>4. count + 1 \in 1 .. (count + 1) /\ \A i \in 1 .. count : i \in 1 .. (count + 1)
    BY <1>2
  <2>5. NamesGiven'
    BY <1>2, <1>3, <2>1, <2>4 DEF NamesGiven
  <2> QED
    BY <2>3, <2>5
<1>9. CASE IsEvicted
  <2>1. count' = count /\ Ledger' \subseteq Ledger
    BY <1>9 DEF IsEvicted
  <2> QED
    BY <1>3, <2>1 DEF OneEntryEach, NamesGiven
<1>10. CASE AreLost
  <2> DEFINE X == {e \in Ledger : e.is = "busy"}
             Y == {Entry(e.id, "lost", e.node, e.type) : e \in X}
  <2>1. count' = count /\ Ledger' = (Ledger \ X) \cup Y
    BY <1>10 DEF AreLost
  <2>2. \A y \in Y : \E e \in X : y.id = e.id /\ y = Entry(e.id, "lost", e.node, e.type)
    BY <1>2
  <2>3. X \subseteq Ledger
    OBVIOUS
  <2> HIDE DEF X, Y
  <2> QED
    BY <1>3, <2>1, <2>2, <2>3 DEF OneEntryEach, NamesGiven
<1> QED
  BY <1>4, <1>6, <1>7, <1>8, <1>9, <1>10, StepMoves

\* PlacesInv holds in every reachable state.
LEMMA PlacesAlways == Spec => [](TypeInv /\ PlacesInv)
BY TypeInvInit, TypeInvStep, PlacesInvInit, PlacesInvStep, PTL DEF Spec

-----------------------------------------------------------------------------
(* One place for each container.                                           *)

LEMMA StoresAre ==
  \A s \in Stores : \E n \in Nodes :
    \/ s = <<"cache", n, 0>> /\ ListAt(s) = cache[n]
    \/ \E t \in Types : s = <<"active", n, t>> /\ ListAt(s) = active[n][t]
    \/ \E t \in Types : s = <<"leaked", n, t>> /\ ListAt(s) = leaked[n][t]
BY DEF Stores, ListAt

LEMMA PositionsAre ==
  \A p \in Positions : \E s \in Stores : \E i \in DOMAIN ListAt(s) :
    p = <<s, i>> /\ Occupant(p) = ListAt(s)[i]
BY DEF Positions, Occupant

\* The entry of the container at a position.
LEMMA OccupantEntry ==
  ASSUME TypeOK, NEW s \in Stores, NEW i \in DOMAIN ListAt(s)
  PROVE  LET c == ListAt(s)[i]
         IN /\ ListAt(s) \in Seq(Container) /\ c \in Container
            /\ \E n \in Nodes :
                 \/ s = <<"cache", n, 0>> /\ Entry(c.id, "idle", n, c.type) \in Ledger
                 \/ \E t \in Types : s = <<"active", n, t>> /\ Entry(c.id, "busy", n, t) \in Ledger
                 \/ \E t \in Types : s = <<"leaked", n, t>> /\ Entry(c.id, "lost", n, t) \in Ledger
<1> DEFINE l == ListAt(s)
           c == l[i]
<1>1. PICK n \in Nodes :
        \/ s = <<"cache", n, 0>> /\ l = cache[n]
        \/ \E t \in Types : s = <<"active", n, t>> /\ l = active[n][t]
        \/ \E t \in Types : s = <<"leaked", n, t>> /\ l = leaked[n][t]
  BY StoresAre
<1>2. i \in DOMAIN l
  OBVIOUS
<1> HIDE DEF l
<1>3. l \in Seq(Container)
  BY <1>1 DEF TypeOK
<1>4. c \in Container
  BY <1>2, <1>3, LenProperties, ElementOfSeq
<1>5. c.id \in IdsIn(l) /\ c.id \in IdsOfType(l, c.type) /\ c.type \in Types
  BY <1>2, <1>4 DEF IdsIn, IdsOfType, Range, Container
<1> HIDE DEF c
<1>6. \/ s = <<"cache", n, 0>> /\ Entry(c.id, "idle", n, c.type) \in Ledger
      \/ \E t \in Types : s = <<"active", n, t>> /\ Entry(c.id, "busy", n, t) \in Ledger
      \/ \E t \in Types : s = <<"leaked", n, t>> /\ Entry(c.id, "lost", n, t) \in Ledger
  <2>1. CASE s = <<"cache", n, 0>> /\ l = cache[n]
    BY <1>5, <2>1, InLedger DEF LedgerShowsLists
  <2>2. ASSUME NEW t \in Types, s = <<"active", n, t>>, l = active[n][t]
        PROVE  Entry(c.id, "busy", n, t) \in Ledger
    BY <1>5, <2>2, InLedger DEF LedgerShowsLists
  <2>3. ASSUME NEW t \in Types, s = <<"leaked", n, t>>, l = leaked[n][t]
        PROVE  Entry(c.id, "lost", n, t) \in Ledger
    BY <1>5, <2>3, InLedger DEF LedgerShowsLists
  <2> QED
    BY <1>1, <2>1, <2>2, <2>3, Zenon
<1> QED
  BY <1>3, <1>4, <1>6 DEF c, l

LEMMA PlacesAreUnique == TypeOK /\ PlacesInv => UniqueContainers
<1> SUFFICES ASSUME TypeOK, PlacesInv,
                    NEW p \in Positions, NEW q \in Positions, Occupant(p).id = Occupant(q).id
             PROVE  p = q
  BY DEF UniqueContainers
<1>1. PICK s \in Stores : \E i \in DOMAIN ListAt(s) : p = <<s, i>> /\ Occupant(p) = ListAt(s)[i]
  BY PositionsAre
<1>2. PICK i \in DOMAIN ListAt(s) : p = <<s, i>> /\ Occupant(p) = ListAt(s)[i]
  BY <1>1
<1>3. PICK r \in Stores : \E j \in DOMAIN ListAt(r) : q = <<r, j>> /\ Occupant(q) = ListAt(r)[j]
  BY PositionsAre
<1>4. PICK j \in DOMAIN ListAt(r) : q = <<r, j>> /\ Occupant(q) = ListAt(r)[j]
  BY <1>3
<1> DEFINE c == ListAt(s)[i]
           d == ListAt(r)[j]
<1>5. c.id = d.id
  BY <1>2, <1>4
<1>6. /\ ListAt(s) \in Seq(Container)
      /\ \E n \in Nodes :
           \/ s = <<"cache", n, 0>> /\ Entry(c.id, "idle", n, c.type) \in Ledger
           \/ \E t \in Types : s = <<"active", n, t>> /\ Entry(c.id, "busy", n, t) \in Ledger
           \/ \E t \in Types : s = <<"leaked", n, t>> /\ Entry(c.id, "lost", n, t) \in Ledger
  BY OccupantEntry
<1>7. \E m \in Nodes :
           \/ r = <<"cache", m, 0>> /\ Entry(d.id, "idle", m, d.type) \in Ledger
           \/ \E t \in Types : r = <<"active", m, t>> /\ Entry(d.id, "busy", m, t) \in Ledger
           \/ \E t \in Types : r = <<"leaked", m, t>> /\ Entry(d.id, "lost", m, t) \in Ledger
  BY OccupantEntry
<1> HIDE DEF c, d
<1>8. \A i1, s1, n1, t1, s2, n2, t2 :
         Entry(i1, s1, n1, t1) \in Ledger /\ Entry(i1, s2, n2, t2) \in Ledger
           => s1 = s2 /\ n1 = n2 /\ t1 = t2
  <2> SUFFICES ASSUME NEW i1, NEW s1, NEW n1, NEW t1, NEW s2, NEW n2, NEW t2,
                      Entry(i1, s1, n1, t1) \in Ledger, Entry(i1, s2, n2, t2) \in Ledger
               PROVE  s1 = s2 /\ n1 = n2 /\ t1 = t2
    OBVIOUS
  <2>1. Entry(i1, s1, n1, t1).id = i1 /\ Entry(i1, s2, n2, t2).id = i1
    BY DEF Entry
  <2>2. Entry(i1, s1, n1, t1) = Entry(i1, s2, n2, t2)
    BY <2>1 DEF PlacesInv, OneEntryEach
  <2> QED
    BY <2>2, EntryIsPair
<1>9. s = r
  BY <1>5, <1>6, <1>7, <1>8
<1>10. Distinct(ListAt(s))
  BY StoresAre DEF PlacesInv, ListsDistinct
<1>11. i = j
  BY <1>5, <1>9, <1>10 DEF Distinct, c, d
<1> QED
  BY <1>2, <1>4, <1>9, <1>11

\* A container is in one place of one list, whatever a request claims, evicts
\* or creates and however updateCache moves containers back (types.go:176).
THEOREM ContainersAreUnique == Spec => []UniqueContainers
<1>1. TypeInv /\ PlacesInv => UniqueContainers
  BY PlacesAreUnique DEF TypeInv
<1> QED
  BY <1>1, PlacesAlways, PTL

-----------------------------------------------------------------------------
(* The search for an idle container.                                       *)

\* When a container is to be created, the node that is to serve the request has
\* no idle container of its type, and neither has any reachable one; while the
\* neighbours are looked at, that holds of the reachable ones looked at so far.
SearchInv ==
  /\ pc \in {"neighbour", "create"} => ~HasIdle(Target, reqs[cur].type)
  /\ pc = "neighbour" => policy # "flame"
  /\ pc = "neighbour" /\ ~placed =>
       \A n \in Nodes : Reachable(reqs[cur], n) =>
         n \in Range(near) \/ ~HasIdle(n, reqs[cur].type)
  /\ pc = "create" /\ policy # "flame" =>
       \A n \in Nodes : Reachable(reqs[cur], n) => ~HasIdle(n, reqs[cur].type)

LEMMA HasIdleInRange ==
  \A n, t : HasIdle(n, t) <=> \E c \in Range(cache[n]) : c.type = t
BY DEF HasIdle, IdleIndexes, Range

LEMMA NextHasIdleInRange ==
  \A n, t : HasIdle(n, t)' <=> \E c \in Range(cache'[n]) : c.type = t
BY DEF HasIdle, IdleIndexes, Range

\* A cache list that only loses containers has no new idle type.
LEMMA NoNewIdle ==
  ASSUME \A n \in Nodes : Range(cache'[n]) \subseteq Range(cache[n])
  PROVE  \A n \in Nodes : \A t : HasIdle(n, t)' => HasIdle(n, t)
BY HasIdleInRange, NextHasIdleInRange

\* The nearest node is the ingress node itself, so that the others are all the
\* neighbours.
LEMMA NeighboursAreTheOthers ==
  ASSUME NEW n \in Nodes, NEW o \in SortedNodes(n)
  PROVE  \A m \in Nodes : m # n => m \in Range(Others(o))
<1>1. /\ o \in [1 .. NodeNum -> Nodes] /\ \A m \in Nodes : \E i \in 1 .. NodeNum : o[i] = m
      /\ \A i, j \in 1 .. NodeNum : i < j => Latency[n][o[i]] <= Latency[n][o[j]]
      /\ NodeNum \in Nat \ {0}
  <2>1. o \in SetToSeqs(Nodes) /\ \A i, j \in DOMAIN o : i < j => Latency[n][o[i]] <= Latency[n][o[j]]
    BY DEF SortedNodes
  <2>2. o \in [1 .. NodeNum -> Nodes] /\ \A i, j \in 1 .. NodeNum : i # j => o[i] # o[j]
    BY <2>1, NodesFinite DEF SetToSeqs
  <2>3. \A m \in Nodes : \E i \in 1 .. NodeNum : o[i] = m
    <3>2. o \in Injection(1 .. NodeNum, Nodes)
      BY <2>2 DEF Injection, IsInjective
    <3>3. IsFiniteSet(1 .. NodeNum) /\ Cardinality(1 .. NodeNum) = NodeNum
      <4>1. NodeNum \in Int /\ 1 \in Int /\ ~(1 > NodeNum) /\ NodeNum - 1 + 1 = NodeNum
        BY NodesFinite
      <4> QED
        BY <4>1, FS_Interval
    <3>4. o \in Surjection(1 .. NodeNum, Nodes)
      BY <3>2, <3>3, NodesFinite, FS_Injection
    <3> QED
      BY <3>4 DEF Surjection
  <2> QED
    BY <2>1, <2>2, <2>3, NodesFinite
<1>2. o[1] = n
  <2> SUFFICES ASSUME o[1] # n PROVE FALSE
    OBVIOUS
  <2>1. PICK i \in 1 .. NodeNum : o[i] = n
    BY <1>1
  <2>2. 1 < i /\ 1 \in 1 .. NodeNum /\ o[1] \in Nodes
    BY <1>1, <2>1
  <2>3. Latency[n][o[1]] <= Latency[n][n]
    BY <1>1, <2>1, <2>2
  <2>4. Latency[n][n] < Latency[n][o[1]]
    BY <2>2, NodesApart
  <2>5. Latency[n][n] \in Nat /\ Latency[n][o[1]] \in Nat
    BY <2>2, ConstantsOK
  <2> QED
    BY <2>3, <2>4, <2>5
<1>3. o \in Seq(Nodes) /\ Len(o) = NodeNum /\ o # <<>>
  <2>1. o \in Seq(Nodes) /\ Len(o) = NodeNum
    BY <1>1, IsASeq
  <2> QED
    BY <1>1, <2>1, EmptySeq
<1>4. /\ Tail(o) \in Seq(Nodes) /\ Len(Tail(o)) = NodeNum - 1
      /\ \A i \in 1 .. (NodeNum - 1) : Tail(o)[i] = o[i + 1]
  BY <1>1, <1>3, HeadTailProperties
<1> SUFFICES ASSUME NEW m \in Nodes, m # n
             PROVE  m \in Range(Tail(o))
  BY DEF Others
<1>5. PICK i \in 1 .. NodeNum : o[i] = m
  BY <1>1
<1>6. i - 1 \in 1 .. (NodeNum - 1) /\ (i - 1) + 1 = i
  BY <1>1, <1>2, <1>5
<1>7. i - 1 \in DOMAIN Tail(o)
  BY <1>4, <1>6, LenProperties
<1>8. Tail(o)[i - 1] = m
  BY <1>4, <1>5, <1>6
<1> QED
  BY <1>7, <1>8 DEF Range

\* Steps that leave the current request what it asks for.
SameRequest ==
  /\ UNCHANGED <<cur, policy, robin>>
  /\ reqs'[cur].type = reqs[cur].type /\ reqs'[cur].ingress = reqs[cur].ingress

LEMMA SameRequestSameSearch ==
  ASSUME SameRequest
  PROVE  /\ Target' = Target /\ (reqs[cur].type)' = reqs[cur].type
         /\ \A n : Reachable(reqs[cur], n)' <=> Reachable(reqs[cur], n)
BY DEF SameRequest, Target, Turn, Reachable

\* A served request asks for what it asked before.
LEMMA ServeSameRequest ==
  ASSUME TypeOK, cur \in DOMAIN reqs, NEW c, NEW n, NEW b, Serve(c, n, b)
  PROVE  reqs'[cur].type = reqs[cur].type /\ reqs'[cur].ingress = reqs[cur].ingress
<1>1. reqs[cur] \in Request
  BY CurrentRequest
<1> DEFINE r == [reqs[cur] EXCEPT !.fn = c.id, !.served = TRUE, !.node = n, !.cold = b]
<1>2. r.type = reqs[cur].type /\ r.ingress = reqs[cur].ingress
  BY <1>1 DEF Request
<1> HIDE DEF r
<1>3. reqs' = [reqs EXCEPT ![cur] = r]
  BY DEF Serve, r
<1>4. reqs'[cur] = r
  BY <1>3
<1> QED
  BY <1>2, <1>4

LEMMA SearchInvStep == TypeInv /\ TypeInv' /\ SearchInv /\ [Next]_vars => SearchInv'
<1> SUFFICES ASSUME TypeInv, TypeInv', SearchInv, [Next]_vars PROVE SearchInv'
  OBVIOUS
<1>t. TypeOK /\ TypeOK' /\ (pc \in {"neighbour", "create"} => cur \in DOMAIN reqs)
  BY DEF TypeInv
<1>0. CASE pc' \notin {"neighbour", "create"}
  BY <1>0 DEF SearchInv
<1>1. CASE UNCHANGED vars
  BY <1>1 DEF vars, request, neighbours, SearchInv, HasIdle, IdleIndexes, Target, Turn, Reachable
<1>2. CASE CreateNew
  <2>1. /\ pc' = "create" /\ policy' = "flame"
        /\ UNCHANGED <<request, cache, policy>> /\ ~HasIdle(Target, reqs[cur].type)
    BY <1>2 DEF CreateNew
  <2>2. SameRequest /\ cache' = cache
    BY <2>1 DEF SameRequest, request
  <2>3. ~HasIdle(Target, reqs[cur].type)'
    BY <2>1, <2>2, SameRequestSameSearch DEF HasIdle, IdleIndexes
  <2> QED
    BY <2>1, <2>3 DEF SearchInv
<1>3. CASE SearchNeighbours
  <2>1. /\ pc' = "neighbour" /\ policy # "flame"
        /\ UNCHANGED <<request, cache, policy>> /\ ~HasIdle(Target, reqs[cur].type)
        /\ cur <= Len(reqs)
    BY <1>3 DEF SearchNeighbours
  <2>2. SameRequest /\ cache' = cache
    BY <2>1 DEF SameRequest, request
  <2>3. ~HasIdle(Target, reqs[cur].type)'
    BY <2>1, <2>2, SameRequestSameSearch DEF HasIdle, IdleIndexes
  <2>4. cur \in DOMAIN reqs
    BY <1>t, <2>1, LenProperties DEF TypeOK
  <2>5. PICK o \in SortedNodes(reqs[cur].ingress) : near' = Others(o)
    BY <1>3 DEF SearchNeighbours
  <2>6. reqs[cur].ingress \in Nodes /\ Target = reqs[cur].ingress
    BY <1>t, <2>1, <2>4, CurrentRequest DEF Request, Target
  <2>7. \A m \in Nodes : m # Target => m \in Range(near')
    BY <2>5, <2>6, NeighboursAreTheOthers
  <2>8. Target' = Target
    BY <2>2, SameRequestSameSearch
  <2>9. \A m \in Nodes : m \in Range(near)' \/ ~HasIdle(m, reqs[cur].type)'
    BY <2>3, <2>7, <2>8
  <2> QED
    BY <2>1, <2>3, <2>9 DEF SearchInv
<1>4. CASE PlaceToNeighbour
  <2> DEFINE n == Head(near)
             i == FirstIdle(n, reqs[cur].type)
  <2>1. /\ pc = "neighbour" /\ pc' = "neighbour" /\ placed' = TRUE
        /\ UNCHANGED <<cur, policy, robin>> /\ near # <<>>
        /\ HasIdle(n, reqs[cur].type)
        /\ cache' = [cache EXCEPT ![n] = DeleteAt(@, i)]
        /\ Serve(cache[n][i], n, FALSE)
    BY <1>4 DEF PlaceToNeighbour
  <2>2. SameRequest
    BY <1>t, <2>1, ServeSameRequest DEF SameRequest
  <2>3. n \in Nodes /\ reqs[cur].type \in Types
    BY <1>t, <2>1, CurrentRequest, HeadTailProperties DEF TypeOK
  <2> HIDE DEF n
  <2>4. \A m \in Nodes : Range(cache'[m]) \subseteq Range(cache[m])
    <3>1. cache[n] \in Seq(Container) /\ i \in DOMAIN cache[n]
      BY <1>t, <2>1, <2>3, FirstIdleIsIdle DEF TypeOK
    <3> HIDE DEF i
    <3>2. /\ \A m \in Nodes : m # n => cache'[m] = cache[m]
          /\ cache'[n] = DeleteAt(cache[n], i)
      BY <1>t, <2>1, <2>3 DEF TypeOK
    <3>3. Range(DeleteAt(cache[n], i)) \subseteq Range(cache[n])
      <4> DEFINE s == cache[n]
                 q == DeleteAt(s, i)
      <4>1. /\ Len(q) = Len(s) - 1 /\ q \in Seq(Container)
            /\ \A p \in 1 .. Len(s) - 1 : q[p] = IF p < i THEN s[p] ELSE s[p + 1]
        BY <3>1, DeleteAtProperties
      <4>2. s \in Seq(Container)
        BY <3>1
      <4> HIDE DEF q, s
      <4>3. /\ Len(s) \in Nat /\ DOMAIN s = 1 .. Len(s) /\ DOMAIN q = 1 .. Len(s) - 1
        BY <4>1, <4>2, LenProperties
      <4>4. \A p \in DOMAIN q : p \in DOMAIN s /\ p + 1 \in DOMAIN s
        BY <4>3
      <4>5. \A p \in DOMAIN q : q[p] = s[p] \/ q[p] = s[p + 1]
        BY <4>1, <4>3
      <4>6. Range(q) \subseteq Range(s)
        BY <4>4, <4>5 DEF Range
      <4> QED
        BY <4>6 DEF q, s
    <3> QED
      BY <3>2, <3>3
  <2>5. Target \in Nodes
    BY <1>t, <2>1, CurrentRequest
  <2>6. ~HasIdle(Target, reqs[cur].type)
    BY <2>1 DEF SearchInv
  <2>7. ~HasIdle(Target, reqs[cur].type)'
    BY <2>2, <2>4, <2>5, <2>6, SameRequestSameSearch, HasIdleInRange, NextHasIdleInRange
  <2> QED
    BY <2>1, <2>7 DEF SearchInv
<1>5. CASE SkipNeighbour
  <2>1. /\ pc = "neighbour" /\ pc' = "neighbour" /\ placed' = placed
        /\ UNCHANGED <<request, cache, policy>> /\ near # <<>> /\ near' = Tail(near)
        /\ ~(Reachable(reqs[cur], Head(near)) /\ HasIdle(Head(near), reqs[cur].type))
    BY <1>5 DEF SkipNeighbour, neighbours
  <2>2. SameRequest /\ cache' = cache
    BY <2>1 DEF SameRequest, request
  <2>3. /\ ~HasIdle(Target, reqs[cur].type)'
        /\ \A n : HasIdle(n, reqs[cur].type)' <=> HasIdle(n, reqs[cur].type)
    BY <2>1, <2>2, SameRequestSameSearch DEF HasIdle, IdleIndexes, SearchInv
  <2>4. \A n \in Range(near) : n = Head(near) \/ n \in Range(Tail(near))
    <3>1. /\ near \in Seq(Nodes) /\ Len(near) \in Nat /\ DOMAIN near = 1 .. Len(near)
          /\ Tail(near) \in Seq(Nodes) /\ Len(Tail(near)) = Len(near) - 1
          /\ \A i \in 1 .. Len(near) - 1 : Tail(near)[i] = near[i + 1]
          /\ Head(near) = near[1]
      BY <1>t, <2>1, HeadTailProperties, LenProperties DEF TypeOK
    <3>2. DOMAIN Tail(near) = 1 .. Len(near) - 1
      BY <3>1, LenProperties
    <3> TAKE n \in Range(near)
    <3>3. PICK i \in 1 .. Len(near) : n = near[i]
      BY <3>1 DEF Range
    <3>4. CASE i = 1
      BY <3>1, <3>3, <3>4
    <3>5. CASE i # 1
      <4>1. i - 1 \in 1 .. Len(near) - 1 /\ (i - 1) + 1 = i
        BY <3>1, <3>5
      <4>2. Tail(near)[i - 1] = n
        BY <3>1, <3>3, <4>1
      <4> QED
        BY <3>2, <4>1, <4>2 DEF Range
    <3> QED
      BY <3>4, <3>5
  <2>5. ASSUME ~placed', NEW n \in Nodes, Reachable(reqs[cur], n)'
        PROVE  n \in Range(near)' \/ ~HasIdle(n, reqs[cur].type)'
    <3>1. Reachable(reqs[cur], n) /\ ~placed
      BY <2>1, <2>2, <2>5, SameRequestSameSearch
    <3>2. n \in Range(near) \/ ~HasIdle(n, reqs[cur].type)
      BY <2>1, <3>1 DEF SearchInv
    <3> QED
      BY <2>1, <2>3, <2>4, <3>1, <3>2
  <2> QED
    BY <2>1, <2>3, <2>5 DEF SearchInv
<1>6. CASE NoNeighbour
  <2>1. /\ pc = "neighbour" /\ pc' = "create" /\ ~placed
        /\ UNCHANGED <<request, cache, policy>> /\ near = <<>>
    BY <1>6 DEF NoNeighbour
  <2>2. SameRequest /\ cache' = cache
    BY <2>1 DEF SameRequest, request
  <2>3. /\ ~HasIdle(Target, reqs[cur].type)'
        /\ \A n : HasIdle(n, reqs[cur].type)' <=> HasIdle(n, reqs[cur].type)
    BY <2>1, <2>2, SameRequestSameSearch DEF HasIdle, IdleIndexes, SearchInv
  <2>4. Range(near) = {}
    BY <2>1 DEF Range
  <2>5. \A n \in Nodes : Reachable(reqs[cur], n)' => ~HasIdle(n, reqs[cur].type)'
    BY <2>1, <2>2, <2>3, <2>4, SameRequestSameSearch DEF SearchInv
  <2> QED
    BY <2>1, <2>3, <2>5 DEF SearchInv
<1>7. CASE Evict
  <2>1. /\ pc = "create" /\ pc' = "create" /\ UNCHANGED <<reqs, cur, robin, policy>>
        /\ cache[Target] # <<>> /\ cache' = [cache EXCEPT ![Target] = Tail(@)]
    BY <1>7 DEF Evict
  <2>2. SameRequest
    BY <2>1 DEF SameRequest
  <2>3. Target \in Nodes
    BY <1>t, <2>1, CurrentRequest
  <2>4. \A m \in Nodes : Range(cache'[m]) \subseteq Range(cache[m])
    <3> DEFINE s == cache[Target]
    <3>1. s \in Seq(Container) /\ s # <<>>
      BY <1>t, <2>1, <2>3 DEF TypeOK
    <3>2. /\ \A m \in Nodes : m # Target => cache'[m] = cache[m]
          /\ cache'[Target] = Tail(s)
      BY <1>t, <2>1, <2>3 DEF TypeOK
    <3> HIDE DEF s
    <3>3. /\ Len(s) \in Nat /\ DOMAIN s = 1 .. Len(s) /\ DOMAIN Tail(s) = 1 .. Len(s) - 1
          /\ \A i \in 1 .. Len(s) - 1 : Tail(s)[i] = s[i + 1]
      BY <3>1, HeadTailProperties, LenProperties
    <3>4. \A i \in 1 .. Len(s) - 1 : i + 1 \in DOMAIN s
      BY <3>3
    <3>5. Range(Tail(s)) \subseteq Range(s)
      BY <3>3, <3>4 DEF Range
    <3> QED
      BY <3>2, <3>5 DEF s
  <2>5. \A n \in Nodes : HasIdle(n, reqs[cur].type)' => HasIdle(n, reqs[cur].type)
    BY <2>2, <2>4, SameRequestSameSearch, HasIdleInRange, NextHasIdleInRange
  <2>6. ~HasIdle(Target, reqs[cur].type)'
    BY <2>1, <2>2, <2>3, <2>4, SameRequestSameSearch, HasIdleInRange, NextHasIdleInRange DEF SearchInv
  <2>7. policy' # "flame" => \A n \in Nodes : Reachable(reqs[cur], n)' => ~HasIdle(n, reqs[cur].type)'
    BY <2>1, <2>2, <2>5, SameRequestSameSearch DEF SearchInv
  <2> QED
    BY <2>1, <2>6, <2>7 DEF SearchInv
<1>8. ASSUME PlaceToCurrent \/ NeighbourFound \/ CreateContainer \/ RefuseForPriority
             \/ RefuseForNode \/ RefuseForSpace
      PROVE  pc' \notin {"neighbour", "create"}
  BY <1>8 DEF PlaceToCurrent, NeighbourFound, CreateContainer, RefuseForPriority,
     RefuseForNode, RefuseForSpace, NextRequest
<1>9. ASSUME StartSlot \/ Finish \/ SendResults \/ NextSlice \/ CacheActive \/ FinishUpdate
      PROVE  pc' \notin {"neighbour", "create"}
  BY <1>9 DEF StartSlot, Finish, SendResults, NextSlice, CacheActive, FinishUpdate
<1> QED
  BY <1>0, <1>1, <1>2, <1>3, <1>4, <1>5, <1>6, <1>7, <1>8, <1>9
  DEF Next, Deploy, UpdateCache, WaitForSignal

LEMMA SearchAlways == Spec => [](TypeInv /\ SearchInv)
<1>1. Init => SearchInv
  BY DEF Init, SearchInv
<1> QED
  BY <1>1, TypeInvInit, TypeInvStep, SearchInvStep, PTL DEF Spec

\* A container is only created for a request when the node that is to serve it
\* has no idle one of the type, and, but for flame, no node has that is nearer
\* than a cold start is long (algorithm.go:164, 168-172, 259).
THEOREM ColdStartsAreNeeded == Spec => ColdStartOnlyIfNeeded
<1>1. TypeInv /\ SearchInv /\ [Next]_vars =>
        [count' # count =>
           \A n \in Nodes :
             n = Target \/ (policy # "flame" /\ Reachable(reqs[cur], n))
               => ~HasIdle(n, reqs[cur].type)]_vars
  <2> SUFFICES ASSUME SearchInv, [Next]_vars, count' # count
               PROVE  \A n \in Nodes :
                        n = Target \/ (policy # "flame" /\ Reachable(reqs[cur], n))
                          => ~HasIdle(n, reqs[cur].type)
    OBVIOUS
  <2>1. CreateContainer
    BY DEF Next, Deploy, UpdateCache, vars, StartSlot, Finish, SearchNeighbours, PlaceToCurrent,
      PlaceToNeighbour, SkipNeighbour, NeighbourFound, NoNeighbour, Evict, RefuseForPriority,
      CreateNew, RefuseForNode, RefuseForSpace, SendResults, NextSlice, CacheActive,
      FinishUpdate, WaitForSignal
  <2>2. pc = "create"
    BY <2>1 DEF CreateContainer
  <2> QED
    BY <2>2 DEF SearchInv
<1> QED
  BY <1>1, SearchAlways, PTL DEF Spec, ColdStartOnlyIfNeeded

-----------------------------------------------------------------------------
(* The time of the last use, by which lru sorts.                           *)

\* With lru an idle container was used before this slot until updateCache
\* starts, and no container was used later than in this slot.
LastUses ==
  /\ \A n \in Nodes : \A c \in Range(cache[n]) :
       c.prio <= slot /\ (pc \notin {"update", "done"} => c.prio < slot)
  /\ \A n \in Nodes, t \in Types : \A c \in Range(active[n][t]) : c.prio <= slot

LruInv == policy = "lru" => LastUses

LEMMA LruInvStep == TypeInv /\ TypeInv' /\ PlacesInv /\ LruInv /\ [Next]_vars => LruInv'
<1> SUFFICES ASSUME TypeInv, TypeInv', PlacesInv, LruInv, [Next]_vars, policy' = "lru"
             PROVE  LastUses'
  BY DEF LruInv
<1>t. TypeOK /\ TypeOK' /\ slot \in Nat /\ (pc \in {"neighbour", "create"} => cur \in DOMAIN reqs)
  BY DEF TypeInv, TypeOK
<1>0. policy = "lru" /\ LastUses
  BY DEF LruInv, Next, Deploy, UpdateCache, vars, StartSlot, Finish, SearchNeighbours, PlaceToCurrent,
      PlaceToNeighbour, SkipNeighbour, NeighbourFound, NoNeighbour, CreateContainer, Evict,
      RefuseForPriority, CreateNew, RefuseForNode, RefuseForSpace, SendResults, NextSlice,
      CacheActive, FinishUpdate, WaitForSignal
<1>1. CASE /\ UNCHANGED <<cache, active, slot>>
           /\ pc \in {"update", "done"} => pc' \in {"update", "done"}
  BY <1>0, <1>1 DEF LastUses
<1>2. ASSUME NEW c \in Container, NEW n \in Nodes, ActiveAdd(c, n), slot' = slot,
             pc \notin {"update", "done"}, NEW q, cache' = [cache EXCEPT ![n] = q],
             Range(q) \subseteq Range(cache[n])
      PROVE  LastUses'
  <2> DEFINE t == c.type
             p == ActivePriority(t, freq[t] + 1)
             d == [c EXCEPT !.clock = clock, !.prio = p]
             a == active[n][t]
  <2>1. t \in Types
    BY DEF Container
  <2>2. clock \in Nat
    BY <1>t DEF TypeOK
  <2>3. ActivePriority(t, freq[t] + 1) = slot
    BY <1>0 DEF ActivePriority
  <2>p. p \in Int /\ p = slot
    BY <1>t, <2>3
  <2>4. d \in Container /\ d.prio = slot
    <3> HIDE DEF p
    <3> QED
      BY <2>2, <2>p DEF Container
  <2>5. active' = [active EXCEPT ![n][t] = Append(a, d)]
    BY <1>2 DEF ActiveAdd
  <2> HIDE DEF d, t
  <2>6. a \in Seq(Container)
    BY <1>t, <2>1 DEF TypeOK
  <2>7. Range(Append(a, d)) = Range(a) \cup {d}
    BY <2>4, <2>6, RangeOfAppend
  <2>8. /\ \A m \in Nodes, u \in Types :
             active'[m][u] = IF m = n /\ u = t THEN Append(a, d) ELSE active[m][u]
        /\ \A m \in Nodes : cache'[m] = IF m = n THEN q ELSE cache[m]
    BY <1>2, <1>t, <2>1, <2>5 DEF TypeOK
  <2>9. \A m \in Nodes, u \in Types : \A e \in Range(active'[m][u]) : e.prio <= slot
    BY <1>0, <1>t, <2>1, <2>4, <2>7, <2>8 DEF LastUses
  <2>10. \A m \in Nodes : \A e \in Range(cache'[m]) : e.prio <= slot /\ e.prio < slot
    BY <1>0, <1>2, <2>8 DEF LastUses
  <2> QED
    BY <1>2, <2>9, <2>10 DEF LastUses
<1>3. ASSUME NEW n \in Nodes, HasIdle(n, reqs[cur].type), reqs[cur].type \in Types,
             ActiveAdd(cache[n][FirstIdle(n, reqs[cur].type)], n), slot' = slot,
             cache' = [cache EXCEPT ![n] = DeleteAt(@, FirstIdle(n, reqs[cur].type))],
             pc \notin {"update", "done"}
      PROVE  LastUses'
  <2> DEFINE i == FirstIdle(n, reqs[cur].type)
             q == DeleteAt(cache[n], i)
  <2>1. i \in DOMAIN cache[n] /\ cache[n][i] \in Container /\ cache[n] \in Seq(Container)
    BY <1>3, <1>t, FirstIdleIsIdle DEF TypeOK
  <2>2. cache' = [cache EXCEPT ![n] = q] /\ ActiveAdd(cache[n][i], n)
    BY <1>3
  <2>3. Distinct(cache[n])
    BY DEF PlacesInv, ListsDistinct
  <2> HIDE DEF i
  <2>4. Range(q) \subseteq Range(cache[n])
    BY <2>1, <2>3, RangeOfDeleteAt
  <2> HIDE DEF q
  <2> QED
    BY <1>2, <1>3, <2>1, <2>2, <2>4
<1>4. CASE PlaceToCurrent
  <2>1. cur \in DOMAIN reqs
    BY <1>4, <1>t, LenProperties DEF PlaceToCurrent, TypeOK
  <2>2. Target \in Nodes /\ reqs[cur].type \in Types
    BY <1>t, <2>1, CurrentRequest
  <2> QED
    BY <1>3, <1>4, <2>2 DEF PlaceToCurrent, NextRequest
<1>5. CASE PlaceToNeighbour
  <2>1. cur \in DOMAIN reqs /\ near # <<>>
    BY <1>5, <1>t DEF PlaceToNeighbour
  <2>2. Head(near) \in Nodes /\ reqs[cur].type \in Types
    BY <1>t, <2>1, CurrentRequest, HeadTailProperties DEF TypeOK
  <2> QED
    BY <1>3, <1>5, <2>2 DEF PlaceToNeighbour
<1>6. CASE CreateContainer
  <2> DEFINE r == reqs[cur]
             c == [id |-> count + 1, type |-> r.type, node |-> Target,
                   clock |-> clock, prio |-> ActivePriority(r.type, freq[r.type])]
  <2>1. r.type \in Types /\ Target \in Nodes
    BY <1>6, <1>t, CurrentRequest DEF CreateContainer
  <2>2. /\ ActiveAdd(c, Target) /\ cache' = cache /\ slot' = slot /\ pc = "create"
    BY <1>6 DEF CreateContainer, NextRequest
  <2> HIDE DEF r
  <2>3. count \in Nat /\ clock \in Nat /\ freq[r.type] \in Int
    BY <1>t, <2>1 DEF TypeOK
  <2>4. ActivePriority(r.type, freq[r.type]) \in Int
    BY <1>t, <2>1, <2>3, PrioritiesAreInt
  <2>5. count + 1 \in Nat
    BY <2>3
  <2>6. c \in Container
    BY <2>1, <2>3, <2>4, <2>5 DEF Container
  <2> HIDE DEF c
  <2>7. cache' = [cache EXCEPT ![Target] = cache[Target]]
    BY <1>t, <2>1, <2>2 DEF TypeOK
  <2> QED
    BY <1>2, <2>1, <2>2, <2>6, <2>7
<1>7. CASE Evict
  <2>1. /\ pc = "create" /\ pc' = "create" /\ UNCHANGED <<active, slot>>
        /\ cache[Target] # <<>> /\ cache' = [cache EXCEPT ![Target] = Tail(@)]
    BY <1>7 DEF Evict
  <2>2. Target \in Nodes
    BY <1>t, <2>1, CurrentRequest
  <2> DEFINE s == cache[Target]
  <2>3. s \in Seq(Container) /\ s # <<>> /\ Distinct(s)
    BY <1>t, <2>1, <2>2 DEF TypeOK, PlacesInv, ListsDistinct
  <2>4. /\ \A m \in Nodes : m # Target => cache'[m] = cache[m]
        /\ cache'[Target] = Tail(s)
    BY <1>t, <2>1, <2>2 DEF TypeOK
  <2>5. Range(Tail(s)) \subseteq Range(s)
    <3> HIDE DEF s
    <3>1. 1 \in DOMAIN s /\ Tail(s) = DeleteAt(s, 1)
      BY <2>3, TailIsDeleteAt
    <3> QED
      BY <2>3, <3>1, RangeOfDeleteAt
  <2> QED
    BY <1>0, <2>1, <2>2, <2>4, <2>5 DEF LastUses
<1>8. CASE CacheActive
  <2>1. PICK n \in Nodes, t \in Types :
          at[1] = n /\ at[2] = t /\ SliceAt = active[n][t]
    BY <1>8, <1>t, SliceInUse DEF CacheActive
  <2> DEFINE s == active[n][t]
             c == s[k + 1]
             h == cache[n]
             d == [c EXCEPT !.prio = IdlePriority(c, freq[c.type] - 1)]
             q == SortList(Append(h, d))
  <2>2. s \in Seq(Container) /\ h \in Seq(Container) /\ k \in Nat /\ k < Len(s)
    BY <1>8, <1>t, <2>1 DEF CacheActive, TypeOK
  <2>3. DOMAIN s = 1 .. Len(s) /\ Len(s) \in Nat /\ k + 1 \in DOMAIN s
    BY <2>2, LenProperties
  <2>4. c \in Container /\ c \in Range(s)
    BY <2>2, <2>3, ElementOfSeq DEF Range
  <2>5. c.node = n /\ c.type = t /\ Distinct(s)
    BY <2>4 DEF PlacesInv, ListsOfOneNode, ListsDistinct
  <2>6. IdlePriority(c, freq[c.type] - 1) = c.prio
    BY <1>0 DEF IdlePriority
  <2>7. d \in Container /\ d.prio = c.prio /\ c.prio <= slot
    BY <1>0, <2>4, <2>6 DEF Container, LastUses
  <2>8. CacheAdd(c)
    BY <1>8, <2>1 DEF CacheActive
  <2>9. cache' = [cache EXCEPT ![n] = q]
    BY <2>5, <2>8 DEF CacheAdd
  <2>a. active' = [active EXCEPT ![n][t] = RemoveAt(s, k + 1)]
    BY <1>8, <2>1 DEF CacheActive
  <2>b. RemoveAt(s, k + 1) = DeleteAt(s, k + 1)
    BY <2>3 DEF DeleteAt
  <2>c. slot' = slot /\ pc' = "update"
    BY <1>8 DEF CacheActive, request
  <2>e. s = active[n][t] /\ h = cache[n]
    OBVIOUS
  <2> HIDE DEF s, c, h, d
  <2>10. Range(q) = Range(h) \cup {d} /\ Range(DeleteAt(s, k + 1)) \subseteq Range(s)
    BY <2>2, <2>3, <2>5, <2>7, ContainersOrdered, IdsAfterAppend, RangeOfDeleteAt
  <2>11. /\ \A m \in Nodes : cache'[m] = IF m = n THEN q ELSE cache[m]
         /\ \A m \in Nodes, u \in Types :
              active'[m][u] = IF m = n /\ u = t THEN DeleteAt(s, k + 1) ELSE active[m][u]
    <3> DEFINE r == DeleteAt(s, k + 1)
    <3>1. active' = [active EXCEPT ![n][t] = r]
      BY <2>a, <2>b
    <3> HIDE DEF r
    <3>2. \A m \in Nodes : cache'[m] = IF m = n THEN q ELSE cache[m]
      <4> HIDE DEF q
      <4> QED
        BY <1>t, <2>1, <2>9 DEF TypeOK
    <3>3. \A m \in Nodes, u \in Types :
            active'[m][u] = IF m = n /\ u = t THEN r ELSE active[m][u]
      BY <1>t, <2>1, <3>1 DEF TypeOK
    <3> QED
      BY <3>2, <3>3 DEF r
  <2>12. \A m \in Nodes, u \in Types : \A e \in Range(active'[m][u]) : e.prio <= slot
    BY <1>0, <2>10, <2>11, <2>e DEF LastUses
  <2>13. \A m \in Nodes : \A e \in Range(cache'[m]) : e.prio <= slot
    BY <1>0, <2>7, <2>10, <2>11, <2>e DEF LastUses
  <2> QED
    BY <2>c, <2>12, <2>13 DEF LastUses
<1>9. CASE FinishUpdate
  <2>1. slot' = slot + 1 /\ \A n \in Nodes, t \in Types : active'[n][t] = <<>>
    BY <1>9 DEF FinishUpdate
  <2>2. ASSUME NEW n \in Nodes, NEW c \in Range(cache'[n])
        PROVE  c.prio <= slot
    <3>1. cache[n] \in Seq(Container)
      BY <1>t DEF TypeOK
    <3>2. cache'[n] = SortList(cache[n]) \/ cache'[n] = cache[n]
      BY <1>9 DEF FinishUpdate, SortedCaches
    <3>3. c \in Range(cache[n])
      BY <2>2, <3>1, <3>2, ContainersOrdered, RangeOfSortList
    <3> QED
      BY <1>0, <3>3 DEF LastUses
  <2>3. ASSUME NEW n \in Nodes, NEW c \in Range(cache'[n])
        PROVE  c.prio \in Int
    <3>1. cache'[n] \in Seq(Container)
      BY <1>t DEF TypeOK
    <3>2. PICK i \in DOMAIN cache'[n] : c = cache'[n][i]
      BY <2>3 DEF Range
    <3>3. c \in Container
      BY <3>1, <3>2, LenProperties, ElementOfSeq
    <3> QED
      BY <3>3 DEF Container
  <2>4. \A n \in Nodes : \A c \in Range(cache'[n]) : c.prio <= slot' /\ c.prio < slot'
    BY <1>t, <2>1, <2>2, <2>3
  <2>5. Range(<<>>) = {}
    BY DEF Range
  <2> QED
    BY <2>1, <2>4, <2>5 DEF LastUses
<1> QED
  BY <1>1, <1>4, <1>5, <1>6, <1>7, <1>8, <1>9
  DEF Next, Deploy, UpdateCache, vars, request, StartSlot, Finish, SearchNeighbours,
      SkipNeighbour, NeighbourFound, NoNeighbour, RefuseForPriority, NextRequest,
      CreateNew, RefuseForNode, RefuseForSpace, SendResults, NextSlice, WaitForSignal

LEMMA LruAlways == Spec => [](PlacesInv /\ LruInv)
<1>1. Init => LruInv
  <2> SUFFICES ASSUME Init PROVE LastUses
    BY DEF LruInv
  <2>1. Range(<<>>) = {}
    BY DEF Range
  <2> QED
    BY <2>1 DEF Init, LastUses
<1> QED
  BY <1>1, TypeInvInit, TypeInvStep, PlacesInvInit, PlacesInvStep, LruInvStep, PTL DEF Spec

-----------------------------------------------------------------------------
(* What is terminated.                                                     *)

\* The names that are idle or in use, read off the ledger.
LiveInLedger == {e.id : e \in {d \in Ledger : d.is \in {"idle", "busy"}}}

LiveIdsInLedger == LiveIds = LiveInLedger

LEMMA LiveIdsAre == TypeOK => LiveIdsInLedger
<1> SUFFICES ASSUME TypeOK PROVE LiveIds = LiveInLedger
  BY DEF LiveIdsInLedger
<1>1. ASSUME NEW i \in LiveIds
      PROVE  i \in LiveInLedger
  <2>1. PICK s \in Stores : s[1] # "leaked" /\ i \in Ids(ListAt(s))
    BY DEF LiveIds
  <2>2. PICK j \in DOMAIN ListAt(s) : i = ListAt(s)[j].id
    BY <2>1 DEF Ids
  <2> DEFINE c == ListAt(s)[j]
  <2>3. \E n \in Nodes :
          \/ s = <<"cache", n, 0>> /\ Entry(c.id, "idle", n, c.type) \in Ledger
          \/ \E t \in Types : s = <<"active", n, t>> /\ Entry(c.id, "busy", n, t) \in Ledger
          \/ \E t \in Types : s = <<"leaked", n, t>> /\ Entry(c.id, "lost", n, t) \in Ledger
    BY OccupantEntry
  <2>4. c.id = i
    BY <2>2
  <2> HIDE DEF c
  <2>5. PICK n, t : Entry(i, "idle", n, t) \in Ledger \/ Entry(i, "busy", n, t) \in Ledger
    BY <2>1, <2>3, <2>4
  <2>6. \A r : Entry(i, r, n, t).id = i /\ Entry(i, r, n, t).is = r
    BY DEF Entry
  <2> QED
    BY <2>5, <2>6 DEF LiveInLedger
<1>2. ASSUME NEW i \in LiveInLedger
      PROVE  i \in LiveIds
  <2>1. PICK e \in Ledger : e.is \in {"idle", "busy"} /\ e.id = i
    BY DEF LiveInLedger
  <2>2. /\ e.node \in Nodes /\ e.type \in Types
        /\ e = Entry(i, e.is, e.node, e.type)
    BY <2>1, InLedger DEF LedgerShowsLists
  <2>3. CASE e.is = "idle"
    <3> DEFINE s == <<"cache", e.node, 0>>
    <3>1. i \in IdsOfType(cache[e.node], e.type)
      BY <2>1, <2>2, <2>3, InLedger DEF LedgerShowsLists
    <3>2. \E j \in DOMAIN cache[e.node] : i = cache[e.node][j].id
      BY <3>1 DEF IdsOfType, Range
    <3>3. s \in Stores /\ s[1] # "leaked" /\ ListAt(s) = cache[e.node]
      BY <2>2 DEF Stores, ListAt
    <3> HIDE DEF s
    <3>4. i \in Ids(ListAt(s))
      BY <3>2, <3>3 DEF Ids
    <3> QED
      BY <3>3, <3>4 DEF LiveIds
  <2>4. CASE e.is = "busy"
    <3> DEFINE s == <<"active", e.node, e.type>>
    <3>1. i \in IdsIn(active[e.node][e.type])
      BY <2>1, <2>2, <2>4, InLedger DEF LedgerShowsLists
    <3>2. \E j \in DOMAIN active[e.node][e.type] : i = active[e.node][e.type][j].id
      BY <3>1 DEF IdsIn, Range
    <3>3. s \in Stores /\ s[1] # "leaked" /\ ListAt(s) = active[e.node][e.type]
      BY <2>2 DEF Stores, ListAt
    <3> HIDE DEF s
    <3>4. i \in Ids(ListAt(s))
      BY <3>2, <3>3 DEF Ids
    <3> QED
      BY <3>3, <3>4 DEF LiveIds
  <2> QED
    BY <2>1, <2>3, <2>4
<1> QED
  BY <1>1, <1>2

LEMMA NextLiveIdsAre == TypeOK' => LiveIdsInLedger'
BY LiveIdsAre, PTL

\* An idle container stays idle or is put in use, but for the one evicted.
LEMMA IdleGoes ==
  ASSUME TypeInv, TypeInv', PlacesInv, [Next]_vars,
         NEW n \in Nodes, NEW t \in Types, NEW i, Entry(i, "idle", n, t) \in Ledger,
         i \notin LiveIds'
  PROVE  /\ IsEvicted
         /\ n = Target /\ t = Head(cache[n]).type /\ i = Head(cache[n]).id
<1>t. TypeOK'
  BY DEF TypeInv
<1>1. \A m, u : Entry(i, "idle", m, u) \notin Ledger' /\ Entry(i, "busy", m, u) \notin Ledger'
  <2>1. \A r, m, u : Entry(i, r, m, u).id = i /\ Entry(i, r, m, u).is = r
    BY DEF Entry
  <2>2. \A e \in Ledger' : e.is \in {"idle", "busy"} => e.id # i
    BY <1>t, NextLiveIdsAre DEF LiveIdsInLedger, LiveInLedger
  <2> QED
    BY <2>1, <2>2
<1>3. ~StaysPut
  BY <1>1 DEF StaysPut
<1>4. ~IsTaken
  <2> SUFFICES ASSUME NEW m \in Nodes, NEW u \in Types, NEW j \in Nat, Moves(j, "idle", "busy", m, u)
               PROVE  FALSE
    BY DEF IsTaken
  <2>1. Ledger' = (Ledger \ {Entry(j, "idle", m, u)}) \cup {Entry(j, "busy", m, u)}
    BY DEF Moves
  <2>2. Entry(i, "idle", n, t) = Entry(j, "idle", m, u)
    BY <1>1, <2>1
  <2>3. i = j
    BY <2>2, EntryIsPair
  <2> QED
    BY <1>1, <2>1, <2>3
<1>5. ~IsReturned
  <2> SUFFICES ASSUME NEW m \in Nodes, NEW u \in Types, NEW j \in Nat, Moves(j, "busy", "idle", m, u)
               PROVE  FALSE
    BY DEF IsReturned
  <2>1. Ledger' = (Ledger \ {Entry(j, "busy", m, u)}) \cup {Entry(j, "idle", m, u)}
    BY DEF Moves
  <2>2. Entry(i, "idle", n, t) = Entry(j, "busy", m, u)
    BY <1>1, <2>1
  <2>3. "idle" = "busy"
    BY <2>2 DEF Entry
  <2> QED
    BY <2>3
<1>6. ~IsCreated
  BY <1>1 DEF IsCreated
<1>7. ~AreLost
  <2> SUFFICES ASSUME AreLost PROVE FALSE
    OBVIOUS
  <2> DEFINE X == {e \in Ledger : e.is = "busy"}
             Y == {Entry(e.id, "lost", e.node, e.type) : e \in X}
  <2>1. Ledger' = (Ledger \ X) \cup Y
    BY DEF AreLost
  <2>2. Entry(i, "idle", n, t) \notin X
    BY DEF Entry
  <2> HIDE DEF X, Y
  <2> QED
    BY <1>1, <2>1, <2>2
<1>8. IsEvicted
  BY <1>3, <1>4, <1>5, <1>6, <1>7, StepMoves
<1> DEFINE c == Head(cache[Target])
<1>9. Ledger' = Ledger \ {Entry(c.id, "idle", Target, c.type)}
  BY <1>8 DEF IsEvicted
<1>10. Entry(i, "idle", n, t) = Entry(c.id, "idle", Target, c.type)
  BY <1>1, <1>9
<1> HIDE DEF c
<1>11. i = c.id /\ n = Target /\ t = c.type
  BY <1>10, EntryIsPair
<1> QED
  BY <1>8, <1>11 DEF c

\* Only the head of the list of the node that is to serve the request goes, for
\* a request of another type that does not fit and is worth more
\* (schedulerDemo/algorithm.go:87-101, lru/algorithm.go:92-101,
\* flame/algorithm.go:279-297).
THEOREM EvictionsJustified == Spec => EvictionsAreJustified
<1>1. TypeInv /\ TypeInv' /\ PlacesInv /\ SearchInv /\ LruInv /\ CacheSorted /\ [Next]_vars =>
        [\A n \in Nodes : \A i \in DOMAIN cache[n] :
           cache[n][i].id \notin LiveIds' =>
             /\ n = Target /\ ~Fits(n, reqs[cur].type)
             /\ cache[n][i].type # reqs[cur].type
             /\ cache[n][i].prio < ActivePriority(reqs[cur].type, freq[reqs[cur].type])
             /\ \A j \in DOMAIN cache[n] : cache[n][i].prio <= cache[n][j].prio]_vars
  <2> SUFFICES ASSUME TypeInv, TypeInv', PlacesInv, SearchInv, LruInv, CacheSorted, [Next]_vars,
                      NEW n \in Nodes, NEW i \in DOMAIN cache[n], cache[n][i].id \notin LiveIds'
               PROVE  /\ n = Target /\ ~Fits(n, reqs[cur].type)
                      /\ cache[n][i].type # reqs[cur].type
                      /\ cache[n][i].prio < ActivePriority(reqs[cur].type, freq[reqs[cur].type])
                      /\ \A j \in DOMAIN cache[n] : cache[n][i].prio <= cache[n][j].prio
    OBVIOUS
  <2> DEFINE c == cache[n][i]
  <2>1. cache[n] \in Seq(Container) /\ DOMAIN cache[n] = 1 .. Len(cache[n]) /\ Len(cache[n]) \in Nat
    BY LenProperties DEF TypeInv, TypeOK
  <2>2. c \in Container /\ c \in Range(cache[n])
    BY <2>1, ElementOfSeq DEF Range
  <2>3. c.type \in Types /\ c.id \in IdsOfType(cache[n], c.type) /\ c.prio \in Int
    BY <2>2 DEF IdsOfType, Container
  <2>4. Entry(c.id, "idle", n, c.type) \in Ledger
    BY <2>3, InLedger DEF LedgerShowsLists, TypeInv
  <2>5. c.id \notin LiveIds'
    OBVIOUS
  <2> HIDE DEF c
  <2>6. IsEvicted /\ n = Target /\ c.type = Head(cache[n]).type /\ c.id = Head(cache[n]).id
    BY <2>3, <2>4, <2>5, IdleGoes
  <2>7. Evict /\ 1 \in DOMAIN cache[n] /\ Head(cache[n]) = cache[n][1]
    BY <2>6 DEF IsEvicted
  <2>8. i = 1
    BY <2>6, <2>7 DEF PlacesInv, ListsDistinct, Distinct, c
  <2>9. /\ pc = "create" /\ ~Fits(n, reqs[cur].type) /\ MayEvict(reqs[cur])
        /\ cache[n] # <<>>
    BY <2>6, <2>7 DEF Evict
  <2>10. c.type # reqs[cur].type
    BY <2>2, <2>6, <2>9, HasIdleInRange DEF SearchInv
  <2>11. c.prio < ActivePriority(reqs[cur].type, freq[reqs[cur].type])
    <3>1. CASE policy = "lru"
      <4>1. c.prio < slot
        BY <2>2, <2>9, <3>1 DEF LruInv, LastUses
      <4>2. ActivePriority(reqs[cur].type, freq[reqs[cur].type]) = slot
        BY <3>1 DEF ActivePriority
      <4> QED
        BY <4>1, <4>2
    <3>2. CASE policy # "lru"
      <4>1. LowestPriority(Target) < ActivePriority(reqs[cur].type, freq[reqs[cur].type])
        BY <2>9, <3>2 DEF MayEvict
      <4>2. LowestPriority(Target) = c.prio
        BY <2>6, <2>7, <2>8, <2>9 DEF LowestPriority, c
      <4> QED
        BY <4>1, <4>2
    <3> QED
      BY <3>1, <3>2
  <2>12. \A j \in DOMAIN cache[n] : c.prio <= cache[n][j].prio
    <3> TAKE j \in DOMAIN cache[n]
    <3>1. CASE j = i
      BY <2>3, <3>1 DEF c
    <3>2. CASE j # i
      <4>1. i < j
        BY <2>1, <2>8, <3>2
      <4> QED
        BY <4>1 DEF CacheSorted, Sorted, c
    <3> QED
      BY <3>1, <3>2
  <2> QED
    BY <2>6, <2>9, <2>10, <2>11, <2>12 DEF c
<1> QED
  BY <1>1, PlacesAlways, SearchAlways, LruAlways, CacheStaysSorted, PTL
  DEF Spec, EvictionsAreJustified

\* A service is deleted only when no list has its container any more
\* (algorithm.go:95-99).
THEOREM ServicesOfLiveStay == Spec => LiveServicesStay
<1>1. TypeInv /\ TypeInv' /\ PlacesInv /\ [Next]_vars =>
        [\A s \in services \ services' : s[2] \notin LiveIds']_vars
  <2> SUFFICES ASSUME TypeInv, TypeInv', PlacesInv, [Next]_vars,
                      NEW s \in services \ services', s[2] \in LiveIds'
               PROVE  FALSE
    OBVIOUS
  <2>1. services' # services
    OBVIOUS
  <2>2. ~CreateContainer
    <3> SUFFICES ASSUME CreateContainer PROVE FALSE
      OBVIOUS
    <3>1. \E x : services' = services \cup {x} \/ services' = services
      BY DEF CreateContainer
    <3> QED
      BY <3>1
  <2>3. Evict
    BY <2>1, <2>2 DEF Next, Deploy, UpdateCache, vars, StartSlot, Finish, SearchNeighbours,
      PlaceToCurrent, PlaceToNeighbour, SkipNeighbour, NeighbourFound, NoNeighbour,
      RefuseForPriority, CreateNew, RefuseForNode, RefuseForSpace, SendResults, NextSlice,
      CacheActive, FinishUpdate, WaitForSignal
  <2> DEFINE c == Head(cache[Target])
             e == Entry(c.id, "idle", Target, c.type)
  <2>4. s = Name(c)
    BY <2>3 DEF Evict, Victim
  <2>5. s[2] = c.id
    BY <2>4 DEF Name
  <2>6. e \in Ledger /\ Ledger' = Ledger \ {e}
    BY <2>3, EvictIsEvicted DEF IsEvicted
  <2>7. e.id = c.id
    BY DEF Entry
  <2> HIDE DEF c, e
  <2>8. PICK d \in Ledger' : d.id = c.id
    BY <2>5, NextLiveIdsAre DEF TypeInv, LiveIdsInLedger, LiveInLedger
  <2>9. d = e
    BY <2>6, <2>7, <2>8 DEF PlacesInv, OneEntryEach
  <2> QED
    BY <2>6, <2>8, <2>9
<1> QED
  BY <1>1, PlacesAlways, PTL DEF Spec, LiveServicesStay

-----------------------------------------------------------------------------
(* The requests of a slot.                                                 *)

LEMMA IdsAreIdsIn == \A s : Ids(s) = IdsIn(s)
BY DEF Ids, IdsIn, Range

\* The current request is given a container that was not in use.
LEMMA ServeKeeps ==
  ASSUME TypeInv, TypeInv', ServedHaveTheirOwn,
         pc \in {"deploy", "neighbour", "create"}, cur \in DOMAIN reqs,
         NEW c \in Container, NEW n \in Nodes, NEW b \in BOOLEAN,
         c.type = reqs[cur].type, Serve(c, n, b), ActiveAdd(c, n),
         \A m, t : Entry(c.id, "busy", m, t) \notin Ledger
  PROVE  ServedHaveTheirOwn'
<1>t. TypeOK /\ TypeOK'
  BY DEF TypeInv
<1> DEFINE t == c.type
           d == [c EXCEPT !.clock = clock, !.prio = ActivePriority(t, freq[t] + 1)]
           s == active[n][t]
<1>1. t \in Types /\ reqs \in Seq(Request) /\ DOMAIN reqs' = DOMAIN reqs
  <2>1. t \in Types /\ reqs \in Seq(Request)
    BY <1>t DEF Container, TypeOK
  <2>2. DOMAIN reqs' = DOMAIN reqs
    BY DEF Serve
  <2> QED
    BY <2>1, <2>2
<1>2. active' = [active EXCEPT ![n][t] = Append(s, d)]
  BY DEF ActiveAdd
<1>3. d.id = c.id
  BY DEF Container
<1> HIDE DEF t, d
<1>4. s \in Seq(Container) /\ Append(s, d) \in Seq(Container)
  <2>1. active'[n][t] = Append(s, d)
    BY <1>1, <1>2, <1>t DEF TypeOK
  <2>2. active'[n][t] \in Seq(Container) /\ active[n][t] \in Seq(Container)
    BY <1>1, <1>t DEF TypeOK
  <2> QED
    BY <2>1, <2>2
<1>5. d \in Container
  <2>1. DOMAIN Append(s, d) = 1 .. Len(s) + 1 /\ Append(s, d)[Len(s) + 1] = d /\ Len(s) \in Nat
    BY <1>4, LenProperties
  <2>2. Len(s) + 1 \in 1 .. Len(Append(s, d)) /\ Append(s, d)[Len(s) + 1] = d
    BY <1>4, <2>1, LenProperties
  <2> QED
    BY <1>4, <2>2, ElementOfSeq
<1>6. IdsIn(Append(s, d)) = IdsIn(s) \cup {c.id}
  BY <1>3, <1>4, <1>5, ContainersOrdered, IdsAfterAppend
<1> HIDE DEF s
<1>7. \A m \in Nodes, u \in Types :
        active'[m][u] = IF m = n /\ u = t THEN Append(s, d) ELSE active[m][u]
  BY <1>t, <1>1, <1>2 DEF TypeOK
<1>8. \A m \in Nodes, u \in Types :
        /\ IdsIn(active[m][u]) \subseteq IdsIn(active'[m][u])
        /\ c.id \notin IdsIn(active[m][u])
  <2> TAKE m \in Nodes, u \in Types
  <2>1. c.id \notin IdsIn(active[m][u])
    BY <1>t, InLedger DEF LedgerShowsLists
  <2> QED
    BY <1>6, <1>7, <2>1 DEF s
<1>9. c.id \in IdsIn(active'[n][t])
  BY <1>1, <1>6, <1>7
<1>10. \A a \in DOMAIN reqs :
         reqs'[a] = IF a = cur THEN [reqs[cur] EXCEPT !.fn = c.id, !.served = TRUE,
                                                      !.node = n, !.cold = b]
                               ELSE reqs[a]
  BY <1>1 DEF Serve
<1>11. \A a \in DOMAIN reqs : reqs[a] \in Request
  BY <1>1, LenProperties, ElementOfSeq
<1>12. /\ reqs'[cur].fn = c.id /\ reqs'[cur].node = n /\ reqs'[cur].type = t
  BY <1>10, <1>11 DEF Request, t
<1>13. \A a \in DOMAIN reqs : a # cur => reqs'[a] = reqs[a]
  BY <1>10
<1>14. \A a \in DOMAIN reqs : reqs[a].served =>
         /\ reqs[a].fn \in IdsIn(active[reqs[a].node][reqs[a].type])
         /\ \A e \in DOMAIN reqs : reqs[e].served /\ reqs[e].fn = reqs[a].fn => a = e
  BY IdsAreIdsIn DEF ServedHaveTheirOwn
<1>15. \A a \in DOMAIN reqs : reqs[a].node \in Nodes /\ reqs[a].type \in Types
  BY <1>11 DEF Request
<1>16. \A a \in DOMAIN reqs : reqs'[a].served =>
         /\ reqs'[a].fn \in IdsIn(active'[reqs'[a].node][reqs'[a].type])
         /\ \A e \in DOMAIN reqs : reqs'[e].served /\ reqs'[e].fn = reqs'[a].fn => a = e
  <2> SUFFICES ASSUME NEW a \in DOMAIN reqs, reqs'[a].served
               PROVE  /\ reqs'[a].fn \in IdsIn(active'[reqs'[a].node][reqs'[a].type])
                      /\ \A e \in DOMAIN reqs : reqs'[e].served /\ reqs'[e].fn = reqs'[a].fn => a = e
    OBVIOUS
  <2>1. \A e \in DOMAIN reqs : e # cur /\ reqs'[e].served => reqs'[e].fn # c.id
    BY <1>8, <1>13, <1>14, <1>15
  <2>2. CASE a = cur
    BY <1>9, <1>12, <2>1, <2>2
  <2>3. CASE a # cur
    <3>1. reqs'[a] = reqs[a] /\ reqs[a].served
      BY <1>13, <2>3
    <3>2. reqs[a].fn \in IdsIn(active[reqs[a].node][reqs[a].type])
      BY <1>14, <3>1
    <3>3. reqs[a].fn \in IdsIn(active'[reqs[a].node][reqs[a].type])
      BY <1>8, <1>15, <3>2
    <3>4. ASSUME NEW e \in DOMAIN reqs, reqs'[e].served, reqs'[e].fn = reqs'[a].fn
          PROVE  a = e
      <4>1. e # cur
        BY <1>12, <2>1, <2>3, <3>4
      <4> QED
        BY <1>13, <1>14, <3>1, <3>4, <4>1
    <3> QED
      BY <3>1, <3>3, <3>4
  <2> QED
    BY <2>2, <2>3
<1> QED
  BY <1>1, <1>16, IdsAreIdsIn DEF ServedHaveTheirOwn

LEMMA ServedStep ==
  TypeInv /\ TypeInv' /\ PlacesInv /\ ServedHaveTheirOwn /\ [Next]_vars => ServedHaveTheirOwn'
<1> SUFFICES ASSUME TypeInv, TypeInv', PlacesInv, ServedHaveTheirOwn, [Next]_vars
             PROVE  ServedHaveTheirOwn'
  OBVIOUS
<1>t. TypeOK /\ TypeOK' /\ (pc \in {"neighbour", "create"} => cur \in DOMAIN reqs)
  BY DEF TypeInv
<1>1. CASE UNCHANGED <<reqs, active>> /\ pc \in {"deploy", "neighbour", "create"}
  BY <1>1 DEF ServedHaveTheirOwn
<1>2. CASE pc' \notin {"deploy", "neighbour", "create"}
  BY <1>2 DEF ServedHaveTheirOwn
<1>3. CASE StartSlot
  <2>1. \A a \in DOMAIN reqs' : reqs'[a].served = FALSE
    <3>1. reqs' \in Batches
      BY <1>3 DEF StartSlot
    <3>2. PICK m \in 1 .. MaxRequests :
            reqs' \in [1 .. m -> {FreshRequest(t, n) : t \in Types, n \in Nodes}]
      BY <3>1 DEF Batches
    <3>3. \A t, n : FreshRequest(t, n).served = FALSE
      BY DEF FreshRequest
    <3> QED
      BY <3>2, <3>3
  <2> QED
    BY <2>1 DEF ServedHaveTheirOwn
<1>4. ASSUME NEW n \in Nodes, cur \in DOMAIN reqs, pc \in {"deploy", "neighbour", "create"},
             HasIdle(n, reqs[cur].type), reqs[cur].type \in Types,
             ActiveAdd(cache[n][FirstIdle(n, reqs[cur].type)], n),
             Serve(cache[n][FirstIdle(n, reqs[cur].type)], n, FALSE)
      PROVE  ServedHaveTheirOwn'
  <2> DEFINE i == FirstIdle(n, reqs[cur].type)
             c == cache[n][i]
  <2>1. i \in DOMAIN cache[n] /\ c \in Container /\ c.type = reqs[cur].type
    BY <1>4, <1>t, FirstIdleIsIdle DEF TypeOK
  <2>2. c \in Range(cache[n])
    BY <2>1 DEF Range
  <2>3. c.id \in IdsOfType(cache[n], c.type)
    BY <2>2 DEF IdsOfType
  <2>4. ActiveAdd(c, n) /\ Serve(c, n, FALSE)
    BY <1>4
  <2> HIDE DEF c
  <2>5. Entry(c.id, "idle", n, c.type) \in Ledger
    BY <1>4, <1>t, <2>1, <2>3, InLedger DEF LedgerShowsLists
  <2>6. ASSUME NEW m, NEW u, Entry(c.id, "busy", m, u) \in Ledger
        PROVE  FALSE
    <3> DEFINE e == Entry(c.id, "idle", n, c.type)
               d == Entry(c.id, "busy", m, u)
    <3>1. e.id = c.id /\ d.id = c.id /\ e.is = "idle" /\ d.is = "busy"
      BY DEF Entry
    <3>2. e \in Ledger /\ d \in Ledger
      BY <2>5, <2>6
    <3> HIDE DEF e, d
    <3>3. e = d
      BY <3>1, <3>2 DEF PlacesInv, OneEntryEach
    <3> QED
      BY <3>1, <3>3
  <2> QED
    BY <1>4, <2>1, <2>4, <2>6, ServeKeeps
<1>5. CASE PlaceToCurrent
  <2>1. cur \in DOMAIN reqs
    BY <1>5, <1>t, LenProperties DEF PlaceToCurrent, TypeOK
  <2>2. Target \in Nodes /\ reqs[cur].type \in Types
    BY <1>t, <2>1, CurrentRequest
  <2> QED
    BY <1>4, <1>5, <2>1, <2>2 DEF PlaceToCurrent
<1>6. CASE PlaceToNeighbour
  <2>1. cur \in DOMAIN reqs /\ near # <<>>
    BY <1>6, <1>t DEF PlaceToNeighbour
  <2>2. Head(near) \in Nodes /\ reqs[cur].type \in Types
    BY <1>t, <2>1, CurrentRequest, HeadTailProperties DEF TypeOK
  <2> QED
    BY <1>4, <1>6, <2>1, <2>2 DEF PlaceToNeighbour
<1>7. CASE CreateContainer
  <2> DEFINE r == reqs[cur]
             c == [id |-> count + 1, type |-> r.type, node |-> Target,
                   clock |-> clock, prio |-> ActivePriority(r.type, freq[r.type])]
  <2>1. r.type \in Types /\ Target \in Nodes /\ cur \in DOMAIN reqs /\ pc = "create"
    BY <1>7, <1>t, CurrentRequest DEF CreateContainer
  <2>2. ActiveAdd(c, Target) /\ Serve(c, Target, TRUE)
    BY <1>7 DEF CreateContainer
  <2>3. count \in Nat /\ clock \in Nat /\ freq[r.type] \in Int
    BY <1>t, <2>1 DEF TypeOK
  <2>4. ActivePriority(r.type, freq[r.type]) \in Int
    BY <1>t, <2>1, <2>3, PrioritiesAreInt
  <2>5. count + 1 \in Nat /\ count + 1 \notin 1 .. count
    BY <2>3
  <2> HIDE DEF r
  <2>6. c \in Container /\ c.id = count + 1 /\ c.type = r.type
    BY <2>1, <2>3, <2>4, <2>5 DEF Container
  <2> HIDE DEF c
  <2>7. \A m, u : Entry(c.id, "busy", m, u) \notin Ledger
    <3>1. \A m, u : Entry(c.id, "busy", m, u).id = count + 1
      BY <2>6 DEF Entry
    <3> QED
      BY <2>5, <3>1 DEF PlacesInv, NamesGiven
  <2> QED
    BY <2>1, <2>2, <2>6, <2>7, ServeKeeps DEF r
<1>8. CASE UNCHANGED vars
  BY <1>8 DEF vars, request, ServedHaveTheirOwn
<1> QED
  BY <1>1, <1>2, <1>3, <1>5, <1>6, <1>7, <1>8
  DEF Next, Deploy, UpdateCache, request, Finish, SearchNeighbours,
      SkipNeighbour, NeighbourFound, NoNeighbour, Evict, RefuseForPriority, NextRequest,
      CreateNew, RefuseForNode, RefuseForSpace, SendResults, NextSlice, CacheActive,
      FinishUpdate, WaitForSignal

\* A served request has a container of its type in use on the node it was told,
\* and no other request of the slot has been given that one
\* (algorithm.go:62, 159, 202).
THEOREM ServedHaveOwn == Spec => []ServedHaveTheirOwn
<1>1. Init => ServedHaveTheirOwn
  BY DEF Init, ServedHaveTheirOwn
<1> QED
  BY <1>1, PlacesAlways, ServedStep, PTL DEF Spec

-----------------------------------------------------------------------------
(* The memory of a node.                                                   *)

\* What updateCache drops from a slice has the type of the slice.
LostOfOneType ==
  \A n \in Nodes, t \in Types : \A c \in Range(leaked[n][t]) : c.type = t

LEMMA LostOfOneTypeStep ==
  TypeInv /\ PlacesInv /\ LostOfOneType /\ [Next]_vars => LostOfOneType'
<1> SUFFICES ASSUME TypeInv, PlacesInv, LostOfOneType, [Next]_vars
             PROVE  LostOfOneType'
  OBVIOUS
<1>1. CASE leaked' = leaked
  BY <1>1 DEF LostOfOneType
<1>2. CASE FinishUpdate
  <2> SUFFICES ASSUME NEW n \in Nodes, NEW t \in Types, NEW c \in Range(leaked'[n][t])
               PROVE  c.type = t
    BY DEF LostOfOneType
  <2>1. leaked'[n][t] = leaked[n][t] \o active[n][t]
    BY <1>2 DEF FinishUpdate
  <2>2. leaked[n][t] \in Seq(Container) /\ active[n][t] \in Seq(Container)
    BY DEF TypeInv, TypeOK
  <2>3. c \in Range(leaked[n][t]) \/ c \in Range(active[n][t])
    BY <2>1, <2>2, RangeOfConcat
  <2> QED
    BY <2>3 DEF LostOfOneType, PlacesInv, ListsOfOneNode
<1> QED
  BY <1>1, <1>2
  DEF Next, Deploy, UpdateCache, vars, StartSlot, Finish, SearchNeighbours, PlaceToCurrent,
      PlaceToNeighbour, SkipNeighbour, NeighbourFound, NoNeighbour, CreateContainer, Evict,
      RefuseForPriority, CreateNew, RefuseForNode, RefuseForSpace, SendResults, NextSlice,
      CacheActive, WaitForSignal

\* The units of memory held on n, read off the ledger.
UnitsOf(e) == {e.id} \X (1 .. Size[e.type])
UnitsIn(n) == UNION {UnitsOf(e) : e \in {d \in Ledger : d.node = n}}

LEMMA InUnits ==
  \A n, u : u \in UnitsIn(n) <=> \E e \in Ledger : e.node = n /\ u \in UnitsOf(e)
BY DEF UnitsIn

LEMMA NextInUnits ==
  \A n, u : u \in UnitsIn(n)' <=> \E e \in Ledger' : e.node = n /\ u \in UnitsOf(e)
BY DEF UnitsIn, UnitsOf

LEMMA UnitsHeldAre ==
  ASSUME TypeOK, PlacesInv, LostOfOneType, NEW n \in Nodes
  PROVE  UnitsHeld(n) = UnitsIn(n)
<1>1. ASSUME NEW u \in UnitsHeld(n)
      PROVE  u \in UnitsIn(n)
  <2>1. PICK p \in Positions : p[1][2] = n /\ u \in {Occupant(p).id} \X (1 .. Size[Occupant(p).type])
    BY DEF UnitsHeld
  <2>2. PICK s \in Stores : \E i \in DOMAIN ListAt(s) : p = <<s, i>> /\ Occupant(p) = ListAt(s)[i]
    BY PositionsAre
  <2>3. PICK i \in DOMAIN ListAt(s) : p = <<s, i>> /\ Occupant(p) = ListAt(s)[i]
    BY <2>2
  <2> DEFINE c == ListAt(s)[i]
  <2>4. PICK m \in Nodes :
          \/ s = <<"cache", m, 0>> /\ Entry(c.id, "idle", m, c.type) \in Ledger
          \/ \E t \in Types : s = <<"active", m, t>> /\ Entry(c.id, "busy", m, t) \in Ledger
          \/ \E t \in Types : s = <<"leaked", m, t>> /\ Entry(c.id, "lost", m, t) \in Ledger
    BY OccupantEntry
  <2>5. m = n
    BY <2>1, <2>3, <2>4
  <2>6. \A t \in Types : s = <<"active", m, t>> \/ s = <<"leaked", m, t>> => c.type = t
    <3> TAKE t \in Types
    <3>1. CASE s = <<"active", m, t>>
      <4>1. ListAt(s) = active[m][t]
        BY <3>1 DEF ListAt
      <4> QED
        BY <4>1 DEF PlacesInv, ListsOfOneNode, Range
    <3>2. CASE s = <<"leaked", m, t>>
      <4>1. ListAt(s) = leaked[m][t]
        BY <3>2 DEF ListAt
      <4> QED
        BY <4>1 DEF LostOfOneType, Range
    <3> QED
      BY <3>1, <3>2
  <2>7. u \in {c.id} \X (1 .. Size[c.type])
    BY <2>1, <2>3
  <2> HIDE DEF c
  <2>8. PICK r : Entry(c.id, r, n, c.type) \in Ledger
    BY <2>4, <2>5, <2>6
  <2> DEFINE e == Entry(c.id, r, n, c.type)
  <2>9. e.id = c.id /\ e.node = n /\ e.type = c.type
    BY DEF Entry
  <2>10. e \in Ledger
    BY <2>8
  <2> HIDE DEF e
  <2> QED
    BY <2>7, <2>9, <2>10, InUnits DEF UnitsOf
<1>2. ASSUME NEW u \in UnitsIn(n)
      PROVE  u \in UnitsHeld(n)
  <2>1. PICK e \in Ledger : e.node = n /\ u \in UnitsOf(e)
    BY InUnits
  <2>2. /\ e.is \in Kinds /\ e.type \in Types /\ e = Entry(e.id, e.is, n, e.type)
    BY <2>1, InLedger DEF LedgerShowsLists
  <2> DEFINE t == e.type
  <2>3. \E s \in Stores : \E i \in DOMAIN ListAt(s) :
          s[2] = n /\ ListAt(s)[i].id = e.id /\ ListAt(s)[i].type = t
    <3>1. CASE e.is = "idle"
      <4> DEFINE s == <<"cache", n, 0>>
      <4>1. e.id \in IdsOfType(cache[n], t)
        BY <2>1, <2>2, <3>1, InLedger DEF LedgerShowsLists
      <4>2. s \in Stores /\ s[2] = n /\ ListAt(s) = cache[n]
        BY DEF Stores, ListAt
      <4>3. \E i \in DOMAIN cache[n] : cache[n][i].id = e.id /\ cache[n][i].type = t
        BY <4>1 DEF IdsOfType, Range
      <4> HIDE DEF s
      <4> QED
        BY <4>2, <4>3
    <3>2. CASE e.is = "busy"
      <4> DEFINE s == <<"active", n, t>>
      <4>1. e.id \in IdsIn(active[n][t])
        BY <2>1, <2>2, <3>2, InLedger DEF LedgerShowsLists
      <4>2. s \in Stores /\ s[2] = n /\ ListAt(s) = active[n][t]
        BY <2>2 DEF Stores, ListAt
      <4>3. \E i \in DOMAIN active[n][t] : active[n][t][i].id = e.id /\ active[n][t][i].type = t
        BY <2>2, <4>1 DEF IdsIn, Range, PlacesInv, ListsOfOneNode
      <4> HIDE DEF s
      <4> QED
        BY <4>2, <4>3
    <3>3. CASE e.is = "lost"
      <4> DEFINE s == <<"leaked", n, t>>
      <4>1. e.id \in IdsIn(leaked[n][t])
        BY <2>1, <2>2, <3>3, InLedger DEF LedgerShowsLists
      <4>2. s \in Stores /\ s[2] = n /\ ListAt(s) = leaked[n][t]
        BY <2>2 DEF Stores, ListAt
      <4>3. \E i \in DOMAIN leaked[n][t] : leaked[n][t][i].id = e.id /\ leaked[n][t][i].type = t
        BY <2>2, <4>1 DEF IdsIn, Range, LostOfOneType
      <4> HIDE DEF s
      <4> QED
        BY <4>2, <4>3
    <3> QED
      BY <2>2, <3>1, <3>2, <3>3 DEF Kinds
  <2>4. PICK s \in Stores : \E i \in DOMAIN ListAt(s) :
          s[2] = n /\ ListAt(s)[i].id = e.id /\ ListAt(s)[i].type = t
    BY <2>3
  <2>5. PICK i \in DOMAIN ListAt(s) : s[2] = n /\ ListAt(s)[i].id = e.id /\ ListAt(s)[i].type = t
    BY <2>4
  <2> DEFINE p == <<s, i>>
  <2>6. p \in Positions /\ p[1][2] = n /\ Occupant(p) = ListAt(s)[i]
    BY <2>5 DEF Positions, Occupant
  <2> HIDE DEF p
  <2>7. u \in {Occupant(p).id} \X (1 .. Size[Occupant(p).type])
    BY <2>1, <2>5, <2>6 DEF UnitsOf
  <2> QED
    BY <2>6, <2>7 DEF UnitsHeld
<1> QED
  BY <1>1, <1>2

\* What MemoryBalance needs to be inductive: the units are finitely many.
Books ==
  \A n \in Nodes : /\ IsFiniteSet(UnitsIn(n))
                   /\ mem[n] + Cardinality(UnitsIn(n)) = MemCap

\* A container that changes its state keeps its memory.
LEMMA StateChangeKeepsUnits ==
  ASSUME NEW X \in SUBSET Ledger, NEW s,
         Ledger' = (Ledger \ X) \cup {Entry(e.id, s, e.node, e.type) : e \in X}
  PROVE  \A n : UnitsIn(n)' = UnitsIn(n)
<1> SUFFICES ASSUME NEW n, NEW u PROVE u \in UnitsIn(n)' <=> u \in UnitsIn(n)
  OBVIOUS
<1> DEFINE f(e) == Entry(e.id, s, e.node, e.type)
<1>1. \A e : f(e).node = e.node /\ UnitsOf(f(e)) = UnitsOf(e)
  BY DEF Entry, UnitsOf
<1>2. \A d : d \in Ledger' <=> \/ d \in Ledger /\ d \notin X
                              \/ \E e \in X : d = f(e)
  OBVIOUS
<1> HIDE DEF f
<1>3. (\E d \in Ledger' : d.node = n /\ u \in UnitsOf(d))
        <=> (\E d \in Ledger : d.node = n /\ u \in UnitsOf(d))
  BY <1>1, <1>2
<1> QED
  BY <1>3, InUnits, NextInUnits

LEMMA UnitsOfOne ==
  ASSUME NEW i, NEW t \in Types
  PROVE  /\ IsFiniteSet({i} \X (1 .. Size[t]))
         /\ Cardinality({i} \X (1 .. Size[t])) = Size[t]
<1>1. Size[t] \in Nat
  BY ConstantsOK
<1>2. IsFiniteSet({i}) /\ Cardinality({i}) = 1
  BY FS_Singleton
<1>3. IsFiniteSet(1 .. Size[t]) /\ Cardinality(1 .. Size[t]) = Size[t]
  BY <1>1, FS_Interval
<1> DEFINE a == {i}
           b == 1 .. Size[t]
<1> HIDE DEF a, b
<1>4. IsFiniteSet(a \X b) /\ Cardinality(a \X b) = Cardinality(a) * Cardinality(b)
  BY <1>2, <1>3, FS_Product DEF a, b
<1>5. 1 * Size[t] = Size[t]
  BY <1>1
<1> QED
  BY <1>2, <1>3, <1>4, <1>5 DEF a, b

\* The units of a container that no other one has the name of.
LEMMA UnitsApart ==
  ASSUME NEW S, IsFiniteSet(S), NEW i, NEW t \in Types, \A u \in S : u[1] # i
  PROVE  LET T == S \cup ({i} \X (1 .. Size[t]))
         IN IsFiniteSet(T) /\ Cardinality(T) = Cardinality(S) + Size[t]
<1> DEFINE U == {i} \X (1 .. Size[t])
<1>1. IsFiniteSet(U) /\ Cardinality(U) = Size[t] /\ Size[t] \in Nat
  BY UnitsOfOne, ConstantsOK
<1>2. S \cap U = {}
  OBVIOUS
<1> HIDE DEF U
<1>3. /\ IsFiniteSet(S \cup U)
      /\ Cardinality(S \cup U) = Cardinality(S) + Cardinality(U) - Cardinality(S \cap U)
  BY <1>1, FS_Union
<1>4. Cardinality(S \cap U) = 0 /\ Cardinality(S) \in Nat
  BY <1>2, FS_EmptySet, FS_CardinalityType
<1>5. Cardinality(S \cup U) = Cardinality(S) + Size[t]
  BY <1>1, <1>3, <1>4
<1> QED
  BY <1>3, <1>5 DEF U

LEMMA BooksStep == TypeInv /\ TypeInv' /\ PlacesInv /\ Books /\ [Next]_vars => Books'
<1> SUFFICES ASSUME TypeInv, TypeInv', PlacesInv, Books, [Next]_vars
             PROVE  Books'
  OBVIOUS
<1>t. /\ \A n \in Nodes : mem[n] \in Int /\ Cardinality(UnitsIn(n)) \in Nat
      /\ mem \in [Nodes -> Int] /\ count \in Nat /\ MemCap \in Nat /\ Size \in [Types -> Nat]
  BY FS_CardinalityType, ConstantsOK DEF TypeInv, TypeOK, Books
<1>1. ASSUME mem' = mem, \A n : UnitsIn(n)' = UnitsIn(n)
      PROVE  Books'
  BY <1>1 DEF Books
<1>2. ASSUME NEW i, NEW r, NEW s, NEW n, NEW t, Moves(i, r, s, n, t), mem' = mem
      PROVE  Books'
  <2> DEFINE e == Entry(i, r, n, t)
             X == {e}
  <2>1. X \in SUBSET Ledger /\ Ledger' = (Ledger \ X) \cup {Entry(i, s, n, t)}
    BY <1>2 DEF Moves
  <2>2. e.id = i /\ e.node = n /\ e.type = t
    BY DEF Entry
  <2> HIDE DEF e
  <2>3. Ledger' = (Ledger \ X) \cup {Entry(d.id, s, d.node, d.type) : d \in X}
    BY <2>1, <2>2
  <2> HIDE DEF X
  <2>4. \A m : UnitsIn(m)' = UnitsIn(m)
    BY <2>1, <2>3, StateChangeKeepsUnits
  <2> QED
    BY <1>1, <1>2, <2>4
<1>3. CASE StaysPut
  <2>1. \A m : UnitsIn(m)' = UnitsIn(m)
    BY <1>3 DEF StaysPut, UnitsIn, UnitsOf
  <2> QED
    BY <1>1, <1>3, <2>1 DEF StaysPut
<1>4. CASE IsTaken
  BY <1>2, <1>4 DEF IsTaken
<1>5. CASE IsReturned
  BY <1>2, <1>5 DEF IsReturned
<1>6. CASE AreLost
  <2> DEFINE X == {e \in Ledger : e.is = "busy"}
  <2>1. Ledger' = (Ledger \ X) \cup {Entry(d.id, "lost", d.node, d.type) : d \in X} /\ mem' = mem
    BY <1>6 DEF AreLost
  <2>2. X \in SUBSET Ledger
    OBVIOUS
  <2> HIDE DEF X
  <2>3. \A m : UnitsIn(m)' = UnitsIn(m)
    BY <2>1, <2>2, StateChangeKeepsUnits
  <2> QED
    BY <1>1, <2>1, <2>3
<1>7. CASE IsCreated
  <2>1. PICK n \in Nodes, t \in Types :
          /\ mem' = [mem EXCEPT ![n] = @ - Size[t]]
          /\ Ledger' = Ledger \cup {Entry(count + 1, "busy", n, t)}
    BY <1>7 DEF IsCreated
  <2> DEFINE e == Entry(count + 1, "busy", n, t)
             U == {count + 1} \X (1 .. Size[t])
  <2>2. e.id = count + 1 /\ e.node = n /\ e.type = t
    BY DEF Entry
  <2> HIDE DEF e
  <2>3. \A m \in Nodes : UnitsIn(m)' = IF m = n THEN UnitsIn(n) \cup U ELSE UnitsIn(m)
    <3>1. UnitsOf(e) = U
      BY <2>2 DEF UnitsOf
    <3> HIDE DEF U
    <3>2. \A d : d \in Ledger' <=> d \in Ledger \/ d = e
      BY <2>1 DEF e
    <3>3. \A m \in Nodes : \A u : u \in UnitsIn(m)' <=> u \in UnitsIn(m) \/ (m = n /\ u \in U)
      BY <2>2, <3>1, <3>2, InUnits, NextInUnits
    <3> QED
      BY <3>3
  <2>4. \A u \in UnitsIn(n) : u[1] # count + 1
    <3> TAKE u \in UnitsIn(n)
    <3>1. PICK d \in Ledger : u \in UnitsOf(d)
      BY InUnits
    <3>2. u[1] = d.id
      BY <3>1 DEF UnitsOf
    <3>3. d.id \in 1 .. count
      BY DEF PlacesInv, NamesGiven
    <3> QED
      BY <1>t, <3>2, <3>3
  <2>5. IsFiniteSet(UnitsIn(n))
    BY DEF Books
  <2>6. IsFiniteSet(UnitsIn(n) \cup U) /\ Cardinality(UnitsIn(n) \cup U) = Cardinality(UnitsIn(n)) + Size[t]
    <3> DEFINE S == UnitsIn(n)
               i == count + 1
    <3> HIDE DEF S, i
    <3>1. IsFiniteSet(S) /\ \A u \in S : u[1] # i
      BY <2>4, <2>5 DEF S, i
    <3>2. LET T == S \cup ({i} \X (1 .. Size[t]))
          IN IsFiniteSet(T) /\ Cardinality(T) = Cardinality(S) + Size[t]
      BY <3>1, UnitsApart
    <3> QED
      BY <3>2 DEF S, i
  <2> HIDE DEF U
  <2>7. \A m \in Nodes : mem'[m] = IF m = n THEN mem[n] - Size[t] ELSE mem[m]
    BY <1>t, <2>1
  <2> SUFFICES ASSUME NEW m \in Nodes
               PROVE  IsFiniteSet(UnitsIn(m)') /\ mem'[m] + Cardinality(UnitsIn(m)') = MemCap
    BY DEF Books
  <2>8. CASE m = n
    <3>1. UnitsIn(m)' = UnitsIn(n) \cup U /\ mem'[m] = mem[n] - Size[t]
      BY <2>3, <2>7, <2>8
    <3>2. mem[n] + Cardinality(UnitsIn(n)) = MemCap
      BY DEF Books
    <3> DEFINE x == mem[n]
               y == Cardinality(UnitsIn(n))
               z == Size[t]
    <3>3. x \in Int /\ y \in Nat /\ z \in Nat
      BY <1>t
    <3> HIDE DEF x, y, z
    <3>4. (x - z) + (y + z) = x + y
      BY <3>3
    <3> QED
      BY <2>6, <3>1, <3>2, <3>4 DEF x, y, z
  <2>9. CASE m # n
    BY <2>3, <2>7, <2>9 DEF Books
  <2> QED
    BY <2>8, <2>9
<1>8. CASE IsEvicted
  <2>0. PICK n \in Nodes : n = Target
    BY <1>8 DEF IsEvicted
  <2> DEFINE c == Head(cache[n])
             e == Entry(c.id, "idle", n, c.type)
             t == c.type
             U == {c.id} \X (1 .. Size[t])
  <2>1. /\ n \in Nodes /\ t \in Types /\ e \in Ledger
        /\ mem' = [mem EXCEPT ![n] = @ + Size[t]]
        /\ Ledger' = Ledger \ {e}
    BY <1>8, <2>0 DEF IsEvicted
  <2>2. e.id = c.id /\ e.node = n /\ e.type = t
    BY DEF Entry
  <2> HIDE DEF c, e, t
  <2>3. \A d \in Ledger' : d.id # c.id
    BY <2>1, <2>2 DEF PlacesInv, OneEntryEach
  <2>4. \A m \in Nodes : UnitsIn(m) = IF m = n THEN UnitsIn(n)' \cup U ELSE UnitsIn(m)'
    <3>1. UnitsOf(e) = U
      BY <2>2 DEF UnitsOf
    <3> HIDE DEF U
    <3>2. \A d : d \in Ledger <=> d \in Ledger' \/ d = e
      BY <2>1
    <3>3. \A m \in Nodes : \A u : u \in UnitsIn(m) <=> u \in UnitsIn(m)' \/ (m = n /\ u \in U)
      BY <2>2, <3>1, <3>2, InUnits, NextInUnits
    <3> QED
      BY <3>3
  <2>5. \A u \in UnitsIn(n)' : u[1] # c.id
    <3> TAKE u \in UnitsIn(n)'
    <3>1. PICK d \in Ledger' : u \in UnitsOf(d)
      BY NextInUnits
    <3>2. u[1] = d.id
      BY <3>1 DEF UnitsOf
    <3> QED
      BY <2>3, <3>2
  <2>6. /\ IsFiniteSet(UnitsIn(n)') /\ Cardinality(UnitsIn(n)') \in Nat
        /\ Cardinality(UnitsIn(n)) = Cardinality(UnitsIn(n)') + Size[t]
    <3> DEFINE S == UnitsIn(n)'
               i == c.id
    <3>1. UnitsIn(n) = S \cup U /\ \A u \in S : u[1] # i
      BY <2>1, <2>4, <2>5
    <3> HIDE DEF S
    <3>2. IsFiniteSet(UnitsIn(n)) /\ S \in SUBSET UnitsIn(n)
      BY <2>1, <3>1 DEF Books
    <3>3. IsFiniteSet(S)
      BY <3>2, FS_Subset
    <3> HIDE DEF i
    <3>4. LET T == S \cup ({i} \X (1 .. Size[t]))
          IN IsFiniteSet(T) /\ Cardinality(T) = Cardinality(S) + Size[t]
      BY <2>1, <3>1, <3>3, UnitsApart
    <3>5. Cardinality(UnitsIn(n)) = Cardinality(S) + Size[t]
      BY <3>1, <3>4 DEF i
    <3>6. Cardinality(S) \in Nat
      BY <3>3, FS_CardinalityType
    <3> QED
      BY <3>3, <3>5, <3>6 DEF S
  <2> HIDE DEF U
  <2>7. \A m \in Nodes : mem'[m] = IF m = n THEN mem[n] + Size[t] ELSE mem[m]
    BY <1>t, <2>1
  <2> SUFFICES ASSUME NEW m \in Nodes
               PROVE  IsFiniteSet(UnitsIn(m)') /\ mem'[m] + Cardinality(UnitsIn(m)') = MemCap
    BY DEF Books
  <2>8. CASE m = n
    <3>1. mem'[m] = mem[n] + Size[t]
      BY <2>7, <2>8
    <3>2. mem[n] + Cardinality(UnitsIn(n)) = MemCap
      BY <2>1 DEF Books
    <3> DEFINE x == mem[n]
               y == Cardinality(UnitsIn(n)')
               z == Size[t]
    <3>3. x \in Int /\ y \in Nat /\ z \in Nat
      BY <1>t, <2>1, <2>6
    <3>4. x + (y + z) = MemCap
      BY <2>6, <3>2
    <3> HIDE DEF x, y, z
    <3>5. (x + z) + y = x + (y + z)
      BY <3>3
    <3>6. (x + z) + y = MemCap
      BY <3>4, <3>5
    <3> QED
      BY <2>6, <2>8, <3>1, <3>6 DEF x, y, z
  <2>9. CASE m # n
    BY <2>4, <2>7, <2>9 DEF Books
  <2> QED
    BY <2>8, <2>9
<1> QED
  BY <1>3, <1>4, <1>5, <1>6, <1>7, <1>8, StepMoves DEF IsTaken, IsReturned

\* The inductive invariant about memory.
BooksInv == PlacesInv /\ LostOfOneType /\ Books

LEMMA BooksAlways == Spec => [](TypeInv /\ BooksInv)
<1>1. Init => LostOfOneType /\ Books
  <2> SUFFICES ASSUME Init PROVE LostOfOneType /\ Books
    OBVIOUS
  <2>1. LostOfOneType
    BY DEF Init, LostOfOneType, Range
  <2>2. ASSUME NEW n \in Nodes
        PROVE  UnitsIn(n) = {} /\ mem[n] = MemCap
    <3>1. /\ \A m \in Nodes : cache[m] = <<>>
          /\ \A m \in Nodes, t \in Types : active[m][t] = <<>> /\ leaked[m][t] = <<>>
          /\ mem[n] = MemCap
      BY DEF Init
    <3>2. Range(<<>>) = {}
      BY DEF Range
    <3>3. \A e : e \notin Ledger
      BY <3>1, <3>2, InMembers DEF Ledger
    <3> QED
      BY <3>1, <3>3, InUnits
  <2>3. IsFiniteSet({}) /\ Cardinality({}) = 0 /\ MemCap \in Nat
    BY FS_EmptySet, ConstantsOK
  <2>4. Books
    BY <2>2, <2>3 DEF Books
  <2> QED
    BY <2>1, <2>4
<1>2. TypeInv /\ TypeInv' /\ BooksInv /\ [Next]_vars => BooksInv'
  BY PlacesInvStep, LostOfOneTypeStep, BooksStep DEF BooksInv
<1> QED
  BY <1>1, <1>2, TypeInvInit, TypeInvStep, PlacesInvInit, PTL DEF Spec, BooksInv

\* What is left of a node's memory and what the containers on it take, the ones
\* updateCache dropped included, always make up its capacity
\* (algorithm.go:101, 112, 135).
THEOREM BooksBalance == Spec => []MemoryBalance
<1>1. TypeInv /\ BooksInv => MemoryBalance
  BY UnitsHeldAre DEF TypeInv, BooksInv, Books, MemoryBalance
<1> QED
  BY <1>1, BooksAlways, PTL

-----------------------------------------------------------------------------
(* The refinement.                                                         *)

ThePool == AsPool(Ledger, count)

\* What WarmPool says of the load and of a move is what PoolProofs says.
LEMMA PoolIs ==
  /\ \A p, n : Pool!Load(p, n) = LoadOf(p, n, Size)
  /\ \A p, q, from, to : q \in Pool!Moved(p, from, to) <=> MovedTo(p, q, from, to)
  /\ Pool!Gone = NoPlace /\ Size \in [Types -> Nat]
<1>1. \A p, n : Pool!Load(p, n) = LoadOf(p, n, Size)
  BY DEF Pool!Load, Pool!On, Pool!Gone, Pool!FoldFunction, Pool!FoldFunctionOnSet,
         Pool!MapThenFoldSet, SumOf, MapThenSumSet, MapThenFoldSet, LoadOf, SizesOn, OnNode, NoPlace
<1>2. \A p, q, from, to : q \in Pool!Moved(p, from, to) <=> MovedTo(p, q, from, to)
  BY DEF Pool!Moved, MovedTo
<1> QED
  BY <1>1, <1>2, ConstantsOK DEF Pool!Gone, NoPlace

PoolOfLedger == IsPool(ThePool, Ledger, count, Types)

LEMMA ThePoolIsPool == TypeInv /\ PlacesInv => PoolOfLedger
<1> SUFFICES ASSUME TypeInv, PlacesInv PROVE PoolOfLedger
  OBVIOUS
<1>1. count \in Nat
  BY DEF TypeInv, TypeOK
<1>2. \A c \in Ledger : c.id \in 1 .. count /\ c.type \in Types
  BY InLedger DEF TypeInv, LedgerShowsLists, PlacesInv, NamesGiven
<1>3. \A c, d \in Ledger : c.id = d.id => c = d
  BY DEF PlacesInv, OneEntryEach
<1> QED
  BY <1>1, <1>2, <1>3, AsPoolIsPool DEF PoolOfLedger, ThePool

LEMMA NextPoolIsPool == TypeInv' /\ PlacesInv' => PoolOfLedger'
BY ThePoolIsPool, PTL

\* What is left of a node's memory is what the pool does not take.
LoadInv == \A n \in Nodes : mem[n] + LoadOf(ThePool, n, Size) = MemCap

\* A step of the scheduler is a step of the pool, and keeps the books on its
\* load.
LEMMA PoolStep ==
  ASSUME TypeInv, TypeInv', PlacesInv, PlacesInv', LoadInv, [Next]_vars
  PROVE  LoadInv' /\ (ThePool' = ThePool \/ Pool!Next)
<1> DEFINE p == ThePool
           q == ThePool'
<1>1. IsPool(p, Ledger, count, Types) /\ IsPool(q, Ledger', count', Types)
  BY ThePoolIsPool, NextPoolIsPool DEF PoolOfLedger
<1>2. \A c, d \in Ledger : c.id = d.id => c = d
  BY DEF PlacesInv, OneEntryEach
<1>3. /\ mem \in [Nodes -> Int] /\ count \in Nat /\ MemCap \in Nat
      /\ Size \in [Types -> Nat] /\ \A t \in Types : Size[t] \in Nat
  BY ConstantsOK DEF TypeInv, TypeOK
<1>4. \A n : LoadOf(p, n, Size) \in Nat /\ LoadOf(q, n, Size) \in Nat
  <2>1. LooksLikePool(p, count, Types) /\ LooksLikePool(q, count', Types)
    BY <1>1 DEF IsPool
  <2> HIDE DEF p, q
  <2>2. \A n : LoadOf(p, n, Size) \in Nat
    BY <1>3, <2>1, LoadIsSum
  <2>3. \A n : LoadOf(q, n, Size) \in Nat
    BY <1>3, <2>1, LoadIsSum
  <2> QED
    BY <2>2, <2>3
<1>5. ASSUME mem' = mem, \A n : LoadOf(q, n, Size) = LoadOf(p, n, Size)
      PROVE  LoadInv'
  <2>1. \A n \in Nodes : mem'[n] + LoadOf(q, n, Size) = MemCap
    BY <1>5 DEF LoadInv
  <2> QED
    BY <2>1 DEF LoadInv, LoadOf, SizesOn, OnNode
<1>6. \A n \in Nodes : mem[n] + LoadOf(p, n, Size) = MemCap
  BY DEF LoadInv
<1>7. /\ Pool!Take = (q \in Pool!Moved(p, "idle", "busy"))
      /\ Pool!Return = (q \in Pool!Moved(p, "busy", "idle"))
      /\ Pool!Lose = (q \in Pool!Moved(p, "busy", "lost"))
      /\ Pool!Start = (q \in Pool!Started(p))
      /\ Pool!Drop = (q \in Pool!Dropped(p))
  BY DEF ThePool, Ledger, Pool!Take, Pool!Return, Pool!Lose, Pool!Start, Pool!Drop
<1>8. ASSUME NEW X \in SUBSET Ledger, NEW from, NEW to, from # "gone",
             \A e \in X : e.is = from,
             Ledger' = (Ledger \ X) \cup {Entry(e.id, to, e.node, e.type) : e \in X},
             UNCHANGED <<mem, count>>
      PROVE  LoadInv' /\ q \in Pool!Moved(p, from, to)
  <2> HIDE DEF p, q
  <2>1. IsPool(q, Ledger', count, Types)
    BY <1>1, <1>8
  <2>2. (\A e \in X : e.is = from) /\ Ledger' = (Ledger \ X) \cup InState(X, to)
    BY <1>8 DEF InState
  <2>3. /\ MovedTo(p, q, from, to)
        /\ \A n, size : LoadOf(q, n, size) = LoadOf(p, n, size)
    BY <1>1, <1>2, <2>1, <2>2, MovedShown
  <2> QED
    BY <1>5, <1>8, <2>3, PoolIs
<1>9. ASSUME NEW i, NEW from, NEW to, NEW n, NEW t, Moves(i, from, to, n, t),
             from # "gone", UNCHANGED <<mem, count>>
      PROVE  LoadInv' /\ q \in Pool!Moved(p, from, to)
  <2> HIDE DEF p, q
  <2> DEFINE e == Entry(i, from, n, t)
             X == {e}
  <2>1. X \in SUBSET Ledger /\ Ledger' = (Ledger \ X) \cup {Entry(i, to, n, t)}
    BY <1>9 DEF Moves
  <2>2. e.id = i /\ e.node = n /\ e.type = t /\ e.is = from
    BY DEF Entry
  <2> HIDE DEF e
  <2>3. Ledger' = (Ledger \ X) \cup {Entry(d.id, to, d.node, d.type) : d \in X}
    BY <2>1, <2>2
  <2>4. \A d \in X : d.is = from
    BY <2>2
  <2> HIDE DEF X
  <2> QED
    BY <1>8, <1>9, <2>1, <2>3, <2>4
<1>10. CASE StaysPut
  <2> HIDE DEF p, q
  <2>1. mem' = mem /\ count' = count /\ Ledger' = Ledger
    BY <1>10 DEF StaysPut
  <2>2. q = p
    BY <2>1 DEF p, q, ThePool
  <2> QED
    BY <1>5, <2>1, <2>2 DEF p, q
<1>11. CASE IsTaken
  <2>1. PICK n \in Nodes, t \in Types, i \in Nat : Moves(i, "idle", "busy", n, t)
    BY <1>11 DEF IsTaken
  <2>2. LoadInv' /\ q \in Pool!Moved(p, "idle", "busy")
    BY <1>9, <1>11, <2>1 DEF IsTaken
  <2> QED
    BY <1>7, <2>2 DEF Pool!Next
<1>12. CASE IsReturned
  <2>1. PICK n \in Nodes, t \in Types, i \in Nat : Moves(i, "busy", "idle", n, t)
    BY <1>12 DEF IsReturned
  <2>2. LoadInv' /\ q \in Pool!Moved(p, "busy", "idle")
    BY <1>9, <1>12, <2>1 DEF IsReturned
  <2> QED
    BY <1>7, <2>2 DEF Pool!Next
<1>13. CASE AreLost
  <2> DEFINE X == {e \in Ledger : e.is = "busy"}
  <2>1. /\ Ledger' = (Ledger \ X) \cup {Entry(e.id, "lost", e.node, e.type) : e \in X}
        /\ UNCHANGED <<mem, count>>
    BY <1>13 DEF AreLost
  <2>2. X \in SUBSET Ledger /\ \A e \in X : e.is = "busy"
    OBVIOUS
  <2> HIDE DEF X
  <2>3. LoadInv' /\ q \in Pool!Moved(p, "busy", "lost")
    BY <1>8, <2>1, <2>2
  <2> QED
    BY <1>7, <2>3 DEF Pool!Next
<1>14. CASE IsCreated
  <2>1. PICK n \in Nodes, t \in Types :
          /\ Size[t] <= mem[n] /\ mem' = [mem EXCEPT ![n] = @ - Size[t]]
          /\ count' = count + 1
          /\ Ledger' = Ledger \cup {Entry(count + 1, "busy", n, t)}
    BY <1>14 DEF IsCreated
  <2> DEFINE x == [is |-> "busy", node |-> n, type |-> t]
  <2> HIDE DEF p, q
  <2>2. IsPool(q, Ledger', count + 1, Types)
    BY <1>1, <2>1
  <2>3. /\ q = Append(p, x)
        /\ LoadOf(q, n, Size) = LoadOf(p, n, Size) + Size[t]
        /\ \A m : m # n => LoadOf(q, m, Size) = LoadOf(p, m, Size)
    BY <1>1, <1>3, <2>1, <2>2, StartedShown, SMTT(30)
  <2>4. LoadOf(p, n, Size) + Size[t] <= MemCap
    BY <1>3, <1>4, <1>6, <2>1
  <2>5. q \in Pool!Started(p)
    <3>1. <<n, t>> \in {s \in Nodes \X Types : Pool!Load(p, s[1]) + Size[s[2]] <= MemCap}
      BY <2>4, PoolIs
    <3>2. x = [is |-> "busy", node |-> <<n, t>>[1], type |-> <<n, t>>[2]]
      OBVIOUS
    <3> HIDE DEF x
    <3> QED
      BY <2>3, <3>1, <3>2, PoolIs DEF Pool!Started
  <2>6. \A m \in Nodes : mem'[m] + LoadOf(q, m, Size) = MemCap
    <3> TAKE m \in Nodes
    <3>1. CASE m = n
      <4>1. mem'[m] = mem[n] - Size[t]
        BY <1>3, <2>1, <3>1
      <4> QED
        BY <1>3, <1>4, <1>6, <2>3, <3>1, <4>1
    <3>2. CASE m # n
      <4>1. mem'[m] = mem[m]
        BY <1>3, <2>1, <3>2
      <4> QED
        BY <1>6, <2>3, <3>2, <4>1
    <3> QED
      BY <3>1, <3>2
  <2>7. LoadInv'
    BY <2>6 DEF q, LoadInv
  <2> QED
    BY <1>7, <2>5, <2>7 DEF Pool!Next, p, q
<1>15. CASE IsEvicted
  <2>0. PICK n \in Nodes : n = Target
    BY <1>15 DEF IsEvicted
  <2> DEFINE c == Head(cache[n])
             t == c.type
             e == Entry(c.id, "idle", n, t)
  <2>1. /\ t \in Types /\ e \in Ledger
        /\ mem' = [mem EXCEPT ![n] = @ + Size[t]] /\ count' = count
        /\ Ledger' = Ledger \ {e}
    BY <1>15, <2>0 DEF IsEvicted
  <2>2. e.id = c.id /\ e.is = "idle" /\ e.node = n /\ e.type = t
    BY DEF Entry
  <2> HIDE DEF p, q, c, t, e
  <2>3. IsPool(q, Ledger', count, Types)
    BY <1>1, <2>1
  <2>4. /\ e.id \in DOMAIN p /\ p[e.id].is = e.is
        /\ q = [p EXCEPT ![e.id] = NoPlace]
        /\ LoadOf(p, e.node, Size) = LoadOf(q, e.node, Size) + Size[e.type]
        /\ \A m : m # e.node => LoadOf(q, m, Size) = LoadOf(p, m, Size)
    BY <1>1, <1>2, <1>3, <2>1, <2>3, DroppedShown
  <2>5. q \in Pool!Dropped(p)
    BY <2>2, <2>4, PoolIs DEF Pool!Dropped
  <2>6. \A m \in Nodes : mem'[m] + LoadOf(q, m, Size) = MemCap
    <3> TAKE m \in Nodes
    <3>1. CASE m = n
      <4>1. mem'[m] = mem[n] + Size[t]
        BY <1>3, <2>1, <3>1
      <4>2. LoadOf(p, n, Size) = LoadOf(q, n, Size) + Size[t]
        BY <2>2, <2>4
      <4> QED
        BY <1>3, <1>4, <1>6, <2>1, <3>1, <4>1, <4>2
    <3>2. CASE m # n
      <4>1. mem'[m] = mem[m]
        BY <1>3, <2>1, <3>2
      <4> QED
        BY <1>6, <2>2, <2>4, <3>2, <4>1
    <3> QED
      BY <3>1, <3>2
  <2>7. LoadInv'
    BY <2>6 DEF q, LoadInv
  <2> QED
    BY <1>7, <2>5, <2>7 DEF Pool!Next, p, q
<1> QED
  BY <1>10, <1>11, <1>12, <1>13, <1>14, <1>15, StepMoves

LEMMA LoadInit == Init => LoadInv /\ ThePool = <<>>
<1> SUFFICES ASSUME Init PROVE LoadInv /\ ThePool = <<>>
  OBVIOUS
<1>1. count = 0 /\ \A n \in Nodes : mem[n] = MemCap
  BY DEF Init
<1>2. MemCap \in Nat
  BY ConstantsOK
<1>3. ThePool = <<>>
  <2>1. DOMAIN ThePool = 1 .. 0 /\ ThePool = [i \in DOMAIN ThePool |-> ThePool[i]]
    BY <1>1 DEF ThePool, AsPool
  <2> QED
    BY <2>1
<1>4. ASSUME NEW n \in Nodes
      PROVE  LoadOf(<<>>, n, Size) = 0
  <2>1. OnNode(<<>>, n) = {}
    BY DEF OnNode
  <2>2. SumOf(SizesOn(<<>>, n, Size), {}) = 0
    BY SumOfRecursion, FS_EmptySet
  <2> QED
    BY <2>1, <2>2 DEF LoadOf
<1> QED
  BY <1>1, <1>2, <1>3, <1>4 DEF LoadInv

\* The scheduler implements the pool of warm containers: every step of it is
\* the start, use, return, loss or end of containers, or nothing to the pool
\* (algorithm.go:53-141, 231-245).
THEOREM SchedulerImplementsPool == Spec => ImplementsPool
<1>1. Init => Pool!Init
  BY LoadInit DEF Pool!Init, ThePool, Ledger
<1>2. TypeInv /\ TypeInv' /\ PlacesInv /\ PlacesInv' /\ LoadInv /\ [Next]_vars
        => LoadInv' /\ [Pool!Next]_(AsPool(Members(Nodes, Types, cache, active, leaked), count))
  BY PoolStep DEF ThePool, Ledger
<1>3. Init => LoadInv
  BY LoadInit
<1> QED
  BY <1>1, <1>2, <1>3, PlacesAlways, PTL DEF Spec, ImplementsPool, Pool!Spec
=============================================================================
