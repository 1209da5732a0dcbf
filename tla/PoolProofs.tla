------------------------------ MODULE PoolProofs ------------------------------
(***************************************************************************)
(* Facts about lists of containers with names, about the ledger of all     *)
(* containers that the lists of a scheduler make up, and about the pool of *)
(* warm containers that the ledger shows (PoolView, WarmPool).             *)
(***************************************************************************)
EXTENDS ListProofs, PoolView

-----------------------------------------------------------------------------
(* Lists whose containers have different names.                            *)

Distinct(s) == \A i, j \in DOMAIN s : s[i].id = s[j].id => i = j

LEMMA RangeOfDeleteAt ==
  ASSUME NEW E, NEW s \in Seq(E), Distinct(s), NEW i \in DOMAIN s
  PROVE  /\ Distinct(DeleteAt(s, i))
         /\ Range(DeleteAt(s, i)) = {c \in Range(s) : c.id # s[i].id}
<1> DEFINE q == DeleteAt(s, i)
           n == Len(s)
           to(p) == IF p < i THEN p ELSE p + 1
<1>1. n \in Nat /\ DOMAIN s = 1 .. n
  BY LenProperties
<1>2. DOMAIN q = 1 .. n - 1 /\ \A p \in 1 .. n - 1 : q[p] = s[to(p)]
  <2>1. /\ q \in Seq(E) /\ Len(q) = n - 1
        /\ \A p \in 1 .. n - 1 : q[p] = IF p < i THEN s[p] ELSE s[p + 1]
    BY DeleteAtProperties
  <2> HIDE DEF q
  <2>2. \A p \in 1 .. n - 1 : s[to(p)] = IF p < i THEN s[p] ELSE s[p + 1]
    OBVIOUS
  <2> QED
    BY <2>1, <2>2, LenProperties
<1>3. /\ \A p \in 1 .. n - 1 : to(p) \in 1 .. n /\ to(p) # i
      /\ \A p, r \in 1 .. n - 1 : to(p) = to(r) => p = r
      /\ \A j \in 1 .. n : j # i => \E p \in 1 .. n - 1 : to(p) = j
  <2>1. i \in 1 .. n
    BY <1>1
  <2>2. ASSUME NEW j \in 1 .. n, j # i
        PROVE  \E p \in 1 .. n - 1 : to(p) = j
    <3>1. CASE j < i
      <4>1. j \in 1 .. n - 1 /\ to(j) = j
        BY <1>1, <2>1, <3>1
      <4> QED
        BY <4>1
    <3>2. CASE j > i
      <4>1. j - 1 \in 1 .. n - 1 /\ to(j - 1) = j
        BY <1>1, <2>1, <3>2
      <4> QED
        BY <4>1
    <3> QED
      BY <1>1, <2>1, <2>2, <3>1, <3>2
  <2>3. /\ \A p \in 1 .. n - 1 : to(p) \in 1 .. n /\ to(p) # i
        /\ \A p, r \in 1 .. n - 1 : to(p) = to(r) => p = r
    BY <1>1, <2>1
  <2> QED
    BY <2>2, <2>3
<1> HIDE DEF q, n, to
<1>4. Distinct(q)
  BY <1>1, <1>2, <1>3 DEF Distinct
<1>5. Range(q) = {q[p] : p \in 1 .. n - 1} /\ Range(s) = {s[p] : p \in 1 .. n}
  BY <1>1, <1>2 DEF Range
<1>6. \A p \in 1 .. n : s[p].id = s[i].id <=> p = i
  BY <1>1 DEF Distinct
<1>7. Range(q) = {c \in Range(s) : c.id # s[i].id}
  <2>1. ASSUME NEW c \in Range(q)
        PROVE  c \in Range(s) /\ c.id # s[i].id
    <3>1. PICK p \in 1 .. n - 1 : c = s[to(p)]
      BY <1>2, <1>5
    <3> QED
      BY <1>3, <1>5, <1>6, <3>1
  <2>2. ASSUME NEW c \in Range(s), c.id # s[i].id
        PROVE  c \in Range(q)
    <3>1. PICK j \in 1 .. n : c = s[j]
      BY <1>5
    <3>2. PICK p \in 1 .. n - 1 : to(p) = j
      BY <1>3, <1>6, <2>2, <3>1
    <3> QED
      BY <1>2, <1>5, <3>1, <3>2
  <2> QED
    BY <2>1, <2>2
<1> QED
  BY <1>4, <1>7 DEF q

LEMMA TailIsDeleteAt ==
  ASSUME NEW E, NEW s \in Seq(E), s # <<>>
  PROVE  1 \in DOMAIN s /\ Head(s) = s[1] /\ Tail(s) = DeleteAt(s, 1)
<1>1. Len(s) \in Nat /\ Len(s) # 0 /\ DOMAIN s = 1 .. Len(s)
  BY LenProperties, EmptySeq
<1>2. 1 \in DOMAIN s
  BY <1>1
<1>3. /\ Tail(s) \in Seq(E) /\ Len(Tail(s)) = Len(s) - 1
      /\ \A i \in 1 .. Len(Tail(s)) : Tail(s)[i] = s[i + 1]
  BY HeadTailProperties
<1>4. /\ DeleteAt(s, 1) \in Seq(E) /\ Len(DeleteAt(s, 1)) = Len(s) - 1
      /\ \A p \in 1 .. Len(s) - 1 : DeleteAt(s, 1)[p] = IF p < 1 THEN s[p] ELSE s[p + 1]
  BY <1>2, DeleteAtProperties
<1>5. \A i \in 1 .. Len(s) - 1 : Tail(s)[i] = DeleteAt(s, 1)[i]
  BY <1>1, <1>3, <1>4
<1>6. Tail(s) = DeleteAt(s, 1)
  BY <1>3, <1>4, <1>5, SeqEqual
<1>7. Head(s) = s[1]
  OBVIOUS
<1> QED
  BY <1>2, <1>6, <1>7

LEMMA RangeOfAppend ==
  ASSUME NEW E, NEW s \in Seq(E), NEW c \in E
  PROVE  /\ Range(Append(s, c)) = Range(s) \cup {c}
         /\ Distinct(s) /\ c.id \notin {d.id : d \in Range(s)} => Distinct(Append(s, c))
<1> DEFINE n == Len(s)
           a == Append(s, c)
<1>1. /\ n \in Nat /\ DOMAIN s = 1 .. n /\ DOMAIN a = 1 .. n + 1
      /\ a[n + 1] = c /\ \A i \in 1 .. n : a[i] = s[i]
  <2>1. /\ a \in Seq(E) /\ Len(a) = Len(s) + 1
        /\ a[Len(s) + 1] = c /\ \A i \in 1 .. Len(s) : a[i] = s[i]
    BY AppendProperties
  <2> QED
    BY <2>1, LenProperties
<1>2. 1 .. n + 1 = 1 .. n \cup {n + 1} /\ n + 1 \notin 1 .. n
  BY <1>1
<1> HIDE DEF n, a
<1>3. Range(a) = {a[i] : i \in 1 .. n \cup {n + 1}} /\ Range(s) = {s[i] : i \in 1 .. n}
  BY <1>1, <1>2 DEF Range
<1>4. Range(a) = Range(s) \cup {c}
  BY <1>1, <1>3
<1>5. ASSUME Distinct(s), c.id \notin {d.id : d \in Range(s)}
      PROVE  Distinct(a)
  <2>1. \A i \in 1 .. n : s[i].id # c.id
    BY <1>3, <1>5
  <2>2. \A i, j \in 1 .. n \cup {n + 1} : a[i].id = a[j].id => i = j
    BY <1>1, <1>2, <1>5, <2>1 DEF Distinct
  <2> QED
    BY <1>1, <1>2, <2>2 DEF Distinct
<1> QED
  BY <1>4, <1>5 DEF a

\* Sorting only changes the order.
LEMMA RangeOfSortList ==
  ASSUME NEW E, \A e \in E : e.prio \in Int, NEW s \in Seq(E)
  PROVE  /\ Range(SortList(s)) = Range(s)
         /\ Distinct(s) => Distinct(SortList(s))
<1> DEFINE D == DOMAIN s
           place(p) == CHOOSE i \in D : Rank(s, i) = p
           q == SortList(s)
<1>0. Prioritised(s)
  <2>1. \A i \in DOMAIN s : s[i] \in E
    BY LenProperties, ElementOfSeq
  <2> QED
    BY <2>1 DEF Prioritised
<1>1. \A p \in D : place(p) \in D /\ Rank(s, place(p)) = p
  BY <1>0, RankIsPermutation
<1>2. DOMAIN q = D /\ \A p \in D : q[p] = s[place(p)]
  BY DEF SortList
<1>3. /\ \A p \in DOMAIN q : \E i \in D : q[p] = s[i]
      /\ \A i \in D : \E p \in DOMAIN q : q[p] = s[i]
  BY <1>0, SortListProperties
<1> HIDE DEF place, q
<1>4. Range(q) = Range(s)
  BY <1>3 DEF Range
<1>5. ASSUME Distinct(s)
      PROVE  Distinct(q)
  BY <1>1, <1>2, <1>5 DEF Distinct
<1> QED
  BY <1>4, <1>5 DEF q

LEMMA RangeOfConcat ==
  ASSUME NEW E, NEW s \in Seq(E), NEW r \in Seq(E)
  PROVE  /\ Range(s \o r) = Range(s) \cup Range(r)
         /\ Distinct(s) /\ Distinct(r) /\ (\A c \in Range(s), d \in Range(r) : c.id # d.id)
              => Distinct(s \o r)
<1> DEFINE m == Len(s)
           n == Len(r)
           a == s \o r
<1>1. /\ m \in Nat /\ n \in Nat /\ DOMAIN s = 1 .. m /\ DOMAIN r = 1 .. n
      /\ DOMAIN a = 1 .. m + n
      /\ \A i \in 1 .. m + n : a[i] = IF i <= m THEN s[i] ELSE r[i - m]
  <2>1. /\ a \in Seq(E) /\ Len(a) = Len(s) + Len(r)
        /\ \A i \in 1 .. Len(s) + Len(r) : a[i] = IF i <= Len(s) THEN s[i] ELSE r[i - Len(s)]
    BY ConcatProperties
  <2> QED
    BY <2>1, LenProperties
<1> HIDE DEF m, n, a
<1>2. \A i \in 1 .. m + n : \/ i \in 1 .. m /\ a[i] = s[i]
                            \/ i - m \in 1 .. n /\ ~(i <= m) /\ a[i] = r[i - m]
  BY <1>1
<1>3. /\ \A i \in 1 .. m : i \in 1 .. m + n /\ a[i] = s[i]
      /\ \A j \in 1 .. n : j + m \in 1 .. m + n /\ a[j + m] = r[j]
  <2>1. \A i \in 1 .. m : i \in 1 .. m + n /\ i <= m
    BY <1>1
  <2>2. \A j \in 1 .. n : j + m \in 1 .. m + n /\ ~(j + m <= m) /\ (j + m) - m = j
    BY <1>1
  <2> QED
    BY <1>1, <2>1, <2>2
<1>4. Range(a) = {a[i] : i \in 1 .. m + n} /\ Range(s) = {s[i] : i \in 1 .. m}
      /\ Range(r) = {r[i] : i \in 1 .. n}
  BY <1>1 DEF Range
<1>5. Range(a) = Range(s) \cup Range(r)
  <2>1. Range(a) \subseteq Range(s) \cup Range(r)
    BY <1>2, <1>4
  <2>2. Range(s) \cup Range(r) \subseteq Range(a)
    BY <1>3, <1>4
  <2> QED
    BY <2>1, <2>2
<1>6. ASSUME Distinct(s), Distinct(r), \A c \in Range(s), d \in Range(r) : c.id # d.id,
             NEW i \in 1 .. m + n, NEW j \in 1 .. m + n, a[i].id = a[j].id
      PROVE  i = j
  <2>1. CASE i \in 1 .. m /\ a[i] = s[i] /\ j \in 1 .. m /\ a[j] = s[j]
    BY <1>1, <1>6, <2>1 DEF Distinct
  <2>2. CASE i - m \in 1 .. n /\ a[i] = r[i - m] /\ j - m \in 1 .. n /\ a[j] = r[j - m]
    <3>1. i - m = j - m
      BY <1>1, <1>6, <2>2 DEF Distinct
    <3> QED
      BY <1>1, <3>1
  <2>3. CASE i \in 1 .. m /\ a[i] = s[i] /\ j - m \in 1 .. n /\ a[j] = r[j - m]
    BY <1>4, <1>6, <2>3
  <2>4. CASE j \in 1 .. m /\ a[j] = s[j] /\ i - m \in 1 .. n /\ a[i] = r[i - m]
    BY <1>4, <1>6, <2>4
  <2> QED
    BY <1>2, <2>1, <2>2, <2>3, <2>4
<1> QED
  BY <1>1, <1>5, <1>6 DEF Distinct, a

IdsIn(s) == {c.id : c \in Range(s)}
IdsOfType(s, t) == {c.id : c \in {d \in Range(s) : d.type = t}}

\* What the list operations do to the names in a list.
LEMMA IdsAfterDelete ==
  ASSUME NEW E, NEW s \in Seq(E), Distinct(s), NEW i \in DOMAIN s
  PROVE  /\ IdsIn(DeleteAt(s, i)) = IdsIn(s) \ {s[i].id}
         /\ s[i].id \in IdsIn(s) /\ s[i].id \in IdsOfType(s, s[i].type)
         /\ \A t : IdsOfType(DeleteAt(s, i), t)
                    = IF t = s[i].type THEN IdsOfType(s, t) \ {s[i].id} ELSE IdsOfType(s, t)
<1> DEFINE q == DeleteAt(s, i)
<1>1. Range(q) = {c \in Range(s) : c.id # s[i].id}
  BY RangeOfDeleteAt
<1> HIDE DEF q
<1>2. s[i] \in Range(s) /\ \A c \in Range(s) : c.id = s[i].id => c = s[i]
  BY DEF Range, Distinct
<1>3. IdsIn(q) = IdsIn(s) \ {s[i].id}
  BY <1>1 DEF IdsIn
<1>4. s[i].id \in IdsIn(s) /\ s[i].id \in IdsOfType(s, s[i].type)
  BY <1>2 DEF IdsIn, IdsOfType
<1>5. ASSUME NEW t
      PROVE  IdsOfType(q, t) = IF t = s[i].type THEN IdsOfType(s, t) \ {s[i].id}
                                                ELSE IdsOfType(s, t)
  <2>1. \A j : j \in IdsOfType(q, t) <=> j \in IdsOfType(s, t) /\ j # s[i].id
    BY <1>1 DEF IdsOfType
  <2>2. t # s[i].type => s[i].id \notin IdsOfType(s, t)
    BY <1>2 DEF IdsOfType
  <2> QED
    BY <2>1, <2>2
<1> QED
  BY <1>3, <1>4, <1>5 DEF q

LEMMA IdsAfterAppend ==
  ASSUME NEW E, \A e \in E : e.prio \in Int, NEW s \in Seq(E), NEW c \in E
  PROVE  /\ IdsIn(Append(s, c)) = IdsIn(s) \cup {c.id}
         /\ \A t : IdsOfType(SortList(Append(s, c)), t)
                    = IF t = c.type THEN IdsOfType(s, t) \cup {c.id} ELSE IdsOfType(s, t)
         /\ Range(SortList(Append(s, c))) = Range(s) \cup {c}
         /\ Distinct(s) /\ c.id \notin IdsIn(s)
              => Distinct(Append(s, c)) /\ Distinct(SortList(Append(s, c)))
<1> DEFINE a == Append(s, c)
<1>1. a \in Seq(E)
  BY AppendProperties
<1>2. /\ Range(a) = Range(s) \cup {c}
      /\ Distinct(s) /\ c.id \notin IdsIn(s) => Distinct(a)
  BY RangeOfAppend DEF IdsIn
<1> HIDE DEF a
<1>3. Range(SortList(a)) = Range(a) /\ (Distinct(a) => Distinct(SortList(a)))
  BY <1>1, RangeOfSortList
<1>4. IdsIn(a) = IdsIn(s) \cup {c.id}
  BY <1>2 DEF IdsIn
<1>5. \A t : IdsOfType(SortList(a), t)
             = IF t = c.type THEN IdsOfType(s, t) \cup {c.id} ELSE IdsOfType(s, t)
  BY <1>2, <1>3 DEF IdsOfType
<1> QED
  BY <1>2, <1>3, <1>4, <1>5 DEF a

-----------------------------------------------------------------------------
(* The ledger: every container, with the place it is in.                   *)

Kinds == {"idle", "busy", "lost"}
Entry(i, s, n, t) == [id |-> i, is |-> s, node |-> n, type |-> t]

LEMMA InMembers ==
  ASSUME NEW nodes, NEW types, NEW ca, NEW ac, NEW le, NEW e
  PROVE  e \in Members(nodes, types, ca, ac, le) <=>
           \E n \in nodes :
             \/ \E c \in Range(ca[n]) : e = Entry(c.id, "idle", n, c.type)
             \/ \E t \in types : \E c \in Range(ac[n][t]) : e = Entry(c.id, "busy", n, t)
             \/ \E t \in types : \E c \in Range(le[n][t]) : e = Entry(c.id, "lost", n, t)
<1> DEFINE I(n) == {Entry(c.id, "idle", n, c.type) : c \in Range(ca[n])}
           B(n) == UNION {{Entry(c.id, "busy", n, t) : c \in Range(ac[n][t])} : t \in types}
           L(n) == UNION {{Entry(c.id, "lost", n, t) : c \in Range(le[n][t])} : t \in types}
<1>1. Members(nodes, types, ca, ac, le) = UNION {I(n) \cup B(n) \cup L(n) : n \in nodes}
  BY DEF Members, Entry
<1>2. \A n : e \in I(n) <=> \E c \in Range(ca[n]) : e = Entry(c.id, "idle", n, c.type)
  OBVIOUS
<1>3. \A n : e \in B(n) <=> \E t \in types : \E c \in Range(ac[n][t]) : e = Entry(c.id, "busy", n, t)
  OBVIOUS
<1>4. \A n : e \in L(n) <=> \E t \in types : \E c \in Range(le[n][t]) : e = Entry(c.id, "lost", n, t)
  OBVIOUS
<1> HIDE DEF I, B, L
<1> QED
  BY <1>1, <1>2, <1>3, <1>4

LEMMA EntryIsPair ==
  \A i, s, n, t, j, r, m, u :
    Entry(i, s, n, t) = Entry(j, r, m, u) <=> i = j /\ <<s, n, t>> = <<r, m, u>>
<1> SUFFICES ASSUME NEW i, NEW s, NEW n, NEW t, NEW j, NEW r, NEW m, NEW u,
                    Entry(i, s, n, t) = Entry(j, r, m, u)
             PROVE  i = j /\ s = r /\ n = m /\ t = u
  OBVIOUS
<1> DEFINE e == Entry(i, s, n, t)
           d == Entry(j, r, m, u)
<1>1. e.id = i /\ e.is = s /\ e.node = n /\ e.type = t
  BY DEF Entry
<1>2. d.id = j /\ d.is = r /\ d.node = m /\ d.type = u
  BY DEF Entry
<1>3. e = d
  OBVIOUS
<1> HIDE DEF e, d
<1> QED
  BY <1>1, <1>2, <1>3

\* The names in the ledger are those in the lists.
LEMMA MembersAre ==
  ASSUME NEW nodes, NEW types, NEW ca, NEW ac, NEW le,
         \A n \in nodes : \A c \in Range(ca[n]) : c.type \in types
  PROVE  LET L == Members(nodes, types, ca, ac, le)
         IN /\ \A n \in nodes, t \in types : \A i :
                 /\ Entry(i, "idle", n, t) \in L <=> i \in IdsOfType(ca[n], t)
                 /\ Entry(i, "busy", n, t) \in L <=> i \in IdsIn(ac[n][t])
                 /\ Entry(i, "lost", n, t) \in L <=> i \in IdsIn(le[n][t])
            /\ \A e \in L : /\ e.is \in Kinds /\ e.node \in nodes /\ e.type \in types
                           /\ e = Entry(e.id, e.is, e.node, e.type)
<1> DEFINE L == Members(nodes, types, ca, ac, le)
<1>1. \A e : e \in L <=>
           \E n \in nodes :
             \/ \E c \in Range(ca[n]) : e = Entry(c.id, "idle", n, c.type)
             \/ \E t \in types : \E c \in Range(ac[n][t]) : e = Entry(c.id, "busy", n, t)
             \/ \E t \in types : \E c \in Range(le[n][t]) : e = Entry(c.id, "lost", n, t)
  BY InMembers
<1> HIDE DEF L
<1>2. ASSUME NEW n \in nodes, NEW t \in types, NEW i
      PROVE  /\ Entry(i, "idle", n, t) \in L <=> i \in IdsOfType(ca[n], t)
             /\ Entry(i, "busy", n, t) \in L <=> i \in IdsIn(ac[n][t])
             /\ Entry(i, "lost", n, t) \in L <=> i \in IdsIn(le[n][t])
  <2>1. Entry(i, "idle", n, t) \in L <=> i \in IdsOfType(ca[n], t)
    <3>1. Entry(i, "idle", n, t) \in L <=> \E c \in Range(ca[n]) : c.id = i /\ c.type = t
      BY <1>1, EntryIsPair
    <3> QED
      BY <3>1 DEF IdsOfType
  <2>2. Entry(i, "busy", n, t) \in L <=> i \in IdsIn(ac[n][t])
    <3>1. Entry(i, "busy", n, t) \in L <=> \E c \in Range(ac[n][t]) : c.id = i
      BY <1>1, EntryIsPair
    <3> QED
      BY <3>1 DEF IdsIn
  <2>3. Entry(i, "lost", n, t) \in L <=> i \in IdsIn(le[n][t])
    <3>1. Entry(i, "lost", n, t) \in L <=> \E c \in Range(le[n][t]) : c.id = i
      BY <1>1, EntryIsPair
    <3> QED
      BY <3>1 DEF IdsIn
  <2> QED
    BY <2>1, <2>2, <2>3
<1>3. ASSUME NEW e \in L
      PROVE  /\ e.is \in Kinds /\ e.node \in nodes /\ e.type \in types
             /\ e = Entry(e.id, e.is, e.node, e.type)
  <2>1. PICK n \in nodes :
          \/ \E c \in Range(ca[n]) : e = Entry(c.id, "idle", n, c.type)
          \/ \E t \in types : \E c \in Range(ac[n][t]) : e = Entry(c.id, "busy", n, t)
          \/ \E t \in types : \E c \in Range(le[n][t]) : e = Entry(c.id, "lost", n, t)
    BY <1>1
  <2>2. \A i, s, t : LET d == Entry(i, s, n, t)
                   IN d.id = i /\ d.is = s /\ d.node = n /\ d.type = t
    BY DEF Entry
  <2>3. CASE \E c \in Range(ca[n]) : e = Entry(c.id, "idle", n, c.type)
    BY <2>2, <2>3 DEF Kinds
  <2>4. CASE \E t \in types : \E c \in Range(ac[n][t]) : e = Entry(c.id, "busy", n, t)
    BY <2>2, <2>4 DEF Kinds
  <2>5. CASE \E t \in types : \E c \in Range(le[n][t]) : e = Entry(c.id, "lost", n, t)
    BY <2>2, <2>5 DEF Kinds
  <2> QED
    BY <2>1, <2>3, <2>4, <2>5
<1> QED
  BY <1>2, <1>3 DEF L

\* A step that takes the entries X out of the lists and puts Y in.
ListsChange(nodes, types, ca, ac, le, ca2, ac2, le2, X, Y) ==
  /\ \A n \in nodes : /\ \A c \in Range(ca[n]) : c.type \in types
                      /\ \A c \in Range(ca2[n]) : c.type \in types
  /\ \A n \in nodes, t \in types : \A i :
       /\ i \in IdsOfType(ca2[n], t) <=>
            \/ i \in IdsOfType(ca[n], t) /\ Entry(i, "idle", n, t) \notin X
            \/ Entry(i, "idle", n, t) \in Y
       /\ i \in IdsIn(ac2[n][t]) <=>
            \/ i \in IdsIn(ac[n][t]) /\ Entry(i, "busy", n, t) \notin X
            \/ Entry(i, "busy", n, t) \in Y
       /\ i \in IdsIn(le2[n][t]) <=>
            \/ i \in IdsIn(le[n][t]) /\ Entry(i, "lost", n, t) \notin X
            \/ Entry(i, "lost", n, t) \in Y
  /\ \A e \in Y : /\ e.is \in Kinds /\ e.node \in nodes /\ e.type \in types
                /\ e = Entry(e.id, e.is, e.node, e.type)

LEMMA MembersChange ==
  ASSUME NEW nodes, NEW types, NEW ca, NEW ac, NEW le, NEW ca2, NEW ac2, NEW le2, NEW X, NEW Y,
         ListsChange(nodes, types, ca, ac, le, ca2, ac2, le2, X, Y)
  PROVE  Members(nodes, types, ca2, ac2, le2) = (Members(nodes, types, ca, ac, le) \ X) \cup Y
<1> DEFINE L == Members(nodes, types, ca, ac, le)
           M == Members(nodes, types, ca2, ac2, le2)
<1>1. /\ \A n \in nodes, t \in types : \A i :
           /\ Entry(i, "idle", n, t) \in L <=> i \in IdsOfType(ca[n], t)
           /\ Entry(i, "busy", n, t) \in L <=> i \in IdsIn(ac[n][t])
           /\ Entry(i, "lost", n, t) \in L <=> i \in IdsIn(le[n][t])
      /\ \A e \in L : /\ e.is \in Kinds /\ e.node \in nodes /\ e.type \in types
                     /\ e = Entry(e.id, e.is, e.node, e.type)
  BY MembersAre DEF ListsChange
<1>2. /\ \A n \in nodes, t \in types : \A i :
           /\ Entry(i, "idle", n, t) \in M <=> i \in IdsOfType(ca2[n], t)
           /\ Entry(i, "busy", n, t) \in M <=> i \in IdsIn(ac2[n][t])
           /\ Entry(i, "lost", n, t) \in M <=> i \in IdsIn(le2[n][t])
      /\ \A e \in M : /\ e.is \in Kinds /\ e.node \in nodes /\ e.type \in types
                     /\ e = Entry(e.id, e.is, e.node, e.type)
  BY MembersAre DEF ListsChange
<1> HIDE DEF L, M
<1>3. ASSUME NEW i, NEW s \in Kinds, NEW n \in nodes, NEW t \in types
      PROVE  Entry(i, s, n, t) \in M <=> Entry(i, s, n, t) \in (L \ X) \cup Y
  <2>1. CASE s = "idle"
    BY <1>1, <1>2, <2>1 DEF ListsChange
  <2>2. CASE s = "busy"
    BY <1>1, <1>2, <2>2 DEF ListsChange
  <2>3. CASE s = "lost"
    BY <1>1, <1>2, <2>3 DEF ListsChange
  <2> QED
    BY <2>1, <2>2, <2>3 DEF Kinds
<1>4. \A e \in M \cup L \cup Y : e \in M <=> e \in (L \ X) \cup Y
  BY <1>1, <1>2, <1>3 DEF ListsChange
<1> QED
  BY <1>4 DEF L, M

-----------------------------------------------------------------------------
(* The lists as a pool.                                                    *)

View(e) == [is |-> e.is, node |-> e.node, type |-> e.type]
NoPlace == [is |-> "gone"]

\* p shows the entries of the set L under the names 1 .. l.
Shows(p, L, l) ==
  /\ DOMAIN p = 1 .. l
  /\ \A e \in L : e.id \in 1 .. l /\ p[e.id] = View(e)
  /\ \A i \in 1 .. l : (\A e \in L : e.id # i) => p[i] = NoPlace

LEMMA AsPoolShows ==
  ASSUME NEW L, NEW l, \A c, d \in L : c.id = d.id => c = d,
         \A c \in L : c.id \in 1 .. l
  PROVE  Shows(AsPool(L, l), L, l)
<1> DEFINE p == AsPool(L, l)
           named(i) == {c \in L : c.id = i}
<1>1. /\ DOMAIN p = 1 .. l
      /\ \A i \in 1 .. l :
           p[i] = IF named(i) = {} THEN [is |-> "gone"]
                  ELSE LET c == CHOOSE c \in named(i) : TRUE
                       IN [is |-> IF named(i) = {c} THEN c.is ELSE "in two places",
                           node |-> c.node, type |-> c.type]
  BY DEF AsPool
<1> HIDE DEF p
<1>2. ASSUME NEW e \in L
      PROVE  e.id \in 1 .. l /\ p[e.id] = View(e)
  <2> DEFINE i == e.id
  <2>1. i \in 1 .. l
    OBVIOUS
  <2>2. named(i) = {e}
    OBVIOUS
  <2>3. (CHOOSE c \in {e} : TRUE) = e
    OBVIOUS
  <2> HIDE DEF named, i
  <2>4. p[i] = LET c == CHOOSE c \in {e} : TRUE
               IN [is |-> IF {e} = {c} THEN c.is ELSE "in two places",
                   node |-> c.node, type |-> c.type]
    BY <1>1, <2>1, <2>2
  <2> QED
    BY <2>1, <2>3, <2>4 DEF View, i
<1>3. ASSUME NEW i \in 1 .. l, \A e \in L : e.id # i
      PROVE  p[i] = NoPlace
  <2>1. named(i) = {}
    BY <1>3
  <2> HIDE DEF named
  <2> QED
    BY <1>1, <2>1 DEF NoPlace
<1> QED
  BY <1>1, <1>2, <1>3 DEF Shows, p

\* A pool: the view of the containers of some names, of which some are gone.
Placed(x, types) == x = [is |-> x.is, node |-> x.node, type |-> x.type] /\ x.type \in types

LooksLikePool(p, l, types) ==
  /\ p = [i \in DOMAIN p |-> p[i]] /\ DOMAIN p = 1 .. l /\ l \in Nat
  /\ \A i \in 1 .. l : Placed(p[i], types) \/ p[i] = NoPlace

LEMMA PlaceOrNot ==
  ASSUME NEW x, NEW types, Placed(x, types)
  PROVE  x # NoPlace /\ x.type \in types
<1>1. DOMAIN x = {"is", "node", "type"}
  BY DEF Placed
<1>2. DOMAIN NoPlace = {"is"} /\ "node" # "is"
  BY DEF NoPlace
<1> QED
  BY <1>1, <1>2 DEF Placed

\* The memory that the containers on n take, as in WarmPool.
OnNode(p, n) == {i \in DOMAIN p : p[i] # NoPlace /\ p[i].node = n}
SizesOn(p, n, size) == [i \in OnNode(p, n) |-> size[p[i].type]]
LoadOf(p, n, size) == SumOf(SizesOn(p, n, size), OnNode(p, n))

LEMMA LoadIsSum ==
  ASSUME NEW p, NEW l, NEW types, LooksLikePool(p, l, types), NEW size \in [types -> Nat], NEW n
  PROVE  /\ OnNode(p, n) \subseteq 1 .. l /\ IsFiniteSet(OnNode(p, n))
         /\ SizesOn(p, n, size) \in [OnNode(p, n) -> Nat]
         /\ LoadOf(p, n, size) \in Nat
<1> DEFINE S == OnNode(p, n)
           F == SizesOn(p, n, size)
<1>1. S \subseteq 1 .. l
  BY DEF OnNode, LooksLikePool
<1>2. IsFiniteSet(1 .. l)
  BY FS_Interval DEF LooksLikePool
<1>3. IsFiniteSet(S)
  BY <1>1, <1>2, FS_Subset
<1>4. \A i \in S : p[i].type \in types
  BY PlaceOrNot DEF OnNode, LooksLikePool
<1>5. F \in [S -> Nat]
  BY <1>4 DEF SizesOn
<1>6. LoadOf(p, n, size) = SumOf(F, S)
  BY DEF LoadOf
<1> HIDE DEF S, F
<1>7. SumOf(F, S) \in Nat
  BY <1>3, <1>5, SumOfType
<1> QED
  BY <1>1, <1>3, <1>5, <1>6, <1>7 DEF S, F

\* The load depends on what is on the node only.
LEMMA LoadSame ==
  ASSUME NEW p, NEW q, NEW size, NEW n,
         OnNode(q, n) = OnNode(p, n), \A i \in OnNode(p, n) : q[i].type = p[i].type
  PROVE  LoadOf(q, n, size) = LoadOf(p, n, size)
<1>1. SizesOn(q, n, size) = SizesOn(p, n, size)
  BY DEF SizesOn
<1> QED
  BY <1>1 DEF LoadOf

\* One container more.
LEMMA LoadAdd ==
  ASSUME NEW types, NEW size \in [types -> Nat],
         NEW p, NEW l, LooksLikePool(p, l, types), NEW q, NEW h, LooksLikePool(q, h, types),
         NEW n, NEW x, x \notin OnNode(p, n), OnNode(q, n) = OnNode(p, n) \cup {x},
         \A i \in OnNode(p, n) : q[i].type = p[i].type
  PROVE  LoadOf(q, n, size) = LoadOf(p, n, size) + size[q[x].type]
<1> DEFINE S == OnNode(p, n)
           T == OnNode(q, n)
           F == SizesOn(p, n, size)
           G == SizesOn(q, n, size)
<1>1. LoadOf(p, n, size) = SumOf(F, S) /\ F \in [S -> Nat] /\ IsFiniteSet(S) /\ LoadOf(p, n, size) \in Nat
  BY LoadIsSum DEF LoadOf
<1>2. LoadOf(q, n, size) = SumOf(G, T) /\ G \in [T -> Nat] /\ IsFiniteSet(T)
  BY LoadIsSum DEF LoadOf
<1>3. T = S \cup {x} /\ x \notin S
  OBVIOUS
<1>4. G[x] = size[q[x].type]
  BY <1>3 DEF SizesOn
<1>5. S \in SUBSET (S \cap T) /\ \A i \in S : F[i] = G[i]
  BY <1>3 DEF SizesOn
<1> HIDE DEF F, G, S, T
<1>6. SumOf(F, S) = SumOf(G, S)
  BY <1>1, <1>2, <1>5, SumOfSame
<1>7. SumOf(G, T) = G[x] + SumOf(G, S)
  <2>1. x \in T \ S /\ S \in SUBSET T
    BY <1>3
  <2>2. SumOf(G, S \cup {x}) = G[x] + SumOf(G, S)
    BY <1>1, <1>2, <2>1, SumOfAdd
  <2> QED
    BY <1>3, <2>2
<1>8. G[x] \in Nat /\ SumOf(G, S) \in Nat
  BY <1>1, <1>2, <1>3, <1>6
<1>9. SumOf(G, T) = SumOf(G, S) + G[x]
  BY <1>7, <1>8
<1> QED
  BY <1>1, <1>2, <1>4, <1>6, <1>9

\* The load of a node is bounded by the number of containers.
LEMMA LoadBounded ==
  ASSUME NEW types, NEW size \in [types -> Nat], NEW M \in Nat, \A t \in types : size[t] <= M,
         NEW p, NEW l, LooksLikePool(p, l, types), NEW n
  PROVE  LoadOf(p, n, size) <= l * M
<1> DEFINE S == OnNode(p, n)
           F == SizesOn(p, n, size)
<1>1. /\ l \in Nat /\ S \subseteq 1 .. l /\ IsFiniteSet(S) /\ F \in [S -> Nat]
      /\ LoadOf(p, n, size) = SumOf(F, S) /\ SumOf(F, S) \in Nat
  BY LoadIsSum DEF LoadOf, LooksLikePool
<1>2. \A i \in S : F[i] <= M
  <2>1. \A i \in S : p[i].type \in types
    BY PlaceOrNot DEF OnNode, LooksLikePool
  <2> QED
    BY <2>1 DEF SizesOn
<1>3. Cardinality(S) \in Nat /\ Cardinality(S) <= l
  <2>1. IsFiniteSet(1 .. l) /\ Cardinality(1 .. l) = l
    BY <1>1, FS_Interval
  <2> QED
    BY <1>1, <2>1, FS_Subset, FS_CardinalityType
<1> HIDE DEF S, F
<1>4. SumOf(F, S) <= Cardinality(S) * M
  BY <1>1, <1>2, SumOfBounded
<1> DEFINE c == Cardinality(S)
<1>5. c * M <= l * M /\ c * M \in Nat /\ l * M \in Nat
  <2>1. c \in Nat /\ c <= l
    BY <1>3
  <2> HIDE DEF c
  <2> QED
    BY <1>1, <2>1, TimesMonotonic
<1> DEFINE a == c * M
           b == l * M
<1>6. SumOf(F, S) <= a /\ a <= b /\ a \in Nat /\ b \in Nat
  BY <1>4, <1>5
<1> HIDE DEF a, b
<1>7. LoadOf(p, n, size) <= b
  BY <1>1, <1>6
<1> QED
  BY <1>7 DEF b

-----------------------------------------------------------------------------
(* What a change of the ledger is for the pool.                            *)

IsPool(p, L, l, types) == Shows(p, L, l) /\ LooksLikePool(p, l, types)

\* The pool of a ledger without two entries of one name.
LEMMA AsPoolIsPool ==
  ASSUME NEW L, NEW l \in Nat, NEW types, \A c, d \in L : c.id = d.id => c = d,
         \A c \in L : c.id \in 1 .. l /\ c.type \in types
  PROVE  IsPool(AsPool(L, l), L, l, types)
<1> DEFINE p == AsPool(L, l)
<1>1. Shows(p, L, l)
  BY AsPoolShows
<1>2. p = [i \in DOMAIN p |-> p[i]]
  BY DEF AsPool
<1>3. \A e \in L : Placed(View(e), types)
  BY DEF Placed, View
<1> HIDE DEF p
<1>4. \A i \in 1 .. l : Placed(p[i], types) \/ p[i] = NoPlace
  BY <1>1, <1>3 DEF Shows
<1> QED
  BY <1>1, <1>2, <1>4 DEF p, IsPool, LooksLikePool, Shows

\* The entries of X in another state.
InState(X, s) == {Entry(e.id, s, e.node, e.type) : e \in X}

\* As in Moved of WarmPool.
MovedTo(p, q, from, to) ==
  \E S \in SUBSET {i \in DOMAIN p : p[i].is = from} :
    q = [i \in DOMAIN p |-> IF i \in S THEN [p[i] EXCEPT !.is = to] ELSE p[i]]

\* Some containers change their state: what the containers of a node take is
\* the same.
LEMMA MovedShown ==
  ASSUME NEW p, NEW L, NEW l, NEW types, IsPool(p, L, l, types), \A c, d \in L : c.id = d.id => c = d,
         NEW X \in SUBSET L, NEW from, NEW to, \A e \in X : e.is = from,
         NEW q, NEW M, IsPool(q, M, l, types),
         M = (L \ X) \cup InState(X, to)
  PROVE  /\ MovedTo(p, q, from, to)
         /\ \A n, size : LoadOf(q, n, size) = LoadOf(p, n, size)
<1> DEFINE S == {e.id : e \in X}
<1>1. \A e : Entry(e.id, to, e.node, e.type).id = e.id
  BY DEF Entry
<1>2. \A i \in 1 .. l : /\ q[i] = IF i \in S THEN [p[i] EXCEPT !.is = to] ELSE p[i]
                        /\ i \in S => p[i].is = from
                        /\ q[i] = NoPlace <=> p[i] = NoPlace
                        /\ p[i] # NoPlace => q[i].node = p[i].node /\ q[i].type = p[i].type
  <2> SUFFICES ASSUME NEW i \in 1 .. l
               PROVE  /\ q[i] = IF i \in S THEN [p[i] EXCEPT !.is = to] ELSE p[i]
                      /\ i \in S => p[i].is = from
                      /\ q[i] = NoPlace <=> p[i] = NoPlace
                      /\ p[i] # NoPlace => q[i].node = p[i].node /\ q[i].type = p[i].type
    OBVIOUS
  <2>1. ASSUME NEW e \in L, e.id = i, e \in X
        PROVE  /\ q[i] = [p[i] EXCEPT !.is = to] /\ i \in S
               /\ p[i].is = from /\ q[i].node = p[i].node /\ q[i].type = p[i].type
               /\ q[i] # NoPlace /\ p[i] # NoPlace
    <3> DEFINE d == Entry(e.id, to, e.node, e.type)
    <3>1. d \in M /\ d.id = i /\ d.is = to /\ d.node = e.node /\ d.type = e.type
      BY <2>1 DEF Entry, InState
    <3> HIDE DEF d
    <3>2. p[i] = View(e) /\ q[i] = View(d)
      BY <2>1, <3>1 DEF IsPool, Shows
    <3>3. View(d) = [View(e) EXCEPT !.is = to] /\ View(e).is = e.is
          /\ View(d).node = View(e).node /\ View(d).type = View(e).type
      BY <3>1 DEF View
    <3>4. View(d) # NoPlace /\ View(e) # NoPlace
      <4>1. DOMAIN View(d) = {"is", "node", "type"} /\ DOMAIN View(e) = {"is", "node", "type"}
        BY DEF View
      <4>2. DOMAIN NoPlace = {"is"} /\ "node" # "is"
        BY DEF NoPlace
      <4> QED
        BY <4>1, <4>2
    <3> QED
      BY <2>1, <3>2, <3>3, <3>4
  <2>2. ASSUME NEW e \in L, e.id = i, e \notin X
        PROVE  q[i] = p[i] /\ i \notin S
    <3>1. e \in M
      BY <2>2
    <3>2. q[i] = View(e) /\ p[i] = View(e)
      BY <2>2, <3>1 DEF IsPool, Shows
    <3> QED
      BY <2>2, <3>2
  <2>3. ASSUME \A e \in L : e.id # i
        PROVE  q[i] = p[i] /\ i \notin S
    <3>1. \A e \in M : e.id # i
      BY <1>1, <2>3 DEF InState
    <3> QED
      BY <2>3, <3>1 DEF IsPool, Shows
  <2> QED
    BY <2>1, <2>2, <2>3
<1>3. DOMAIN p = 1 .. l /\ DOMAIN q = 1 .. l /\ q = [i \in DOMAIN q |-> q[i]]
      /\ LooksLikePool(p, l, types) /\ LooksLikePool(q, l, types)
  BY DEF IsPool, LooksLikePool
<1>4. MovedTo(p, q, from, to)
  <2>1. S \in SUBSET {i \in DOMAIN p : p[i].is = from}
    BY <1>2, <1>3 DEF IsPool, Shows
  <2> HIDE DEF S
  <2>2. q = [i \in DOMAIN p |-> IF i \in S THEN [p[i] EXCEPT !.is = to] ELSE p[i]]
    BY <1>2, <1>3
  <2> QED
    BY <2>1, <2>2 DEF MovedTo
<1>5. ASSUME NEW n, NEW size
      PROVE  LoadOf(q, n, size) = LoadOf(p, n, size)
  <2>1. OnNode(q, n) = OnNode(p, n)
    BY <1>2, <1>3 DEF OnNode
  <2>2. \A i \in OnNode(p, n) : q[i].type = p[i].type
    BY <1>2, <1>3 DEF OnNode
  <2> QED
    BY <2>1, <2>2, LoadSame
<1> QED
  BY <1>4, <1>5

\* A container is started.
LEMMA StartedShown ==
  ASSUME NEW types, NEW size \in [types -> Nat], NEW p, NEW L, NEW l, IsPool(p, L, l, types),
         NEW n, NEW t \in types, NEW q, NEW M, IsPool(q, M, l + 1, types),
         M = L \cup {Entry(l + 1, "busy", n, t)}
  PROVE  /\ q = Append(p, [is |-> "busy", node |-> n, type |-> t])
         /\ LoadOf(q, n, size) = LoadOf(p, n, size) + size[t]
         /\ \A m : m # n => LoadOf(q, m, size) = LoadOf(p, m, size)
<1> DEFINE e == Entry(l + 1, "busy", n, t)
<1>0. l \in Nat /\ l + 1 \in Nat /\ l + 1 \in 1 .. (l + 1) /\ l + 1 \notin 1 .. l
      /\ 1 .. (l + 1) = (1 .. l) \cup {l + 1}
  BY DEF IsPool, LooksLikePool
<1>1. e.id = l + 1 /\ e.is = "busy" /\ e.node = n /\ e.type = t
  BY DEF Entry
<1> HIDE DEF e
<1>2. q[l + 1] = [is |-> "busy", node |-> n, type |-> t]
  <2>1. q[e.id] = View(e)
    BY DEF IsPool, Shows, e
  <2> QED
    BY <1>1, <2>1 DEF View
<1>3. \A i \in 1 .. l : q[i] = p[i]
  <2> TAKE i \in 1 .. l
  <2>1. ASSUME NEW d \in L, d.id = i
        PROVE  q[i] = p[i]
    BY <2>1 DEF IsPool, Shows
  <2>2. ASSUME \A d \in L : d.id # i
        PROVE  q[i] = p[i]
    <3>1. \A d \in M : d.id # i
      BY <1>0, <1>1, <2>2 DEF e
    <3>2. i \in 1 .. (l + 1)
      BY <1>0
    <3> QED
      BY <2>2, <3>1, <3>2 DEF IsPool, Shows
  <2> QED
    BY <2>1, <2>2
<1>4. /\ DOMAIN p = 1 .. l /\ DOMAIN q = 1 .. (l + 1)
      /\ p = [i \in DOMAIN p |-> p[i]] /\ q = [i \in DOMAIN q |-> q[i]]
      /\ LooksLikePool(p, l, types) /\ LooksLikePool(q, l + 1, types)
  BY DEF IsPool, LooksLikePool
<1> DEFINE x == [is |-> "busy", node |-> n, type |-> t]
<1>5. q = Append(p, x)
  <2> HIDE DEF x
  <2> DEFINE V == {p[i] : i \in 1 .. l} \cup {x}
  <2>1. p \in Seq(V) /\ Len(p) = l
    BY <1>0, <1>4
  <2>2. x \in V
    OBVIOUS
  <2> HIDE DEF V
  <2>3. /\ Append(p, x) \in Seq(V) /\ Len(Append(p, x)) = l + 1
        /\ \A i \in 1 .. l : Append(p, x)[i] = p[i]
        /\ Append(p, x)[l + 1] = x
    BY <2>1, <2>2, AppendProperties
  <2>4. /\ DOMAIN Append(p, x) = 1 .. (l + 1)
        /\ Append(p, x) = [i \in DOMAIN Append(p, x) |-> Append(p, x)[i]]
    BY <2>3, LenProperties
  <2>5. q[l + 1] = x
    BY <1>2 DEF x
  <2>6. \A i \in 1 .. (l + 1) : q[i] = Append(p, x)[i]
    BY <1>0, <1>3, <2>3, <2>5
  <2> QED
    BY <1>4, <2>4, <2>6
<1>6. /\ q[l + 1] # NoPlace /\ q[l + 1].node = n /\ q[l + 1].type = t
  BY <1>2 DEF NoPlace
<1>7. \A m : /\ OnNode(p, m) = {i \in 1 .. l : p[i] # NoPlace /\ p[i].node = m}
             /\ OnNode(q, m) = {i \in 1 .. (l + 1) : q[i] # NoPlace /\ q[i].node = m}
  BY <1>4 DEF OnNode
<1>8. LoadOf(q, n, size) = LoadOf(p, n, size) + size[t]
  <2>1. OnNode(q, n) = OnNode(p, n) \cup {l + 1} /\ l + 1 \notin OnNode(p, n)
    BY <1>0, <1>3, <1>6, <1>7
  <2>2. \A i \in OnNode(p, n) : q[i].type = p[i].type
    BY <1>3, <1>7
  <2> DEFINE y == l + 1
  <2>3. y \notin OnNode(p, n) /\ OnNode(q, n) = OnNode(p, n) \cup {y} /\ q[y].type = t
        /\ LooksLikePool(q, y, types)
    BY <1>4, <1>6, <2>1
  <2> HIDE DEF y
  <2>4. LooksLikePool(p, l, types)
    BY <1>4
  <2>5. LoadOf(q, n, size) = LoadOf(p, n, size) + size[q[y].type]
    BY <2>2, <2>3, <2>4, LoadAdd
  <2> QED
    BY <2>3, <2>5
<1>9. ASSUME NEW m, m # n
      PROVE  LoadOf(q, m, size) = LoadOf(p, m, size)
  <2>1. OnNode(q, m) = OnNode(p, m)
    <3> DEFINE A == {i \in 1 .. l : p[i] # NoPlace /\ p[i].node = m}
               B == {i \in 1 .. (l + 1) : q[i] # NoPlace /\ q[i].node = m}
    <3>1. q[l + 1].node # m
      BY <1>6, <1>9
    <3>2. \A i \in 1 .. (l + 1) : i # l + 1 => i \in 1 .. l
      BY <1>0
    <3>3. \A i \in 1 .. l : i \in 1 .. (l + 1) /\ q[i] = p[i]
      BY <1>0, <1>3
    <3>4. \A i : i \in B <=> i \in A
      BY <3>1, <3>2, <3>3
    <3>5. B = A
      <4> HIDE DEF A, B
      <4> QED
        BY <3>4
    <3>6. OnNode(p, m) = A /\ OnNode(q, m) = B
      BY <1>7
    <3> HIDE DEF A, B
    <3> QED
      BY <3>5, <3>6
  <2>2. \A i \in OnNode(p, m) : q[i].type = p[i].type
    BY <1>3, <1>7
  <2> QED
    BY <2>1, <2>2, LoadSame
<1> QED
  BY <1>5, <1>8, <1>9 DEF x

\* A container is terminated.
LEMMA DroppedShown ==
  ASSUME NEW types, NEW size \in [types -> Nat],
         NEW p, NEW L, NEW l, IsPool(p, L, l, types), \A c, d \in L : c.id = d.id => c = d,
         NEW e \in L, NEW q, NEW M, IsPool(q, M, l, types), M = L \ {e}
  PROVE  /\ e.id \in DOMAIN p /\ p[e.id].is = e.is
         /\ q = [p EXCEPT ![e.id] = NoPlace]
         /\ LoadOf(p, e.node, size) = LoadOf(q, e.node, size) + size[e.type]
         /\ \A m : m # e.node => LoadOf(q, m, size) = LoadOf(p, m, size)
<1> DEFINE x == e.id
           n == e.node
           t == e.type
<1>1. x \in 1 .. l /\ p[x] = View(e)
  BY DEF IsPool, Shows
<1>2. p[x].is = e.is /\ p[x].node = n /\ p[x].type = t
  BY <1>1 DEF View
<1>3. q[x] = NoPlace
  <2>1. \A d \in M : d.id # x
    OBVIOUS
  <2> QED
    BY <1>1, <2>1 DEF IsPool, Shows
<1>4. \A i \in 1 .. l : i # x => q[i] = p[i]
  <2> SUFFICES ASSUME NEW i \in 1 .. l, i # x PROVE q[i] = p[i]
    OBVIOUS
  <2>1. ASSUME NEW d \in L, d.id = i
        PROVE  q[i] = p[i]
    <3>1. d \in M
      BY <2>1
    <3> QED
      BY <2>1, <3>1 DEF IsPool, Shows
  <2>2. ASSUME \A d \in L : d.id # i
        PROVE  q[i] = p[i]
    <3>1. \A d \in M : d.id # i
      BY <2>2
    <3> QED
      BY <2>2, <3>1 DEF IsPool, Shows
  <2> QED
    BY <2>1, <2>2
<1>5. /\ DOMAIN p = 1 .. l /\ DOMAIN q = 1 .. l
      /\ p = [i \in DOMAIN p |-> p[i]] /\ q = [i \in DOMAIN q |-> q[i]]
      /\ LooksLikePool(p, l, types) /\ LooksLikePool(q, l, types)
  BY DEF IsPool, LooksLikePool
<1>6. p[x] # NoPlace
  <2>1. DOMAIN View(e) = {"is", "node", "type"}
    BY DEF View
  <2>2. DOMAIN NoPlace = {"is"} /\ "node" # "is"
    BY DEF NoPlace
  <2> QED
    BY <1>1, <2>1, <2>2
<1> HIDE DEF x, n, t
<1>7. q = [p EXCEPT ![x] = NoPlace]
  BY <1>1, <1>3, <1>4, <1>5
<1>8. \A m : /\ OnNode(p, m) = {i \in 1 .. l : p[i] # NoPlace /\ p[i].node = m}
             /\ OnNode(q, m) = {i \in 1 .. l : q[i] # NoPlace /\ q[i].node = m}
  BY <1>5 DEF OnNode
<1>9. LoadOf(p, n, size) = LoadOf(q, n, size) + size[t]
  <2>1. OnNode(p, n) = OnNode(q, n) \cup {x} /\ x \notin OnNode(q, n)
    BY <1>1, <1>2, <1>3, <1>4, <1>6, <1>8
  <2>2. \A i \in OnNode(q, n) : p[i].type = q[i].type
    BY <1>3, <1>4, <1>8
  <2>3. LooksLikePool(p, l, types) /\ LooksLikePool(q, l, types)
    BY <1>5
  <2>4. LoadOf(p, n, size) = LoadOf(q, n, size) + size[p[x].type]
    BY <2>1, <2>2, <2>3, LoadAdd
  <2> QED
    BY <1>2, <2>4
<1>10. ASSUME NEW m, m # n
       PROVE  LoadOf(q, m, size) = LoadOf(p, m, size)
  <2>1. \A i \in 1 .. l : i \in OnNode(q, m) <=> i \in OnNode(p, m)
    <3> TAKE i \in 1 .. l
    <3>1. CASE i = x
      BY <1>2, <1>3, <1>8, <1>10, <3>1
    <3>2. CASE i # x
      BY <1>4, <1>8, <3>2
    <3> QED
      BY <3>1, <3>2
  <2>2. OnNode(q, m) = OnNode(p, m)
    BY <1>8, <2>1
  <2>3. \A i \in OnNode(p, m) : q[i].type = p[i].type
    BY <1>2, <1>4, <1>8, <1>10
  <2> QED
    BY <2>2, <2>3, LoadSame
<1> QED
  BY <1>1, <1>2, <1>5, <1>7, <1>9, <1>10 DEF x, n, t

=============================================================================
