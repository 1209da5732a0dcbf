------------------------------ MODULE ListProofs ------------------------------
(***************************************************************************)
(* Facts about sums over finite sets, about minima, and about the lists of *)
(* the components, for the proofs of the components.                       *)
(***************************************************************************)
EXTENDS PriorityList, Sublists, FiniteSetsExt, FiniteSetTheorems, SequenceTheorems, TLAPS


\* The sum of F over a finite set of arguments.
SumOf(F, S) == MapThenSumSet(LAMBDA x : F[x], S)

\* f is what the fold of the community modules computes for the subsets of T.
Sums(f, F, T) ==
  f = [s \in SUBSET T |-> IF s = {} THEN 0
                          ELSE F[CHOOSE x \in s : TRUE] + f[s \ {CHOOSE x \in s : TRUE}]]

\* A nonempty set of finite sets has a member of which no other is a subset.
LEMMA MinimalSubset ==
  ASSUME NEW S, IsFiniteSet(S), NEW C \in SUBSET SUBSET S, C # {}
  PROVE  \E T \in C : \A U \in C : U \subseteq T => U = T
<1>1. C \subseteq FiniteSubsetsOf(S)
  BY FS_FiniteSubsetsOfFinite
<1>2. PICK T \in C : \A U \in C : ~ (<<U, T>> \in StrictSubsetOrdering(S))
  <2>1. IsWellFoundedOn(StrictSubsetOrdering(S), FiniteSubsetsOf(S))
    BY FS_StrictSubsetOrderingWellFounded
  <2> QED
    BY <1>1, <2>1, WFMin
<1>3. ASSUME NEW U \in C, U \subseteq T
      PROVE  U = T
  BY <1>2, <1>3 DEF StrictSubsetOrdering
<1> QED
  BY <1>3

LEMMA SumOfIsChosen ==
  ASSUME NEW F, NEW S
  PROVE  SumOf(F, S) = (CHOOSE f : Sums(f, F, S))[S]
BY DEF SumOf, MapThenSumSet, MapThenFoldSet, Sums

\* Two such functions agree on the subsets both are defined for.
LEMMA SumsAgree ==
  ASSUME NEW F, NEW S, IsFiniteSet(S), NEW T \in SUBSET S, NEW U \in SUBSET S,
         NEW f, Sums(f, F, T), NEW g, Sums(g, F, U),
         NEW V \in SUBSET (T \cap U)
  PROVE  f[V] = g[V]
<1> DEFINE C == {W \in SUBSET (T \cap U) : f[W] # g[W]}
<1>1. SUFFICES ASSUME C # {}
               PROVE  FALSE
  OBVIOUS
<1>2. PICK W \in C : \A X \in C : X \subseteq W => X = W
  <2>1. C \in SUBSET SUBSET S
    OBVIOUS
  <2> HIDE DEF C
  <2> QED
    BY <1>1, <2>1, MinimalSubset
<1> DEFINE c == CHOOSE x \in W : TRUE
<1>3. W \in SUBSET T /\ W \in SUBSET U /\ f[W] # g[W]
  OBVIOUS
<1>4. /\ f[W] = IF W = {} THEN 0 ELSE F[c] + f[W \ {c}]
      /\ g[W] = IF W = {} THEN 0 ELSE F[c] + g[W \ {c}]
  BY <1>3 DEF Sums
<1>5. W # {} /\ c \in W
  BY <1>3, <1>4
<1>6. f[W \ {c}] = g[W \ {c}]
  <2>1. W \ {c} \in SUBSET (T \cap U) /\ W \ {c} \subseteq W /\ W \ {c} # W
    BY <1>5
  <2>2. W \ {c} \notin C
    BY <1>2, <2>1
  <2> QED
    BY <2>1, <2>2
<1> QED
  BY <1>3, <1>4, <1>5, <1>6

\* The recursion has a solution for every finite set.
LEMMA SumsExist ==
  ASSUME NEW F, NEW S, IsFiniteSet(S)
  PROVE  \E f : Sums(f, F, S)
<1> DEFINE C == {T \in SUBSET S : ~ \E f : Sums(f, F, T)}
<1>1. SUFFICES ASSUME C # {}
               PROVE  FALSE
  OBVIOUS
<1>2. PICK T \in C : \A U \in C : U \subseteq T => U = T
  <2> HIDE DEF C
  <2>1. C \in SUBSET SUBSET S
    BY DEF C
  <2> QED
    BY <1>1, <2>1, MinimalSubset
<1> DEFINE g(U) == CHOOSE f : Sums(f, F, U)
           c(s) == CHOOSE x \in s : TRUE
           h == [s \in SUBSET T |-> IF s = {} THEN 0 ELSE F[c(s)] + g(s \ {c(s)})[s \ {c(s)}]]
<1>3. ASSUME NEW U \in SUBSET T, U # T
      PROVE  Sums(g(U), F, U)
  <2>1. U \notin C /\ U \in SUBSET S
    BY <1>2, <1>3
  <2>2. \E f : Sums(f, F, U)
    BY <2>1
  <2> QED
    BY <2>2
<1>4. ASSUME NEW s \in SUBSET T, s # {}
      PROVE  h[s \ {c(s)}] = g(s \ {c(s)})[s \ {c(s)}]
  <2> DEFINE V == s \ {c(s)}
  <2>1. c(s) \in s /\ V \in SUBSET T /\ V # T
    BY <1>4
  <2>2. Sums(g(V), F, V)
    BY <1>3, <2>1
  <2>3. g(V)[V] = IF V = {} THEN 0 ELSE F[c(V)] + g(V)[V \ {c(V)}]
    <3> HIDE DEF g
    <3> QED
      BY <2>2 DEF Sums
  <2>4. h[V] = IF V = {} THEN 0 ELSE F[c(V)] + g(V \ {c(V)})[V \ {c(V)}]
    <3> HIDE DEF g, V
    <3> QED
      BY <2>1
  <2>5. CASE V = {}
    BY <2>3, <2>4, <2>5
  <2>6. CASE V # {}
    <3>1. V \ {c(V)} \in SUBSET T /\ V \ {c(V)} # T
      BY <2>1
    <3>2. Sums(g(V \ {c(V)}), F, V \ {c(V)})
      BY <1>3, <3>1
    <3>3. g(V \ {c(V)})[V \ {c(V)}] = g(V)[V \ {c(V)}]
      <4> DEFINE X == V \ {c(V)}
                 a == g(X)
                 b == g(V)
      <4>1. V \in SUBSET S /\ X \in SUBSET S /\ X \in SUBSET (X \cap V)
        BY <2>1
      <4>2. Sums(a, F, X) /\ Sums(b, F, V)
        BY <2>2, <3>2
      <4> HIDE DEF X, a, b, V
      <4>3. \A p, q : Sums(p, F, X) /\ Sums(q, F, V) => p[X] = q[X]
        BY <4>1, SumsAgree
      <4>4. a[X] = b[X]
        BY <4>2, <4>3
      <4> QED
        BY <4>4 DEF X, a, b
    <3> QED
      BY <2>3, <2>4, <3>3
  <2> QED
    BY <2>5, <2>6
<1>5. Sums(h, F, T)
  <2>1. \A s \in SUBSET T : h[s] = IF s = {} THEN 0 ELSE F[c(s)] + h[s \ {c(s)}]
    <3> SUFFICES ASSUME NEW s \in SUBSET T
                 PROVE  h[s] = IF s = {} THEN 0 ELSE F[c(s)] + h[s \ {c(s)}]
      OBVIOUS
    <3>1. h[s] = IF s = {} THEN 0 ELSE F[c(s)] + g(s \ {c(s)})[s \ {c(s)}]
      OBVIOUS
    <3> HIDE DEF h, g, c
    <3> QED
      BY <1>4, <3>1
  <2>2. h = [s \in SUBSET T |-> h[s]]
    OBVIOUS
  <2>3. h = [s \in SUBSET T |-> IF s = {} THEN 0 ELSE F[c(s)] + h[s \ {c(s)}]]
    <3> HIDE DEF h, c
    <3> QED
      BY <2>1, <2>2
  <2> QED
    BY <2>3 DEF Sums
<1> QED
  BY <1>2, <1>5

\* What the fold computes: nothing for the empty set, and one term more than
\* without the element it chooses.
LEMMA SumOfRecursion ==
  ASSUME NEW F, NEW S, IsFiniteSet(S)
  PROVE  /\ SumOf(F, {}) = 0
         /\ S # {} => \E c \in S : SumOf(F, S) = F[c] + SumOf(F, S \ {c})
<1> DEFINE g(U) == CHOOSE f : Sums(f, F, U)
<1>1. \A U \in SUBSET S : Sums(g(U), F, U) /\ SumOf(F, U) = g(U)[U]
  <2> SUFFICES ASSUME NEW U \in SUBSET S
               PROVE  Sums(g(U), F, U) /\ SumOf(F, U) = g(U)[U]
    OBVIOUS
  <2>1. IsFiniteSet(U)
    BY FS_Subset
  <2>2. \E f : Sums(f, F, U)
    BY <2>1, SumsExist
  <2> QED
    BY <2>2, SumOfIsChosen
<1> HIDE DEF g
<1>2. SumOf(F, {}) = 0
  <2>1. Sums(g({}), F, {}) /\ SumOf(F, {}) = g({})[{}]
    BY <1>1
  <2> QED
    BY <2>1 DEF Sums
<1>3. ASSUME S # {}
      PROVE  \E c \in S : SumOf(F, S) = F[c] + SumOf(F, S \ {c})
  <2> DEFINE c == CHOOSE x \in S : TRUE
  <2>1. c \in S
    BY <1>3
  <2>2. Sums(g(S), F, S) /\ SumOf(F, S) = g(S)[S]
    BY <1>1
  <2>3. g(S)[S] = F[c] + g(S)[S \ {c}]
    BY <1>3, <2>2 DEF Sums
  <2>4. Sums(g(S \ {c}), F, S \ {c}) /\ SumOf(F, S \ {c}) = g(S \ {c})[S \ {c}]
    <3> HIDE DEF c
    <3> QED
      BY <1>1
  <2>5. g(S)[S \ {c}] = g(S \ {c})[S \ {c}]
    <3> DEFINE X == S \ {c}
               a == g(S)
               b == g(X)
    <3>1. S \in SUBSET S /\ X \in SUBSET S /\ X \in SUBSET (S \cap X)
      OBVIOUS
    <3>2. Sums(a, F, S) /\ Sums(b, F, X)
      BY <2>2, <2>4
    <3> HIDE DEF X, a, b
    <3>3. a[X] = b[X]
      BY <3>1, <3>2, SumsAgree
    <3> QED
      BY <3>3 DEF X, a, b
  <2> HIDE DEF c
  <2> QED
    BY <2>1, <2>2, <2>3, <2>4, <2>5
<1> QED
  BY <1>2, <1>3

\* A sum of naturals is a natural.
LEMMA SumOfType ==
  ASSUME NEW D, NEW F \in [D -> Nat], NEW S \in SUBSET D, IsFiniteSet(S)
  PROVE  SumOf(F, S) \in Nat
<1> DEFINE C == {T \in SUBSET S : SumOf(F, T) \notin Nat}
<1>1. SUFFICES ASSUME C # {}
               PROVE  FALSE
  OBVIOUS
<1>2. PICK T \in C : \A U \in C : U \subseteq T => U = T
  <2>1. C \in SUBSET SUBSET S
    OBVIOUS
  <2> HIDE DEF C
  <2> QED
    BY <1>1, <2>1, MinimalSubset
<1>3. T \in SUBSET S /\ SumOf(F, T) \notin Nat /\ IsFiniteSet(T)
  BY FS_Subset
<1>4. T # {}
  BY <1>3, SumOfRecursion
<1>5. PICK c \in T : SumOf(F, T) = F[c] + SumOf(F, T \ {c})
  BY <1>3, <1>4, SumOfRecursion
<1>6. SumOf(F, T \ {c}) \in Nat
  BY <1>2, <1>3
<1> QED
  BY <1>3, <1>5, <1>6

\* Any element can be taken out of a sum.
LEMMA SumOfRemove ==
  ASSUME NEW D, NEW F \in [D -> Nat], NEW S \in SUBSET D, IsFiniteSet(S), NEW x \in S
  PROVE  SumOf(F, S) = F[x] + SumOf(F, S \ {x})
<1> DEFINE C == {T \in SUBSET S : \E y \in T : SumOf(F, T) # F[y] + SumOf(F, T \ {y})}
<1>1. SUFFICES ASSUME C # {}
               PROVE  FALSE
  OBVIOUS
<1>2. PICK T \in C : \A U \in C : U \subseteq T => U = T
  <2>1. C \in SUBSET SUBSET S
    OBVIOUS
  <2> HIDE DEF C
  <2> QED
    BY <1>1, <2>1, MinimalSubset
<1>3. PICK y \in T : SumOf(F, T) # F[y] + SumOf(F, T \ {y})
  OBVIOUS
<1>4. T \in SUBSET S /\ IsFiniteSet(T)
  BY FS_Subset
<1>5. PICK c \in T : SumOf(F, T) = F[c] + SumOf(F, T \ {c})
  BY <1>4, SumOfRecursion
<1>6. c # y
  BY <1>3, <1>5
<1>7. SumOf(F, T \ {c}) = F[y] + SumOf(F, T \ {c, y})
  <2>1. T \ {c} \notin C /\ T \ {c} \in SUBSET S /\ y \in T \ {c}
    BY <1>2, <1>4, <1>6
  <2>2. (T \ {c}) \ {y} = T \ {c, y}
    OBVIOUS
  <2> QED
    BY <2>1, <2>2
<1>8. SumOf(F, T \ {y}) = F[c] + SumOf(F, T \ {c, y})
  <2>1. T \ {y} \notin C /\ T \ {y} \in SUBSET S /\ c \in T \ {y}
    BY <1>2, <1>4, <1>6
  <2>2. (T \ {y}) \ {c} = T \ {c, y}
    OBVIOUS
  <2> QED
    BY <2>1, <2>2
<1>9. SumOf(F, T \ {c, y}) \in Nat /\ F[c] \in Nat /\ F[y] \in Nat
  <2>1. IsFiniteSet(T \ {c, y}) /\ T \ {c, y} \in SUBSET D
    BY <1>4, FS_Subset
  <2> QED
    BY <1>4, <2>1, SumOfType
<1> QED
  BY <1>3, <1>5, <1>7, <1>8, <1>9

\* A sum over more elements is not smaller.
LEMMA SumOfMonotonic ==
  ASSUME NEW D, NEW F \in [D -> Nat], NEW S \in SUBSET D, IsFiniteSet(S), NEW R \in SUBSET S
  PROVE  SumOf(F, R) <= SumOf(F, S)
<1> DEFINE C == {T \in SUBSET S : R \subseteq T /\ ~(SumOf(F, R) <= SumOf(F, T))}
<1>1. SUFFICES ASSUME C # {}
               PROVE  FALSE
  OBVIOUS
<1>2. PICK T \in C : \A U \in C : U \subseteq T => U = T
  <2>1. C \in SUBSET SUBSET S
    OBVIOUS
  <2> HIDE DEF C
  <2> QED
    BY <1>1, <2>1, MinimalSubset
<1>3. /\ T \in SUBSET D /\ R \in SUBSET D /\ IsFiniteSet(T) /\ IsFiniteSet(R)
      /\ R \subseteq T /\ ~(SumOf(F, R) <= SumOf(F, T))
  BY FS_Subset
<1>4. SumOf(F, T) \in Nat /\ SumOf(F, R) \in Nat
  BY <1>3, SumOfType
<1>5. PICK x \in T : x \notin R
  BY <1>3, <1>4
<1>6. SumOf(F, T) = F[x] + SumOf(F, T \ {x})
  BY <1>3, SumOfRemove
<1>7. SumOf(F, T \ {x}) \in Nat /\ F[x] \in Nat
  <2>1. IsFiniteSet(T \ {x}) /\ T \ {x} \in SUBSET D
    BY <1>3, FS_Subset
  <2> QED
    BY <1>3, <2>1, SumOfType
<1>8. T \ {x} \notin C
  BY <1>2
<1>9. SumOf(F, R) <= SumOf(F, T \ {x})
  BY <1>3, <1>5, <1>8
<1> QED
  BY <1>3, <1>4, <1>6, <1>7, <1>9

\* A product grows with its factors.
LEMMA TimesMonotonic ==
  ASSUME NEW a \in Nat, NEW b \in Nat, NEW m \in Nat, a <= b
  PROVE  a * m \in Nat /\ b * m \in Nat /\ a * m <= b * m /\ (a + 1) * m = a * m + m
<1>1. \A x, y \in Nat : x * y \in Nat
  OBVIOUS
<1>2. b = a + (b - a) /\ b - a \in Nat
  OBVIOUS
<1>3. \A x, y, z \in Nat : (x + y) * z = x * z + y * z
  OBVIOUS
<1>4. b * m = a * m + (b - a) * m
  BY <1>2, <1>3
<1>5. (a + 1) * m = a * m + m
  OBVIOUS
<1> DEFINE p == a * m
           q == (b - a) * m
<1>6. p \in Nat /\ q \in Nat /\ b * m = p + q /\ b * m \in Nat
  BY <1>1, <1>2, <1>4
<1> HIDE DEF p, q
<1>7. p <= p + q
  BY <1>6
<1> QED
  BY <1>5, <1>6, <1>7 DEF p

\* A sum is bounded by its largest term.
LEMMA SumOfBounded ==
  ASSUME NEW D, NEW F \in [D -> Nat], NEW S \in SUBSET D, IsFiniteSet(S),
         NEW M \in Nat, \A x \in D : F[x] <= M
  PROVE  SumOf(F, S) <= Cardinality(S) * M
<1> DEFINE C == {T \in SUBSET S : ~(SumOf(F, T) <= Cardinality(T) * M)}
<1>1. SUFFICES ASSUME C # {}
               PROVE  FALSE
  OBVIOUS
<1>2. PICK T \in C : \A U \in C : U \subseteq T => U = T
  <2>1. C \in SUBSET SUBSET S
    OBVIOUS
  <2> HIDE DEF C
  <2> QED
    BY <1>1, <2>1, MinimalSubset
<1>3. /\ T \in SUBSET D /\ IsFiniteSet(T) /\ T \in SUBSET S
      /\ ~(SumOf(F, T) <= Cardinality(T) * M)
  BY FS_Subset
<1>4. T # {}
  <2> SUFFICES ASSUME T = {} PROVE FALSE
    OBVIOUS
  <2>1. SumOf(F, T) = 0
    BY SumOfRecursion
  <2>2. Cardinality(T) = 0
    BY FS_EmptySet
  <2>3. 0 <= 0 * M
    OBVIOUS
  <2> QED
    BY <1>3, <2>1, <2>2, <2>3
<1>5. PICK x \in T : TRUE
  BY <1>4
<1> DEFINE R == T \ {x}
<1>6. SumOf(F, T) = F[x] + SumOf(F, R)
  BY <1>3, SumOfRemove
<1>7. R \in SUBSET S /\ R \in SUBSET D /\ R \notin C /\ IsFiniteSet(R)
  BY <1>2, <1>3, FS_Subset
<1>8. SumOf(F, R) <= Cardinality(R) * M
  BY <1>7
<1>9. Cardinality(T) = Cardinality(R) + 1 /\ Cardinality(R) \in Nat
  BY <1>3, <1>7, FS_RemoveElement, FS_CardinalityType
<1> HIDE DEF R
<1>10. SumOf(F, R) \in Nat /\ F[x] \in Nat /\ F[x] <= M
  BY <1>3, <1>7, SumOfType
<1> DEFINE n == Cardinality(R)
           p == n * M
<1>11. Cardinality(T) * M = p + M /\ p \in Nat
  <2>1. (n + 1) * M = n * M + M /\ n * M \in Nat
    BY <1>9, TimesMonotonic
  <2> QED
    BY <1>9, <2>1
<1>12. SumOf(F, R) <= p
  BY <1>8
<1> HIDE DEF p
<1> QED
  BY <1>3, <1>6, <1>10, <1>11, <1>12

\* An element that was not summed yet adds its term.
LEMMA SumOfAdd ==
  ASSUME NEW D, NEW F \in [D -> Nat], NEW S \in SUBSET D, IsFiniteSet(S), NEW x \in D \ S
  PROVE  SumOf(F, S \cup {x}) = F[x] + SumOf(F, S)
<1>1. S \cup {x} \in SUBSET D /\ x \in S \cup {x} /\ (S \cup {x}) \ {x} = S
  OBVIOUS
<1>2. IsFiniteSet(S \cup {x})
  BY FS_AddElement
<1>3. SumOf(F, S \cup {x}) = F[x] + SumOf(F, (S \cup {x}) \ {x})
  BY <1>1, <1>2, SumOfRemove
<1> QED
  BY <1>1, <1>3

\* Functions with the same values have the same sum.
LEMMA SumOfSame ==
  ASSUME NEW D, NEW F \in [D -> Nat], NEW E, NEW G \in [E -> Nat],
         NEW S \in SUBSET (D \cap E), IsFiniteSet(S), \A x \in S : F[x] = G[x]
  PROVE  SumOf(F, S) = SumOf(G, S)
<1> DEFINE C == {T \in SUBSET S : SumOf(F, T) # SumOf(G, T)}
<1>1. SUFFICES ASSUME C # {}
               PROVE  FALSE
  OBVIOUS
<1>2. PICK T \in C : \A U \in C : U \subseteq T => U = T
  <2>1. C \in SUBSET SUBSET S
    OBVIOUS
  <2> HIDE DEF C
  <2> QED
    BY <1>1, <2>1, MinimalSubset
<1>3. T \in SUBSET S /\ SumOf(F, T) # SumOf(G, T) /\ IsFiniteSet(T)
  BY FS_Subset
<1>4. T # {}
  <2>1. SumOf(F, {}) = 0 /\ SumOf(G, {}) = 0
    BY <1>3, SumOfRecursion
  <2> QED
    BY <1>3, <2>1
<1>5. PICK x \in T : TRUE
  BY <1>4
<1>6. SumOf(F, T) = F[x] + SumOf(F, T \ {x})
  BY <1>3, SumOfRemove
<1>7. SumOf(G, T) = G[x] + SumOf(G, T \ {x})
  BY <1>3, SumOfRemove
<1>8. T \ {x} \notin C
  BY <1>2
<1>9. SumOf(F, T \ {x}) = SumOf(G, T \ {x})
  BY <1>3, <1>8
<1> QED
  BY <1>3, <1>6, <1>7, <1>9

\* The sum over two sets that have no element in common.
LEMMA SumOfUnion ==
  ASSUME NEW D, NEW F \in [D -> Nat], NEW S \in SUBSET D, IsFiniteSet(S),
         NEW T \in SUBSET D, IsFiniteSet(T), S \cap T = {}
  PROVE  SumOf(F, S \cup T) = SumOf(F, S) + SumOf(F, T)
<1> DEFINE C == {U \in SUBSET T : SumOf(F, S \cup U) # SumOf(F, S) + SumOf(F, U)}
<1>1. SUFFICES ASSUME C # {}
               PROVE  FALSE
  OBVIOUS
<1>2. PICK U \in C : \A V \in C : V \subseteq U => V = U
  <2>1. C \in SUBSET SUBSET T
    OBVIOUS
  <2> HIDE DEF C
  <2> QED
    BY <1>1, <2>1, MinimalSubset
<1>3. /\ U \in SUBSET T /\ U \in SUBSET D /\ IsFiniteSet(U) /\ IsFiniteSet(S \cup U)
      /\ SumOf(F, S \cup U) # SumOf(F, S) + SumOf(F, U)
  BY FS_Subset, FS_Union
<1>4. SumOf(F, S) \in Nat
  BY SumOfType
<1>5. U # {}
  <2>1. SumOf(F, {}) = 0
    BY SumOfRecursion
  <2>2. ASSUME U = {}
        PROVE  FALSE
    <3>1. S \cup U = S
      BY <2>2
    <3> QED
      BY <1>3, <1>4, <2>1, <2>2, <3>1
  <2> QED
    BY <2>2
<1>6. PICK x \in U : TRUE
  BY <1>5
<1>7. SumOf(F, U) = F[x] + SumOf(F, U \ {x})
  BY <1>3, SumOfRemove
<1>8. SumOf(F, S \cup U) = F[x] + SumOf(F, S \cup (U \ {x}))
  <2>1. S \cup U \in SUBSET D /\ x \in S \cup U
    BY <1>3
  <2>2. (S \cup U) \ {x} = S \cup (U \ {x})
    BY <1>3
  <2>3. SumOf(F, S \cup U) = F[x] + SumOf(F, (S \cup U) \ {x})
    BY <1>3, <2>1, SumOfRemove
  <2> QED
    BY <2>2, <2>3
<1>9. SumOf(F, S \cup (U \ {x})) = SumOf(F, S) + SumOf(F, U \ {x})
  <2>1. U \ {x} \notin C /\ U \ {x} \in SUBSET T
    BY <1>2, <1>3
  <2> QED
    BY <2>1
<1>10. SumOf(F, U \ {x}) \in Nat /\ F[x] \in Nat
  <2>1. IsFiniteSet(U \ {x}) /\ U \ {x} \in SUBSET D
    BY <1>3, FS_Subset
  <2> QED
    BY <1>3, <2>1, SumOfType
<1> QED
  BY <1>3, <1>4, <1>7, <1>8, <1>9, <1>10

\* Terms that are zero may be left out.
LEMMA SumOfZeros ==
  ASSUME NEW D, NEW F \in [D -> Nat], NEW S \in SUBSET D, IsFiniteSet(S),
         NEW T \in SUBSET S, \A x \in S \ T : F[x] = 0
  PROVE  SumOf(F, S) = SumOf(F, T)
<1> DEFINE C == {U \in SUBSET S : T \subseteq U /\ SumOf(F, U) # SumOf(F, T)}
<1>1. SUFFICES ASSUME C # {}
               PROVE  FALSE
  OBVIOUS
<1>2. PICK U \in C : \A V \in C : V \subseteq U => V = U
  <2>1. C \in SUBSET SUBSET S
    OBVIOUS
  <2> HIDE DEF C
  <2> QED
    BY <1>1, <2>1, MinimalSubset
<1>3. /\ U \in SUBSET S /\ U \in SUBSET D /\ IsFiniteSet(U)
      /\ T \subseteq U /\ SumOf(F, U) # SumOf(F, T)
  BY FS_Subset
<1>4. PICK x \in U : x \notin T
  BY <1>3
<1>5. SumOf(F, U) = F[x] + SumOf(F, U \ {x})
  BY <1>3, SumOfRemove
<1>6. SumOf(F, U \ {x}) = SumOf(F, T)
  <2>1. U \ {x} \notin C /\ U \ {x} \in SUBSET S /\ T \subseteq U \ {x}
    BY <1>2, <1>3, <1>4
  <2> QED
    BY <2>1
<1>7. SumOf(F, U \ {x}) \in Nat /\ F[x] = 0
  <2>1. IsFiniteSet(U \ {x}) /\ U \ {x} \in SUBSET D
    BY <1>3, FS_Subset
  <2> QED
    BY <1>3, <1>4, <2>1, SumOfType
<1> QED
  BY <1>3, <1>5, <1>6, <1>7

\* b gives each term that F has for a member of S a name in T, under which G has it.
Renames(b, F, S, G, T) ==
  /\ IsFiniteSet(S) /\ F \in [S -> Nat] /\ G \in [T -> Nat]
  /\ b \in [S -> T] /\ \A x, y \in S : b[x] = b[y] => x = y
  /\ \A x \in S : F[x] = G[b[x]]

\* A sum does not change when its terms are named otherwise, each by a name of
\* its own.
LEMMA SumOfRenamed ==
  ASSUME NEW b, NEW F, NEW S, NEW G, NEW T, Renames(b, F, S, G, T)
  PROVE  SumOf(F, S) = SumOf(G, {b[x] : x \in S})
<1>0. /\ IsFiniteSet(S) /\ F \in [S -> Nat] /\ G \in [T -> Nat]
      /\ b \in [S -> T] /\ \A x, y \in S : b[x] = b[y] => x = y
      /\ \A x \in S : F[x] = G[b[x]]
  BY DEF Renames
<1> DEFINE im(U) == {b[x] : x \in U}
           C == {U \in SUBSET S : SumOf(F, U) # SumOf(G, im(U))}
<1>1. SUFFICES ASSUME C # {}
               PROVE  FALSE
  OBVIOUS
<1>2. PICK U \in C : \A V \in C : V \subseteq U => V = U
  <2>1. C \in SUBSET SUBSET S
    OBVIOUS
  <2> HIDE DEF C
  <2> QED
    BY <1>0, <1>1, <2>1, MinimalSubset
<1>3. /\ U \in SUBSET S /\ U \in SUBSET S /\ IsFiniteSet(U)
      /\ SumOf(F, U) # SumOf(G, im(U))
  BY <1>0, FS_Subset
<1>4. im(U) \in SUBSET T /\ IsFiniteSet(im(U))
  <2>1. im(U) \in SUBSET T
    BY <1>0, <1>3
  <2>2. IsFiniteSet(im(U))
    <3> DEFINE I == im(U)
               g == [x \in U |-> b[x]]
    <3>1. g \in Surjection(U, I)
      BY DEF Surjection
    <3> HIDE DEF I, g
    <3>2. IsFiniteSet(I)
      BY <1>3, <3>1, FS_Surjection
    <3> QED
      BY <3>2 DEF I
  <2> QED
    BY <2>1, <2>2
<1>5. U # {}
  <2>1. SumOf(F, {}) = 0 /\ SumOf(G, {}) = 0
    BY FS_EmptySet, SumOfRecursion
  <2>2. ASSUME U = {}
        PROVE  FALSE
    <3>1. im(U) = {}
      BY <2>2
    <3> QED
      BY <1>3, <2>1, <2>2, <3>1
  <2> QED
    BY <2>2
<1>6. PICK x \in U : TRUE
  BY <1>5
<1>7. SumOf(F, U) = F[x] + SumOf(F, U \ {x})
  BY <1>0, <1>3, SumOfRemove
<1>8. SumOf(G, im(U)) = G[b[x]] + SumOf(G, im(U \ {x}))
  <2>1. b[x] \in im(U)
    OBVIOUS
  <2>2. im(U) \ {b[x]} = im(U \ {x})
    BY <1>0, <1>3
  <2>3. SumOf(G, im(U)) = G[b[x]] + SumOf(G, im(U) \ {b[x]})
    <3> DEFINE I == im(U)
    <3>1. I \in SUBSET T /\ IsFiniteSet(I) /\ b[x] \in I
      BY <1>4, <2>1
    <3> HIDE DEF I
    <3>2. SumOf(G, I) = G[b[x]] + SumOf(G, I \ {b[x]})
      BY <1>0, <3>1, SumOfRemove
    <3> QED
      BY <3>2 DEF I
  <2> QED
    BY <2>2, <2>3
<1>9. SumOf(F, U \ {x}) = SumOf(G, im(U \ {x}))
  <2>1. U \ {x} \notin C /\ U \ {x} \in SUBSET S
    BY <1>2, <1>3
  <2> QED
    BY <2>1
<1>10. F[x] = G[b[x]]
  BY <1>0, <1>3
<1> QED
  BY <1>3, <1>7, <1>8, <1>9, <1>10

\* What the community modules call the sum of a function.
LEMMA SumFunctionIs ==
  ASSUME NEW F
  PROVE  SumFunction(F) = SumOf(F, DOMAIN F)
BY DEF SumFunction, SumFunctionOnSet, FoldFunctionOnSet, MapThenFoldSet, SumOf, MapThenSumSet

-----------------------------------------------------------------------------
\* A nonempty set of places has a first one.
LEMMA FirstPlace ==
  ASSUME NEW n \in Nat, NEW S \in SUBSET (1 .. n), S # {}
  PROVE  \E i \in S : \A j \in S : i <= j
<1> DEFINE below(i) == {j \in S : j < i}
           C == {below(i) : i \in S}
<1>1. IsFiniteSet(1 .. n) /\ C \in SUBSET SUBSET (1 .. n) /\ C # {}
  <2>1. IsFiniteSet(1 .. n)
    BY FS_Interval
  <2>2. \A i \in S : below(i) \in SUBSET (1 .. n)
    OBVIOUS
  <2>3. PICK i \in S : TRUE
    OBVIOUS
  <2> HIDE DEF below
  <2>4. below(i) \in C
    BY <2>3
  <2> QED
    BY <2>1, <2>2, <2>4
<1>2. PICK T \in C : \A U \in C : U \subseteq T => U = T
  <2> DEFINE B == 1 .. n
  <2>1. IsFiniteSet(B) /\ C \in SUBSET SUBSET B /\ C # {}
    BY <1>1
  <2> HIDE DEF C, B
  <2> QED
    BY <2>1, MinimalSubset
<1>3. PICK i \in S : T = below(i)
  OBVIOUS
<1>4. i \in Int /\ \A j \in S : j \in Int
  OBVIOUS
<1>5. ASSUME NEW j \in S, j < i
      PROVE  FALSE
  <2>1. \A l \in S : l < j => l < i
    BY <1>4, <1>5
  <2>2. below(j) \subseteq below(i) /\ j \in below(i) /\ j \notin below(j)
    <3>1. below(j) \subseteq below(i)
      BY <2>1
    <3>2. j \in below(i) /\ j \notin below(j)
      BY <1>4, <1>5
    <3> QED
      BY <3>1, <3>2
  <2>3. below(j) \in C
    OBVIOUS
  <2> HIDE DEF below, C
  <2> QED
    BY <1>2, <1>3, <2>2, <2>3
<1> QED
  BY <1>4, <1>5

\* It has a last one, too, the one the community modules choose.
LEMMA LastPlace ==
  ASSUME NEW n \in Nat, NEW S \in SUBSET (1 .. n), S # {}
  PROVE  Max(S) \in S /\ \A j \in S : j <= Max(S)
<1> DEFINE m(i) == n + 1 - i
           T == {m(i) : i \in S}
<1>1. T \in SUBSET (1 .. n) /\ T # {}
  <2>1. \A i \in S : m(i) \in 1 .. n
    OBVIOUS
  <2>2. PICK i \in S : TRUE
    OBVIOUS
  <2> HIDE DEF m
  <2>3. m(i) \in T
    BY <2>2
  <2> QED
    BY <2>1, <2>3
<1>2. PICK f \in T : \A j \in T : f <= j
  <2> HIDE DEF T
  <2> QED
    BY <1>1, FirstPlace
<1>3. PICK i \in S : f = m(i)
  OBVIOUS
<1>4. \A j \in S : m(i) <= m(j)
  BY <1>2, <1>3
<1>5. \A j \in S : i >= j
  BY <1>4
<1>6. \A j \in S : Max(S) \in S /\ Max(S) >= j
  BY <1>5 DEF Max
<1> QED
  BY <1>3, <1>6

\* A function with finitely many values has a largest one.
LEMMA LargestValue ==
  ASSUME NEW D, IsFiniteSet(D), D # {}, NEW F \in [D -> Nat]
  PROVE  Max({F[x] : x \in D}) \in Nat /\ \A x \in D : F[x] <= Max({F[y] : y \in D})
<1> DEFINE above(x) == {y \in D : F[y] > F[x]}
           C == {above(x) : x \in D}
           V == {F[x] : x \in D}
<1>1. C \in SUBSET SUBSET D /\ C # {}
  <2>1. \A x \in D : above(x) \in SUBSET D
    OBVIOUS
  <2>2. PICK x \in D : TRUE
    OBVIOUS
  <2> HIDE DEF above
  <2>3. above(x) \in C
    BY <2>2
  <2> QED
    BY <2>1, <2>3
<1>2. PICK T \in C : \A U \in C : U \subseteq T => U = T
  <2> HIDE DEF C
  <2> QED
    BY <1>1, MinimalSubset
<1>3. PICK x \in D : T = above(x)
  OBVIOUS
<1>4. ASSUME NEW y \in D, F[y] > F[x]
      PROVE  FALSE
  <2>1. \A z \in D : F[z] \in Int
    OBVIOUS
  <2>2. above(y) \subseteq above(x) /\ y \in above(x) /\ y \notin above(y)
    BY <1>4, <2>1
  <2>3. above(y) \in C
    OBVIOUS
  <2> HIDE DEF above, C
  <2> QED
    BY <1>2, <1>3, <2>2, <2>3
<1>5. F[x] \in V /\ \A v \in V : F[x] >= v
  BY <1>4
<1> HIDE DEF V
<1>6. Max(V) \in V /\ \A v \in V : Max(V) >= v
  BY <1>5 DEF Max
<1> QED
  BY <1>6 DEF V

-----------------------------------------------------------------------------
(* The operators of PriorityList, for lists of any length. *)


\* A record as the lists hold them: all that matters is its priority.
Prioritised(s) == \A i \in DOMAIN s : s[i].prio \in Int

\* Two different places of a list are in one order or the other, never both,
\* and the order is transitive: what makes the rank of a place unique.
LEMMA BeforeIsTotal ==
  ASSUME NEW E, NEW s \in Seq(E), Prioritised(s),
         NEW i \in DOMAIN s, NEW j \in DOMAIN s
  PROVE  /\ i # j => Before(s, i, j) \/ Before(s, j, i)
         /\ ~Before(s, i, i)
         /\ \A m \in DOMAIN s : Before(s, m, i) /\ Before(s, i, j) => Before(s, m, j)
BY DEF Before, Prioritised

\* The rank of a place is a place.
LEMMA RankIsPlace ==
  ASSUME NEW E, NEW s \in Seq(E), Prioritised(s), NEW i \in DOMAIN s
  PROVE  /\ Rank(s, i) \in DOMAIN s
         /\ IsFiniteSet({j \in DOMAIN s : Before(s, j, i)})
<1> DEFINE P == {j \in DOMAIN s : Before(s, j, i)}
<1>1. DOMAIN s = 1 .. Len(s) /\ Len(s) \in Nat
  BY LenProperties
<1>2. IsFiniteSet(DOMAIN s) /\ Cardinality(DOMAIN s) = Len(s)
  <2>1. 1 \in Int /\ Len(s) \in Int
    BY <1>1
  <2>2. /\ IsFiniteSet(1 .. Len(s))
        /\ Cardinality(1 .. Len(s)) = IF 1 > Len(s) THEN 0 ELSE Len(s) - 1 + 1
    BY <2>1, FS_Interval
  <2> QED
    BY <1>1, <2>2
<1>3. IsFiniteSet(DOMAIN s \ {i}) /\ Cardinality(DOMAIN s \ {i}) = Len(s) - 1
  BY <1>2, FS_RemoveElement
<1>4. P \in SUBSET (DOMAIN s \ {i})
  BY BeforeIsTotal
<1>5. IsFiniteSet(P) /\ Cardinality(P) <= Len(s) - 1
  BY <1>3, <1>4, FS_Subset
<1>6. Cardinality(P) \in Nat
  BY <1>5, FS_CardinalityType
<1> QED
  BY <1>1, <1>5, <1>6 DEF Rank

\* A place before another one has the smaller rank.
LEMMA RankIsMonotonic ==
  ASSUME NEW E, NEW s \in Seq(E), Prioritised(s),
         NEW i \in DOMAIN s, NEW j \in DOMAIN s, Before(s, i, j)
  PROVE  Rank(s, i) < Rank(s, j)
<1> DEFINE P(m) == {l \in DOMAIN s : Before(s, l, m)}
<1>1. IsFiniteSet(P(i)) /\ IsFiniteSet(P(j))
  BY RankIsPlace
<1>2. i \notin P(i) /\ P(i) \cup {i} \in SUBSET P(j)
  BY BeforeIsTotal
<1>3. Cardinality(P(i) \cup {i}) = Cardinality(P(i)) + 1
  BY <1>1, <1>2, FS_AddElement
<1>4. Cardinality(P(i) \cup {i}) <= Cardinality(P(j))
  BY <1>1, <1>2, FS_Subset
<1>5. Cardinality(P(i)) \in Nat /\ Cardinality(P(j)) \in Nat
  BY <1>1, FS_CardinalityType
<1> QED
  BY <1>3, <1>4, <1>5 DEF Rank

\* The ranks are a permutation of the places: every place has one rank, and
\* every rank is taken.
LEMMA RankIsPermutation ==
  ASSUME NEW E, NEW s \in Seq(E), Prioritised(s), NEW p \in DOMAIN s
  PROVE  \E i \in DOMAIN s : Rank(s, i) = p
<1> DEFINE f == [i \in DOMAIN s |-> Rank(s, i)]
<1>1. IsFiniteSet(DOMAIN s)
  BY LenProperties, FS_Interval
<1>2. f \in [DOMAIN s -> DOMAIN s]
  BY RankIsPlace
<1>3. ASSUME NEW i \in DOMAIN s, NEW j \in DOMAIN s, f[i] = f[j]
      PROVE  i = j
  <2>1. Rank(s, i) = Rank(s, j)
    BY <1>3
  <2>2. Rank(s, i) \in Int /\ Rank(s, j) \in Int
    <3>1. DOMAIN s = 1 .. Len(s) /\ Len(s) \in Nat
      BY LenProperties
    <3>2. Rank(s, i) \in DOMAIN s /\ Rank(s, j) \in DOMAIN s
      BY RankIsPlace
    <3> QED
      BY <3>1, <3>2
  <2> QED
    BY <2>1, <2>2, BeforeIsTotal, RankIsMonotonic
<1>4. f \in Injection(DOMAIN s, DOMAIN s)
  BY <1>2, <1>3 DEF Injection, IsInjective
<1>5. f \in Surjection(DOMAIN s, DOMAIN s)
  BY <1>1, <1>4, FS_Injection
<1> QED
  BY <1>5 DEF Surjection

\* Sorting a list yields a list of the same length with the same elements, in
\* ascending order of priority.
LEMMA SortListProperties ==
  ASSUME NEW E, NEW s \in Seq(E), Prioritised(s)
  PROVE  /\ SortList(s) \in Seq(E)
         /\ Len(SortList(s)) = Len(s)
         /\ \A p \in DOMAIN SortList(s) : \E i \in DOMAIN s : SortList(s)[p] = s[i]
         /\ \A i \in DOMAIN s : \E p \in DOMAIN SortList(s) : SortList(s)[p] = s[i]
         /\ Sorted(SortList(s))
<1> DEFINE D == DOMAIN s
           at(p) == CHOOSE i \in D : Rank(s, i) = p
<1>1. \A p \in D : at(p) \in D /\ Rank(s, at(p)) = p
  BY RankIsPermutation
<1>2. D = 1 .. Len(s) /\ Len(s) \in Nat
  BY LenProperties
<1>3. SortList(s) = [p \in D |-> s[at(p)]]
  BY DEF SortList
<1>4. \A p \in D : s[at(p)] \in E
  BY <1>1, <1>2, ElementOfSeq
<1>5. SortList(s) \in Seq(E) /\ Len(SortList(s)) = Len(s) /\ DOMAIN SortList(s) = D
  <2> HIDE DEF at
  <2> QED
    BY <1>2, <1>3, <1>4, IsASeq
<1>6. \A p \in D : \E i \in D : SortList(s)[p] = s[i]
  BY <1>1, <1>3
<1>7. ASSUME NEW i \in D
      PROVE  \E p \in D : SortList(s)[p] = s[i]
  <2>1. Rank(s, i) \in D
    BY RankIsPlace
  <2>2. at(Rank(s, i)) = i
    <3>1. at(Rank(s, i)) \in D /\ Rank(s, at(Rank(s, i))) = Rank(s, i)
      BY <1>1, <2>1
    <3>2. Rank(s, i) \in Int
      BY <2>1, <1>2
    <3> HIDE DEF at
    <3>3. Before(s, i, at(Rank(s, i))) => FALSE
      BY <3>1, <3>2, RankIsMonotonic
    <3>4. Before(s, at(Rank(s, i)), i) => FALSE
      BY <3>1, <3>2, RankIsMonotonic
    <3> QED
      BY <3>1, <3>3, <3>4, BeforeIsTotal
  <2> QED
    BY <1>3, <2>1, <2>2
<1>8. ASSUME NEW p \in D, NEW q \in D, p < q
      PROVE  SortList(s)[p].prio <= SortList(s)[q].prio
  <2>1. /\ at(p) \in D /\ Rank(s, at(p)) = p
        /\ at(q) \in D /\ Rank(s, at(q)) = q
    BY <1>1
  <2>2. p \in Int /\ q \in Int
    BY <1>2
  <2> HIDE DEF at
  <2>3. at(p) # at(q) /\ ~Before(s, at(q), at(p))
    BY <1>8, <2>1, <2>2, RankIsMonotonic
  <2>4. Before(s, at(p), at(q))
    BY <2>1, <2>3, BeforeIsTotal
  <2>5. s[at(p)].prio <= s[at(q)].prio
    BY <2>1, <2>4 DEF Before, Prioritised
  <2> QED
    BY <1>3, <2>5
<1> QED
  BY <1>5, <1>6, <1>7, <1>8 DEF Sorted

\* Deleting an element keeps the others and their order.
LEMMA DeleteAtProperties ==
  ASSUME NEW E, NEW s \in Seq(E), NEW i \in DOMAIN s
  PROVE  /\ DeleteAt(s, i) \in Seq(E)
         /\ Len(DeleteAt(s, i)) = Len(s) - 1
         /\ \A p \in 1 .. Len(s) - 1 :
              DeleteAt(s, i)[p] = IF p < i THEN s[p] ELSE s[p + 1]
<1>1. DOMAIN s = 1 .. Len(s) /\ Len(s) \in Nat /\ i \in 1 .. Len(s)
  BY LenProperties
<1> DEFINE a == SubSeq(s, 1, i - 1)
           b == SubSeq(s, i + 1, Len(s))
<1>2. /\ a \in Seq(E) /\ Len(a) = i - 1
      /\ \A p \in 1 .. i - 1 : a[p] = s[p]
  BY <1>1
<1>3. /\ b \in Seq(E) /\ Len(b) = Len(s) - i
      /\ \A p \in 1 .. Len(s) - i : b[p] = s[i + p]
  BY <1>1
<1>4. DeleteAt(s, i) = a \o b
  BY DEF DeleteAt, RemoveAt
<1> HIDE DEF a, b
<1>5. /\ DeleteAt(s, i) \in Seq(E)
      /\ Len(DeleteAt(s, i)) = Len(a) + Len(b)
      /\ \A p \in 1 .. Len(a) + Len(b) :
           DeleteAt(s, i)[p] = IF p <= Len(a) THEN a[p] ELSE b[p - Len(a)]
  BY <1>2, <1>3, <1>4, ConcatProperties
<1>6. ASSUME NEW p \in 1 .. Len(s) - 1
      PROVE  DeleteAt(s, i)[p] = IF p < i THEN s[p] ELSE s[p + 1]
  <2>1. p \in 1 .. Len(a) + Len(b)
    BY <1>1, <1>2, <1>3
  <2>2. CASE p < i
    BY <1>1, <1>2, <1>5, <2>1, <2>2
  <2>3. CASE p >= i
    <3>1. p - (i - 1) \in 1 .. Len(s) - i /\ i + (p - (i - 1)) = p + 1
      BY <1>1, <2>3
    <3>2. ~(p <= Len(a)) /\ p - Len(a) = p - (i - 1) /\ ~(p < i)
      BY <1>1, <1>2, <2>3
    <3>3. DeleteAt(s, i)[p] = b[p - (i - 1)]
      BY <1>5, <2>1, <3>2
    <3>4. b[p - (i - 1)] = s[p + 1]
      BY <1>3, <3>1
    <3> QED
      BY <3>2, <3>3, <3>4
  <2> QED
    BY <1>1, <2>2, <2>3
<1> QED
  BY <1>1, <1>2, <1>3, <1>5, <1>6

\* Deleting keeps a sorted list sorted.
LEMMA DeleteAtKeepsSorted ==
  ASSUME NEW E, NEW s \in Seq(E), Prioritised(s), Sorted(s), NEW i \in DOMAIN s
  PROVE  Sorted(DeleteAt(s, i))
<1>1. DOMAIN s = 1 .. Len(s) /\ Len(s) \in Nat
  BY LenProperties
<1>2. DOMAIN DeleteAt(s, i) = 1 .. Len(s) - 1
  BY DeleteAtProperties, LenProperties
<1>3. SUFFICES ASSUME NEW p \in 1 .. Len(s) - 1, NEW q \in 1 .. Len(s) - 1, p < q
               PROVE  DeleteAt(s, i)[p].prio <= DeleteAt(s, i)[q].prio
  BY <1>2 DEF Sorted
<1> DEFINE from(r) == IF r < i THEN r ELSE r + 1
<1>4. /\ DeleteAt(s, i)[p] = s[from(p)]
      /\ DeleteAt(s, i)[q] = s[from(q)]
  BY DeleteAtProperties
<1>5. from(p) \in DOMAIN s /\ from(q) \in DOMAIN s /\ from(p) < from(q)
  BY <1>1, <1>3
<1> QED
  BY <1>4, <1>5 DEF Sorted

-----------------------------------------------------------------------------
(* The operator of Sublists, for lists of any length. *)

\* The list w is the part of s at the places P: "to" tells from which place each
\* of its elements came.
PartOf(w, s, P, E) ==
  /\ IsFiniteSet(P) /\ Cardinality(P) \in Nat
  /\ w \in Seq(E) /\ Len(w) = Cardinality(P)
  /\ DOMAIN w = 1 .. Cardinality(P)
  /\ \E to \in [1 .. Cardinality(P) -> P] :
        /\ \A p \in 1 .. Cardinality(P) : w[p] = s[to[p]]
        /\ \A p, q \in 1 .. Cardinality(P) : p < q => to[p] < to[q]
        /\ \A i \in P : \E p \in 1 .. Cardinality(P) : to[p] = i

\* The elements picked are those at the places asked for, each once and in their
\* order.
LEMMA PickedIs ==
  ASSUME NEW E, NEW s \in Seq(E), NEW P \in SUBSET DOMAIN s
  PROVE  PartOf(Picked(s, P), s, P, E)
<1> DEFINE below(i) == {j \in P : j <= i}
           r(i) == Cardinality(below(i))
           n == Cardinality(P)
           f == [i \in P |-> r(i)]
           to == [p \in 1 .. n |-> CHOOSE i \in P : r(i) = p]
<1>1. DOMAIN s = 1 .. Len(s) /\ Len(s) \in Nat
  BY LenProperties
<1>2. IsFiniteSet(P) /\ n \in Nat
  <2>1. IsFiniteSet(1 .. Len(s))
    BY <1>1, FS_Interval
  <2>2. IsFiniteSet(P)
    BY <1>1, <2>1, FS_Subset
  <2> QED
    BY <2>2, FS_CardinalityType
<1>3. \A i \in P : i \in Nat
  BY <1>1
<1>4. \A i \in P : IsFiniteSet(below(i)) /\ r(i) \in 1 .. n /\ r(i) \in Int
  <2> SUFFICES ASSUME NEW i \in P
               PROVE  IsFiniteSet(below(i)) /\ r(i) \in 1 .. n /\ r(i) \in Int
    OBVIOUS
  <2>1. IsFiniteSet(below(i)) /\ r(i) <= n
    BY <1>2, FS_Subset
  <2>2. r(i) \in Nat
    BY <2>1, FS_CardinalityType
  <2>3. i \in below(i)
    BY <1>3
  <2>4. r(i) # 0
    <3> HIDE DEF below
    <3> QED
      BY <2>1, <2>3, FS_EmptySet
  <2> QED
    BY <1>2, <2>1, <2>2, <2>4
<1>5. \A i, j \in P : i < j => r(i) < r(j)
  <2> SUFFICES ASSUME NEW i \in P, NEW j \in P, i < j
               PROVE  r(i) < r(j)
    OBVIOUS
  <2>1. IsFiniteSet(below(i)) /\ IsFiniteSet(below(j)) /\ r(i) \in Int /\ r(j) \in Int
    <3> HIDE DEF below, n
    <3> QED
      BY <1>4
  <2>2. j \notin below(i)
    BY <1>3
  <2>3. below(i) \cup {j} \subseteq below(j)
    BY <1>3
  <2> HIDE DEF below
  <2>4. Cardinality(below(i) \cup {j}) = Cardinality(below(i)) + 1
    BY <2>1, <2>2, FS_AddElement
  <2>5. Cardinality(below(i) \cup {j}) <= Cardinality(below(j))
    BY <2>1, <2>3, FS_Subset
  <2> QED
    BY <2>1, <2>4, <2>5
<1>6. \A i, j \in P : r(i) = r(j) => i = j
  <2> SUFFICES ASSUME NEW i \in P, NEW j \in P, r(i) = r(j), i # j
               PROVE  FALSE
    OBVIOUS
  <2>1. r(i) \in Int /\ r(j) \in Int
    <3> HIDE DEF r, n
    <3> QED
      BY <1>4
  <2>2. i < j \/ j < i
    BY <1>3
  <2>3. r(i) < r(j) \/ r(j) < r(i)
    <3> HIDE DEF r
    <3> QED
      BY <1>5, <2>2
  <2> QED
    BY <2>1, <2>3
<1>7. \A p \in 1 .. n : \E i \in P : r(i) = p
  <2> HIDE DEF r, n
  <2>1. f \in Injection(P, 1 .. n)
    BY <1>4, <1>6 DEF Injection, IsInjective
  <2>2. IsFiniteSet(1 .. n) /\ Cardinality(1 .. n) = n
    BY <1>2, FS_Interval
  <2>3. f \in Surjection(P, 1 .. n)
    <3>1. Cardinality(P) = Cardinality(1 .. n)
      BY <2>2 DEF n
    <3> QED
      BY <1>2, <2>1, <2>2, <3>1, FS_Injection
  <2> QED
    BY <2>3 DEF Surjection
<1>8. \A p \in 1 .. n : to[p] \in P /\ r(to[p]) = p
  <2> SUFFICES ASSUME NEW p \in 1 .. n
               PROVE  to[p] \in P /\ r(to[p]) = p
    OBVIOUS
  <2>1. \E i \in P : r(i) = p
    BY <1>7
  <2>2. to[p] = CHOOSE i \in P : r(i) = p
    OBVIOUS
  <2> HIDE DEF r, to, n
  <2> QED
    BY <2>1, <2>2
<1>9. \A p \in 1 .. n : Picked(s, P)[p] = s[to[p]]
  BY DEF Picked
<1>10. Picked(s, P) = [p \in 1 .. n |-> s[to[p]]]
  BY DEF Picked
<1>11. \A i \in P : s[i] \in E
  BY ElementOfSeq, <1>1
<1> HIDE DEF to, n, r
<1>12. Picked(s, P) \in [1 .. n -> E]
  BY <1>8, <1>10, <1>11
<1>13. Picked(s, P) \in Seq(E) /\ Len(Picked(s, P)) = n /\ DOMAIN Picked(s, P) = 1 .. n
  <2> DEFINE w == Picked(s, P)
  <2>1. w \in [1 .. n -> E]
    BY <1>12
  <2> HIDE DEF w
  <2>2. w \in Seq(E)
    BY <1>2, <2>1
  <2>3. Len(w) = n /\ DOMAIN w = 1 .. n
    BY <1>2, <2>1, <2>2, LenProperties
  <2> QED
    BY <2>2, <2>3 DEF w
<1>14. to \in [1 .. n -> P]
  <2>1. to = [p \in 1 .. n |-> to[p]]
    BY DEF to
  <2> QED
    BY <1>8, <2>1
<1>15. ASSUME NEW p \in 1 .. n, NEW q \in 1 .. n, p < q
       PROVE  to[p] < to[q]
  <2>1. r(to[p]) = p /\ r(to[q]) = q /\ to[p] \in P /\ to[q] \in P
    BY <1>8
  <2>2. CASE to[p] = to[q]
    BY <2>1, <2>2, <1>15, <1>2
  <2>3. CASE to[q] < to[p]
    BY <1>5, <2>1, <2>3, <1>15, <1>2
  <2>4. to[p] \in Nat /\ to[q] \in Nat
    BY <1>3, <2>1
  <2> QED
    BY <2>2, <2>3, <2>4
<1>16. ASSUME NEW i \in P
       PROVE  \E p \in 1 .. n : to[p] = i
  BY <1>4, <1>6, <1>8
<1>17. \E t \in [1 .. n -> P] :
              /\ \A p \in 1 .. n : Picked(s, P)[p] = s[t[p]]
              /\ \A p, q \in 1 .. n : p < q => t[p] < t[q]
              /\ \A i \in P : \E p \in 1 .. n : t[p] = i
  BY <1>9, <1>14, <1>15, <1>16
<1> QED
  BY <1>2, <1>13, <1>17 DEF n, PartOf
=============================================================================
