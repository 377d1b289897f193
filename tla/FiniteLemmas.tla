------------------------------ MODULE FiniteLemmas ------------------------------
(***************************************************************************)
(* Facts about finite sets that the proofs of several modules need, by     *)
(* minimal counterexample: the subsets of a finite set are well founded.   *)
(***************************************************************************)
EXTENDS FiniteSetsExt, FiniteSetTheorems, WellFoundedInduction, TLAPS

LEMMA SmallestSubset ==
  \A S : IsFiniteSet(S) => \A X \in SUBSET (SUBSET S) :
            X # {} => \E T \in X : \A U \in X : ~(U \subseteq T /\ U # T)
  <1> SUFFICES ASSUME NEW S, IsFiniteSet(S), NEW X \in SUBSET (SUBSET S), X # {}
               PROVE  \E T \in X : \A U \in X : ~(U \subseteq T /\ U # T)
    OBVIOUS
  <1>1. IsWellFoundedOn(StrictSubsetOrdering(S), FiniteSubsetsOf(S))
    BY FS_StrictSubsetOrderingWellFounded
  <1>2. X \subseteq FiniteSubsetsOf(S)
    BY FS_FiniteSubsetsOfFinite
  <1>3. PICK T \in X : \A U \in X : ~(<<U, T>> \in StrictSubsetOrdering(S))
    BY <1>1, <1>2, WFMin
  <1>4. \A U \in X : ~(U \subseteq T /\ U # T)
    BY <1>3 DEF StrictSubsetOrdering
  <1>5. QED
    BY <1>4

LEMMA LargestExists ==
  ASSUME NEW S, IsFiniteSet(S)
  PROVE  S \subseteq Int /\ S # {} => \E m \in S : \A y \in S : m >= y
  <1> DEFINE HasLargest(T) == \E m \in T : \A y \in T : m >= y
             X == {T \in SUBSET S : T # {} /\ ~HasLargest(T)}
  <1>a. X \in SUBSET (SUBSET S)
    OBVIOUS
  <1>b. \A Y \in SUBSET (SUBSET S) :
            Y # {} => \E T \in Y : \A U \in Y : ~(U \subseteq T /\ U # T)
    BY SmallestSubset
  <1>1. SUFFICES ASSUME S \subseteq Int, S # {}, X # {} PROVE FALSE
    OBVIOUS
  <1>2. PICK T \in X : \A U \in X : ~(U \subseteq T /\ U # T)
    <2> HIDE DEF X
    <2>1. QED
      BY <1>1, <1>a, <1>b
  <1>3. PICK x \in T : TRUE
    BY <1>2
  <1>4. CASE T \ {x} = {}
    BY <1>1, <1>2, <1>3, <1>4
  <1>5. CASE T \ {x} # {}
    <2>a. T \ {x} \in SUBSET S /\ T \ {x} # T
      BY <1>2, <1>3
    <2>b. T \ {x} \notin X
      BY <1>2, <2>a
    <2>1. HasLargest(T \ {x})
      BY <1>5, <2>a, <2>b
    <2>2. PICK m \in T \ {x} : \A y \in T \ {x} : m >= y
      BY <2>1
    <2>3. \A y \in T : (IF m >= x THEN m ELSE x) >= y
      BY <1>1, <1>2, <1>3, <2>2
    <2>4. QED
      BY <1>2, <1>3, <2>2, <2>3
  <1>6. QED
    BY <1>4, <1>5

LEMMA SmallestExists ==
  ASSUME NEW S, IsFiniteSet(S)
  PROVE  S \subseteq Int /\ S # {} => \E m \in S : \A y \in S : m <= y
  <1> DEFINE HasSmallest(T) == \E m \in T : \A y \in T : m <= y
             X == {T \in SUBSET S : T # {} /\ ~HasSmallest(T)}
  <1>a. X \in SUBSET (SUBSET S)
    OBVIOUS
  <1>b. \A Y \in SUBSET (SUBSET S) :
            Y # {} => \E T \in Y : \A U \in Y : ~(U \subseteq T /\ U # T)
    BY SmallestSubset
  <1>1. SUFFICES ASSUME S \subseteq Int, S # {}, X # {} PROVE FALSE
    OBVIOUS
  <1>2. PICK T \in X : \A U \in X : ~(U \subseteq T /\ U # T)
    <2> HIDE DEF X
    <2>1. QED
      BY <1>1, <1>a, <1>b
  <1>3. PICK x \in T : TRUE
    BY <1>2
  <1>4. CASE T \ {x} = {}
    BY <1>1, <1>2, <1>3, <1>4
  <1>5. CASE T \ {x} # {}
    <2>a. T \ {x} \in SUBSET S /\ T \ {x} # T
      BY <1>2, <1>3
    <2>b. T \ {x} \notin X
      BY <1>2, <2>a
    <2>1. HasSmallest(T \ {x})
      BY <1>5, <2>a, <2>b
    <2>2. PICK m \in T \ {x} : \A y \in T \ {x} : m <= y
      BY <2>1
    <2>3. \A y \in T : (IF m <= x THEN m ELSE x) <= y
      BY <1>1, <1>2, <1>3, <2>2
    <2>4. QED
      BY <1>2, <1>3, <2>2, <2>3
  <1>6. QED
    BY <1>4, <1>5

LEMMA MaxIsLargest ==
  ASSUME NEW S, S \subseteq Int, IsFiniteSet(S), S # {}
  PROVE  Max(S) \in S /\ \A y \in S : Max(S) >= y
  BY LargestExists DEF Max

LEMMA MinIsSmallest ==
  ASSUME NEW S, S \subseteq Int, IsFiniteSet(S), S # {}
  PROVE  Min(S) \in S /\ \A y \in S : Min(S) <= y
  BY SmallestExists DEF Min

LEMMA ImageIsFinite ==
  ASSUME NEW S, IsFiniteSet(S), NEW f
  PROVE  IsFiniteSet({f[x] : x \in S})
  <1> DEFINE T == {f[x] : x \in S}
             g == [x \in S |-> f[x]]
  <1>1. g \in Surjection(S, T)
    BY DEF Surjection
  <1> HIDE DEF g, T
  <1>2. IsFiniteSet(T)
    BY <1>1, FS_Surjection
  <1>3. QED
    BY <1>2 DEF T

\* The numbers of S whose rank is at most N: none is skipped, and when there are not N of
\* them it is all there is.
LEMMA FirstRanks ==
  ASSUME NEW S, S \subseteq Int, IsFiniteSet(S), NEW N \in Nat \ {0},
         NEW P \in SUBSET S, \A h \in S : h \in P <=> Cardinality({k \in S : k <= h}) <= N
  PROVE  /\ \A h \in P, k \in S : k <= h => k \in P
         /\ Cardinality(P) # N => P = S
         /\ Cardinality(P) = N => P # {}
  <1> DEFINE Below(h) == {k \in S : k <= h}
  <1>1. \A h \in S : IsFiniteSet(Below(h)) /\ Cardinality(Below(h)) \in Nat
    BY FS_Subset, FS_CardinalityType
  <1>2. P \in SUBSET S /\ IsFiniteSet(P) /\ Cardinality(P) \in Nat
    BY FS_Subset, FS_CardinalityType
  <1>3. ASSUME NEW h \in P, NEW k \in S, k <= h
        PROVE  k \in P
    <2>1. Below(k) \in SUBSET Below(h)
      <3>1. \A j \in S : j <= k => j <= h
        BY <1>3
      <3>2. QED
        BY <3>1
    <2>2. Cardinality(Below(k)) <= Cardinality(Below(h))
      BY <1>1, <1>3, <2>1, FS_Subset
    <2>3. Cardinality(Below(h)) <= N
      BY <1>3
    <2>4. Cardinality(Below(k)) <= N
      <3>1. Cardinality(Below(k)) \in Nat /\ Cardinality(Below(h)) \in Nat
        BY <1>1, <1>2, <1>3
      <3> HIDE DEF Below
      <3>2. QED
        BY <2>2, <2>3, <3>1
    <2>5. QED
      BY <1>3, <2>4
  <1>4. Cardinality(P) <= N
    <2>1. CASE P = {}
      <3>1. Cardinality(P) = 0
        BY <2>1, FS_EmptySet
      <3>2. QED
        BY <3>1
    <2>2. CASE P # {}
      <3>1. PICK p \in P : \A y \in P : p >= y
        BY <1>2, <2>2, LargestExists
      <3>2. P = Below(p)
        BY <1>3, <3>1
      <3>3. QED
        BY <3>1, <3>2
    <2>3. QED
      BY <2>1, <2>2
  <1>5. ASSUME P # S PROVE Cardinality(P) >= N
    <2>1. S \ P # {} /\ IsFiniteSet(S \ P)
      BY <1>5, FS_Subset
    <2>2. PICK h \in S \ P : \A y \in S \ P : h <= y
      BY <2>1, SmallestExists
    <2>3. Below(h) = P \cup {h}
      <3>1. ASSUME NEW k \in S, k <= h PROVE k \in P \cup {h}
        BY <2>2, <3>1
      <3>2. ASSUME NEW k \in P PROVE k <= h
        BY <1>2, <1>3, <2>2, <3>2
      <3>3. QED
        BY <1>2, <2>2, <3>1, <3>2
    <2>4. Cardinality(Below(h)) = Cardinality(P) + 1
      <3>1. Cardinality(P \cup {h}) = Cardinality(P) + 1
        BY <1>2, <2>2, FS_AddElement
      <3> HIDE DEF Below
      <3>2. QED
        BY <2>3, <3>1
    <2>5. ~(Cardinality(Below(h)) <= N)
      BY <2>2
    <2>6. QED
      BY <1>2, <2>4, <2>5
  <1>6. Cardinality(P) = N => P # {}
    BY FS_EmptySet
  <1>7. QED
    BY <1>2, <1>3, <1>4, <1>5, <1>6

--------------------------------------------------------------------------------
(* A finite set of numbers in order.                                         *)

Increasing(f) == \A i, j \in DOMAIN f : i < j => f[i] < f[j]

LEMMA SortedExists ==
  ASSUME NEW S, S \subseteq Int, IsFiniteSet(S)
  PROVE  \E f \in [1 .. Cardinality(S) -> S] : Increasing(f)
  <1> DEFINE N == Cardinality(S)
             Below(t) == {u \in S : u <= t}
             Rank(t) == Cardinality(Below(t))
  <1>1. N \in Nat /\ IsFiniteSet(1 .. N) /\ Cardinality(1 .. N) = N
    BY FS_CardinalityType, FS_Interval
  <1>2. \A t \in S : Rank(t) \in 1 .. N
    <2> SUFFICES ASSUME NEW t \in S PROVE Rank(t) \in 1 .. N
      OBVIOUS
    <2>1. Below(t) \in SUBSET S /\ t \in Below(t)
      OBVIOUS
    <2> HIDE DEF Below
    <2>2. IsFiniteSet(Below(t)) /\ Rank(t) \in Nat /\ Rank(t) <= N /\ Rank(t) # 0
      BY <2>1, FS_Subset, FS_CardinalityType, FS_EmptySet
    <2> HIDE DEF Rank
    <2>3. QED
      BY <1>1, <2>2
  <1>3. \A t, u \in S : t < u => Rank(t) < Rank(u)
    <2> SUFFICES ASSUME NEW t \in S, NEW u \in S, t < u PROVE Rank(t) < Rank(u)
      OBVIOUS
    <2>1. Below(t) \in SUBSET Below(u) /\ Below(u) # Below(t) /\ Below(u) \in SUBSET S
      <3>1. \A v \in S : v <= t => v <= u
        OBVIOUS
      <3>2. u \in Below(u) /\ u \notin Below(t)
        OBVIOUS
      <3>3. QED
        BY <3>1, <3>2
    <2> HIDE DEF Below
    <2>2. Rank(t) <= Rank(u) /\ Rank(t) # Rank(u)
      BY <2>1, FS_Subset
    <2> HIDE DEF Rank
    <2>3. QED
      BY <1>1, <1>2, <2>2
  <1> HIDE DEF Below, Rank, N
  <1>4. \A t, u \in S : Rank(t) = Rank(u) => t = u
    <2>1. \A t, u \in S : t < u \/ u < t \/ t = u
      OBVIOUS
    <2>2. QED
      BY <1>1, <1>2, <1>3, <2>1
  <1>5a. \A t, u \in S : Rank(t) < Rank(u) => t < u
    <2>1. \A t, u \in S : t < u \/ u < t \/ t = u
      OBVIOUS
    <2>2. QED
      BY <1>1, <1>2, <1>3, <2>1
  <1> DEFINE r == [t \in S |-> Rank(t)]
  <1>5. r \in Injection(S, 1 .. N)
    BY <1>2, <1>4 DEF Injection, IsInjective
  <1>6. r \in Surjection(S, 1 .. N)
    BY <1>1, <1>5, FS_Injection DEF N
  <1>7. \A i \in 1 .. N : \E t \in S : Rank(t) = i
    BY <1>6 DEF Surjection
  <1> DEFINE f == [i \in 1 .. N |-> CHOOSE t \in S : Rank(t) = i]
  <1>8. f \in [1 .. N -> S] /\ \A i \in 1 .. N : Rank(f[i]) = i
    BY <1>7
  <1>9. ASSUME NEW i \in 1 .. N, NEW j \in 1 .. N, i < j PROVE f[i] < f[j]
    <2>1. f[i] \in S /\ f[j] \in S /\ Rank(f[i]) = i /\ Rank(f[j]) = j
      BY <1>8
    <2> HIDE DEF f
    <2>2. QED
      BY <1>5a, <1>9, <2>1
  <1>10. QED
    BY <1>8, <1>9 DEF Increasing, N

LEMMA SortedCovers ==
  ASSUME NEW S, S \subseteq Int, IsFiniteSet(S),
         NEW f \in [1 .. Cardinality(S) -> S], Increasing(f)
  PROVE  \A t \in S : \E i \in 1 .. Cardinality(S) : f[i] = t
  <1> DEFINE N == Cardinality(S)
  <1>1. N \in Nat /\ IsFiniteSet(1 .. N) /\ Cardinality(1 .. N) = N
    BY FS_CardinalityType, FS_Interval
  <1>2. ASSUME NEW i \in 1 .. N, NEW j \in 1 .. N, f[i] = f[j] PROVE i = j
    <2>1. f[i] \in S /\ f[j] \in S /\ DOMAIN f = 1 .. N
      OBVIOUS
    <2>2. f[i] \in Int /\ i \in Int /\ j \in Int
      <3>1. \A s \in S : s \in Int
        OBVIOUS
      <3>2. f[i] \in Int
        BY ONLY <3>1, <2>1
      <3>3. QED
        BY <1>1, <3>2
    <2>3. ~(i < j) /\ ~(j < i)
      BY <1>2, <2>1, <2>2 DEF Increasing
    <2>4. QED
      BY <2>2, <2>3
  <1>3. f \in Injection(1 .. N, S)
    BY <1>2 DEF Injection, IsInjective
  <1>4. f \in Surjection(1 .. N, S)
    BY <1>1, <1>3, FS_Injection
  <1>5. QED
    BY <1>4 DEF Surjection

--------------------------------------------------------------------------------
(* Sums over a finite set, in the recursion of MapThenSumSet.                *)

Member(s) == CHOOSE x \in s : TRUE
Summing(F, f, S) ==
    F = [s \in SUBSET S |-> IF s = {} THEN 0 ELSE f[Member(s)] + F[s \ {Member(s)}]]
Total(f, S) == (CHOOSE F : Summing(F, f, S))[S]

LEMMA SummingUnique ==
  ASSUME NEW S, NEW R, NEW F, NEW G, NEW f, NEW g, Summing(F, f, S), Summing(G, g, R),
         NEW T \in SUBSET (S \cap R), IsFiniteSet(T), \A x \in T : f[x] = g[x]
  PROVE  F[T] = G[T]
  <1> DEFINE X == {U \in SUBSET T : F[U] # G[U]}
  <1>1. SUFFICES ASSUME X # {} PROVE FALSE
    OBVIOUS
  <1>2. PICK U \in X : \A V \in X : ~(V \subseteq U /\ V # U)
    <2>1. X \in SUBSET (SUBSET T)
      OBVIOUS
    <2> HIDE DEF X
    <2>2. QED
      BY <1>1, <2>1, SmallestSubset
  <1>3. U \in SUBSET S /\ U \in SUBSET R /\ U \in SUBSET T /\ F[U] # G[U]
    BY <1>2
  <1>4. /\ F[U] = IF U = {} THEN 0 ELSE f[Member(U)] + F[U \ {Member(U)}]
        /\ G[U] = IF U = {} THEN 0 ELSE g[Member(U)] + G[U \ {Member(U)}]
    BY <1>3 DEF Summing
  <1>5. U # {}
    BY <1>3, <1>4
  <1>6. Member(U) \in U
    BY <1>5 DEF Member
  <1>7. U \ {Member(U)} \in SUBSET T /\ U \ {Member(U)} # U /\ U \ {Member(U)} \subseteq U
    BY <1>3, <1>6
  <1>8. U \ {Member(U)} \notin X
    BY <1>2, <1>7
  <1>9. F[U \ {Member(U)}] = G[U \ {Member(U)}]
    BY <1>7, <1>8
  <1>10. f[Member(U)] = g[Member(U)]
    BY <1>3, <1>6
  <1>11. QED
    BY <1>3, <1>4, <1>5, <1>9, <1>10

LEMMA SummingExists ==
  ASSUME NEW S, IsFiniteSet(S), NEW f
  PROVE  \E F : Summing(F, f, S)
  <1> DEFINE X == {U \in SUBSET S : ~\E F : Summing(F, f, U)}
  <1>1. SUFFICES ASSUME X # {} PROVE FALSE
    OBVIOUS
  <1>2. PICK T \in X : \A V \in X : ~(V \subseteq T /\ V # T)
    <2>1. X \in SUBSET (SUBSET S)
      OBVIOUS
    <2> HIDE DEF X
    <2>2. QED
      BY <1>1, <2>1, SmallestSubset
  <1>3. T \in SUBSET S /\ ~\E F : Summing(F, f, T)
    BY <1>2
  <1> DEFINE G(s) == CHOOSE F : Summing(F, f, s)
  <1>4. \A s \in SUBSET T : s # T => Summing(G(s), f, s)
    <2> SUFFICES ASSUME NEW s \in SUBSET T, s # T PROVE Summing(G(s), f, s)
      OBVIOUS
    <2>1. s \notin X /\ s \in SUBSET S
      BY <1>2, <1>3
    <2>2. \E F : Summing(F, f, s)
      BY <2>1
    <2>3. QED
      BY <2>2
  <1> HIDE DEF G, X
  <1> DEFINE F == [s \in SUBSET T |-> IF s = {} THEN 0
                                      ELSE f[Member(s)] + G(s \ {Member(s)})[s \ {Member(s)}]]
  <1>5. ASSUME NEW s \in SUBSET T, s # {}
        PROVE  F[s \ {Member(s)}] = G(s \ {Member(s)})[s \ {Member(s)}]
    <2> DEFINE u == s \ {Member(s)}
    <2>1. u \in SUBSET T /\ u # T
      BY <1>5 DEF Member
    <2> HIDE DEF u
    <2>2. Summing(G(u), f, u)
      BY <1>4, <2>1
    <2>3. G(u)[u] = IF u = {} THEN 0 ELSE f[Member(u)] + G(u)[u \ {Member(u)}]
      BY <2>2 DEF Summing
    <2>4. CASE u = {}
      BY <2>1, <2>3, <2>4 DEF u
    <2>5. CASE u # {}
      <3> DEFINE v == u \ {Member(u)}
      <3>1. v \in SUBSET T /\ v # T /\ v \in SUBSET u
        BY <2>1
      <3>2. IsFiniteSet(v)
        BY <1>3, <3>1, FS_Subset
      <3> HIDE DEF v
      <3>3. Summing(G(v), f, v)
        BY <1>4, <3>1
      <3>4. G(v)[v] = G(u)[v]
        BY <2>2, <3>1, <3>2, <3>3, SummingUnique
      <3>5. F[u] = f[Member(u)] + G(v)[v]
        BY <2>1, <2>5 DEF v
      <3>6. QED
        BY <2>3, <2>5, <3>4, <3>5 DEF u, v
    <2>6. QED
      BY <2>4, <2>5
  <1>6. F = [s \in SUBSET T |-> IF s = {} THEN 0 ELSE f[Member(s)] + F[s \ {Member(s)}]]
    <2> DEFINE H == [s \in SUBSET T |-> IF s = {} THEN 0 ELSE f[Member(s)] + F[s \ {Member(s)}]]
    <2>1. \A s \in SUBSET T : F[s] = H[s]
      <3> SUFFICES ASSUME NEW s \in SUBSET T PROVE F[s] = H[s]
        OBVIOUS
      <3>1. CASE s = {}
        BY <3>1
      <3>2. CASE s # {}
        <4>1. F[s] = f[Member(s)] + G(s \ {Member(s)})[s \ {Member(s)}]
          BY <3>2
        <4>2. F[s \ {Member(s)}] = G(s \ {Member(s)})[s \ {Member(s)}]
          BY <1>5, <3>2
        <4>3. H[s] = f[Member(s)] + F[s \ {Member(s)}]
          <5> HIDE DEF F
          <5>1. QED
            BY <3>2
        <4> HIDE DEF F, H
        <4>4. QED
          BY <4>1, <4>2, <4>3
      <3>3. QED
        BY <3>1, <3>2
    <2>2. F = [s \in SUBSET T |-> F[s]] /\ H = [s \in SUBSET T |-> H[s]]
      OBVIOUS
    <2> HIDE DEF F, H
    <2>3. F = H
      BY <2>1, <2>2
    <2>4. QED
      BY <2>3 DEF H
  <1> HIDE DEF F
  <1>7. Summing(F, f, T)
    BY <1>6 DEF Summing
  <1>8. QED
    BY <1>3, <1>7

\* The sum of naturals is a natural, and any element may be taken first.
LEMMA SummingMember ==
  ASSUME NEW S, IsFiniteSet(S), NEW f, \A x \in S : f[x] \in Nat, NEW F, Summing(F, f, S)
  PROVE  /\ F[{}] = 0
         /\ \A T \in SUBSET S : F[T] \in Nat /\ \A x \in T : F[T] = f[x] + F[T \ {x}]
  <1>1. \A T \in SUBSET S : F[T] = IF T = {} THEN 0 ELSE f[Member(T)] + F[T \ {Member(T)}]
    BY DEF Summing
  <1>2. \A T \in SUBSET S : T # {} => Member(T) \in T
    BY DEF Member
  <1> DEFINE X == {U \in SUBSET S : ~(F[U] \in Nat /\ \A x \in U : F[U] = f[x] + F[U \ {x}])}
  <1>3. X = {}
    <2>1. SUFFICES ASSUME X # {} PROVE FALSE
      OBVIOUS
    <2>2. PICK T \in X : \A V \in X : ~(V \subseteq T /\ V # T)
      <3>1. X \in SUBSET (SUBSET S)
        OBVIOUS
      <3> HIDE DEF X
      <3>2. QED
        BY <2>1, <3>1, SmallestSubset
    <2>3. T \in SUBSET S /\ ~(F[T] \in Nat /\ \A x \in T : F[T] = f[x] + F[T \ {x}])
      BY <2>2
    <2>4. \A V \in SUBSET T : V # T =>
            F[V] \in Nat /\ \A x \in V : F[V] = f[x] + F[V \ {x}]
      BY <2>2, <2>3
    <2> HIDE DEF X
    <2>5. T # {}
      <3>1. SUFFICES ASSUME T = {} PROVE FALSE
        OBVIOUS
      <3>2. F[T] = 0
        BY <1>1, <2>3, <3>1
      <3>3. QED
        BY <2>3, <3>1, <3>2
    <2> DEFINE c == Member(T)
    <2>6. c \in T /\ F[T] = f[c] + F[T \ {c}]
      BY <1>1, <1>2, <2>3, <2>5
    <2> HIDE DEF c
    <2>7. F[T \ {c}] \in Nat /\ f[c] \in Nat
      BY <2>3, <2>4, <2>6
    <2>8. ASSUME NEW x \in T PROVE F[T] = f[x] + F[T \ {x}]
      <3>1. CASE x = c
        BY <2>6, <3>1
      <3>2. CASE x # c
        <4>1. x \in T \ {c} /\ c \in T \ {x} /\ T \ {c} # T /\ T \ {x} # T
          BY <2>6, <3>2
        <4>2. F[T \ {c}] = f[x] + F[(T \ {c}) \ {x}]
          BY <2>4, <4>1
        <4>3. F[T \ {x}] = f[c] + F[(T \ {x}) \ {c}]
          BY <2>4, <4>1
        <4>4. (T \ {c}) \ {x} = (T \ {x}) \ {c}
          OBVIOUS
        <4> DEFINE r == F[(T \ {x}) \ {c}]
        <4>5. (T \ {x}) \ {c} \in SUBSET T /\ (T \ {x}) \ {c} # T
          BY <4>1
        <4>6. r \in Nat /\ f[x] \in Nat
          BY <2>3, <2>4, <4>5
        <4>7. F[T] = f[c] + (f[x] + r) /\ F[T \ {x}] = f[c] + r
          BY <2>6, <4>2, <4>3, <4>4
        <4> HIDE DEF r
        <4>8. QED
          BY <2>7, <4>6, <4>7
      <3>3. QED
        BY <3>1, <3>2
    <2>9. QED
      BY <2>3, <2>6, <2>7, <2>8
  <1>4. F[{}] = 0
    BY <1>1
  <1>5. QED
    BY <1>3, <1>4

LEMMA TotalIs ==
  ASSUME NEW S, IsFiniteSet(S), NEW f, \A x \in S : f[x] \in Nat
  PROVE  /\ Total(f, S) \in Nat /\ Total(f, {}) = 0
         /\ \A x \in S : Total(f, S) = f[x] + Total(f, S \ {x})
  <1> DEFINE Of(T) == CHOOSE F : Summing(F, f, T)
  <1>1. \A T \in SUBSET S : Summing(Of(T), f, T)
    <2> SUFFICES ASSUME NEW T \in SUBSET S PROVE Summing(Of(T), f, T)
      OBVIOUS
    <2>1. IsFiniteSet(T)
      BY FS_Subset
    <2>2. \E F : Summing(F, f, T)
      BY <2>1, SummingExists
    <2>3. QED
      BY <2>2
  <1>2. \A T : Total(f, T) = Of(T)[T]
    BY DEF Total
  <1> HIDE DEF Of
  <1>3. Total(f, {}) = 0
    <2>1. Summing(Of({}), f, {})
      BY <1>1
    <2>2. Of({})[{}] = 0
      BY <2>1 DEF Summing
    <2>3. QED
      BY <1>2, <2>2
  <1>4. Total(f, S) \in Nat /\ \A x \in S : Total(f, S) = f[x] + Of(S)[S \ {x}]
    BY <1>1, <1>2, SummingMember
  <1>5. ASSUME NEW x \in S PROVE Of(S)[S \ {x}] = Total(f, S \ {x})
    <2>1. S \ {x} \in SUBSET S /\ IsFiniteSet(S \ {x})
      BY FS_Subset
    <2>2. Summing(Of(S), f, S) /\ Summing(Of(S \ {x}), f, S \ {x})
      BY <1>1, <2>1
    <2>3. S \ {x} \in SUBSET (S \cap (S \ {x}))
      OBVIOUS
    <2>4. Of(S)[S \ {x}] = Of(S \ {x})[S \ {x}]
      BY <2>1, <2>2, <2>3, SummingUnique
    <2>5. QED
      BY <1>2, <2>4
  <1>6. QED
    BY <1>3, <1>4, <1>5

LEMMA TotalSame ==
  ASSUME NEW S, IsFiniteSet(S), NEW f, NEW g, \A x \in S : f[x] = g[x]
  PROVE  Total(f, S) = Total(g, S)
  <1>1. (\E F : Summing(F, f, S)) /\ (\E G : Summing(G, g, S))
    BY SummingExists
  <1> DEFINE F == CHOOSE F : Summing(F, f, S)
             G == CHOOSE G : Summing(G, g, S)
  <1>2. Summing(F, f, S) /\ Summing(G, g, S)
    BY <1>1
  <1>3. Total(f, S) = F[S] /\ Total(g, S) = G[S]
    BY DEF Total
  <1> HIDE DEF F, G
  <1>4. S \in SUBSET (S \cap S)
    OBVIOUS
  <1>5. QED
    BY <1>2, <1>3, <1>4, SummingUnique

\* What changes at one element changes the sum by as much.
LEMMA TotalChange ==
  ASSUME NEW S, IsFiniteSet(S), NEW f, NEW g, \A x \in S : f[x] \in Nat /\ g[x] \in Nat,
         NEW y \in S, \A x \in S \ {y} : f[x] = g[x]
  PROVE  Total(g, S) + f[y] = Total(f, S) + g[y]
  <1>1. IsFiniteSet(S \ {y})
    BY FS_Subset
  <1>2. Total(f, S \ {y}) = Total(g, S \ {y})
    BY <1>1, TotalSame
  <1>3. /\ Total(f, S) = f[y] + Total(f, S \ {y})
        /\ Total(g, S) = g[y] + Total(g, S \ {y})
    BY TotalIs
  <1>4. Total(f, S \ {y}) \in Nat
    BY <1>1, TotalIs
  <1>5. f[y] \in Nat /\ g[y] \in Nat
    OBVIOUS
  <1>6. QED
    BY <1>2, <1>3, <1>4, <1>5

LEMMA TotalMonotone ==
  ASSUME NEW S, IsFiniteSet(S), NEW f, NEW g,
         \A x \in S : f[x] \in Nat /\ g[x] \in Nat /\ f[x] <= g[x]
  PROVE  Total(f, S) <= Total(g, S)
  <1> DEFINE X == {U \in SUBSET S : ~(Total(f, U) <= Total(g, U))}
  <1>1. SUFFICES ASSUME X # {} PROVE FALSE
    OBVIOUS
  <1>2. PICK T \in X : \A V \in X : ~(V \subseteq T /\ V # T)
    <2>1. X \in SUBSET (SUBSET S)
      OBVIOUS
    <2> HIDE DEF X
    <2>2. QED
      BY <1>1, <2>1, SmallestSubset
  <1>3. T \in SUBSET S /\ ~(Total(f, T) <= Total(g, T))
    BY <1>2
  <1>4. \A U \in SUBSET S : IsFiniteSet(U)
    BY FS_Subset
  <1>5. Total(f, {}) = 0 /\ Total(g, {}) = 0
    BY TotalIs
  <1>6. PICK y \in T : TRUE
    BY <1>3, <1>5
  <1>7. T \ {y} \in SUBSET S /\ T \ {y} # T /\ T \ {y} \subseteq T
    BY <1>3, <1>6
  <1>8. Total(f, T \ {y}) <= Total(g, T \ {y})
    BY <1>2, <1>7
  <1>9. /\ Total(f, T) = f[y] + Total(f, T \ {y}) /\ Total(g, T) = g[y] + Total(g, T \ {y})
        /\ Total(f, T \ {y}) \in Nat /\ Total(g, T \ {y}) \in Nat
    <2>1. \A x \in T : f[x] \in Nat /\ g[x] \in Nat
      BY <1>3
    <2>2. IsFiniteSet(T) /\ IsFiniteSet(T \ {y})
      BY <1>3, <1>4, <1>7
    <2>3. QED
      BY <2>1, <2>2, TotalIs
  <1>10. f[y] \in Nat /\ g[y] \in Nat /\ f[y] <= g[y]
    BY <1>3, <1>6
  <1> HIDE DEF X
  <1>11. QED
    BY <1>3, <1>8, <1>9, <1>10

\* Elements that count for nothing may be left out.
LEMMA TotalSubset ==
  ASSUME NEW S, IsFiniteSet(S), NEW f, \A x \in S : f[x] \in Nat,
         NEW T \in SUBSET S, \A x \in S \ T : f[x] = 0
  PROVE  Total(f, T) = Total(f, S)
  <1> DEFINE X == {U \in SUBSET (S \ T) : Total(f, T \cup U) # Total(f, T)}
  <1>1. X = {}
    <2>1. SUFFICES ASSUME X # {} PROVE FALSE
      OBVIOUS
    <2>2. IsFiniteSet(S \ T)
      BY FS_Subset
    <2>3. PICK U \in X : \A V \in X : ~(V \subseteq U /\ V # U)
      <3>1. X \in SUBSET (SUBSET (S \ T))
        OBVIOUS
      <3> HIDE DEF X
      <3>2. QED
        BY <2>1, <2>2, <3>1, SmallestSubset
    <2>4. U \in SUBSET (S \ T) /\ Total(f, T \cup U) # Total(f, T)
      BY <2>3
    <2>5. U # {}
      <3>1. SUFFICES ASSUME U = {} PROVE FALSE
        OBVIOUS
      <3>2. T \cup U = T
        BY <3>1
      <3>3. QED
        BY <2>4, <3>2
    <2>6. PICK y \in U : TRUE
      BY <2>5
    <2>7. U \ {y} \in SUBSET (S \ T) /\ U \ {y} # U /\ U \ {y} \subseteq U
      BY <2>4, <2>6
    <2>8. Total(f, T \cup (U \ {y})) = Total(f, T)
      BY <2>3, <2>7
    <2>9. (T \cup U) \ {y} = T \cup (U \ {y}) /\ y \in T \cup U /\ f[y] = 0
      BY <2>4, <2>6
    <2>10. T \cup U \in SUBSET S /\ T \cup (U \ {y}) \in SUBSET S
      BY <2>4, <2>7
    <2>11. IsFiniteSet(T \cup U) /\ IsFiniteSet(T \cup (U \ {y}))
      BY <2>10, FS_Subset
    <2>12. Total(f, T \cup U) = f[y] + Total(f, (T \cup U) \ {y})
      <3>1. \A x \in T \cup U : f[x] \in Nat
        BY <2>10
      <3>2. QED
        BY <2>9, <2>11, <3>1, TotalIs
    <2>13. Total(f, T \cup (U \ {y})) \in Nat
      <3>1. \A x \in T \cup (U \ {y}) : f[x] \in Nat
        BY <2>10
      <3>2. QED
        BY <2>11, <3>1, TotalIs
    <2>14. Total(f, T \cup U) = 0 + Total(f, T \cup (U \ {y}))
      BY <2>9, <2>12, Zenon
    <2>15. Total(f, T \cup U) = Total(f, T \cup (U \ {y}))
      BY ONLY <2>13, <2>14
    <2>16. QED
      BY <2>4, <2>8, <2>15, Zenon
  <1>2. T \cup (S \ T) = S
    OBVIOUS
  <1>3. Total(f, T \cup (S \ T)) = Total(f, T)
    BY <1>1
  <1>4. QED
    BY <1>2, <1>3

\* The sum over two sets that share nothing.
LEMMA TotalDisjoint ==
  ASSUME NEW S, IsFiniteSet(S), NEW f, \A x \in S : f[x] \in Nat,
         NEW A \in SUBSET S, NEW B \in SUBSET S, A \cap B = {}
  PROVE  Total(f, A \cup B) = Total(f, A) + Total(f, B)
  <1> DEFINE X == {U \in SUBSET B : Total(f, A \cup U) # Total(f, A) + Total(f, U)}
  <1>0. IsFiniteSet(B) /\ \A U \in SUBSET S : IsFiniteSet(U) /\ Total(f, U) \in Nat /\ Total(f, {}) = 0
    <2>1. \A U \in SUBSET S : IsFiniteSet(U)
      BY FS_Subset
    <2>2. QED
      BY <2>1, TotalIs
  <1>1. SUFFICES ASSUME X # {} PROVE FALSE
    OBVIOUS
  <1>2. PICK U \in X : \A V \in X : ~(V \subseteq U /\ V # U)
    <2>1. X \in SUBSET (SUBSET B)
      OBVIOUS
    <2> HIDE DEF X
    <2>2. QED
      BY <1>0, <1>1, <2>1, SmallestSubset
  <1>3. U \in SUBSET B /\ U \in SUBSET S /\ A \cup U \in SUBSET S
        /\ Total(f, A \cup U) # Total(f, A) + Total(f, U)
    BY <1>2
  <1>4. U # {}
    <2>1. SUFFICES ASSUME U = {} PROVE FALSE
      OBVIOUS
    <2>2. A \cup U = A /\ Total(f, U) = 0 /\ Total(f, A) \in Nat
      BY <1>0, <2>1
    <2>3. Total(f, A) = Total(f, A) + Total(f, U)
      BY <2>2
    <2>4. QED
      BY <1>3, <2>2, <2>3, Zenon
  <1>5. PICK y \in U : TRUE
    BY <1>4
  <1> DEFINE V == U \ {y}
  <1>6. V \in SUBSET B /\ V \in SUBSET S /\ A \cup V \in SUBSET S /\ V # U /\ V \subseteq U
    BY <1>3, <1>5
  <1>7. Total(f, A \cup V) = Total(f, A) + Total(f, V)
    BY <1>2, <1>6
  <1>8. Total(f, U) = f[y] + Total(f, V)
    <2>1. IsFiniteSet(U) /\ \A x \in U : f[x] \in Nat
      BY <1>0, <1>3
    <2>2. QED
      BY <1>5, <2>1, TotalIs
  <1>9. Total(f, A \cup U) = f[y] + Total(f, A \cup V)
    <2>1. IsFiniteSet(A \cup U) /\ \A x \in A \cup U : f[x] \in Nat
      BY <1>0, <1>3
    <2>2. y \in A \cup U /\ (A \cup U) \ {y} = A \cup V
      BY <1>3, <1>5
    <2>3. Total(f, A \cup U) = f[y] + Total(f, (A \cup U) \ {y})
      BY <2>1, <2>2, TotalIs
    <2> HIDE DEF V
    <2>4. QED
      BY <2>2, <2>3
  <1>10. f[y] \in Nat /\ Total(f, A) \in Nat /\ Total(f, V) \in Nat
    BY <1>0, <1>3, <1>5, <1>6
  <1> HIDE DEF V
  <1>11. f[y] + (Total(f, A) + Total(f, V)) = Total(f, A) + (f[y] + Total(f, V))
    BY <1>10
  <1>12. QED
    BY <1>3, <1>7, <1>8, <1>9, <1>11, Zenon

\* The sum of as many ones.
LEMMA TotalOnes ==
  ASSUME NEW S, IsFiniteSet(S), NEW f, \A x \in S : f[x] = 1
  PROVE  Total(f, S) = Cardinality(S)
  <1> DEFINE X == {U \in SUBSET S : Total(f, U) # Cardinality(U)}
  <1>0. \A U \in SUBSET S : /\ IsFiniteSet(U) /\ Cardinality(U) \in Nat
                            /\ \A x \in U : f[x] \in Nat
    BY FS_Subset, FS_CardinalityType
  <1>1. SUFFICES ASSUME X # {} PROVE FALSE
    OBVIOUS
  <1>2. PICK U \in X : \A V \in X : ~(V \subseteq U /\ V # U)
    <2>1. X \in SUBSET (SUBSET S)
      OBVIOUS
    <2> HIDE DEF X
    <2>2. QED
      BY <1>1, <2>1, SmallestSubset
  <1>3. U \in SUBSET S /\ Total(f, U) # Cardinality(U)
    BY <1>2
  <1>4. U # {}
    <2>1. SUFFICES ASSUME U = {} PROVE FALSE
      OBVIOUS
    <2>2. Total(f, {}) = 0
      BY <1>0, <1>3, TotalIs
    <2>3. QED
      BY <1>3, <2>1, <2>2, FS_EmptySet
  <1>5. PICK y \in U : TRUE
    BY <1>4
  <1> DEFINE V == U \ {y}
  <1>6. V \in SUBSET S /\ V # U /\ V \subseteq U
    BY <1>3, <1>5
  <1>7. Total(f, V) = Cardinality(V)
    BY <1>2, <1>6
  <1>8. Total(f, U) = f[y] + Total(f, V) /\ f[y] = 1
    BY <1>0, <1>3, <1>5, TotalIs
  <1>9. Cardinality(V) = Cardinality(U) - 1
    BY <1>0, <1>3, <1>5, FS_RemoveElement
  <1>10. Cardinality(U) \in Nat
    BY <1>0, <1>3
  <1> HIDE DEF V
  <1>11. QED
    BY <1>3, <1>7, <1>8, <1>9, <1>10

\* The sum of the sums over parts that share nothing is the sum over their union.
LEMMA TotalOfParts ==
  ASSUME NEW S, IsFiniteSet(S), NEW w, \A x \in S : w[x] \in Nat,
         NEW B, IsFiniteSet(B), NEW part \in [B -> SUBSET S],
         \A b, c \in B : b # c => part[b] \cap part[c] = {},
         NEW f, \A b \in B : f[b] = Total(w, part[b])
  PROVE  Total(f, B) = Total(w, UNION {part[b] : b \in B})
  <1> DEFINE All(U) == UNION {part[b] : b \in U}
             X == {U \in SUBSET B : Total(f, U) # Total(w, All(U))}
  <1>0. /\ \A U \in SUBSET S : IsFiniteSet(U) /\ Total(w, U) \in Nat /\ Total(w, {}) = 0
        /\ \A b \in B : f[b] \in Nat
    <2>1. \A U \in SUBSET S : IsFiniteSet(U)
      BY FS_Subset
    <2>2. \A U \in SUBSET S : Total(w, U) \in Nat /\ Total(w, {}) = 0
      BY <2>1, TotalIs
    <2>3. QED
      BY <2>1, <2>2
  <1>1. SUFFICES ASSUME X # {} PROVE FALSE
    <2>1. X = {} => Total(f, B) = Total(w, All(B))
      OBVIOUS
    <2>2. QED
      BY <2>1
  <1>2. PICK U \in X : \A V \in X : ~(V \subseteq U /\ V # U)
    <2>1. X \in SUBSET (SUBSET B)
      OBVIOUS
    <2> HIDE DEF X
    <2>2. QED
      BY <1>1, <2>1, SmallestSubset
  <1>3. U \in SUBSET B /\ Total(f, U) # Total(w, All(U))
    BY <1>2
  <1>a. IsFiniteSet(U) /\ \A b \in U : f[b] \in Nat
    BY <1>0, <1>3, FS_Subset
  <1>4. U # {}
    <2>1. SUFFICES ASSUME U = {} PROVE FALSE
      OBVIOUS
    <2>2. All(U) = {} /\ Total(f, {}) = 0
      BY <1>a, <2>1, TotalIs
    <2>3. Total(w, {}) = 0
      BY <1>0
    <2> HIDE DEF All
    <2>4. QED
      BY <1>3, <2>1, <2>2, <2>3
  <1>5. PICK y \in U : TRUE
    BY <1>4
  <1> DEFINE V == U \ {y}
  <1>6. V \in SUBSET B /\ V # U /\ V \subseteq U
    BY <1>3, <1>5
  <1>7. Total(f, V) = Total(w, All(V))
    BY <1>2, <1>6
  <1>8. Total(f, U) = f[y] + Total(f, V) /\ f[y] = Total(w, part[y])
    BY <1>a, <1>3, <1>5, TotalIs
  <1>9. /\ All(U) = part[y] \cup All(V) /\ part[y] \cap All(V) = {}
        /\ part[y] \in SUBSET S /\ All(V) \in SUBSET S
    BY <1>3, <1>5, <1>6
  <1> HIDE DEF All, V, X
  <1>10. Total(w, All(U)) = Total(w, part[y]) + Total(w, All(V))
    BY <1>9, TotalDisjoint
  <1>11. QED
    BY <1>3, <1>7, <1>8, <1>10

--------------------------------------------------------------------------------
(* Ranks in a finite order.                                                  *)

\* The rank of an element of a finite set under a strict total order, given by the elements
\* below each one: the ranks are the numbers from 0 on, each taken once.
LEMMA RanksAreDense ==
  ASSUME NEW S, IsFiniteSet(S), NEW below \in [S -> SUBSET S],
         \A h \in S : h \notin below[h],
         \A g, h \in S : g \in below[h] => below[g] \subseteq below[h],
         \A g, h \in S : g = h \/ g \in below[h] \/ h \in below[g]
  PROVE  /\ Cardinality(S) \in Nat
         /\ [h \in S |-> Cardinality(below[h])] \in Bijection(S, 0 .. Cardinality(S) - 1)
  <1> DEFINE n == Cardinality(S)
             rank == [h \in S |-> Cardinality(below[h])]
  <1>1. n \in Nat
    BY FS_CardinalityType
  <1>2. \A h \in S : IsFiniteSet(below[h]) /\ rank[h] = Cardinality(below[h]) /\ rank[h] \in Nat
    <2> SUFFICES ASSUME NEW h \in S
                 PROVE  IsFiniteSet(below[h]) /\ Cardinality(below[h]) \in Nat
      OBVIOUS
    <2>1. below[h] \in SUBSET S
      OBVIOUS
    <2>2. QED
      BY <2>1, FS_Subset, FS_CardinalityType
  <1>3. ASSUME NEW g \in S, NEW h \in S, g \in below[h] PROVE rank[g] < rank[h]
    <2>1. below[g] \in SUBSET below[h] /\ below[g] # below[h]
      BY <1>3
    <2>2. Cardinality(below[g]) <= Cardinality(below[h])
          /\ Cardinality(below[g]) # Cardinality(below[h])
      BY <1>2, <2>1, FS_Subset
    <2>3. QED
      BY <1>2, <2>2
  <1>4. ASSUME NEW h \in S PROVE rank[h] \in 0 .. n - 1
    <2>1. below[h] \in SUBSET S /\ below[h] # S
      OBVIOUS
    <2>2. Cardinality(below[h]) <= n /\ Cardinality(below[h]) # n
      BY <2>1, FS_Subset
    <2> HIDE DEF rank, n
    <2>3. QED
      BY <1>1, <1>2, <2>2
  <1>5. IsFiniteSet(0 .. n - 1) /\ Cardinality(0 .. n - 1) = n
    <2>1. 0 \in Int /\ n - 1 \in Int
      BY <1>1
    <2>2. IsFiniteSet(0 .. n - 1) /\ Cardinality(0 .. n - 1) = IF 0 > n - 1 THEN 0 ELSE n - 1 - 0 + 1
      BY <2>1, FS_Interval
    <2> HIDE DEF n
    <2>3. QED
      BY <1>1, <2>2
  <1>6. rank \in Injection(S, 0 .. n - 1)
    <2>1. rank \in [S -> 0 .. n - 1]
      BY <1>4
    <2>2. ASSUME NEW g \in S, NEW h \in S, rank[g] = rank[h] PROVE g = h
      <3>1. rank[g] \in Nat /\ rank[h] \in Nat
        BY <1>2
      <3> HIDE DEF rank
      <3>2. QED
        BY <1>3, <2>2, <3>1
    <2> HIDE DEF rank, n
    <2>3. QED
      BY <2>1, <2>2 DEF Injection, IsInjective
  <1>7. rank \in Surjection(S, 0 .. n - 1)
    <2> HIDE DEF rank
    <2>1. QED
      BY <1>5, <1>6, FS_Injection
  <1>8. QED
    BY <1>1, <1>6, <1>7 DEF Bijection

\* How many elements have a rank of an interval: as many as its length, when the ranks reach
\* its end, and never more.
LEMMA RankedInterval ==
  ASSUME NEW S, NEW n \in Nat, NEW rank \in Bijection(S, 0 .. n - 1), IsFiniteSet(S),
         NEW a \in Nat, NEW b \in Int, a <= b + 1,
         NEW P, P = {h \in S : rank[h] \in a .. b}
  PROVE  /\ Cardinality(P) \in Nat /\ Cardinality(P) <= b - a + 1
         /\ b < n => Cardinality(P) = b - a + 1
  <1> DEFINE part == [h \in P |-> rank[h]]
  <1>1. /\ rank \in [S -> 0 .. n - 1]
        /\ \A g, h \in S : rank[g] = rank[h] => g = h
        /\ \A k \in 0 .. n - 1 : \E h \in S : rank[h] = k
    BY DEF Bijection, Injection, Surjection, IsInjective
  <1>2. IsFiniteSet(a .. b) /\ Cardinality(a .. b) = b - a + 1
    <2>1. a \in Int /\ b \in Int
      OBVIOUS
    <2>2. IsFiniteSet(a .. b) /\ Cardinality(a .. b) = IF a > b THEN 0 ELSE b - a + 1
      BY <2>1, FS_Interval
    <2>3. QED
      BY <2>2
  <1>3. part \in Injection(P, a .. b)
    BY <1>1 DEF Injection, IsInjective
  <1>4. /\ IsFiniteSet(P) /\ Cardinality(P) <= Cardinality(a .. b)
        /\ part \in Surjection(P, a .. b) => Cardinality(P) = Cardinality(a .. b)
    <2> HIDE DEF part
    <2>1. QED
      BY <1>2, <1>3, FS_Injection
  <1>5. Cardinality(P) \in Nat
    BY <1>4, FS_CardinalityType
  <1>6. ASSUME b < n PROVE part \in Surjection(P, a .. b)
    <2>1. \A k \in a .. b : \E h \in P : part[h] = k
      <3> SUFFICES ASSUME NEW k \in a .. b PROVE \E h \in P : part[h] = k
        OBVIOUS
      <3>1. k \in 0 .. n - 1
        BY <1>6
      <3>2. PICK h \in S : rank[h] = k
        BY <1>1, <3>1
      <3>3. QED
        BY <3>2
    <2>2. part \in [P -> a .. b]
      OBVIOUS
    <2> HIDE DEF part
    <2>3. QED
      BY <2>1, <2>2 DEF Surjection
  <1>7. QED
    BY <1>2, <1>4, <1>5, <1>6

\* Products keep the order, and each number lies in one of the intervals of a length.
LEMMA Intervals ==
  ASSUME NEW size \in Nat \ {0}
  PROVE  /\ \A p \in Nat : p * size \in Nat /\ (p - 1) * size = p * size - size
         /\ \A p, q \in Nat : p <= q => p * size <= q * size
         /\ \A k \in Nat : \E p \in 1 .. k + 1 : k \in (p - 1) * size .. p * size - 1
  <1>1. \A p \in Nat : p * size \in Nat /\ (p - 1) * size = p * size - size
    OBVIOUS
  <1>2. \A p, q \in Nat : p <= q => p * size <= q * size
    <2> SUFFICES ASSUME NEW p \in Nat, NEW q \in Nat, p <= q PROVE p * size <= q * size
      OBVIOUS
    <2>1. q - p \in Nat /\ (q - p) * size \in Nat
      OBVIOUS
    <2>2. q * size = p * size + (q - p) * size
      OBVIOUS
    <2>3. QED
      BY <2>1, <2>2
  <1>3. ASSUME NEW k \in Nat PROVE \E p \in 1 .. k + 1 : k \in (p - 1) * size .. p * size - 1
    <2>1. PICK d \in Nat : d <= k /\ size * d <= k /\ k < size * d + size
      <3>1. /\ k \div size \in Nat /\ k \div size <= k
            /\ k = size * (k \div size) + (k % size) /\ k % size \in 0 .. size - 1
        OBVIOUS
      <3>2. size * (k \div size) \in Nat
        BY <3>1
      <3>3. PICK d \in Nat : d = k \div size
        BY <3>1
      <3>4. d <= k /\ size * d <= k /\ k < size * d + size
        BY <3>1, <3>2, <3>3
      <3>5. QED
        BY <3>4
    <2>2. PICK p \in 1 .. k + 1 : p = d + 1
      BY <2>1
    <2>3. (p - 1) * size = size * d /\ p * size = size * d + size
      BY <2>2
    <2>4. QED
      BY <2>1, <2>3
  <1>4. QED
    BY <1>1, <1>2, <1>3

================================================================================
