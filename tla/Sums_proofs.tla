----------------------------- MODULE Sums_proofs -----------------------------
(***************************************************************************)
(* Laws of sums over finite sets. A sum is computed by recursion over a    *)
(* set, so they are proved by induction: a set of subsets that contains    *)
(* every subset all of whose strict subsets it contains, contains all      *)
(* (SubsetInduction, from the well-foundedness of strict inclusion).       *)
(***************************************************************************)
EXTENDS Sums, FiniteSetTheorems, WellFoundedInduction, TLAPS

\* Partial sums, as the fold of the library adds them up.
One(s) == CHOOSE x \in s : TRUE
Adds(g, f, D) ==
  g = [s \in D |-> IF s = {} THEN 0 ELSE f[One(s)] + g[s \ {One(s)}]]

\* A sum is the last partial sum.
LEMMA Unfolded ==
  ASSUME NEW f, NEW S
  PROVE  SumOf(f, S) = (CHOOSE g : Adds(g, f, SUBSET S))[S]
BY DEF SumOf, MapThenSumSet, MapThenFoldSet, Adds, One

\* Induction over the subsets of a finite set.
LEMMA SubsetInduction ==
  ASSUME NEW S, IsFiniteSet(S), NEW G,
         \A T \in SUBSET S : (\A U \in SUBSET T : U # T => U \in G) => T \in G
  PROVE  \A T \in SUBSET S : T \in G
<1> DEFINE B == {T \in SUBSET S : T \notin G}
<1>1. SUFFICES ASSUME B # {} PROVE FALSE
  OBVIOUS
<1>2. B \subseteq FiniteSubsetsOf(S)
  BY FS_Subset DEF FiniteSubsetsOf
<1>3. PICK T \in B : \A U \in B : ~(<<U, T>> \in StrictSubsetOrdering(S))
  <2> HIDE DEF B
  <2>1. IsWellFoundedOn(StrictSubsetOrdering(S), FiniteSubsetsOf(S))
    BY FS_StrictSubsetOrderingWellFounded
  <2>2. \E T \in B : \A U \in B : ~(<<U, T>> \in StrictSubsetOrdering(S))
    BY <1>1, <1>2, <2>1, WFMin
  <2> QED BY <2>2
<1>4. \A U \in SUBSET T : U # T => U \in G
  BY <1>3 DEF StrictSubsetOrdering
<1> QED BY <1>4

LEMMA OneMember == ASSUME NEW s, s # {} PROVE One(s) \in s
BY DEF One

\* Partial sums agree, whatever set they were made for.
LEMMA AddsAgree ==
  ASSUME NEW f, NEW S, IsFiniteSet(S), NEW D, NEW E, SUBSET S \subseteq D, SUBSET S \subseteq E,
         NEW g, NEW h, Adds(g, f, D), Adds(h, f, E)
  PROVE  g[S] = h[S]
<1> DEFINE G == {T \in SUBSET S : g[T] = h[T]}
<1>1. ASSUME NEW T \in SUBSET S, \A U \in SUBSET T : U # T => U \in G
      PROVE  T \in G
  <2>1. CASE T = {}
    BY <2>1 DEF Adds
  <2>2. CASE T # {}
    <3>1. T \ {One(T)} \in SUBSET T /\ T \ {One(T)} # T
      BY <2>2, OneMember
    <3>2. g[T \ {One(T)}] = h[T \ {One(T)}]
      BY <3>1, <1>1
    <3>3. T \in D /\ T \in E
      OBVIOUS
    <3> QED BY <2>2, <3>2, <3>3 DEF Adds
  <2> QED BY <2>1, <2>2
<1>2. \A T \in SUBSET S : T \in G
  <2> HIDE DEF G
  <2> QED BY <1>1, SubsetInduction
<1> QED BY <1>2

\* There are partial sums.
LEMMA AddsExist ==
  ASSUME NEW f, NEW S, IsFiniteSet(S)
  PROVE  \E g : Adds(g, f, SUBSET S)
<1> DEFINE G == {T \in SUBSET S : \E g : Adds(g, f, SUBSET T)}
<1>1. ASSUME NEW T \in SUBSET S, \A U \in SUBSET T : U # T => U \in G
      PROVE  T \in G
  <2> DEFINE P == (SUBSET T) \ {T}
             at(U) == CHOOSE g : Adds(g, f, SUBSET U)
             sum == [U \in P |-> at(U)[U]]
             all == [U \in SUBSET T |-> IF U \in P THEN sum[U]
                       ELSE IF T = {} THEN 0 ELSE f[One(T)] + sum[T \ {One(T)}]]
  <2>1. \A U \in P : Adds(at(U), f, SUBSET U)
    BY <1>1
  <2>2. \A U \in P : \A V \in SUBSET U : at(U)[V] = at(V)[V]
    <3> SUFFICES ASSUME NEW U \in P, NEW V \in SUBSET U PROVE at(U)[V] = at(V)[V]
      OBVIOUS
    <3>1. V \in P /\ IsFiniteSet(V)
      BY FS_Subset
    <3>2. Adds(at(U), f, SUBSET U) /\ Adds(at(V), f, SUBSET V)
      BY <2>1, <3>1
    <3> HIDE DEF at
    <3> QED BY <3>1, <3>2, AddsAgree
  <2>3. ASSUME NEW U \in P
        PROVE  all[U] = IF U = {} THEN 0 ELSE f[One(U)] + all[U \ {One(U)}]
    <3>1. all[U] = at(U)[U]
      OBVIOUS
    <3>2. CASE U = {}
      <4>1. Adds(at(U), f, SUBSET U)
        BY <2>1
      <4>2. at(U)[U] = 0
        <5> HIDE DEF at
        <5> QED BY <3>2, <4>1 DEF Adds
      <4> QED BY <3>1, <3>2, <4>2
    <3>3. CASE U # {}
      <4>1. U \ {One(U)} \in SUBSET U /\ U \ {One(U)} \in P
        BY <3>3, OneMember
      <4>2. at(U)[U] = f[One(U)] + at(U)[U \ {One(U)}]
        BY <2>1, <3>3 DEF Adds
      <4>3. all[U \ {One(U)}] = at(U)[U \ {One(U)}]
        BY <2>2, <4>1
      <4> QED BY <3>1, <3>3, <4>2, <4>3
    <3> QED BY <3>2, <3>3
  <2>4. all[T] = IF T = {} THEN 0 ELSE f[One(T)] + all[T \ {One(T)}]
    <3>1. CASE T # {}
      <4>1. T \ {One(T)} \in P
        BY <3>1, OneMember
      <4> QED BY <3>1, <4>1
    <3> QED BY <3>1
  <2>5. Adds(all, f, SUBSET T)
    <3>1. all = [U \in SUBSET T |-> all[U]]
      OBVIOUS
    <3>2. \A U \in SUBSET T : all[U] = IF U = {} THEN 0 ELSE f[One(U)] + all[U \ {One(U)}]
      <4> HIDE DEF all
      <4> QED BY <2>3, <2>4
    <3> HIDE DEF all
    <3> QED BY <3>1, <3>2 DEF Adds
  <2> QED BY <2>5
<1>2. \A T \in SUBSET S : T \in G
  <2> HIDE DEF G
  <2> QED BY <1>1, SubsetInduction
<1> QED BY <1>2

\* The recursion of a sum.
LEMMA SumUnfolds ==
  ASSUME NEW f, NEW S, IsFiniteSet(S)
  PROVE  SumOf(f, S) = IF S = {} THEN 0 ELSE f[One(S)] + SumOf(f, S \ {One(S)})
<1>1. PICK g : Adds(g, f, SUBSET S) /\ SumOf(f, S) = g[S]
  BY AddsExist, Unfolded
<1>2. CASE S = {}
  BY <1>1, <1>2 DEF Adds
<1>3. CASE S # {}
  <2> DEFINE T == S \ {One(S)}
  <2>1. T \in SUBSET S /\ IsFiniteSet(T)
    BY FS_Subset
  <2>2. PICK h : Adds(h, f, SUBSET T) /\ SumOf(f, T) = h[T]
    BY <2>1, AddsExist, Unfolded
  <2>3. g[T] = h[T]
    BY <1>1, <2>1, <2>2, AddsAgree
  <2>4. g[S] = f[One(S)] + g[T]
    BY <1>1, <1>3 DEF Adds
  <2> QED BY <1>1, <1>3, <2>2, <2>3, <2>4
<1> QED BY <1>2, <1>3

LEMMA SumOfNone == ASSUME NEW f PROVE SumOf(f, {}) = 0
BY SumUnfolds, FS_EmptySet

\* A sum of natural numbers is one, and any member may be taken out first.
LEMMA SumIsNat ==
  ASSUME NEW f, NEW S, IsFiniteSet(S), \A x \in S : f[x] \in Nat
  PROVE  SumOf(f, S) \in Nat
<1> DEFINE G == {T \in SUBSET S : SumOf(f, T) \in Nat}
<1>1. ASSUME NEW T \in SUBSET S, \A U \in SUBSET T : U # T => U \in G
      PROVE  T \in G
  <2>1. IsFiniteSet(T)
    BY FS_Subset
  <2>2. CASE T # {}
    <3>1. One(T) \in T /\ T \ {One(T)} \in SUBSET T /\ T \ {One(T)} # T
      BY <2>2, OneMember
    <3>2. SumOf(f, T \ {One(T)}) \in Nat
      BY <3>1, <1>1
    <3> QED BY <2>1, <2>2, <3>1, <3>2, SumUnfolds
  <2> QED BY <2>2, SumOfNone
<1>2. \A T \in SUBSET S : T \in G
  <2> HIDE DEF G
  <2> QED BY <1>1, SubsetInduction
<1> QED BY <1>2

LEMMA SumOfRest ==
  ASSUME NEW f, NEW S, IsFiniteSet(S), \A x \in S : f[x] \in Nat, NEW x \in S
  PROVE  SumOf(f, S) = f[x] + SumOf(f, S \ {x})
<1> DEFINE G == {T \in SUBSET S : \A y \in T : SumOf(f, T) = f[y] + SumOf(f, T \ {y})}
<1>1. ASSUME NEW T \in SUBSET S, \A U \in SUBSET T : U # T => U \in G
      PROVE  T \in G
  <2> SUFFICES ASSUME NEW y \in T PROVE SumOf(f, T) = f[y] + SumOf(f, T \ {y})
    OBVIOUS
  <2> DEFINE o == One(T)
             U == T \ {o}
             V == T \ {y}
             W == U \ {y}
  <2>1. o \in T /\ IsFiniteSet(T) /\ SumOf(f, T) = f[o] + SumOf(f, U)
    BY OneMember, FS_Subset, SumUnfolds
  <2>2. CASE y = o
    BY <2>1, <2>2
  <2>3. CASE y # o
    <3>1. U \in G /\ V \in G /\ y \in U /\ o \in V /\ V \ {o} = W
      BY <2>1, <2>3, <1>1
    <3>2. SumOf(f, U) = f[y] + SumOf(f, W)
      BY <3>1
    <3>3. SumOf(f, V) = f[o] + SumOf(f, W)
      BY <3>1
    <3>4. SumOf(f, W) \in Nat /\ f[o] \in Nat /\ f[y] \in Nat
      <4>1. IsFiniteSet(W) /\ \A z \in W : f[z] \in Nat
        BY FS_Subset
      <4> HIDE DEF W
      <4> QED BY <4>1, <2>1, SumIsNat
    <3>5. SumOf(f, T) = f[y] + SumOf(f, V)
      <4> HIDE DEF o, U, V, W
      <4> QED BY <2>1, <3>2, <3>3, <3>4
    <3> QED BY <3>5
  <2> QED BY <2>2, <2>3
<1>2. \A T \in SUBSET S : T \in G
  <2> HIDE DEF G
  <2> QED BY <1>1, SubsetInduction
<1> QED BY <1>2

\* Sums of more are more, sums of the same the same.
LEMMA SumOfMore ==
  ASSUME NEW f, NEW g, NEW S, IsFiniteSet(S),
         \A x \in S : f[x] \in Nat /\ g[x] \in Nat /\ f[x] <= g[x]
  PROVE  SumOf(f, S) <= SumOf(g, S)
<1> DEFINE G == {T \in SUBSET S : SumOf(f, T) <= SumOf(g, T)}
<1>1. ASSUME NEW T \in SUBSET S, \A U \in SUBSET T : U # T => U \in G
      PROVE  T \in G
  <2>1. CASE T = {}
    BY <2>1, SumOfNone
  <2>2. CASE T # {}
    <3> DEFINE o == One(T)
               U == T \ {o}
    <3>1. IsFiniteSet(T) /\ IsFiniteSet(U)
      BY FS_Subset
    <3>2. SumOf(f, T) = f[o] + SumOf(f, U) /\ SumOf(g, T) = g[o] + SumOf(g, U)
      BY <2>2, <3>1, SumUnfolds
    <3>3. o \in T /\ U \in G
      BY <2>2, <1>1, OneMember
    <3>4. SumOf(f, U) \in Nat /\ SumOf(g, U) \in Nat
      BY <3>1, SumIsNat
    <3>5. SumOf(f, U) <= SumOf(g, U) /\ f[o] \in Nat /\ g[o] \in Nat /\ f[o] <= g[o]
      BY <3>3
    <3>6. SumOf(f, T) <= SumOf(g, T)
      <4> HIDE DEF o, U
      <4> QED BY <3>2, <3>4, <3>5
    <3> QED BY <3>6
  <2> QED BY <2>1, <2>2
<1>2. \A T \in SUBSET S : T \in G
  <2> HIDE DEF G
  <2> QED BY <1>1, SubsetInduction
<1> QED BY <1>2

LEMMA SumOfSame ==
  ASSUME NEW f, NEW g, NEW S, IsFiniteSet(S),
         \A x \in S : f[x] \in Nat /\ f[x] = g[x]
  PROVE  SumOf(f, S) = SumOf(g, S)
<1>1. SumOf(f, S) <= SumOf(g, S) /\ SumOf(g, S) <= SumOf(f, S)
  BY SumOfMore
<1>2. SumOf(f, S) \in Nat /\ SumOf(g, S) \in Nat
  BY SumIsNat
<1> QED BY <1>1, <1>2

\* The sum of sums.
LEMMA SumOfBoth ==
  ASSUME NEW f, NEW g, NEW h, NEW S, IsFiniteSet(S),
         \A x \in S : f[x] \in Nat /\ g[x] \in Nat /\ h[x] = f[x] + g[x]
  PROVE  SumOf(h, S) = SumOf(f, S) + SumOf(g, S)
<1> DEFINE G == {T \in SUBSET S : SumOf(h, T) = SumOf(f, T) + SumOf(g, T)}
<1>1. ASSUME NEW T \in SUBSET S, \A U \in SUBSET T : U # T => U \in G
      PROVE  T \in G
  <2>1. CASE T = {}
    BY <2>1, SumOfNone
  <2>2. CASE T # {}
    <3> DEFINE o == One(T)
               U == T \ {o}
    <3>1. IsFiniteSet(T) /\ IsFiniteSet(U)
      BY FS_Subset
    <3>2. /\ SumOf(f, T) = f[o] + SumOf(f, U) /\ SumOf(g, T) = g[o] + SumOf(g, U)
          /\ SumOf(h, T) = h[o] + SumOf(h, U)
      BY <2>2, <3>1, SumUnfolds
    <3>3. o \in T /\ U \in G
      BY <2>2, <1>1, OneMember
    <3>4. SumOf(f, U) \in Nat /\ SumOf(g, U) \in Nat
      BY <3>1, SumIsNat
    <3>5. SumOf(h, U) = SumOf(f, U) + SumOf(g, U) /\ f[o] \in Nat /\ g[o] \in Nat /\ h[o] = f[o] + g[o]
      BY <3>3
    <3>6. SumOf(h, T) = SumOf(f, T) + SumOf(g, T)
      <4> HIDE DEF o, U
      <4> QED BY <3>2, <3>4, <3>5
    <3> QED BY <3>6
  <2> QED BY <2>1, <2>2
<1>2. \A T \in SUBSET S : T \in G
  <2> HIDE DEF G
  <2> QED BY <1>1, SubsetInduction
<1> QED BY <1>2

\* Members that count for nothing may be left out.
LEMMA SumOfSupport ==
  ASSUME NEW f, NEW S, IsFiniteSet(S), NEW P \in SUBSET S, \A x \in S : f[x] \in Nat,
         \A x \in S \ P : f[x] = 0
  PROVE  SumOf(f, S) = SumOf(f, P)
<1> DEFINE G == {T \in SUBSET S : SumOf(f, T) = SumOf(f, T \intersect P)}
<1>1. ASSUME NEW T \in SUBSET S, \A U \in SUBSET T : U # T => U \in G
      PROVE  T \in G
  <2>1. CASE T = {}
    BY <2>1, T \intersect P = T
  <2>2. CASE T # {}
    <3> DEFINE o == One(T)
               U == T \ {o}
    <3>1. IsFiniteSet(T) /\ IsFiniteSet(T \intersect P) /\ IsFiniteSet(U)
      BY FS_Subset
    <3>2. o \in T /\ U \in G
      BY <2>2, <1>1, OneMember
    <3>3. SumOf(f, T) = f[o] + SumOf(f, U) /\ SumOf(f, U) \in Nat
      BY <2>2, <3>1, SumUnfolds, SumIsNat
    <3>4. SumOf(f, U) = SumOf(f, U \intersect P)
      BY <3>2
    <3>5. CASE o \in P
      <4>1. (T \intersect P) \ {o} = U \intersect P
        OBVIOUS
      <4>2. SumOf(f, T \intersect P) = f[o] + SumOf(f, U \intersect P)
        BY <3>1, <3>2, <3>5, <4>1, SumOfRest
      <4> QED BY <3>3, <3>4, <4>2
    <3>6. CASE o \notin P
      <4>1. T \intersect P = U \intersect P /\ f[o] = 0
        BY <3>2, <3>6
      <4>2. SumOf(f, T) = SumOf(f, T \intersect P)
        <5> HIDE DEF o, U
        <5>1. SumOf(f, T \intersect P) = SumOf(f, U \intersect P)
          BY <4>1, Zenon
        <5> QED BY <3>3, <3>4, <4>1, <5>1
      <4> QED BY <4>2
    <3> QED BY <3>5, <3>6
  <2> QED BY <2>1, <2>2
<1>2. S \in G
  <2> HIDE DEF G
  <2> QED BY <1>1, SubsetInduction
<1> QED BY <1>2, S \intersect P = P

LEMMA SumOfOne ==
  ASSUME NEW f, NEW S, IsFiniteSet(S), NEW y \in S, f[y] \in Nat,
         \A x \in S \ {y} : f[x] = 0
  PROVE  SumOf(f, S) = f[y]
<1>1. \A x \in S : f[x] \in Nat
  OBVIOUS
<1>2. SumOf(f, S) = f[y] + SumOf(f, S \ {y})
  BY <1>1, SumOfRest
<1>3. SumOf(f, S \ {y}) = SumOf(f, {})
  BY <1>1, SumOfSupport, FS_Subset
<1> QED BY <1>2, <1>3, SumOfNone

\* A sum over one set is at most that over another which has, for each member of the first, one of
\* its own that counts no less.
LEMMA SumOfMatched ==
  ASSUME NEW f, NEW g, NEW P, NEW Q, IsFiniteSet(P), IsFiniteSet(Q),
         \A q \in Q : g[q] \in Nat, NEW m,
         \A p \in P : f[p] \in Nat /\ m[p] \in Q /\ f[p] <= g[m[p]],
         \A p, o \in P : m[p] = m[o] => p = o
  PROVE  SumOf(f, P) <= SumOf(g, Q)
<1> DEFINE G == {T \in SUBSET P : \A U \in SUBSET Q : (\A p \in T : m[p] \in U) => SumOf(f, T) <= SumOf(g, U)}
<1>1. ASSUME NEW T \in SUBSET P, \A V \in SUBSET T : V # T => V \in G
      PROVE  T \in G
  <2> SUFFICES ASSUME NEW U \in SUBSET Q, \A p \in T : m[p] \in U
               PROVE  SumOf(f, T) <= SumOf(g, U)
    OBVIOUS
  <2>1. IsFiniteSet(T) /\ IsFiniteSet(U)
    BY FS_Subset
  <2>2. SumOf(g, U) \in Nat
    BY <2>1, SumIsNat
  <2>3. CASE T = {}
    BY <2>2, <2>3, SumOfNone
  <2>4. CASE T # {}
    <3> DEFINE o == One(T)
               V == T \ {o}
               W == U \ {m[o]}
    <3>1. o \in T /\ m[o] \in U /\ V \in SUBSET T /\ V # T /\ W \in SUBSET Q
      BY <2>4, OneMember
    <3>2. \A p \in V : m[p] \in W
      BY <3>1
    <3>3. SumOf(f, V) <= SumOf(g, W)
      <4>1. V \in G
        BY <1>1, <3>1
      <4> HIDE DEF V, W
      <4> QED BY <3>1, <3>2, <4>1
    <3>4. SumOf(f, T) = f[o] + SumOf(f, V)
      BY <2>1, <2>4, SumUnfolds
    <3>5. SumOf(g, U) = g[m[o]] + SumOf(g, W)
      BY <2>1, <3>1, SumOfRest
    <3>6. SumOf(f, V) \in Nat /\ SumOf(g, W) \in Nat
      <4>1. IsFiniteSet(V) /\ IsFiniteSet(W) /\ (\A p \in V : f[p] \in Nat) /\ \A q \in W : g[q] \in Nat
        BY <2>1, FS_Subset
      <4> HIDE DEF V, W
      <4> QED BY <4>1, SumIsNat
    <3>7. f[o] \in Nat /\ g[m[o]] \in Nat /\ f[o] <= g[m[o]]
      BY <3>1
    <3>8. SumOf(f, T) <= SumOf(g, U)
      <4> HIDE DEF o, V, W
      <4> QED BY <3>3, <3>4, <3>5, <3>6, <3>7
    <3> QED BY <3>8
  <2> QED BY <2>3, <2>4
<1>2. P \in G
  <2> HIDE DEF G
  <2> QED BY <1>1, SubsetInduction
<1> QED BY <1>2

LEMMA SumOfPart ==
  ASSUME NEW f, NEW S, IsFiniteSet(S), NEW T \in SUBSET S, \A x \in S : f[x] \in Nat
  PROVE  SumOf(f, T) <= SumOf(f, S)
<1> DEFINE m == [x \in T |-> x]
<1>1. IsFiniteSet(T)
  BY FS_Subset
<1>2. \A p \in T : f[p] \in Nat /\ m[p] \in S /\ f[p] <= f[m[p]]
  OBVIOUS
<1>3. \A p, o \in T : m[p] = m[o] => p = o
  OBVIOUS
<1> QED BY <1>1, <1>2, <1>3, SumOfMatched

\* A finite set of numbers has a largest.
LEMMA Largest ==
  ASSUME NEW S, IsFiniteSet(S), S \subseteq Nat, S # {}
  PROVE  \E m \in S : \A x \in S : x <= m
<1> DEFINE G == {T \in SUBSET S : T # {} => \E m \in T : \A x \in T : x <= m}
<1>1. ASSUME NEW T \in SUBSET S, \A U \in SUBSET T : U # T => U \in G
      PROVE  T \in G
  <2> SUFFICES ASSUME T # {} PROVE \E m \in T : \A x \in T : x <= m
    OBVIOUS
  <2> DEFINE o == One(T)
             U == T \ {o}
  <2>1. o \in T /\ o \in Nat /\ U \in G
    BY <1>1, OneMember
  <2>2. CASE U = {}
    BY <2>1, <2>2
  <2>3. CASE U # {}
    <3>1. PICK m \in U : \A x \in U : x <= m
      BY <2>1, <2>3
    <3>2. m \in Nat /\ \A x \in T : x = o \/ x \in U
      OBVIOUS
    <3>3. CASE m <= o
      BY <2>1, <3>1, <3>2, <3>3
    <3>4. CASE o <= m
      BY <3>1, <3>2, <3>4
    <3> QED BY <2>1, <3>2, <3>3, <3>4
  <2> QED BY <2>2, <2>3
<1>2. S \in G
  <2> HIDE DEF G
  <2> QED BY <1>1, SubsetInduction
<1> QED BY <1>2
=============================================================================
