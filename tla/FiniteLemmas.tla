----------------------------- MODULE FiniteLemmas -----------------------------
(* Lemmas on finite sets, sums, orders and sequences that the proofs of        *)
(* several components rest on.  What is true of all finite sets, or of all     *)
(* lengths, is proved by its smallest counterexample.                          *)
EXTENDS Ordered, FiniteSetsExt, FiniteSetTheorems, TLAPS

------------------------------------------------------------------------------
(* Induction over finite sets, as a smallest counterexample.                  *)

\* A family of subsets of a finite set has a smallest member.
LEMMA SmallestSet ==
    ASSUME NEW S, IsFiniteSet(S), NEW T \in SUBSET (SUBSET S), T # {}
    PROVE  \E A \in T : \A B \in T : B \subseteq A => B = A
<1>1. IsWellFoundedOn(StrictSubsetOrdering(S), FiniteSubsetsOf(S)) /\ FiniteSubsetsOf(S) = SUBSET S
  BY FS_StrictSubsetOrderingWellFounded, FS_FiniteSubsetsOfFinite
<1>2. \E A \in T : \A B \in T : ~ (<<B, A>> \in StrictSubsetOrdering(S))
  BY <1>1, WFMin
<1> QED
  BY <1>2 DEF StrictSubsetOrdering

\* A set of numbers has a least one.
LEMMA LeastNumber ==
    ASSUME NEW S \in SUBSET Nat, NEW n \in S
    PROVE  \E m \in S : \A k \in S : m <= k
<1> DEFINE T == {1 .. m : m \in S \cap 0 .. n}
           U == 1 .. n
<1>1. IsFiniteSet(U) /\ T \in SUBSET (SUBSET U) /\ T # {}
  <2>1. IsFiniteSet(U)
    BY FS_Interval
  <2>2. \A m \in 0 .. n : 1 .. m \subseteq U
    OBVIOUS
  <2>3. 1 .. n \in T
    OBVIOUS
  <2> QED
    BY <2>1, <2>2, <2>3
<1>2. PICK A \in T : \A B \in T : B \subseteq A => B = A
  <2> HIDE DEF T, U
  <2> QED
    BY <1>1, SmallestSet
<1>3. PICK m \in S \cap 0 .. n : A = 1 .. m
  OBVIOUS
<1>4. ASSUME NEW k \in S PROVE m <= k
  <2>1. SUFFICES ASSUME k < m PROVE FALSE
    OBVIOUS
  <2>2. k \in S \cap 0 .. n /\ 1 .. k \subseteq 1 .. m /\ m \in 1 .. m /\ m \notin 1 .. k
    BY <2>1
  <2>3. 1 .. k \in T
    BY <2>2
  <2> HIDE DEF T
  <2> QED
    BY <1>2, <1>3, <2>2, <2>3
<1> QED
  BY <1>3, <1>4

\* What a function makes of a finite set is finite.
LEMMA FiniteImage ==
    ASSUME NEW S, IsFiniteSet(S), NEW f
    PROVE  IsFiniteSet({f[x] : x \in S})
<1> DEFINE T == {f[x] : x \in S}
           g == [x \in S |-> f[x]]
<1>1. g \in Surjection(S, T)
  BY DEF Surjection
<1> HIDE DEF T, g
<1>2. IsFiniteSet(T)
  BY <1>1, FS_Surjection
<1> QED
  BY <1>2 DEF T

------------------------------------------------------------------------------
(* Sums.                                                                      *)

Chosen(s) == CHOOSE o \in s : TRUE
\* g sums up the subsets of A, as MapThenSumSet does.
Sums(f, g, A) == g = [s \in SUBSET A |-> IF s = {} THEN 0 ELSE f[Chosen(s)] + g[s \ {Chosen(s)}]]
SumOf(f, A) == CHOOSE g : Sums(f, g, A)

LEMMA TotalIsSum == ASSUME NEW f, NEW S PROVE Total(f, S) = SumOf(f, S)[S]
BY DEF Total, MapThenSumSet, MapThenFoldSet, SumOf, Sums, Chosen

\* Two such functions agree where both are defined.
LEMMA SumsAgree ==
    ASSUME NEW f, NEW S, IsFiniteSet(S), NEW A \in SUBSET S, NEW B \in SUBSET S,
           NEW g, NEW h, Sums(f, g, A), Sums(f, h, B)
    PROVE  \A s \in SUBSET (A \cap B) : g[s] = h[s]
<1> DEFINE T == {s \in SUBSET (A \cap B) : g[s] # h[s]}
<1> SUFFICES ASSUME T # {} PROVE FALSE
  OBVIOUS
<1>1. PICK s \in T : \A u \in T : u \subseteq s => u = s
  <2>1. T \in SUBSET (SUBSET S)
    OBVIOUS
  <2> HIDE DEF T
  <2> QED
    BY <2>1, SmallestSet
<1>2. g[s] = (IF s = {} THEN 0 ELSE f[Chosen(s)] + g[s \ {Chosen(s)}])
  BY DEF Sums
<1>3. h[s] = (IF s = {} THEN 0 ELSE f[Chosen(s)] + h[s \ {Chosen(s)}])
  BY DEF Sums
<1>4. CASE s = {}
  BY <1>2, <1>3, <1>4
<1>5. CASE s # {}
  <2>1. Chosen(s) \in s
    BY <1>5 DEF Chosen
  <2>2. s \ {Chosen(s)} \notin T
    BY <1>1, <2>1
  <2> QED
    BY <1>2, <1>3, <1>5, <2>2
<1> QED
  BY <1>4, <1>5

\* There is one for every finite set.
LEMMA SumsExists == ASSUME NEW f, NEW S, IsFiniteSet(S) PROVE Sums(f, SumOf(f, S), S)
<1> DEFINE T == {A \in SUBSET S : ~ \E g : Sums(f, g, A)}
<1>1. ASSUME T # {} PROVE FALSE
  <2>1. PICK A \in T : \A B \in T : B \subseteq A => B = A
    <3>1. T \in SUBSET (SUBSET S)
      OBVIOUS
    <3> HIDE DEF T
    <3> QED
      BY <1>1, <3>1, SmallestSet
  <2>2. \A B \in SUBSET A : B # A => Sums(f, SumOf(f, B), B)
    BY <2>1 DEF SumOf
  <2> DEFINE value(s) == IF s = {} THEN 0 ELSE f[Chosen(s)] + SumOf(f, s \ {Chosen(s)})[s \ {Chosen(s)}]
             g == [s \in SUBSET A |-> value(s)]
  <2>3. ASSUME NEW s \in SUBSET A, s # {} PROVE g[s \ {Chosen(s)}] = SumOf(f, s \ {Chosen(s)})[s \ {Chosen(s)}]
    <3> DEFINE B == s \ {Chosen(s)}
    <3>1. Chosen(s) \in s /\ B \in SUBSET A /\ B # A
      BY <2>3 DEF Chosen
    <3>2. Sums(f, SumOf(f, B), B)
      BY <2>2, <3>1
    <3>3. SumOf(f, B)[B] = IF B = {} THEN 0 ELSE f[Chosen(B)] + SumOf(f, B)[B \ {Chosen(B)}]
      BY <3>2 DEF Sums
    <3>4. CASE B = {}
      BY <3>1, <3>3, <3>4
    <3>5. CASE B # {}
      <4> DEFINE C == B \ {Chosen(B)}
      <4>1. Chosen(B) \in B /\ C \in SUBSET A /\ C # A /\ C \in SUBSET S /\ B \in SUBSET S
        BY <3>1, <3>5 DEF Chosen
      <4>2. Sums(f, SumOf(f, C), C)
        BY <2>2, <4>1
      <4>3. SumOf(f, B)[C] = SumOf(f, C)[C]
        <5>1. C \in SUBSET (B \cap C)
          OBVIOUS
        <5> HIDE DEF B, C, T, value, g
        <5>2. \A h, k : Sums(f, h, B) /\ Sums(f, k, C) => \A s_1 \in SUBSET (B \cap C) : h[s_1] = k[s_1]
          BY <4>1, SumsAgree
        <5> QED
          BY <3>2, <4>2, <5>1, <5>2
      <4>4. g[B] = f[Chosen(B)] + SumOf(f, C)[C]
        BY <3>1, <3>5
      <4> QED
        BY <3>3, <3>5, <4>3, <4>4
    <3> QED
      BY <3>4, <3>5
  <2>4. Sums(f, g, A)
    <3>1. \A s \in SUBSET A : g[s] = IF s = {} THEN 0 ELSE f[Chosen(s)] + g[s \ {Chosen(s)}]
      BY <2>3
    <3> QED
      BY <3>1 DEF Sums
  <2> QED
    BY <2>1, <2>4
<1> QED
  BY <1>1 DEF SumOf

\* The sum of a finite set, its first element taken out.
LEMMA TotalStep ==
    ASSUME NEW f, NEW S, IsFiniteSet(S)
    PROVE  Total(f, S) = IF S = {} THEN 0 ELSE f[Chosen(S)] + Total(f, S \ {Chosen(S)})
<1>1. Sums(f, SumOf(f, S), S)
  BY SumsExists
<1>2. SumOf(f, S)[S] = IF S = {} THEN 0 ELSE f[Chosen(S)] + SumOf(f, S)[S \ {Chosen(S)}]
  BY <1>1 DEF Sums
<1> DEFINE R == S \ {Chosen(S)}
<1>3. IsFiniteSet(R) /\ R \in SUBSET S /\ S \in SUBSET S /\ R \in SUBSET (S \cap R)
  BY FS_Subset
<1>4. Sums(f, SumOf(f, R), R)
  BY <1>3, SumsExists
<1>5. SumOf(f, S)[R] = SumOf(f, R)[R]
  <2> HIDE DEF R
  <2>1. \A g, h : Sums(f, g, S) /\ Sums(f, h, R) => \A s \in SUBSET (S \cap R) : g[s] = h[s]
    BY <1>3, SumsAgree
  <2> QED
    BY <1>1, <1>3, <1>4, <2>1
<1> QED
  BY <1>2, <1>5, TotalIsSum

\* Sizes are numbers, and so is a sum of them.
Counted(f, S) == IsFiniteSet(S) /\ \A o \in S : f[o] \in Nat
LEMMA TotalType == ASSUME NEW f, NEW S, Counted(f, S) PROVE Total(f, S) \in Nat
<1> DEFINE T == {A \in SUBSET S : Total(f, A) \notin Nat}
<1> SUFFICES ASSUME T # {} PROVE FALSE
  OBVIOUS
<1>1. PICK A \in T : \A B \in T : B \subseteq A => B = A
  <2>1. T \in SUBSET (SUBSET S) /\ IsFiniteSet(S)
    BY DEF Counted
  <2> HIDE DEF T
  <2> QED
    BY <2>1, SmallestSet
<1>2. IsFiniteSet(A)
  BY <1>1, FS_Subset DEF Counted
<1>3. A # {}
  <2>1. Total(f, {}) = 0
    BY FS_EmptySet, TotalStep
  <2>2. A = {} => Total(f, A) = Total(f, {})
    BY ONLY Zenon
  <2> QED
    BY <1>1, <2>1, <2>2
<1>4. Chosen(A) \in A /\ A \ {Chosen(A)} \in SUBSET S /\ A \ {Chosen(A)} # A
  BY <1>3 DEF Chosen
<1>5. Total(f, A \ {Chosen(A)}) \in Nat /\ f[Chosen(A)] \in Nat
  BY <1>1, <1>4 DEF Counted
<1> QED
  BY <1>1, <1>2, <1>3, <1>5, TotalStep

\* It does not matter which element is taken out.
LEMMA TotalRemove ==
    ASSUME NEW f, NEW S, Counted(f, S), NEW o \in S
    PROVE  Total(f, S) = f[o] + Total(f, S \ {o})
<1> DEFINE T == {A \in SUBSET S : \E e \in A : Total(f, A) # f[e] + Total(f, A \ {e})}
<1> SUFFICES ASSUME T # {} PROVE FALSE
  OBVIOUS
<1>1. PICK A \in T : \A B \in T : B \subseteq A => B = A
  <2>1. T \in SUBSET (SUBSET S) /\ IsFiniteSet(S)
    BY DEF Counted
  <2> HIDE DEF T
  <2> QED
    BY <2>1, SmallestSet
<1>2. PICK e \in A : Total(f, A) # f[e] + Total(f, A \ {e})
  BY <1>1
<1> DEFINE c == Chosen(A)
<1>3. c \in A
  BY <1>2 DEF Chosen
<1>4. \A B \in SUBSET A : Counted(f, B)
  BY FS_Subset DEF Counted
<1>5. Total(f, A) = f[c] + Total(f, A \ {c})
  BY <1>3, <1>4, TotalStep DEF Counted
<1>6. e # c
  BY <1>2, <1>5
<1>7. Total(f, A \ {c}) = f[e] + Total(f, (A \ {c}) \ {e})
  <2>1. A \ {c} \in SUBSET S /\ A \ {c} # A /\ A \ {c} \subseteq A /\ e \in A \ {c}
    BY <1>2, <1>3, <1>6
  <2>2. A \ {c} \notin T
    BY <1>1, <2>1
  <2> QED
    BY <2>1, <2>2
<1>8. Total(f, A \ {e}) = f[c] + Total(f, (A \ {e}) \ {c})
  <2>1. A \ {e} \in SUBSET S /\ A \ {e} # A /\ A \ {e} \subseteq A /\ c \in A \ {e}
    BY <1>2, <1>3, <1>6
  <2>2. A \ {e} \notin T
    BY <1>1, <2>1
  <2> QED
    BY <2>1, <2>2
<1>9. (A \ {c}) \ {e} = (A \ {e}) \ {c}
  OBVIOUS
<1>10. f[c] \in Nat /\ f[e] \in Nat /\ Total(f, (A \ {c}) \ {e}) \in Nat
  <2>1. Counted(f, (A \ {c}) \ {e}) /\ Counted(f, A)
    BY <1>4
  <2> QED
    BY <1>2, <1>3, <2>1, TotalType DEF Counted
<1>11. Total(f, (A \ {c}) \ {e}) = Total(f, (A \ {e}) \ {c})
  BY ONLY <1>9, Zenon
<1>12. Total(f, A \ {c}) \in Nat /\ Total(f, A \ {e}) \in Nat /\ Total(f, A) \in Nat
  <2>1. Counted(f, A \ {c}) /\ Counted(f, A \ {e}) /\ Counted(f, A)
    BY <1>4
  <2> QED
    BY <2>1, TotalType
<1> HIDE DEF T, c
<1> QED
  BY <1>2, <1>5, <1>7, <1>8, <1>10, <1>11, <1>12

\* More elements, no smaller sum.
LEMMA TotalSubset ==
    ASSUME NEW f, NEW S, Counted(f, S), NEW A \in SUBSET S
    PROVE  Total(f, A) <= Total(f, S)
<1> DEFINE T == {B \in SUBSET S : A \subseteq B /\ ~ Total(f, A) <= Total(f, B)}
<1> SUFFICES ASSUME T # {} PROVE FALSE
  OBVIOUS
<1>0. \A B \in SUBSET S : Counted(f, B) /\ Total(f, B) \in Nat
  BY FS_Subset, TotalType DEF Counted
<1>1. PICK B \in T : \A C \in T : C \subseteq B => C = B
  <2>1. T \in SUBSET (SUBSET S) /\ IsFiniteSet(S)
    BY DEF Counted
  <2> HIDE DEF T
  <2> QED
    BY <2>1, SmallestSet
<1>2. PICK o \in B : o \notin A
  <2>1. A # B
    BY <1>0, <1>1
  <2> QED
    BY <1>1, <2>1
<1>3. Total(f, A) <= Total(f, B \ {o})
  BY <1>1, <1>2
<1>4. Total(f, B) = f[o] + Total(f, B \ {o}) /\ f[o] \in Nat
  BY <1>0, <1>1, <1>2, TotalRemove DEF Counted
<1>5. Total(f, A) \in Nat /\ Total(f, B) \in Nat /\ Total(f, B \ {o}) \in Nat /\ ~ Total(f, A) <= Total(f, B)
  BY <1>0, <1>1
<1> HIDE DEF T
<1> QED
  BY <1>3, <1>4, <1>5

\* The sum over a union is at most that over its parts.
LEMMA TotalUnion ==
    ASSUME NEW f, NEW A, Counted(f, A), NEW B, Counted(f, B)
    PROVE  Total(f, A \cup B) <= Total(f, A) + Total(f, B)
<1> DEFINE T == {C \in SUBSET B : ~ Total(f, A \cup C) <= Total(f, A) + Total(f, C)}
<1> SUFFICES ASSUME T # {} PROVE FALSE
  OBVIOUS
<1>0. \A C \in SUBSET B : Counted(f, C) /\ Total(f, C) \in Nat /\ Counted(f, A \cup C) /\ Total(f, A \cup C) \in Nat
  BY FS_Subset, FS_Union, TotalType DEF Counted
<1>1. PICK C \in T : \A D \in T : D \subseteq C => D = C
  <2>1. T \in SUBSET (SUBSET B) /\ IsFiniteSet(B)
    BY DEF Counted
  <2> HIDE DEF T
  <2> QED
    BY <2>1, SmallestSet
<1>2. Total(f, {}) = 0 /\ Total(f, A) \in Nat
  BY FS_EmptySet, TotalStep, TotalType
<1>3. PICK o \in C : TRUE
  <2>1. ~ Total(f, A \cup C) <= Total(f, A) + Total(f, C)
    BY <1>1
  <2>2. A \cup {} = A
    OBVIOUS
  <2>3. C # {}
    BY <1>2, <2>1, <2>2
  <2> QED
    BY <2>3
<1> DEFINE D == C \ {o}
<1>4. Total(f, A \cup D) <= Total(f, A) + Total(f, D)
  BY <1>1, <1>3
<1>5. Total(f, C) = f[o] + Total(f, D) /\ f[o] \in Nat
  BY <1>0, <1>1, <1>3, TotalRemove DEF Counted
<1>6. Total(f, A \cup C) <= f[o] + Total(f, A \cup D)
  <2>0. Total(f, A \cup D) \in Nat /\ Counted(f, A \cup C)
    BY <1>0, <1>1
  <2> HIDE DEF T
  <2>1. CASE o \in A
    <3>1. A \cup C = A \cup D
      BY <2>1
    <3>2. Total(f, A \cup C) = Total(f, A \cup D)
      BY ONLY <3>1, Zenon
    <3> QED
      BY <1>5, <2>0, <3>2
  <2>2. CASE o \notin A
    <3>1. (A \cup C) \ {o} = A \cup D /\ o \in A \cup C
      BY <1>3, <2>2
    <3>2. Total(f, A \cup C) = f[o] + Total(f, (A \cup C) \ {o})
      BY <2>0, <3>1, TotalRemove
    <3>3. Total(f, (A \cup C) \ {o}) = Total(f, A \cup D)
      BY ONLY <3>1, Zenon
    <3> QED
      BY <1>5, <2>0, <3>2, <3>3
  <2> QED
    BY <2>1, <2>2
<1>7. ~ Total(f, A \cup C) <= Total(f, A) + Total(f, C)
  BY <1>1
<1>8. /\ Total(f, A \cup D) \in Nat /\ Total(f, D) \in Nat
      /\ Total(f, A \cup C) \in Nat /\ Total(f, C) \in Nat
  BY <1>0, <1>1
<1> HIDE DEF T, D
<1> QED
  BY <1>2, <1>4, <1>5, <1>6, <1>7, <1>8

------------------------------------------------------------------------------
(* Places in an order: what the ranks of rows and of candidates are.          *)

StrictOrder(S, R) ==
    /\ \A x \in S : <<x, x>> \notin R
    /\ \A x, y \in S : x # y => <<x, y>> \in R \/ <<y, x>> \in R
    /\ \A x, y, z \in S : <<x, y>> \in R /\ <<y, z>> \in R => <<x, z>> \in R

\* What comes before has the smaller place.
LEMMA PlacesGrow ==
    ASSUME NEW S, IsFiniteSet(S), NEW R, StrictOrder(S, R), NEW x \in S, NEW y \in S, <<x, y>> \in R
    PROVE  Cardinality(Preceding(x, S, R)) < Cardinality(Preceding(y, S, R))
<1> DEFINE A == Preceding(x, S, R)
           B == Preceding(y, S, R)
<1>1. A \subseteq B /\ x \in B /\ x \notin A /\ B \subseteq S
  BY DEF Preceding, StrictOrder
<1>2. IsFiniteSet(B) /\ IsFiniteSet(A)
  BY <1>1, FS_Subset
<1>3. Cardinality(A) <= Cardinality(B) /\ (Cardinality(B) = Cardinality(A) => B = A)
  BY <1>1, <1>2, FS_Subset
<1>4. Cardinality(A) \in Nat /\ Cardinality(B) \in Nat /\ A # B
  BY <1>1, <1>2, FS_CardinalityType
<1> QED
  BY <1>3, <1>4

\* Every place is taken once.
LEMMA Places ==
    ASSUME NEW S, IsFiniteSet(S), NEW R, StrictOrder(S, R)
    PROVE  LET place == [x \in S |-> Cardinality(Preceding(x, S, R))]
           IN  place \in Injection(S, 0 .. Cardinality(S) - 1) \cap Surjection(S, 0 .. Cardinality(S) - 1)
<1> DEFINE place == [x \in S |-> Cardinality(Preceding(x, S, R))]
           n == Cardinality(S)
<1>1. n \in Nat
  BY FS_CardinalityType
<1>2. ASSUME NEW x \in S PROVE place[x] \in 0 .. n - 1
  <2> DEFINE A == Preceding(x, S, R)
  <2>1. A \subseteq S /\ A # S
    BY DEF Preceding, StrictOrder
  <2>2. IsFiniteSet(A) /\ Cardinality(A) <= n /\ Cardinality(A) # n
    BY <2>1, FS_Subset
  <2>3. Cardinality(A) \in Nat
    BY <2>2, FS_CardinalityType
  <2> QED
    BY <1>1, <2>2, <2>3
<1>3. ASSUME NEW x \in S, NEW y \in S, x # y PROVE place[x] # place[y]
  <2>1. place[x] \in 0 .. n - 1 /\ place[y] \in 0 .. n - 1
    BY <1>2
  <2>2. <<x, y>> \in R \/ <<y, x>> \in R
    BY <1>3 DEF StrictOrder
  <2>3. place[x] < place[y] \/ place[y] < place[x]
    BY <2>2, PlacesGrow
  <2> HIDE DEF place, n
  <2> QED
    BY <1>1, <2>1, <2>3
<1>4. place \in Injection(S, 0 .. n - 1)
  <2>1. place \in [S -> 0 .. n - 1]
    BY <1>2
  <2> QED
    BY <1>3, <2>1 DEF Injection, IsInjective
<1>5. IsFiniteSet(0 .. n - 1) /\ Cardinality(0 .. n - 1) = n
  BY <1>1, FS_Interval
<1>6. place \in Surjection(S, 0 .. n - 1)
  <2> HIDE DEF place
  <2> QED
    BY <1>4, <1>5, FS_Injection
<1> QED
  BY <1>4, <1>6

\* As many come before x as have one of its first k places, if x has a later one.
LEMMA FirstPlaces ==
    ASSUME NEW S, IsFiniteSet(S), NEW R, StrictOrder(S, R), NEW x \in S,
           NEW k \in Nat, k <= Cardinality(Preceding(x, S, R))
    PROVE  Cardinality({y \in S : <<y, x>> \in R /\ Cardinality(Preceding(y, S, R)) < k}) = k
<1> DEFINE place == [y \in S |-> Cardinality(Preceding(y, S, R))]
           n == Cardinality(S)
           F == {y \in S : <<y, x>> \in R /\ Cardinality(Preceding(y, S, R)) < k}
<1>1. place \in Injection(S, 0 .. n - 1) /\ place \in Surjection(S, 0 .. n - 1)
  BY Places
<1>2. n \in Nat /\ place[x] \in 0 .. n - 1 /\ k <= place[x] /\ \A y \in S : place[y] \in 0 .. n - 1
  BY <1>1, FS_CardinalityType DEF Injection
<1>3. F = {y \in S : place[y] < k}
  <2>1. ASSUME NEW y \in S, place[y] < k PROVE <<y, x>> \in R
    <3>1. y # x
      BY <1>2, <2>1
    <3>2. CASE <<x, y>> \in R
      <4>1. place[x] < place[y]
        BY <3>2, PlacesGrow
      <4> HIDE DEF place, n
      <4> QED
        BY <1>2, <2>1, <4>1
    <3> QED
      BY <3>1, <3>2 DEF StrictOrder
  <2> QED
    BY <2>1
<1> DEFINE f == [y \in F |-> place[y]]
<1>4. f \in [F -> 0 .. k - 1]
  <2> HIDE DEF place, n, F
  <2> QED
    BY <1>2, <1>3
<1>5. \A y, z \in F : f[y] = f[z] => y = z
  BY <1>1, <1>3 DEF Injection, IsInjective
<1>6. \A i \in 0 .. k - 1 : \E y \in F : f[y] = i
  <2> SUFFICES ASSUME NEW i \in 0 .. k - 1 PROVE \E y \in F : f[y] = i
    OBVIOUS
  <2>1. i \in 0 .. n - 1
    BY <1>2
  <2>2. PICK y \in S : place[y] = i
    BY <1>1, <2>1 DEF Surjection
  <2>3. place[y] < k
    BY <2>2
  <2>4. y \in F
    BY <1>3, <2>3
  <2> QED
    BY <2>2, <2>4
<1>7. f \in Bijection(F, 0 .. k - 1)
  <2> HIDE DEF f, F, place, n
  <2> QED
    BY <1>4, <1>5, <1>6 DEF Bijection, Injection, Surjection, IsInjective
<1>8. IsFiniteSet(F)
  BY FS_Subset
<1>9. Cardinality(0 .. k - 1) = k
  BY FS_Interval
<1>10. Cardinality(F) = k
  <2> HIDE DEF F, f
  <2>1. ExistsBijection(F, 0 .. k - 1)
    BY <1>7 DEF ExistsBijection
  <2> QED
    BY <1>8, <1>9, <2>1, FS_Bijection
<1> QED
  BY <1>10

\* The members of a set in order: all of them, each at its place.
LEMMA InOrderType ==
    ASSUME NEW S, IsFiniteSet(S), NEW R, StrictOrder(S, R)
    PROVE  /\ InOrder(S, R) \in Seq(S) /\ Len(InOrder(S, R)) = Cardinality(S)
           /\ \A n \in 1 .. Cardinality(S) :
                  InOrder(S, R)[n] \in S /\ Cardinality(Preceding(InOrder(S, R)[n], S, R)) = n - 1
           /\ \A x \in S : /\ Cardinality(Preceding(x, S, R)) + 1 \in 1 .. Cardinality(S)
                            /\ InOrder(S, R)[Cardinality(Preceding(x, S, R)) + 1] = x
<1> DEFINE place == [x \in S |-> Cardinality(Preceding(x, S, R))]
           N == Cardinality(S)
           s == InOrder(S, R)
<1>1. place \in Injection(S, 0 .. N - 1) /\ place \in Surjection(S, 0 .. N - 1)
  BY Places
<1>2. N \in Nat
  BY FS_CardinalityType
<1>3. ASSUME NEW n \in 1 .. N PROVE s[n] \in S /\ Cardinality(Preceding(s[n], S, R)) = n - 1
  <2>1. n - 1 \in 0 .. N - 1
    BY <1>2
  <2>2. \E x \in S : place[x] = n - 1
    <3> HIDE DEF place, N
    <3> QED
      BY <1>1, <2>1 DEF Surjection
  <2>3. \E x \in S : Cardinality(Preceding(x, S, R)) = n - 1
    BY <2>2
  <2>4. s[n] = CHOOSE x \in S : Cardinality(Preceding(x, S, R)) = n - 1
    BY DEF InOrder
  <2> QED
    BY <2>3, <2>4
<1>4. ASSUME NEW x \in S PROVE place[x] + 1 \in 1 .. N /\ s[place[x] + 1] = x
  <2>1. place[x] \in 0 .. N - 1
    <3> HIDE DEF place, N
    <3> QED
      BY <1>1 DEF Injection
  <2>2. place[x] + 1 \in 1 .. N /\ (place[x] + 1) - 1 = place[x]
    <3> HIDE DEF place, N
    <3> QED
      BY <1>2, <2>1
  <2>3. s[place[x] + 1] \in S /\ place[s[place[x] + 1]] = place[x]
    <3>1. s[place[x] + 1] \in S /\ Cardinality(Preceding(s[place[x] + 1], S, R)) = (place[x] + 1) - 1
      BY <1>3, <2>2
    <3> HIDE DEF s, N
    <3> QED
      BY <3>1, <2>2
  <2> HIDE DEF place, s, N
  <2> QED
    BY <1>1, <2>2, <2>3 DEF Injection, IsInjective
<1>5. s \in Seq(S) /\ Len(s) = N
  <2>1. s = [n \in 1 .. N |-> CHOOSE x \in S : Cardinality(Preceding(x, S, R)) = n - 1]
    BY DEF InOrder
  <2>2. s \in [1 .. N -> S]
    <3>1. \A n \in 1 .. N : (CHOOSE x \in S : Cardinality(Preceding(x, S, R)) = n - 1) \in S
      BY <1>3, <2>1
    <3> HIDE DEF s, N
    <3> QED
      BY <2>1, <3>1
  <2> HIDE DEF s, N
  <2> QED
    BY <1>2, <2>2
<1> QED
  BY <1>3, <1>4, <1>5

------------------------------------------------------------------------------
(* Sequences of which some elements are kept.                                 *)

Elements(s) == {s[i] : i \in DOMAIN s}
LEMMA AscendingOrder ==
    ASSUME NEW n \in Nat, NEW P \in SUBSET (1 .. n)
    PROVE  StrictOrder(P, Ascending(P)) /\ IsFiniteSet(P)
<1>1. IsFiniteSet(1 .. n)
  BY FS_Interval
<1>2. \A i, j \in P : <<i, j>> \in Ascending(P) <=> i < j
  BY DEF Ascending
<1>3. P \subseteq Nat
  OBVIOUS
<1>4. /\ \A x \in P : <<x, x>> \notin Ascending(P)
      /\ \A x, y \in P : x # y => <<x, y>> \in Ascending(P) \/ <<y, x>> \in Ascending(P)
  BY <1>2, <1>3
<1>5. \A x, y, z \in P : <<x, y>> \in Ascending(P) /\ <<y, z>> \in Ascending(P) => <<x, z>> \in Ascending(P)
  BY <1>2, <1>3
<1>6. IsFiniteSet(P)
  BY <1>1, FS_Subset
<1> QED
  BY <1>4, <1>5, <1>6 DEF StrictOrder

\* What is kept: the elements that are members of S, in places of their order.
LEMMA KeepingType ==
    ASSUME NEW T, NEW s \in Seq(T), NEW S
    PROVE  /\ Keeping(s, S) \in Seq(T \cap S) /\ Len(Keeping(s, S)) = Cardinality(PlacesOf(s, S))
           /\ Elements(Keeping(s, S)) = Elements(s) \cap S
<1> DEFINE P == PlacesOf(s, S)
           places == InOrder(P, Ascending(P))
           k == Keeping(s, S)
           N == Cardinality(P)
<1>0. Len(s) \in Nat /\ DOMAIN s = 1 .. Len(s) /\ \A i \in 1 .. Len(s) : s[i] \in T
  OBVIOUS
<1>1. P \in SUBSET (1 .. Len(s)) /\ \A i \in P : s[i] \in T \cap S
  BY <1>0 DEF PlacesOf
<1>2. IsFiniteSet(P) /\ StrictOrder(P, Ascending(P))
  BY <1>0, <1>1, AscendingOrder
<1>3. \A n \in 1 .. N : places[n] \in P
  BY <1>2, InOrderType
<1>4. \A i \in P : \E n \in 1 .. N : places[n] = i
  BY <1>2, InOrderType
<1>5. k = [n \in 1 .. N |-> s[places[n]]]
  BY DEF Keeping
<1>6. N \in Nat
  BY <1>2, FS_CardinalityType
<1>7. P = {i \in 1 .. Len(s) : s[i] \in S}
  BY DEF PlacesOf
<1> HIDE DEF P, places, k, N
<1>8. k \in [1 .. N -> T \cap S]
  BY <1>1, <1>3, <1>5
<1>9. k \in Seq(T \cap S) /\ Len(k) = N /\ DOMAIN k = 1 .. N
  BY <1>6, <1>8
<1>10. {k[n] : n \in 1 .. N} = {s[i] : i \in P}
  BY <1>3, <1>4, <1>5
<1>11. {s[i] : i \in P} = {s[i] : i \in DOMAIN s} \cap S
  BY <1>0, <1>7
<1> QED
  BY <1>9, <1>10, <1>11 DEF k, N, P, Elements

\* What is kept of a sequence without duplicates has none.
LEMMA KeepingDistinct ==
    ASSUME NEW T, NEW s \in Seq(T), NEW S, \A i, j \in DOMAIN s : s[i] = s[j] => i = j
    PROVE  \A m, n \in DOMAIN Keeping(s, S) : Keeping(s, S)[m] = Keeping(s, S)[n] => m = n
<1> DEFINE P == PlacesOf(s, S)
           places == InOrder(P, Ascending(P))
           k == Keeping(s, S)
           N == Cardinality(P)
<1>0. Len(s) \in Nat /\ DOMAIN s = 1 .. Len(s)
  OBVIOUS
<1>1. P \in SUBSET (1 .. Len(s))
  BY <1>0 DEF PlacesOf
<1>2. IsFiniteSet(P) /\ StrictOrder(P, Ascending(P))
  BY <1>0, <1>1, AscendingOrder
<1>3. \A n \in 1 .. N : places[n] \in P /\ Cardinality(Preceding(places[n], P, Ascending(P))) = n - 1
  BY <1>2, InOrderType
<1>4. k = [n \in 1 .. N |-> s[places[n]]] /\ N \in Nat
  BY <1>2, FS_CardinalityType DEF Keeping
<1> SUFFICES ASSUME NEW m \in DOMAIN k, NEW n \in DOMAIN k, k[m] = k[n] PROVE m = n
  OBVIOUS
<1>5. m \in 1 .. N /\ n \in 1 .. N
  BY <1>4
<1>6. s[places[m]] = s[places[n]]
  BY <1>4, <1>5
<1>7. places[m] = places[n]
  <2> HIDE DEF P, places, k, N
  <2> QED
    BY <1>0, <1>1, <1>3, <1>5, <1>6
<1>8. m - 1 = n - 1
  <2>1. Preceding(places[m], P, Ascending(P)) = Preceding(places[n], P, Ascending(P))
    <3> HIDE DEF P, places, k, N
    <3> QED
      BY <1>7
  <2>2. Cardinality(Preceding(places[m], P, Ascending(P))) = Cardinality(Preceding(places[n], P, Ascending(P)))
    BY ONLY <2>1, Zenon
  <2> HIDE DEF P, places, k, N
  <2> QED
    BY <1>3, <1>5, <2>2
<1> HIDE DEF P, places, k, N
<1> QED
  BY <1>4, <1>5, <1>8

------------------------------------------------------------------------------
(* Sequences.                                                                 *)

\* A part of a sequence, two of them, and the rest of one.
LEMMA FirstPart ==
    ASSUME NEW S, NEW s \in Seq(S), NEW m \in 0 .. Len(s)
    PROVE  /\ SubSeq(s, 1, m) \in Seq(S) /\ Len(SubSeq(s, 1, m)) = m /\ DOMAIN SubSeq(s, 1, m) = 1 .. m
           /\ \A i \in 1 .. m : SubSeq(s, 1, m)[i] = s[i]
OBVIOUS
LEMMA JoinedType ==
    ASSUME NEW S, NEW a \in Seq(S), NEW b \in Seq(S)
    PROVE  /\ a \o b \in Seq(S) /\ Len(a \o b) = Len(a) + Len(b) /\ Len(a) \in Nat /\ Len(b) \in Nat
           /\ DOMAIN (a \o b) = 1 .. Len(a) + Len(b) /\ DOMAIN a = 1 .. Len(a) /\ DOMAIN b = 1 .. Len(b)
           /\ \A i \in 1 .. Len(a) : (a \o b)[i] = a[i]
           /\ \A i \in 1 .. Len(b) : (a \o b)[Len(a) + i] = b[i]
<1>1. a \o b \in Seq(S) /\ Len(a \o b) = Len(a) + Len(b) /\ Len(a) \in Nat /\ Len(b) \in Nat
  OBVIOUS
<1>2. DOMAIN (a \o b) = 1 .. Len(a) + Len(b) /\ DOMAIN a = 1 .. Len(a) /\ DOMAIN b = 1 .. Len(b)
  BY <1>1
<1>3. \A i \in 1 .. Len(a) : (a \o b)[i] = a[i]
  BY <1>1
<1>4. \A i \in 1 .. Len(b) : (a \o b)[Len(a) + i] = b[i]
  BY <1>1
<1> QED
  BY <1>1, <1>2, <1>3, <1>4
LEMMA RestOf ==
    ASSUME NEW S, NEW s \in Seq(S), NEW m \in Nat
    PROVE  LET rest == SubSeq(s, m + 1, Len(s))
           IN  /\ rest \in Seq(S) /\ Len(rest) = (IF m <= Len(s) THEN Len(s) - m ELSE 0)
               /\ \A i \in 1 .. Len(rest) : rest[i] = s[m + i]
OBVIOUS

\* A sum over places that are places of another sum is no larger.
LEMMA TotalReindex ==
    ASSUME NEW f, NEW S, Counted(f, S), NEW g, NEW P, IsFiniteSet(P), NEW h \in [P -> S],
           \A p, q \in P : h[p] = h[q] => p = q, \A p \in P : g[p] = f[h[p]]
    PROVE  Counted(g, P) /\ Total(g, P) <= Total(f, S)
<1> DEFINE Image(A) == {h[p] : p \in A}
           U == {A \in SUBSET P : Total(g, A) # Total(f, Image(A))}
<1>1. Counted(g, P) /\ \A A \in SUBSET P : Image(A) \in SUBSET S /\ Counted(g, A) /\ Counted(f, Image(A))
  BY FS_Subset DEF Counted
<1>2. U = {}
  <2> SUFFICES ASSUME U # {} PROVE FALSE
    OBVIOUS
  <2>1. PICK A \in U : \A B \in U : B \subseteq A => B = A
    <3>1. U \in SUBSET (SUBSET P)
      OBVIOUS
    <3> HIDE DEF U
    <3> QED
      BY <3>1, SmallestSet
  <2>2. A # {}
    <3>1. Total(g, {}) = 0 /\ Total(f, {}) = 0
      BY FS_EmptySet, TotalStep
    <3>2. A = {} => Image(A) = {}
      OBVIOUS
    <3>3. A = {} => Total(g, A) = Total(g, {}) /\ Total(f, Image(A)) = Total(f, {})
      BY ONLY <3>2, Zenon
    <3> QED
      BY <2>1, <3>1, <3>3
  <2>3. PICK p \in A : TRUE
    BY <2>2
  <2>4. Total(g, A) = g[p] + Total(g, A \ {p})
    BY <1>1, <2>1, TotalRemove
  <2>5. Total(f, Image(A)) = f[h[p]] + Total(f, Image(A) \ {h[p]})
    <3>1. h[p] \in Image(A)
      OBVIOUS
    <3> QED
      BY <1>1, <2>1, <3>1, TotalRemove
  <2>6. Image(A) \ {h[p]} = Image(A \ {p})
    BY <2>1
  <2>7. Total(f, Image(A) \ {h[p]}) = Total(f, Image(A \ {p}))
    BY ONLY <2>6, Zenon
  <2>8. Total(g, A \ {p}) = Total(f, Image(A \ {p}))
    BY <2>1
  <2>9. g[p] = f[h[p]]
    BY <2>1
  <2> HIDE DEF U, Image
  <2>10. Total(g, A) = Total(f, Image(A))
    BY <2>4, <2>5, <2>7, <2>8, <2>9
  <2> QED
    BY <2>1, <2>10 DEF U
<1>3. Total(g, P) = Total(f, Image(P))
  BY <1>2
<1>4. Total(f, Image(P)) <= Total(f, S)
  BY <1>1, TotalSubset
<1> HIDE DEF Image, U
<1> QED
  BY <1>1, <1>3, <1>4

\* The numbers from 1.
LEMMA Interval == ASSUME NEW n \in Nat PROVE IsFiniteSet(1 .. n) /\ Cardinality(1 .. n) = n
BY FS_Interval

\* Each place of what is kept has a place of its own in the sequence.
LEMMA KeepingPlaces ==
    ASSUME NEW T, NEW s \in Seq(T), NEW S
    PROVE  \E h \in [1 .. Len(Keeping(s, S)) -> 1 .. Len(s)] :
               \A m, n \in 1 .. Len(Keeping(s, S)) :
                   Keeping(s, S)[m] = s[h[m]] /\ (h[m] = h[n] => m = n)
<1> DEFINE P == PlacesOf(s, S)
           places == InOrder(P, Ascending(P))
           k == Keeping(s, S)
           N == Cardinality(P)
           h == [n \in 1 .. N |-> places[n]]
<1>1. P \in SUBSET (1 .. Len(s)) /\ Len(s) \in Nat
  BY DEF PlacesOf
<1>2. IsFiniteSet(P) /\ StrictOrder(P, Ascending(P)) /\ N \in Nat
  BY <1>1, AscendingOrder, FS_CardinalityType
<1>3. \A n \in 1 .. N : places[n] \in P /\ Cardinality(Preceding(places[n], P, Ascending(P))) = n - 1
  BY <1>2, InOrderType
<1>4. k = [n \in 1 .. N |-> s[places[n]]] /\ Len(k) = N
  BY KeepingType DEF Keeping
<1>5. \A m, n \in 1 .. N : places[m] = places[n] => m = n
  <2> SUFFICES ASSUME NEW m \in 1 .. N, NEW n \in 1 .. N, places[m] = places[n] PROVE m = n
    OBVIOUS
  <2>1. Cardinality(Preceding(places[m], P, Ascending(P))) = Cardinality(Preceding(places[n], P, Ascending(P)))
    BY ONLY places[m] = places[n], Zenon
  <2> HIDE DEF P, places, k, N, h
  <2> QED
    BY <1>2, <1>3, <2>1
<1> HIDE DEF P, places, k, N
<1>6. h \in [1 .. N -> 1 .. Len(s)] /\ \A m, n \in 1 .. N : k[m] = s[h[m]] /\ (h[m] = h[n] => m = n)
  BY <1>1, <1>3, <1>4, <1>5
<1> QED
  BY <1>4, <1>6 DEF k

------------------------------------------------------------------------------
(* Recursion and bounds on numbers.                                           *)

\* A set of numbers up to a bound in which every one has a larger one is empty.
LEMMA NoLast ==
    ASSUME NEW N \in Nat, NEW U \in SUBSET (1 .. N), \A p \in U : \E q \in U : p < q
    PROVE  U = {}
<1> SUFFICES ASSUME NEW u \in U PROVE FALSE
  OBVIOUS
<1> DEFINE W == {N - p : p \in U}
<1>1. W \in SUBSET Nat /\ N - u \in W
  OBVIOUS
<1>2. PICK w \in W : \A k \in W : w <= k
  <2> HIDE DEF W
  <2> QED
    BY <1>1, LeastNumber
<1>3. PICK p \in U : w = N - p
  BY <1>2
<1>4. PICK q \in U : p < q
  BY <1>3
<1>5. w <= N - q /\ p \in 1 .. N /\ q \in 1 .. N
  BY <1>2
<1> QED
  BY <1>3, <1>4, <1>5

\* A function is defined by recursion along a rank: where it does not stop, the
\* value at one place is made from the value at a place of a lower rank.
Ranked(D, R, rank, V, stop, base, next, step) ==
    /\ R \in Nat /\ rank \in [D -> 0 .. R]
    /\ \A p \in D : p \in stop => base[p] \in V
    /\ \A p \in D : p \notin stop => next[p] \in D /\ rank[next[p]] < rank[p] /\ \A v \in V : step[p][v] \in V
LEMMA DefinedAlong ==
    ASSUME NEW D, NEW R, NEW rank, NEW V, NEW stop, NEW base, NEW next, NEW step,
           Ranked(D, R, rank, V, stop, base, next, step)
    PROVE  \E f \in [D -> V] : \A p \in D : f[p] = IF p \in stop THEN base[p] ELSE step[p][f[next[p]]]
<1> DEFINE Below(m) == {p \in D : rank[p] < m}
           Works(f, m) == \A p \in Below(m) : f[p] = IF p \in stop THEN base[p] ELSE step[p][f[next[p]]]
           Defined(m) == \E f \in [Below(m) -> V] : Works(f, m)
           U == {m \in Nat : ~ Defined(m)}
<1>0. /\ R \in Nat /\ rank \in [D -> 0 .. R]
      /\ \A p \in D : p \in stop => base[p] \in V
      /\ \A p \in D : p \notin stop => next[p] \in D /\ rank[next[p]] < rank[p] /\ \A v \in V : step[p][v] \in V
  BY DEF Ranked
<1>1. U = {}
  <2> USE <1>0
  <2> SUFFICES ASSUME NEW u \in U PROVE FALSE
    OBVIOUS
  <2>1. PICK m \in U : \A k \in U : m <= k
    <3>1. U \in SUBSET Nat
      OBVIOUS
    <3> HIDE DEF U
    <3> QED
      BY <3>1, LeastNumber
  <2>2. CASE m = 0
    <3>1. Below(0) = {}
      OBVIOUS
    <3> DEFINE f == [p \in Below(0) |-> base[p]]
    <3>2. f \in [Below(0) -> V] /\ Works(f, 0)
      BY <3>1
    <3> QED
      BY <2>1, <2>2, <3>2
  <2>3. CASE m # 0
    <3>1. m - 1 \in Nat /\ m \in Nat /\ m - 1 \notin U
      <4>1. m \in Nat
        BY <2>1
      <4> HIDE DEF U
      <4> QED
        BY <2>1, <2>3, <4>1
    <3>2. PICK f \in [Below(m - 1) -> V] : Works(f, m - 1)
      BY <3>1
    <3> DEFINE g == [p \in Below(m) |-> IF p \in stop THEN base[p] ELSE step[p][f[next[p]]]]
    <3>3. \A p \in Below(m) : p \notin stop => next[p] \in Below(m - 1)
      BY <3>1
    <3>4. \A p \in Below(m) : p \in Below(m - 1) => g[p] = f[p]
      BY <3>2
    <3>5. \A p \in Below(m - 1) : p \in Below(m)
      BY <3>1
    <3>6. g \in [Below(m) -> V]
      <4> SUFFICES ASSUME NEW p \in Below(m) PROVE (IF p \in stop THEN base[p] ELSE step[p][f[next[p]]]) \in V
        OBVIOUS
      <4>1. p \notin stop => f[next[p]] \in V
        BY <3>2, <3>3
      <4> QED
        BY <4>1
    <3>7. Works(g, m)
      <4> SUFFICES ASSUME NEW p \in Below(m) PROVE g[p] = IF p \in stop THEN base[p] ELSE step[p][g[next[p]]]
        OBVIOUS
      <4>1. p \notin stop => g[next[p]] = f[next[p]]
        BY <3>3, <3>4, <3>5
      <4> QED
        BY <4>1
    <3> HIDE DEF g, Works, Below
    <3> QED
      BY <2>1, <3>6, <3>7
  <2> QED
    BY <2>2, <2>3
<1>2. Below(R + 1) = D
  BY <1>0
<1>3. \E f \in [Below(R + 1) -> V] : Works(f, R + 1)
  <2>1. R + 1 \in Nat /\ R + 1 \notin U
    <3> HIDE DEF U
    <3> QED
      BY <1>0, <1>1
  <2>2. Defined(R + 1)
    <3> HIDE DEF Defined
    <3> QED
      BY <2>1
  <2> HIDE DEF Below, Works, U
  <2> QED
    BY <2>2, Zenon
<1> QED
  BY <1>2, <1>3
==============================================================================
