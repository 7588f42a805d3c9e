---------------------------- MODULE ArchiveProofs ----------------------------
(* The archives a tree comes from and goes into, and the zips of modules,      *)
(* proved for every value of their constants.                                  *)
EXTENDS ArchiveTree, ModuleZip, FiniteLemmas, SequenceTheorems

------------------------------------------------------------------------------
(* Archives: what path.Clean does to any path.                                 *)

\* A sequence with one more element.
LEMMA AppendType ==
    ASSUME NEW S, NEW p \in Seq(S), NEW s \in S
    PROVE  /\ Append(p, s) \in Seq(S) /\ Len(Append(p, s)) = Len(p) + 1 /\ Len(p) \in Nat
           /\ DOMAIN Append(p, s) = 1 .. Len(p) + 1 /\ Append(p, s)[Len(p) + 1] = s
           /\ \A i \in 1 .. Len(p) : Append(p, s)[i] = p[i]
           /\ Elements(Append(p, s)) = Elements(p) \cup {s}
<1>1. /\ Append(p, s) \in Seq(S) /\ Len(Append(p, s)) = Len(p) + 1 /\ Append(p, s)[Len(p) + 1] = s
      /\ \A i \in 1 .. Len(p) : Append(p, s)[i] = p[i]
  BY AppendProperties
<1>2. DOMAIN Append(p, s) = 1 .. Len(p) + 1 /\ DOMAIN p = 1 .. Len(p) /\ Len(p) \in Nat
  BY <1>1, LenProperties
<1> DEFINE r == Append(p, s)
<1> HIDE DEF r
<1>3. Elements(r) = Elements(p) \cup {s}
  BY <1>1, <1>2 DEF Elements, r
<1> QED
  BY <1>1, <1>2, <1>3 DEF r

Tops(p) == Cardinality({i \in DOMAIN p : p[i] = Top})
LEMMA TopsType ==
    ASSUME NEW S, NEW p \in Seq(S)
    PROVE  /\ IsFiniteSet({i \in DOMAIN p : p[i] = Top}) /\ Tops(p) \in Nat
           /\ PathLength(p) = Len(p) + archiveSetting.longer * Tops(p)
<1>1. IsFiniteSet(1 .. Len(p)) /\ DOMAIN p = 1 .. Len(p)
  BY FS_Interval
<1>2. IsFiniteSet({i \in DOMAIN p : p[i] = Top})
  BY <1>1, FS_Subset
<1> QED
  BY <1>2, FS_CardinalityType DEF Tops, PathLength

\* A path that goes up only at its beginning.
Relative(p) ==
    /\ \A i \in DOMAIN p : p[i] # "."
    /\ \A i \in DOMAIN p : i > 1 /\ p[i] = ".." => p[i - 1] = ".."
LEMMA CleanStepKeeps ==
    ASSUME NEW S, NEW p \in Seq(S), Relative(p), NEW s \in S
    PROVE  /\ CleanStep(p, s) \in Seq(S) /\ Relative(CleanStep(p, s))
           /\ Len(CleanStep(p, s)) <= Len(p) + 1
           /\ Elements(CleanStep(p, s)) \subseteq Elements(p) \cup {s}
           /\ Tops(CleanStep(p, s)) <= Tops(p) + (IF s = Top THEN 1 ELSE 0)
<1> DEFINE T == {i \in DOMAIN p : p[i] = Top}
<1>0. Len(p) \in Nat /\ DOMAIN p = 1 .. Len(p) /\ IsFiniteSet(T) /\ Cardinality(T) \in Nat
  <2>1. Len(p) \in Nat /\ DOMAIN p = 1 .. Len(p)
    BY LenProperties
  <2>2. IsFiniteSet(T) /\ Tops(p) \in Nat
    BY TopsType
  <2> QED
    BY <2>1, <2>2 DEF Tops
<1>1. CASE s = "."
  BY <1>0, <1>1 DEF CleanStep, Tops
<1>2. CASE s # "." /\ (s # ".." \/ p = <<>> \/ Last(p) = "..")
  <2> DEFINE r == Append(p, s)
  <2>1. CleanStep(p, s) = r
    BY <1>2 DEF CleanStep
  <2>2. /\ r \in Seq(S) /\ Len(r) = Len(p) + 1 /\ DOMAIN r = 1 .. Len(p) + 1 /\ r[Len(p) + 1] = s
        /\ \A i \in 1 .. Len(p) : r[i] = p[i]
    BY AppendType
  <2>3. Elements(r) \subseteq Elements(p) \cup {s}
    BY AppendType
  <2> HIDE DEF r
  <2>4. Relative(r)
    <3>1. \A i \in DOMAIN r : r[i] # "."
      BY <1>0, <1>2, <2>2 DEF Relative
    <3>2. ASSUME NEW i \in DOMAIN r, i > 1, r[i] = ".." PROVE r[i - 1] = ".."
      <4>1. CASE i \in 1 .. Len(p)
        BY <1>0, <2>2, <3>2, <4>1 DEF Relative
      <4>2. CASE i = Len(p) + 1
        <5>1. p # <<>>
          BY <1>0, <3>2, <4>2
        <5>2. Last(p) = ".."
          BY <1>2, <2>2, <3>2, <4>2, <5>1
        <5> QED
          BY <1>0, <2>2, <3>2, <4>2, <5>2 DEF Last
      <4> QED
        BY <1>0, <2>2, <4>1, <4>2
    <3> QED
      BY <3>1, <3>2 DEF Relative
  <2>5. Tops(r) <= Tops(p) + (IF s = Top THEN 1 ELSE 0)
    <3> DEFINE R == {i \in DOMAIN r : r[i] = Top}
    <3>1. R = IF s = Top THEN T \cup {Len(p) + 1} ELSE T
      BY <1>0, <2>2
    <3>2. Cardinality(T \cup {Len(p) + 1}) = Cardinality(T) + 1
      <4>1. Len(p) + 1 \notin T
        BY <1>0
      <4> HIDE DEF T
      <4> QED
        BY <1>0, <4>1, FS_AddElement
    <3>3. Tops(p) = Cardinality(T) /\ Tops(r) = Cardinality(R)
      BY DEF Tops
    <3> HIDE DEF T, R
    <3> QED
      BY <1>0, <3>1, <3>2, <3>3
  <2> QED
    BY <2>1, <2>2, <2>3, <2>4, <2>5
<1>3. CASE s = ".." /\ p # <<>> /\ Last(p) # ".."
  <2> DEFINE r == Front(p)
  <2>1. CleanStep(p, s) = r
    BY <1>3 DEF CleanStep
  <2>2. /\ r \in Seq(S) /\ Len(r) = Len(p) - 1 /\ DOMAIN r = 1 .. Len(p) - 1
        /\ \A i \in 1 .. Len(p) - 1 : r[i] = p[i]
    BY <1>0, <1>3 DEF Front
  <2> HIDE DEF r
  <2>3. Elements(r) \subseteq Elements(p) \cup {s}
    BY <1>0, <2>2 DEF Elements
  <2>4. Relative(r)
    BY <1>0, <2>2 DEF Relative
  <2>5. Tops(r) <= Tops(p)
    <3> DEFINE R == {i \in DOMAIN r : r[i] = Top}
    <3>1. R \subseteq T
      BY <1>0, <2>2
    <3>2. Cardinality(R) <= Cardinality(T)
      BY <1>0, <3>1, FS_Subset
    <3> QED
      BY <3>2 DEF Tops
  <2>6. Tops(r) \in Nat /\ Tops(p) \in Nat
    BY <2>2, TopsType
  <2> QED
    BY <1>0, <1>3, <2>1, <2>2, <2>3, <2>4, <2>5, <2>6
<1> QED
  BY <1>1, <1>2, <1>3

\* The segments one after the other.
Cleans(f, path, m) == f = [n \in 0 .. m |-> IF n = 0 THEN <<>> ELSE CleanStep(f[n - 1], path[n])]
CleanedBy(path) == CHOOSE f : Cleans(f, path, Len(path))
LEMMA PathCleanIs == ASSUME NEW path PROVE PathClean(path) = CleanedBy(path)[Len(path)]
BY DEF PathClean, CleanedBy, Cleans
LEMMA CleansExists == ASSUME NEW path, Len(path) \in Nat PROVE Cleans(CleanedBy(path), path, Len(path))
<1> DEFINE U == {m \in Nat : ~ \E f : Cleans(f, path, m)}
<1>1. U = {}
  <2> SUFFICES ASSUME U # {} PROVE FALSE
    OBVIOUS
  <2>1. PICK m \in U : \A k \in U : m <= k
    <3>1. U \in SUBSET Nat
      OBVIOUS
    <3> HIDE DEF U
    <3> QED
      BY <3>1, LeastNumber
  <2>2. CASE m = 0
    <3> DEFINE f == [n \in 0 .. 0 |-> <<>>]
    <3>1. Cleans(f, path, 0)
      BY DEF Cleans
    <3> QED
      BY <2>1, <2>2, <3>1
  <2>3. CASE m # 0
    <3>1. m - 1 \in Nat /\ m \in Nat /\ m - 1 \notin U
      BY <2>1, <2>3
    <3>2. PICK f : Cleans(f, path, m - 1)
      BY <3>1
    <3> DEFINE g == [n \in 0 .. m |-> IF n = m THEN CleanStep(f[m - 1], path[m]) ELSE f[n]]
    <3>3. \A n \in 0 .. m - 1 : f[n] = IF n = 0 THEN <<>> ELSE CleanStep(f[n - 1], path[n])
      BY <3>2, Zenon DEF Cleans
    <3>4. \A n \in 0 .. m - 1 : g[n] = f[n]
      BY <3>1
    <3>5. \A n \in 0 .. m : g[n] = IF n = 0 THEN <<>> ELSE CleanStep(g[n - 1], path[n])
      <4> SUFFICES ASSUME NEW n \in 0 .. m PROVE g[n] = IF n = 0 THEN <<>> ELSE CleanStep(g[n - 1], path[n])
        OBVIOUS
      <4>1. n # 0 => n - 1 \in 0 .. m - 1
        BY <3>1
      <4>2. CASE n = m
        <5>1. g[n] = CleanStep(f[m - 1], path[m]) /\ g[n - 1] = f[n - 1]
          BY <2>3, <3>4, <4>1, <4>2
        <5> QED
          BY <2>3, <4>2, <5>1
      <4>3. CASE n # m
        <5>1. n \in 0 .. m - 1
          BY <3>1, <4>3
        <5>2. g[n] = f[n] /\ (n # 0 => g[n - 1] = f[n - 1])
          BY <3>4, <4>1, <5>1
        <5> QED
          BY <3>3, <5>1, <5>2
      <4> QED
        BY <4>2, <4>3
    <3>6. Cleans(g, path, m)
      <4>1. g = [n \in 0 .. m |-> g[n]]
        OBVIOUS
      <4> HIDE DEF g
      <4> QED
        BY <3>5, <4>1 DEF Cleans
    <3> QED
      BY <2>1, <3>6
  <2> QED
    BY <2>2, <2>3
<1>2. \E f : Cleans(f, path, Len(path))
  BY <1>1
<1> QED
  BY <1>2 DEF CleanedBy

\* What the first n segments give.
LEMMA CleanSoFar ==
    ASSUME NEW S, NEW path \in Seq(S), NEW n \in 0 .. Len(path)
    PROVE  /\ CleanedBy(path)[n] \in Seq(S) /\ Relative(CleanedBy(path)[n]) /\ Len(CleanedBy(path)[n]) <= n
           /\ Elements(CleanedBy(path)[n]) \subseteq Elements(path)
           /\ Tops(CleanedBy(path)[n]) <= Cardinality({i \in 1 .. n : path[i] = Top})
<1> DEFINE f == CleanedBy(path)
           Holds(k) == /\ f[k] \in Seq(S) /\ Relative(f[k]) /\ Len(f[k]) <= k /\ Elements(f[k]) \subseteq Elements(path)
                       /\ Tops(f[k]) <= Cardinality({i \in 1 .. k : path[i] = Top})
           U == {k \in 0 .. Len(path) : ~ Holds(k)}
<1>0. Len(path) \in Nat /\ DOMAIN path = 1 .. Len(path) /\ \A k \in 1 .. Len(path) : path[k] \in S
  BY LenProperties
<1>1. \A k \in 0 .. Len(path) : f[k] = IF k = 0 THEN <<>> ELSE CleanStep(f[k - 1], path[k])
  BY <1>0, CleansExists, Zenon DEF Cleans
<1> SUFFICES ASSUME U # {} PROVE FALSE
  OBVIOUS
<1>2. PICK m \in U : \A k \in U : m <= k
  <2>1. U \in SUBSET Nat
    BY <1>0
  <2> HIDE DEF U
  <2> QED
    BY <2>1, LeastNumber
<1>3. m # 0
  <2>1. ASSUME m = 0 PROVE FALSE
    <3>1. f[0] = <<>>
      BY <1>0, <1>1
    <3>2. <<>> \in Seq(S) /\ Len(<<>>) = 0 /\ DOMAIN <<>> = {}
      BY EmptySeq, LenProperties
    <3>3. Relative(<<>>) /\ Elements(<<>>) = {}
      BY <3>2 DEF Relative, Elements
    <3>4. Tops(<<>>) = 0
      <4>1. {i \in DOMAIN <<>> : <<>>[i] = Top} = {}
        BY <3>2
      <4> QED
        BY <4>1, FS_EmptySet DEF Tops
    <3>5. Cardinality({i \in 1 .. 0 : path[i] = Top}) = 0
      <4>1. {i \in 1 .. 0 : path[i] = Top} = {}
        OBVIOUS
      <4> QED
        BY <4>1, FS_EmptySet
    <3> HIDE DEF f
    <3>6. Holds(0)
      BY <3>1, <3>2, <3>3, <3>4, <3>5
    <3> QED
      BY <1>2, <2>1, <3>6
  <2> QED
    BY <2>1
<1>4. m - 1 \in 0 .. Len(path) /\ m \in 1 .. Len(path) /\ m - 1 < m
  BY <1>0, <1>2, <1>3
<1>5. Holds(m - 1)
  <2>1. m - 1 \notin U
    <3> HIDE DEF U
    <3> QED
      BY <1>0, <1>2, <1>4
  <2> HIDE DEF Holds
  <2> QED
    BY <1>4, <2>1
<1>6. f[m] = CleanStep(f[m - 1], path[m]) /\ path[m] \in S /\ path[m] \in Elements(path)
  BY <1>0, <1>1, <1>4 DEF Elements
<1> DEFINE d == f[m - 1]
           s == path[m]
           T == {i \in 1 .. m - 1 : path[i] = Top}
<1>7. /\ CleanStep(d, s) \in Seq(S) /\ Relative(CleanStep(d, s)) /\ Len(CleanStep(d, s)) <= Len(d) + 1
      /\ Elements(CleanStep(d, s)) \subseteq Elements(d) \cup {s}
      /\ Tops(CleanStep(d, s)) <= Tops(d) + (IF s = Top THEN 1 ELSE 0)
  <2>1. d \in Seq(S) /\ Relative(d) /\ s \in S
    BY <1>5, <1>6
  <2> HIDE DEF d, s
  <2> QED
    BY <2>1, CleanStepKeeps
<1>8. {i \in 1 .. m : path[i] = Top} = IF s = Top THEN T \cup {m} ELSE T
  BY <1>0, <1>4
<1>9. IsFiniteSet(T) /\ m \notin T
  <2>1. IsFiniteSet(1 .. m - 1)
    BY <1>4, FS_Interval
  <2> QED
    BY <1>0, <1>4, <2>1, FS_Subset
<1>10. Cardinality(T) \in Nat /\ Cardinality(T \cup {m}) = Cardinality(T) + 1
  <2> HIDE DEF T
  <2> QED
    BY <1>9, FS_AddElement, FS_CardinalityType
<1>11. Tops(d) \in Nat /\ Tops(CleanStep(d, s)) \in Nat /\ Len(d) \in Nat /\ Len(CleanStep(d, s)) \in Nat
  BY <1>5, <1>7, TopsType, LenProperties
<1>12. Tops(d) <= Cardinality(T) /\ Len(d) <= m - 1 /\ Elements(d) \subseteq Elements(path)
  BY <1>5
<1>13. Tops(CleanStep(d, s)) <= Cardinality({i \in 1 .. m : path[i] = Top})
  <2>1. s = Top => Cardinality({i \in 1 .. m : path[i] = Top}) = Cardinality(T \cup {m})
    BY ONLY <1>8, Zenon
  <2>2. s # Top => Cardinality({i \in 1 .. m : path[i] = Top}) = Cardinality(T)
    BY ONLY <1>8, Zenon
  <2> HIDE DEF d, s, T, f
  <2> QED
    BY <1>7, <1>10, <1>11, <1>12, <2>1, <2>2
<1>14. Len(CleanStep(d, s)) <= m
  <2> HIDE DEF d, s, T, f
  <2> QED
    BY <1>4, <1>7, <1>11, <1>12
<1>15. Elements(CleanStep(d, s)) \subseteq Elements(path)
  BY <1>6, <1>7, <1>12
<1>16. Holds(m)
  <2> HIDE DEF f
  <2> QED
    BY <1>6, <1>7, <1>13, <1>14, <1>15
<1> QED
  BY <1>2, <1>16

\* path.Clean: the result is relative, of segments of the path, and not longer.
LEMMA PathCleanType ==
    ASSUME NEW S, NEW path \in Seq(S)
    PROVE  /\ PathClean(path) \in Seq(S) /\ Relative(PathClean(path))
           /\ Elements(PathClean(path)) \subseteq Elements(path)
           /\ Len(PathClean(path)) <= Len(path) /\ Tops(PathClean(path)) <= Tops(path)
<1>1. Len(path) \in 0 .. Len(path) /\ DOMAIN path = 1 .. Len(path)
  BY LenProperties
<1>2. Tops(path) = Cardinality({i \in 1 .. Len(path) : path[i] = Top})
  BY <1>1 DEF Tops
<1> QED
  BY <1>1, <1>2, CleanSoFar, PathCleanIs

\* Nothing is to clean where no segment is "." or "..".
LEMMA PlainIsClean ==
    ASSUME NEW S, NEW path \in Seq(S), \A i \in DOMAIN path : path[i] \notin {".", ".."}
    PROVE  PathClean(path) = path
<1> DEFINE f == CleanedBy(path)
           Holds(k) == f[k] \in Seq(S) /\ Len(f[k]) = k /\ \A i \in 1 .. k : f[k][i] = path[i]
           U == {k \in 0 .. Len(path) : ~ Holds(k)}
<1>0. Len(path) \in Nat /\ DOMAIN path = 1 .. Len(path) /\ \A k \in 1 .. Len(path) : path[k] \in S
  BY LenProperties
<1>1. \A k \in 0 .. Len(path) : f[k] = IF k = 0 THEN <<>> ELSE CleanStep(f[k - 1], path[k])
  BY <1>0, CleansExists, Zenon DEF Cleans
<1>2. U = {}
  <2> SUFFICES ASSUME U # {} PROVE FALSE
    OBVIOUS
  <2>1. PICK m \in U : \A k \in U : m <= k
    <3>1. U \in SUBSET Nat
      BY <1>0
    <3> HIDE DEF U
    <3> QED
      BY <3>1, LeastNumber
  <2>2. CASE m = 0
    <3>1. f[0] = <<>> /\ <<>> \in Seq(S) /\ Len(<<>>) = 0
      BY <1>0, <1>1, EmptySeq
    <3> HIDE DEF f
    <3>2. Holds(0)
      BY <3>1
    <3> QED
      BY <2>1, <2>2, <3>2
  <2>3. CASE m # 0
    <3>1. m - 1 \in 0 .. Len(path) /\ m \in 1 .. Len(path) /\ m - 1 < m
      BY <1>0, <2>1, <2>3
    <3>2. Holds(m - 1)
      BY <2>1, <3>1
    <3>3. f[m] = Append(f[m - 1], path[m]) /\ path[m] \in S
      <4>1. f[m] = CleanStep(f[m - 1], path[m])
        BY <1>1, <2>3, <3>1
      <4>2. path[m] # "." /\ path[m] # ".." /\ path[m] \in S
        BY <1>0, <3>1
      <4> HIDE DEF f
      <4> QED
        BY <4>1, <4>2, Zenon DEF CleanStep
    <3> DEFINE g == f[m - 1]
    <3> HIDE DEF f
    <3>a. g \in Seq(S) /\ Len(g) = m - 1 /\ \A i \in 1 .. m - 1 : g[i] = path[i]
      BY <3>2
    <3>b. f[m] = Append(g, path[m]) /\ path[m] \in S /\ m - 1 + 1 = m
      BY <3>1, <3>3
    <3> HIDE DEF g
    <3>4. /\ f[m] \in Seq(S) /\ Len(f[m]) = m /\ f[m][m] = path[m]
          /\ \A i \in 1 .. m - 1 : f[m][i] = path[i]
      BY <3>a, <3>b, AppendType
    <3>5. Holds(m)
      BY <3>1, <3>4
    <3> QED
      BY <2>1, <3>5
  <2> QED
    BY <2>2, <2>3
<1>3. Holds(Len(path))
  BY <1>0, <1>2
<1> HIDE DEF f
<1>4. f[Len(path)] = path
  BY <1>3, SeqEqual
<1> QED
  BY <1>4, PathCleanIs DEF f

\* A path that is clean, valid and its own form has only proper segments.
Plain(path) == path # <<>> /\ Elements(path) \cap ({".", ".."} \cup Unhygienic \cup Reserved) = {}
LEMMA RelativeBelow ==
    ASSUME NEW S, NEW path \in Seq(S), Relative(path), ~ Above(path)
    PROVE  \A i \in DOMAIN path : path[i] \notin {".", ".."}
<1> DEFINE U == {i \in DOMAIN path : path[i] = ".."}
<1>0. Len(path) \in Nat /\ DOMAIN path = 1 .. Len(path)
  BY LenProperties
<1> SUFFICES ASSUME U # {} PROVE FALSE
  BY DEF Relative
<1>1. PICK i \in U : \A j \in U : i <= j
  <2>1. U \in SUBSET Nat
    BY <1>0
  <2> HIDE DEF U
  <2> QED
    BY <2>1, LeastNumber
<1>2. i > 1 => i - 1 \in U
  BY <1>0, <1>1 DEF Relative
<1>3. i = 1
  BY <1>0, <1>1, <1>2
<1>4. path # <<>> /\ Head(path) = path[1]
  BY <1>0, <1>1, <1>3
<1> QED
  BY <1>1, <1>3, <1>4 DEF Above
LEMMA CanonicalIs == ASSUME NEW S, NEW path \in Seq(S) PROVE Canonical(path) <=> Plain(path)
<1>0. Len(path) \in Nat /\ DOMAIN path = 1 .. Len(path) /\ ToSet(path) = Elements(path)
  BY LenProperties DEF ToSet, Elements
<1>1. ASSUME Canonical(path) PROVE Plain(path)
  <2>1. PathClean(path) = path /\ ~ Above(path) /\ Hygienic(path) /\ ToSet(path) \cap Reserved = {}
    BY <1>1 DEF Canonical, Cleanable
  <2>2. \A i \in DOMAIN path : path[i] \notin {".", ".."}
    BY <2>1, PathCleanType, RelativeBelow
  <2> QED
    BY <1>0, <2>1, <2>2 DEF Hygienic, Plain, Elements
<1>2. ASSUME Plain(path) PROVE Canonical(path)
  <2>1. \A i \in DOMAIN path : path[i] \notin {".", ".."}
    BY <1>2 DEF Plain, Elements
  <2>2. PathClean(path) = path
    BY <2>1, PlainIsClean
  <2>3. ~ Above(path)
    BY <1>0, <1>2, <2>1 DEF Above, Plain
  <2> QED
    BY <1>0, <1>2, <2>2, <2>3 DEF Canonical, Cleanable, Plain, Hygienic
<1> QED
  BY <1>1, <1>2
\* What path.Clean makes of a path that is taken is a path that is taken as it is.
LEMMA CleanIsCanonical == ASSUME NEW S, NEW path \in Seq(S), Cleanable(path) PROVE Canonical(PathClean(path))
<1> DEFINE p == PathClean(path)
<1>1. p \in Seq(S) /\ Relative(p) /\ Elements(p) \subseteq Elements(path)
  BY PathCleanType
<1>2. Hygienic(path) /\ p # <<>> /\ ~ Above(p) /\ ToSet(p) \cap Reserved = {}
  BY DEF Cleanable
<1> HIDE DEF p
<1>3. \A i \in DOMAIN p : p[i] \notin {".", ".."}
  BY <1>1, <1>2, RelativeBelow
<1>4. Plain(p)
  BY <1>1, <1>2, <1>3 DEF Plain, Hygienic, Elements, ToSet
<1> QED
  BY <1>1, <1>4, CanonicalIs DEF p

------------------------------------------------------------------------------
(* Archives: for headers of any number, with any names and contents, and for  *)
(* any limits, what is extracted can be published where storage has room for   *)
(* it, and a universal archive that was written comes back as the same tree    *)
(* where it can be read.                                                       *)

TreeEntry == [path : Seq(STRING), mode : {"file", "symlink"}, blob : Seq(STRING)]
ArchiveTypes ==
    /\ archiveSetting \in ArchiveSettings /\ party \in {"ingest", "mirror"}
    /\ stage \in {"extract", "staged", "published", "mirrored", "unwritten", "refused", "failed"}
    /\ archive \in Seq(ArchiveHeader) /\ position \in Nat \ {0} /\ entries \in Seq(TreeEntry)
    /\ tree \in SUBSET TreeEntry

\* What the loop over the headers has asked of every entry, and of all of them.
WithinLimits(e) ==
    /\ Canonical(e.path) /\ PathLength(e.path) <= limits.path /\ Len(e.blob) <= limits.file
    /\ e.mode = "symlink" => Len(e.blob) <= limits.path
EntriesFit ==
    /\ Len(entries) <= position - 1 /\ position - 1 <= limits.count
    /\ \A i \in DOMAIN entries : WithinLimits(entries[i])
    /\ Unpacked(entries) <= limits.unpacked

\* The temporary files and the contents of the entries, one to one.
OneFileEach ==
    /\ DOMAIN blobs = Used(entries) /\ blobs = [b \in Used(entries) |-> blobs[b]]
    /\ \A a, b \in Used(entries) : blobs[a] \in 1 .. position - 1 /\ (blobs[a] = blobs[b] => a = b)
    /\ spool = {blobs[b] : b \in Used(entries)}

\* What an extraction returns.
Returned == Wellformed(entries) /\ \A i \in DOMAIN entries : Safe(entries[i])

\* The tree a mirror is to get, the archive it gets it from, and the entries it
\* has made of the headers so far.
TreeFits ==
    /\ tree # {} /\ ~ Clash({e.path : e \in tree})
    /\ \A e \in tree :
           /\ WithinLimits(e) /\ Safe(e)
           /\ Canonical(Prefixed(e).name) /\ PathLength(Prefixed(e).name) <= limits.path
           /\ \A f \in tree : e.path = f.path => e = f
    /\ Storable(tree)
HeaderSizes(headers) == [i \in DOMAIN headers |-> Len(headers[i].content)]
ArchiveOfTree ==
    /\ {archive[i] : i \in DOMAIN archive} = {Prefixed(e) : e \in tree}
    /\ \A i, j \in DOMAIN archive : archive[i] = archive[j] => i = j
    /\ Len(archive) <= limits.count /\ Total(HeaderSizes(archive), DOMAIN archive) <= limits.unpacked
AsEntry(h) == [path |-> h.name, mode |-> h.type, blob |-> h.content]
MirrorFollows ==
    /\ TreeFits /\ ArchiveOfTree
    /\ stage = "refused" => Unreadable
    /\ stage = "extract" => position <= Len(archive) + 1 /\ entries = [i \in 1 .. position - 1 |-> AsEntry(archive[i])]
    /\ stage = "staged" => ToSet(entries) = tree

ArchiveInv ==
    /\ ArchiveTypes /\ EntriesFit
    /\ stage \in {"extract", "staged"} => OneFileEach
    /\ stage \in {"refused", "failed"} => spool = {}
    /\ stage \in {"staged", "published"} => Returned
    /\ stage = "published" => tree = ToSet(entries) /\ Storable(tree)
    /\ party = "mirror" => MirrorFollows

------------------------------------------------------------------------------
LEMMA ArchiveSettingType ==
    ASSUME ArchiveTypes
    PROVE  /\ limits.count \in Nat /\ limits.path \in Nat /\ limits.file \in Nat /\ limits.unpacked \in Nat
           /\ archiveSetting.longer \in Nat
           /\ caps.file \in Nat /\ caps.path \in Nat /\ caps.object \in Nat /\ caps.entry \in Nat
           /\ tar.block \in Nat \ {0} /\ tar.short \in Nat /\ tar.record \in Nat
           /\ Format \in {"tar", "zip"}
<1>1. archiveSetting \in ArchiveSettings /\ party \in {"ingest", "mirror"}
  BY DEF ArchiveTypes
<1>2. /\ archiveSetting.limits \in [count : Nat, path : Nat, file : Nat, unpacked : Nat]
      /\ archiveSetting.longer \in Nat
      /\ archiveSetting.caps \in [file : Nat, path : Nat, object : Nat, entry : Nat]
      /\ archiveSetting.format \in [{"ingest", "mirror"} -> {"tar", "zip"}]
      /\ archiveSetting.tar \in [block : Nat \ {0}, short : Nat, record : Nat]
  BY <1>1, ArchiveSettingsAssumption
<1> QED
  BY <1>1, <1>2 DEF limits, caps, tar, Format

\* The bytes of a tree object.
EntrySizes(S) == [e \in S |-> PathLength(e.path) + caps.entry]
LEMMA TreeBytesIs == ASSUME NEW S PROVE TreeBytes(S) = Total(EntrySizes(S), S)
BY DEF TreeBytes, EntrySizes

\* The settings are the same for good, and so is what they allow.
LEMMA SameLimits ==
    ASSUME UNCHANGED archiveSetting, NEW e
    PROVE  /\ WithinLimits(e)' <=> WithinLimits(e)
           /\ Safe(e)' <=> Safe(e)
           /\ limits' = limits
           /\ \A p : PathLength(p)' = PathLength(p)
           /\ Storable(e)' <=> Storable(e)
           /\ Prefixed(e)' = Prefixed(e)
<1>1. limits' = limits /\ caps' = caps /\ tar' = tar /\ \A p : PathLength(p)' = PathLength(p)
  BY DEF limits, caps, tar, PathLength
<1>2. (WithinLimits(e)' <=> WithinLimits(e)) /\ (Safe(e)' <=> Safe(e))
  BY <1>1 DEF WithinLimits, Safe
<1>3. Storable(e)' <=> Storable(e)
  <2> DEFINE u == [x \in e |-> PathLength(x.path)' + caps'.entry]
  <2>1. u = EntrySizes(e)
    BY <1>1 DEF EntrySizes
  <2>2. TreeBytes(e)' = Total(u, e)
    BY DEF TreeBytes
  <2> HIDE DEF u
  <2>3. TreeBytes(e)' = TreeBytes(e)
    BY <2>1, <2>2, TreeBytesIs
  <2> QED
    BY <1>1, <2>3 DEF Storable
<1>4. Prefixed(e)' = Prefixed(e)
  BY DEF Prefixed, HeaderOf, Extended, Record, Padded, tar, PathLength
<1> QED
  BY <1>1, <1>2, <1>3, <1>4

LEMMA Times == ASSUME NEW a \in Nat, NEW b \in Nat, NEW c \in Nat, a <= b PROVE c * a <= c * b
<1>1. PICK d \in Nat : b = a + d
  OBVIOUS
<1>2. c * b = c * a + c * d /\ c * d \in Nat /\ c * a \in Nat
  BY <1>1
<1> QED
  BY <1>2

\* Cleaning a path, or taking its top off, does not make it longer.
LEMMA CleanNotLonger ==
    ASSUME ArchiveTypes, NEW S, NEW path \in Seq(S)
    PROVE  PathLength(PathClean(path)) <= PathLength(path)
<1> DEFINE p == PathClean(path)
<1>1. p \in Seq(S) /\ Len(p) <= Len(path) /\ Tops(p) <= Tops(path)
  BY PathCleanType
<1> HIDE DEF p
<1>2. /\ Len(p) \in Nat /\ Len(path) \in Nat /\ Tops(p) \in Nat /\ Tops(path) \in Nat
      /\ PathLength(p) = Len(p) + archiveSetting.longer * Tops(p)
      /\ PathLength(path) = Len(path) + archiveSetting.longer * Tops(path)
  BY <1>1, TopsType, LenProperties
<1> DEFINE l == archiveSetting.longer
<1>3. l \in Nat
  BY ArchiveSettingType
<1> HIDE DEF l
<1>4. l * Tops(p) <= l * Tops(path) /\ l * Tops(p) \in Nat /\ l * Tops(path) \in Nat
  BY <1>1, <1>2, <1>3, Times
<1> QED
  BY <1>1, <1>2, <1>4 DEF l, p
LEMMA TailNotLonger ==
    ASSUME ArchiveTypes, NEW S, NEW path \in Seq(S), Len(path) > 1, Plain(path)
    PROVE  /\ Tail(path) \in Seq(S) /\ Plain(Tail(path)) /\ PathLength(Tail(path)) <= PathLength(path)
<1> DEFINE p == Tail(path)
           A == {i \in DOMAIN p : p[i] = Top}
           B == {i \in DOMAIN path : path[i] = Top}
           h == [i \in A |-> i + 1]
<1>0. path # <<>> /\ Len(path) \in Nat /\ DOMAIN path = 1 .. Len(path)
  BY LenProperties, EmptySeq
<1>1. /\ p \in Seq(S) /\ Len(p) = Len(path) - 1 /\ DOMAIN p = 1 .. Len(path) - 1
      /\ \A i \in 1 .. Len(path) - 1 : p[i] = path[i + 1]
  BY <1>0, HeadTailProperties, LenProperties
<1> HIDE DEF p
<1>2. Plain(p)
  <2>1. Elements(p) \subseteq Elements(path)
    BY <1>0, <1>1 DEF Elements
  <2>2. p # <<>>
    BY <1>0, <1>1
  <2> QED
    BY <2>1, <2>2 DEF Plain
<1>3. h \in Injection(A, B)
  BY <1>0, <1>1 DEF Injection, IsInjective
<1>4. Cardinality(A) <= Cardinality(B)
  <2>1. IsFiniteSet(B)
    BY TopsType
  <2> HIDE DEF A, B, h
  <2> QED
    BY <1>3, <2>1, FS_Injection
<1>5. Tops(p) <= Tops(path)
  BY <1>4 DEF Tops
<1>6. /\ Len(p) \in Nat /\ Tops(p) \in Nat /\ Tops(path) \in Nat
      /\ PathLength(p) = Len(p) + archiveSetting.longer * Tops(p)
      /\ PathLength(path) = Len(path) + archiveSetting.longer * Tops(path)
  BY <1>1, TopsType, LenProperties
<1> DEFINE l == archiveSetting.longer
<1>7. l \in Nat
  BY ArchiveSettingType
<1> HIDE DEF l
<1>8. l * Tops(p) <= l * Tops(path) /\ l * Tops(p) \in Nat /\ l * Tops(path) \in Nat
  BY <1>5, <1>6, <1>7, Times
<1>9. PathLength(p) <= PathLength(path)
  BY <1>0, <1>1, <1>6, <1>8 DEF l
<1> QED
  BY <1>1, <1>2, <1>9 DEF p


\* The bytes of a list of entries.
Sizes(list) == [i \in DOMAIN list |-> Len(list[i].blob)]
LEMMA SizesType ==
    ASSUME NEW list \in Seq(TreeEntry)
    PROVE  /\ Counted(Sizes(list), DOMAIN list) /\ Len(list) \in Nat /\ DOMAIN list = 1 .. Len(list)
           /\ \A i \in DOMAIN list : list[i] \in TreeEntry /\ Sizes(list)[i] = Len(list[i].blob)
           /\ Total(Sizes(list), DOMAIN list) \in Nat
<1>1. Len(list) \in Nat /\ DOMAIN list = 1 .. Len(list) /\ \A i \in 1 .. Len(list) : list[i] \in TreeEntry
  BY LenProperties
<1>2. \A i \in DOMAIN list : Sizes(list)[i] = Len(list[i].blob)
  BY DEF Sizes
<1>3. \A e \in TreeEntry : Len(e.blob) \in Nat
  <2>1. \A e \in TreeEntry : e.blob \in Seq(STRING)
    BY DEF TreeEntry
  <2> QED
    BY <2>1, LenProperties
<1>4. IsFiniteSet(DOMAIN list)
  BY <1>1, FS_Interval
<1>5. Counted(Sizes(list), DOMAIN list)
  BY <1>1, <1>2, <1>3, <1>4 DEF Counted
<1> QED
  BY <1>1, <1>2, <1>5, TotalType
LEMMA UnpackedIs == ASSUME NEW list PROVE Unpacked(list) = Total(Sizes(list), DOMAIN list)
BY DEF Unpacked, Sizes
LEMMA SizesAppend ==
    ASSUME NEW list \in Seq(TreeEntry), NEW e \in TreeEntry
    PROVE  Total(Sizes(Append(list, e)), DOMAIN Append(list, e)) <= Total(Sizes(list), DOMAIN list) + Len(e.blob)
<1> DEFINE more == Append(list, e)
           n == Len(list)
           f == Sizes(more)
           h == [i \in 1 .. n |-> i]
<1>1. /\ more \in Seq(TreeEntry) /\ Len(more) = n + 1 /\ n \in Nat /\ DOMAIN more = 1 .. n + 1 /\ more[n + 1] = e
      /\ \A i \in 1 .. n : more[i] = list[i]
  BY AppendType
<1> HIDE DEF more
<1>2. /\ Counted(f, 1 .. n + 1) /\ Counted(Sizes(list), 1 .. n) /\ DOMAIN list = 1 .. n
      /\ \A i \in 1 .. n + 1 : f[i] = Len(more[i].blob)
      /\ \A i \in 1 .. n : Sizes(list)[i] = Len(list[i].blob)
      /\ IsFiniteSet(1 .. n)
  <2>1. Counted(f, DOMAIN more) /\ \A i \in DOMAIN more : f[i] = Len(more[i].blob)
    BY <1>1, SizesType
  <2>2. /\ Counted(Sizes(list), DOMAIN list) /\ DOMAIN list = 1 .. n
        /\ \A i \in DOMAIN list : Sizes(list)[i] = Len(list[i].blob)
    BY SizesType
  <2>3. IsFiniteSet(1 .. n)
    BY <1>1, FS_Interval
  <2> HIDE DEF n, f
  <2> QED
    BY <1>1, <2>1, <2>2, <2>3
<1> HIDE DEF n, f
<1>3. Total(f, 1 .. n + 1) = f[n + 1] + Total(f, (1 .. n + 1) \ {n + 1})
  BY <1>1, <1>2, TotalRemove
<1>4. (1 .. n + 1) \ {n + 1} = 1 .. n
  BY <1>1
<1>5. Total(f, (1 .. n + 1) \ {n + 1}) = Total(f, 1 .. n)
  BY ONLY <1>4, Zenon
<1>6. Counted(f, 1 .. n) /\ Total(f, 1 .. n) <= Total(Sizes(list), 1 .. n)
  <2>1. h \in [1 .. n -> 1 .. n] /\ \A p, q \in 1 .. n : h[p] = h[q] => p = q
    OBVIOUS
  <2>2. \A i \in 1 .. n : f[i] = Sizes(list)[h[i]]
    BY <1>1, <1>2
  <2> HIDE DEF h
  <2> QED
    BY <1>2, <2>1, <2>2, TotalReindex
<1>7. Total(f, 1 .. n) \in Nat /\ Total(Sizes(list), 1 .. n) \in Nat
  BY <1>2, <1>6, TotalType
<1>8. f[n + 1] = Len(e.blob) /\ f[n + 1] \in Nat
  BY <1>1, <1>2 DEF Counted
<1> QED
  BY <1>1, <1>2, <1>3, <1>5, <1>6, <1>7, <1>8 DEF f, more

------------------------------------------------------------------------------
(* The headers.                                                               *)

LEMMA HeaderType ==
    ASSUME ArchiveTypes, Extracting
    PROVE  /\ Header \in ArchiveHeader /\ position \in DOMAIN archive /\ position \in Nat \ {0}
           /\ Header.name \in Seq(STRING) /\ Header.content \in Seq(STRING) /\ Len(archive) \in Nat
<1>1. archive \in Seq(ArchiveHeader) /\ position \in Nat \ {0} /\ position <= Len(archive)
  BY DEF ArchiveTypes, Extracting
<1>2. Header \in ArchiveHeader /\ position \in DOMAIN archive /\ Len(archive) \in Nat
  BY <1>1, LenProperties DEF Header
<1> QED
  BY <1>1, <1>2 DEF ArchiveHeader
NewEntry == [path |-> PathClean(Header.name), mode |-> Header.type, blob |-> Header.content]
LEMMA NewEntryFits ==
    ASSUME ArchiveTypes, Extracting, ~ OverLimit, ~ Malformed, Header.type \in {"file", "symlink"}
    PROVE  /\ NewEntry \in TreeEntry /\ WithinLimits(NewEntry) /\ NewEntry.blob = Header.content
           /\ position <= limits.count /\ Unpacked(entries) + Len(Header.content) <= limits.unpacked
<1>1. Header \in ArchiveHeader /\ Header.name \in Seq(STRING) /\ Header.content \in Seq(STRING)
  BY HeaderType
<1>2. PathClean(Header.name) \in Seq(STRING) /\ PathLength(PathClean(Header.name)) <= PathLength(Header.name)
  BY <1>1, PathCleanType, CleanNotLonger
<1>3. NewEntry \in TreeEntry
  BY <1>1, <1>2 DEF NewEntry, TreeEntry
<1>4. Canonical(PathClean(Header.name))
  BY <1>1, CleanIsCanonical DEF Malformed
<1>5. /\ limits.count \in Nat /\ limits.path \in Nat /\ limits.file \in Nat /\ limits.unpacked \in Nat
      /\ position \in Nat /\ Len(Header.content) \in Nat
  BY <1>1, ArchiveSettingType, LenProperties DEF ArchiveTypes
<1>6. Unpacked(entries) \in Nat
  BY UnpackedIs, SizesType DEF ArchiveTypes
<1>7. PathLength(Header.name) \in Nat /\ PathLength(PathClean(Header.name)) \in Nat
  <2>1. \A p \in Seq(STRING) : PathLength(p) \in Nat
    <3>1. \A p \in Seq(STRING) : /\ Len(p) \in Nat /\ Tops(p) \in Nat
                                 /\ PathLength(p) = Len(p) + archiveSetting.longer * Tops(p)
      BY TopsType, LenProperties
    <3>2. archiveSetting.longer \in Nat
      BY ArchiveSettingType
    <3> QED
      BY <3>1, <3>2
  <2> QED
    BY <1>1, <1>2, <2>1
<1>8. /\ position <= limits.count /\ Unpacked(entries) + Len(Header.content) <= limits.unpacked
      /\ PathLength(Header.name) <= limits.path /\ Len(Header.content) <= limits.file
      /\ Header.type = "symlink" => Len(Header.content) <= limits.path
  BY <1>5, <1>6, <1>7 DEF OverLimit
<1>9. PathLength(PathClean(Header.name)) <= limits.path
  BY <1>2, <1>5, <1>7, <1>8
<1>10. WithinLimits(NewEntry)
  BY <1>4, <1>8, <1>9 DEF WithinLimits, NewEntry
<1> QED
  BY <1>3, <1>8, <1>10 DEF NewEntry

\* What an entry adds to the files.
LEMMA OneFileMore ==
    ASSUME ArchiveTypes, OneFileEach, NEW b, AddBlob(b), position' = position + 1,
           Used(entries)' = Used(entries) \cup {b}
    PROVE  OneFileEach'
<1> DEFINE U == Used(entries)
           V == Used(entries)'
<1>0. position \in Nat \ {0}
  BY DEF ArchiveTypes
<1>1. /\ DOMAIN blobs = U /\ blobs = [c \in U |-> blobs[c]] /\ V = U \cup {b}
      /\ \A a, c \in U : blobs[a] \in 1 .. position - 1 /\ (blobs[a] = blobs[c] => a = c)
      /\ spool = {blobs[c] : c \in U}
  BY DEF OneFileEach
<1> HIDE DEF U, V
<1>2. CASE b \in DOMAIN blobs
  <2>1. blobs' = blobs /\ spool' = spool /\ V = U
    BY <1>1, <1>2 DEF AddBlob
  <2>2. 1 .. position - 1 \subseteq 1 .. position' - 1
    BY <1>0
  <2> QED
    BY <1>1, <2>1, <2>2 DEF OneFileEach, V
<1>3. CASE b \notin DOMAIN blobs
  <2>1. /\ blobs' = [c \in U \cup {b} |-> IF c = b THEN position ELSE blobs[c]]
        /\ spool' = spool \cup {position}
    BY <1>1, <1>3 DEF AddBlob
  <2>2. /\ DOMAIN blobs' = V /\ blobs'[b] = position /\ \A c \in U : blobs'[c] = blobs[c]
        /\ blobs' = [c \in V |-> blobs'[c]]
    BY <1>1, <1>3, <2>1
  <2>3. \A c \in V : blobs'[c] \in 1 .. position' - 1
    BY <1>0, <1>1, <2>2
  <2>4. \A a, c \in V : blobs'[a] = blobs'[c] => a = c
    BY <1>0, <1>1, <1>3, <2>2
  <2>5. spool' = {blobs'[c] : c \in V}
    <3>1. {blobs'[c] : c \in V} = {blobs'[c] : c \in U} \cup {blobs'[b]}
      BY <1>1
    <3>2. {blobs'[c] : c \in U} = {blobs[c] : c \in U}
      BY <2>2
    <3> QED
      BY <1>1, <2>1, <2>2, <3>1, <3>2
  <2> QED
    BY <2>2, <2>3, <2>4, <2>5 DEF OneFileEach, V
<1> QED
  BY <1>2, <1>3

\* The bytes of a path.
LEMMA PathLengthType == ASSUME ArchiveTypes, NEW path \in Seq(STRING) PROVE PathLength(path) \in Nat
<1>1. Len(path) \in Nat /\ Tops(path) \in Nat /\ PathLength(path) = Len(path) + archiveSetting.longer * Tops(path)
  BY TopsType, LenProperties
<1>2. archiveSetting.longer \in Nat
  BY ArchiveSettingType
<1> QED
  BY <1>1, <1>2

\* The stream of a tar: the padding fills one block, and less is read before more.
LEMMA Remainder == ASSUME NEW a \in Nat, NEW b \in Nat \ {0} PROVE a % b \in 0 .. b - 1
OBVIOUS
LEMMA PaddedType ==
    ASSUME ArchiveTypes, NEW n \in Nat
    PROVE  Padded(n) \in Nat /\ Padded(n) < n + tar.block
<1> DEFINE b == tar.block
           r == n % b
           fill == (b - r) % b
<1>1. b \in Nat \ {0}
  BY ArchiveSettingType
<1> HIDE DEF b
<1>2. r \in 0 .. b - 1
  BY <1>1, Remainder
<1> HIDE DEF r
<1>3. b - r \in Nat
  BY <1>1, <1>2
<1>4. fill \in 0 .. b - 1
  BY <1>1, <1>3, Remainder
<1> HIDE DEF fill
<1>5. Padded(n) = n + fill
  BY DEF Padded, fill, r, b
<1> QED
  BY <1>1, <1>4, <1>5 DEF b
HeaderLengths(headers) == [i \in DOMAIN headers |-> HeaderBytes(headers[i])]
LEMMA HeaderBytesType ==
    ASSUME ArchiveTypes, NEW h \in ArchiveHeader
    PROVE  /\ HeaderBytes(h) \in Nat /\ Len(h.content) \in Nat
           /\ h.extended = 0 => HeaderBytes(h) <= Len(h.content) + 2 * tar.block
<1>1. h.content \in Seq(STRING) /\ h.extended \in Nat
  BY DEF ArchiveHeader
<1>2. Len(h.content) \in Nat
  BY <1>1, LenProperties
<1>3. Padded(Len(h.content)) \in Nat /\ Padded(Len(h.content)) < Len(h.content) + tar.block
  BY <1>2, PaddedType
<1>4. tar.block \in Nat
  BY ArchiveSettingType
<1> DEFINE b == tar.block
           l == Len(h.content)
           p == Padded(l)
           x == h.extended
<1>5. HeaderBytes(h) = IF h.type \in {"file", "global"} THEN x + b + p ELSE x + b + 0
  BY DEF HeaderBytes
<1> HIDE DEF b, l, p, x
<1>6. x \in Nat /\ b \in Nat /\ l \in Nat /\ p \in Nat /\ p < l + b
  BY <1>1, <1>2, <1>3, <1>4 DEF b, l, p, x
<1>7. HeaderBytes(h) \in Nat /\ (x = 0 => HeaderBytes(h) <= l + 2 * b)
  BY <1>5, <1>6
<1> QED
  BY <1>6, <1>7 DEF b, l, x
LEMMA StreamType ==
    ASSUME ArchiveTypes
    PROVE  LET L == HeaderLengths(archive)
           IN  /\ Len(archive) \in Nat /\ DOMAIN archive = 1 .. Len(archive)
               /\ \A i \in DOMAIN archive : archive[i] \in ArchiveHeader /\ L[i] = HeaderBytes(archive[i])
               /\ \A n \in 0 .. Len(archive) :
                      /\ Counted(L, 1 .. n) /\ StreamBytes(n) = Total(L, 1 .. n) /\ StreamBytes(n) \in Nat
                      /\ StreamBytes(n) <= StreamBytes(Len(archive))
<1> DEFINE L == HeaderLengths(archive)
           N == Len(archive)
<1>1. N \in Nat /\ DOMAIN archive = 1 .. N /\ \A i \in DOMAIN archive : archive[i] \in ArchiveHeader
  BY LenProperties DEF ArchiveTypes
<1>2. \A i \in DOMAIN archive : L[i] = HeaderBytes(archive[i])
  BY DEF HeaderLengths
<1>3. \A n : StreamBytes(n) = Total(L, 1 .. n)
  BY DEF StreamBytes, HeaderLengths
<1> HIDE DEF L
<1>4. Counted(L, 1 .. N)
  <2>1. \A i \in 1 .. N : L[i] \in Nat
    BY <1>1, <1>2, HeaderBytesType
  <2>2. IsFiniteSet(1 .. N)
    BY <1>1, FS_Interval
  <2> QED
    BY <2>1, <2>2 DEF Counted
<1> HIDE DEF N
<1>5. ASSUME NEW n \in 0 .. N
      PROVE  Counted(L, 1 .. n) /\ Total(L, 1 .. n) \in Nat /\ Total(L, 1 .. n) <= Total(L, 1 .. N)
  <2>1. 1 .. n \in SUBSET (1 .. N) /\ n \in Nat
    BY <1>1
  <2>2. IsFiniteSet(1 .. n)
    BY <2>1, FS_Interval
  <2>3. Counted(L, 1 .. n)
    BY <1>4, <2>1, <2>2 DEF Counted
  <2> QED
    BY <1>4, <2>1, <2>3, TotalType, TotalSubset
<1> QED
  BY <1>1, <1>2, <1>3, <1>5 DEF L, N

\* An archive that is shorter than allowed and has no extended headers is read
\* to its end: each header has a block, and each content less than one of padding.
ShortFor(n) == StreamBytes(n) <= Total(HeaderSizes(archive), 1 .. n) + n * (2 * tar.block)
LEMMA ShortSoFar ==
    ASSUME ArchiveTypes, \A i \in DOMAIN archive : archive[i].extended = 0
    PROVE  /\ ShortFor(Len(archive)) /\ Counted(HeaderSizes(archive), DOMAIN archive)
<1> DEFINE L == HeaderLengths(archive)
           H == HeaderSizes(archive)
           N == Len(archive)
           c == 2 * tar.block
           U == {n \in 0 .. N : ~ ShortFor(n)}
<1>1. /\ N \in Nat /\ DOMAIN archive = 1 .. N
      /\ \A i \in 1 .. N : archive[i] \in ArchiveHeader /\ L[i] = HeaderBytes(archive[i])
      /\ \A n \in 0 .. N : Counted(L, 1 .. n) /\ StreamBytes(n) = Total(L, 1 .. n) /\ StreamBytes(n) \in Nat
  BY StreamType
<1>2. c \in Nat
  BY ArchiveSettingType
<1>3. \A i \in 1 .. N : H[i] = Len(archive[i].content)
  BY <1>1 DEF HeaderSizes
<1>4. \A i \in 1 .. N : H[i] \in Nat /\ L[i] \in Nat /\ L[i] <= H[i] + c
  BY <1>1, <1>3, HeaderBytesType
<1> HIDE DEF L, H, N, c
<1>5. \A n \in 0 .. N : IsFiniteSet(1 .. n) /\ Counted(H, 1 .. n) /\ Total(H, 1 .. n) \in Nat
  <2> TAKE n \in 0 .. N
  <2>0. n \in Nat /\ \A i \in 1 .. n : i \in 1 .. N
    BY <1>1
  <2>1. IsFiniteSet(1 .. n) /\ \A i \in 1 .. n : i \in 1 .. N
    BY <2>0, FS_Interval
  <2>2. Counted(H, 1 .. n)
    BY <1>4, <2>1 DEF Counted
  <2> QED
    BY <2>1, <2>2, TotalType
<1>6. \A n \in 0 .. N : ShortFor(n) <=> Total(L, 1 .. n) <= Total(H, 1 .. n) + n * c
  BY <1>1 DEF ShortFor, H, c
<1>7. ShortFor(0)
  <2>1. 1 .. 0 = {} /\ 0 \in 0 .. N
    BY <1>1
  <2>2. Total(L, {}) = 0 /\ Total(H, {}) = 0
    BY FS_EmptySet, TotalStep
  <2>3. Total(L, 1 .. 0) = 0 /\ Total(H, 1 .. 0) = 0
    BY ONLY <2>1, <2>2, Zenon
  <2>4. 0 * c = 0
    BY <1>2
  <2> QED
    BY <1>6, <2>1, <2>3, <2>4
<1>8. ASSUME NEW n \in 0 .. N, n # 0, ShortFor(n - 1) PROVE ShortFor(n)
  <2>1. n \in 1 .. n /\ n \in 1 .. N /\ n \in Nat /\ n - 1 \in 0 .. N /\ (1 .. n) \ {n} = 1 .. n - 1
    BY <1>1, <1>8
  <2>2. Total(L, 1 .. n) = L[n] + Total(L, (1 .. n) \ {n}) /\ Total(H, 1 .. n) = H[n] + Total(H, (1 .. n) \ {n})
    <3>1. Counted(L, 1 .. n) /\ Counted(H, 1 .. n)
      BY <1>1, <1>5
    <3> QED
      BY ONLY <2>1, <3>1, TotalRemove
  <2>3. Total(L, 1 .. n) = L[n] + Total(L, 1 .. n - 1) /\ Total(H, 1 .. n) = H[n] + Total(H, 1 .. n - 1)
    BY ONLY <2>1, <2>2, Zenon
  <2>4. Total(L, 1 .. n - 1) \in Nat /\ Total(H, 1 .. n - 1) \in Nat
    BY <1>1, <1>5, <2>1
  <2>5. Total(L, 1 .. n - 1) <= Total(H, 1 .. n - 1) + (n - 1) * c
    BY <1>6, <1>8, <2>1
  <2>6. n * c = (n - 1) * c + c /\ (n - 1) * c \in Nat
    BY <1>2, <2>1
  <2>7. Total(L, 1 .. n) <= Total(H, 1 .. n) + n * c
    BY <1>2, <1>4, <2>1, <2>3, <2>4, <2>5, <2>6
  <2> QED
    BY <1>6, <2>7
<1>9. U = {}
  <2> SUFFICES ASSUME U # {} PROVE FALSE
    OBVIOUS
  <2>1. PICK m \in U : \A k \in U : m <= k
    <3>1. U \in SUBSET Nat
      BY <1>1
    <3> HIDE DEF U
    <3> QED
      BY <3>1, LeastNumber
  <2>2. m # 0
    BY <1>7, <2>1
  <2>3. m - 1 \in 0 .. N /\ m - 1 < m /\ m \in 0 .. N
    BY <1>1, <2>1, <2>2
  <2>4. ShortFor(m - 1)
    BY <2>1, <2>3
  <2> QED
    BY <1>8, <2>1, <2>2, <2>3, <2>4
<1>10. N \in 0 .. N
  BY <1>1
<1> QED
  BY <1>1, <1>5, <1>9, <1>10 DEF H, N
LEMMA ShortIsRead ==
    ASSUME ArchiveTypes, ArchiveOfTree, Len(archive) < limits.count, \A i \in DOMAIN archive : archive[i].extended = 0
    PROVE  StreamBytes(Len(archive)) + EndMarker <= tarStreamMaxBytes
<1> DEFINE n == Len(archive)
           c == 2 * tar.block
           u == limits.unpacked
           k == limits.count
           q == limits.path
           t == Total(HeaderSizes(archive), DOMAIN archive)
<1>1. n \in Nat /\ DOMAIN archive = 1 .. n /\ StreamBytes(n) \in Nat
  <2>1. Len(archive) \in 0 .. Len(archive) /\ Len(archive) \in Nat /\ DOMAIN archive = 1 .. Len(archive)
    BY StreamType
  <2> QED
    BY <2>1, StreamType
<1>2. c \in Nat /\ u \in Nat /\ k \in Nat /\ q \in Nat
  BY ArchiveSettingType
<1>3. t \in Nat /\ t <= u
  BY ShortSoFar, TotalType DEF ArchiveOfTree
<1>4. StreamBytes(n) <= t + n * c
  BY <1>1, ShortSoFar DEF ShortFor
<1>5. n < k
  OBVIOUS
<1>6. tarStreamMaxBytes = u + k * (q + c) /\ EndMarker = c
  BY DEF tarStreamMaxBytes, EndMarker
<1> HIDE DEF n, c, u, k, q, t
<1>7. c * (n + 1) <= c * k /\ c * (n + 1) = n * c + c /\ n * c \in Nat /\ c * k \in Nat
  BY <1>1, <1>2, <1>5, Times
<1>8. k * (q + c) = k * q + c * k /\ k * q \in Nat
  BY <1>2
<1> QED
  BY <1>1, <1>2, <1>3, <1>4, <1>6, <1>7, <1>8 DEF n

\* In the archive of a tree every header is an entry, and there is room for it.
LEMMA MirrorTakes ==
    ASSUME ArchiveInv, party = "mirror", Extracting
    PROVE  /\ ~ OverLimit /\ ~ Malformed /\ Header.type \in {"file", "symlink"} /\ NewEntry = AsEntry(Header)
<1>1. /\ ArchiveTypes /\ TreeFits /\ ArchiveOfTree /\ position <= Len(archive) /\ EntriesFit
      /\ entries = [i \in 1 .. position - 1 |-> AsEntry(archive[i])]
  BY DEF ArchiveInv, MirrorFollows, Extracting
<1>2. /\ Header \in ArchiveHeader /\ position \in DOMAIN archive /\ position \in Nat \ {0}
      /\ Header.name \in Seq(STRING) /\ Header.content \in Seq(STRING) /\ Len(archive) \in Nat
  BY <1>1, HeaderType
<1>3. PICK e \in tree : Header = Prefixed(e)
  BY <1>1, <1>2 DEF ArchiveOfTree, Header
<1>4. e \in TreeEntry /\ WithinLimits(e) /\ Canonical(Header.name) /\ PathLength(Header.name) <= limits.path
  BY <1>1, <1>3 DEF TreeFits, ArchiveTypes
<1>5. Header.type = e.mode /\ Header.content = e.blob /\ e.mode \in {"file", "symlink"}
  BY <1>3, <1>4 DEF Prefixed, HeaderOf, TreeEntry
<1>6. ~ Malformed
  BY <1>4, <1>5 DEF Malformed, Canonical
<1>7. NewEntry = AsEntry(Header)
  BY <1>4 DEF NewEntry, AsEntry, Canonical
<1>8. Unpacked(entries) + Len(Header.content) <= limits.unpacked
  <2> DEFINE H == HeaderSizes(archive)
             n == position - 1
             S == DOMAIN archive
             h == [i \in 1 .. n |-> i]
  <2>1. S = 1 .. Len(archive) /\ Counted(H, S) /\ \A i \in S : H[i] = Len(archive[i].content)
    <3>1. DOMAIN archive = 1 .. Len(archive) /\ \A i \in DOMAIN archive : archive[i] \in ArchiveHeader
      BY <1>1, LenProperties DEF ArchiveTypes
    <3>2. \A x \in ArchiveHeader : x.content \in Seq(STRING)
      BY DEF ArchiveHeader
    <3>3. \A i \in DOMAIN archive : Len(archive[i].content) \in Nat
      BY <3>1, <3>2, LenProperties
    <3>4. IsFiniteSet(DOMAIN archive)
      BY <1>2, <3>1, FS_Interval
    <3> QED
      BY <3>1, <3>3, <3>4 DEF Counted, HeaderSizes
  <2>2. n \in Nat /\ n + 1 \in S /\ 1 .. n + 1 \subseteq S /\ 1 .. n \subseteq S /\ position = n + 1
    BY <1>1, <1>2, <2>1
  <2>3. /\ Unpacked(entries) = Total(Sizes(entries), 1 .. n) /\ DOMAIN entries = 1 .. n
        /\ \A i \in 1 .. n : Sizes(entries)[i] = Len(archive[i].content)
    <3>1. DOMAIN entries = 1 .. n
      BY <1>1
    <3>2. \A i \in 1 .. n : Sizes(entries)[i] = Len(archive[i].content)
      BY <1>1, <3>1 DEF Sizes, AsEntry
    <3> QED
      BY <3>1, <3>2, UnpackedIs
  <2> HIDE DEF H, n, S
  <2>4. \A A \in SUBSET S : Counted(H, A) /\ Total(H, A) \in Nat
    BY <2>1, FS_Subset, TotalType DEF Counted
  <2>5. Counted(Sizes(entries), 1 .. n) /\ Total(Sizes(entries), 1 .. n) <= Total(H, 1 .. n)
    <3>1. h \in [1 .. n -> 1 .. n] /\ \A p, q \in 1 .. n : h[p] = h[q] => p = q
      OBVIOUS
    <3>2. \A i \in 1 .. n : Sizes(entries)[i] = H[h[i]]
      BY <2>1, <2>2, <2>3
    <3>3. Counted(H, 1 .. n) /\ IsFiniteSet(1 .. n)
      BY <2>2, <2>4 DEF Counted
    <3> HIDE DEF h
    <3> QED
      BY <3>1, <3>2, <3>3, TotalReindex
  <2>6. Total(H, 1 .. n + 1) = H[n + 1] + Total(H, (1 .. n + 1) \ {n + 1})
    BY <2>2, <2>4, TotalRemove
  <2>7. (1 .. n + 1) \ {n + 1} = 1 .. n
    BY <2>2
  <2>8. Total(H, (1 .. n + 1) \ {n + 1}) = Total(H, 1 .. n)
    BY ONLY <2>7, Zenon
  <2>9. Total(H, 1 .. n + 1) <= Total(H, S)
    BY <2>1, <2>2, TotalSubset
  <2>10. Total(H, S) <= limits.unpacked /\ H[n + 1] = Len(Header.content)
    BY <1>1, <2>1, <2>2 DEF ArchiveOfTree, H, S, Header
  <2>11. /\ Total(H, 1 .. n) \in Nat /\ Total(H, 1 .. n + 1) \in Nat /\ Total(H, S) \in Nat
         /\ Total(Sizes(entries), 1 .. n) \in Nat /\ limits.unpacked \in Nat /\ Len(Header.content) \in Nat
    BY <1>1, <1>2, <2>2, <2>4, <2>5, TotalType, ArchiveSettingType, LenProperties
  <2> QED
    BY <2>3, <2>5, <2>6, <2>8, <2>9, <2>10, <2>11
<1>9. position <= limits.count
  <2>1. Len(archive) <= limits.count /\ limits.count \in Nat
    BY <1>1, ArchiveSettingType DEF ArchiveOfTree
  <2> QED
    BY <1>1, <1>2, <2>1
<1>10. Len(Header.content) <= limits.file /\ (Header.type = "symlink" => Len(Header.content) <= limits.path)
  BY <1>4, <1>5 DEF WithinLimits
<1>11. /\ limits.count \in Nat /\ limits.path \in Nat /\ limits.file \in Nat /\ limits.unpacked \in Nat
       /\ Len(Header.content) \in Nat /\ PathLength(Header.name) \in Nat /\ Unpacked(entries) \in Nat
  <2>1. PathLength(Header.name) = Len(Header.name) + archiveSetting.longer * Tops(Header.name)
        /\ Len(Header.name) \in Nat /\ Tops(Header.name) \in Nat
    BY <1>2, TopsType, LenProperties
  <2>2. archiveSetting.longer \in Nat
    BY <1>1, ArchiveSettingType
  <2>3. PathLength(Header.name) \in Nat
    BY <2>1, <2>2
  <2> QED
    BY <1>1, <1>2, <2>3, ArchiveSettingType, LenProperties, UnpackedIs, SizesType DEF ArchiveTypes
<1>12. ~ OverLimit
  BY <1>2, <1>4, <1>8, <1>9, <1>10, <1>11 DEF OverLimit
<1> QED
  BY <1>5, <1>6, <1>7, <1>12


------------------------------------------------------------------------------
(* The steps of an extraction.                                                *)

\* What is true of the entries, the tree and the archive while they stay.
LEMMA ListStays ==
    ASSUME EntriesFit, UNCHANGED <<entries, archiveSetting>>, position <= position', position' - 1 <= limits.count,
           ArchiveTypes, position' \in Nat
    PROVE  EntriesFit' /\ Returned' = Returned
<1>1. \A i \in DOMAIN entries : (WithinLimits(entries[i])' <=> WithinLimits(entries[i])) /\ (Safe(entries[i])' <=> Safe(entries[i]))
  BY SameLimits
<1>2. Unpacked(entries') = Unpacked(entries) /\ limits' = limits
  BY DEF limits
<1>3. Len(entries) \in Nat /\ position \in Nat
  BY LenProperties DEF ArchiveTypes
<1>4. EntriesFit'
  BY <1>1, <1>2, <1>3 DEF EntriesFit
<1>5. Returned' = Returned
  BY <1>1, Zenon DEF Returned
<1> QED
  BY <1>4, <1>5
LEMMA TreeStays ==
    ASSUME UNCHANGED <<tree, archiveSetting>>
    PROVE  TreeFits' = TreeFits
<1>1. \A e : /\ (WithinLimits(e)' <=> WithinLimits(e)) /\ (Safe(e)' <=> Safe(e))
              /\ (Storable(e)' <=> Storable(e)) /\ Prefixed(e)' = Prefixed(e)
  BY SameLimits
<1>2. limits' = limits /\ \A p : PathLength(p)' = PathLength(p)
  BY SameLimits
<1> QED
  BY <1>1, <1>2, Zenon DEF TreeFits
LEMMA ArchiveStays ==
    ASSUME UNCHANGED <<tree, archive, archiveSetting>>
    PROVE  ArchiveOfTree' = ArchiveOfTree
<1>1. limits' = limits /\ \A e : Prefixed(e)' = Prefixed(e)
  BY SameLimits
<1>2. {Prefixed(e) : e \in tree}' = {Prefixed(e) : e \in tree}
  BY <1>1
<1>3. (\A i, j \in DOMAIN archive : archive[i] = archive[j] => i = j)' <=> \A i, j \in DOMAIN archive : archive[i] = archive[j] => i = j
  OBVIOUS
<1>4. Total(HeaderSizes(archive), DOMAIN archive)' = Total(HeaderSizes(archive), DOMAIN archive)
  OBVIOUS
<1>5. {archive[i] : i \in DOMAIN archive}' = {archive[i] : i \in DOMAIN archive} /\ Len(archive)' = Len(archive)
  OBVIOUS
<1> QED
  BY <1>1, <1>2, <1>3, <1>4, <1>5 DEF ArchiveOfTree
LEMMA StreamStays ==
    ASSUME UNCHANGED <<archive, party, archiveSetting>>
    PROVE  Unreadable' <=> Unreadable
<1>1. tar' = tar /\ limits' = limits /\ Format' = Format
  BY DEF tar, limits, Format
<1>2. \A h : HeaderBytes(h)' = HeaderBytes(h)
  BY <1>1 DEF HeaderBytes, Padded
<1>3. \A n : StreamBytes(n)' = StreamBytes(n)
  <2> TAKE n
  <2> DEFINE u == [i \in DOMAIN archive |-> HeaderBytes(archive[i])']
  <2>1. u = HeaderLengths(archive)
    BY <1>2 DEF HeaderLengths
  <2>2. StreamBytes(n)' = Total(u, 1 .. n)
    BY DEF StreamBytes
  <2>3. StreamBytes(n) = Total(HeaderLengths(archive), 1 .. n)
    BY DEF StreamBytes, HeaderLengths
  <2> HIDE DEF u
  <2> QED
    BY <2>1, <2>2, <2>3
<1>4. EndMarker' = EndMarker /\ tarStreamMaxBytes' = tarStreamMaxBytes
  BY <1>1 DEF EndMarker, tarStreamMaxBytes
<1>5. StreamTooLong' <=> StreamTooLong
  <2>1. StreamBytes(Len(archive))' = StreamBytes(Len(archive))
    BY <1>3
  <2> QED
    BY <1>1, <1>4, <2>1 DEF StreamTooLong
<1> QED
  BY <1>1, <1>5 DEF Unreadable

\* A mirror refuses an archive only where it cannot be read.
LEMMA MirrorRefuses ==
    ASSUME ArchiveInv, party = "mirror", stage = "extract", StreamCut \/ (Extracting /\ TooDense)
    PROVE  Unreadable
<1>1. /\ ArchiveTypes /\ ArchiveOfTree /\ position \in Nat \ {0}
  BY DEF ArchiveInv, MirrorFollows, ArchiveTypes
<1> DEFINE n == Len(archive)
<1>2. n \in Nat /\ \A k \in 0 .. n : StreamBytes(k) \in Nat /\ StreamBytes(k) <= StreamBytes(n)
  BY <1>1, StreamType
<1>3. limits.count \in Nat /\ EndMarker \in Nat /\ tarStreamMaxBytes \in Nat
  <2>1. limits.count \in Nat /\ limits.path \in Nat /\ limits.unpacked \in Nat /\ tar.block \in Nat
    BY <1>1, ArchiveSettingType
  <2>2. EndMarker \in Nat
    BY <2>1 DEF EndMarker
  <2>3. limits.path + 2 * tar.block \in Nat
    BY <2>1
  <2>4. limits.count * (limits.path + 2 * tar.block) \in Nat
    BY <2>1, <2>3
  <2>5. tarStreamMaxBytes \in Nat
    BY <2>1, <2>4 DEF tarStreamMaxBytes
  <2> QED
    BY <2>1, <2>2, <2>5
<1>4. CASE StreamCut
  <2>1. Format = "tar" /\ StreamRead > tarStreamMaxBytes
    BY <1>4 DEF StreamCut
  <2>2. StreamBytes(n) + EndMarker > tarStreamMaxBytes
    <3>1. CASE position <= n
      <4>1. StreamRead = StreamBytes(position) /\ position \in 0 .. n /\ n \in 0 .. n
        BY <1>1, <1>2, <3>1 DEF StreamRead
      <4>2. StreamBytes(position) \in Nat /\ StreamBytes(n) \in Nat /\ StreamBytes(position) <= StreamBytes(n)
        BY <1>2, <4>1
      <4> HIDE DEF n
      <4> QED
        BY <1>3, <2>1, <4>1, <4>2
    <3>2. CASE ~ position <= n
      BY <2>1, <3>2 DEF StreamRead
    <3> QED
      BY <3>1, <3>2
  <2>3. n >= limits.count \/ \E i \in DOMAIN archive : archive[i].extended > 0
    <3> SUFFICES ASSUME ~ n >= limits.count, \A i \in DOMAIN archive : ~ archive[i].extended > 0 PROVE FALSE
      OBVIOUS
    <3>1. n < limits.count
      BY <1>2, <1>3
    <3>2. \A i \in DOMAIN archive : archive[i].extended = 0
      <4>1. \A i \in DOMAIN archive : archive[i] \in ArchiveHeader
        BY <1>1, StreamType
      <4>2. \A i \in DOMAIN archive : archive[i].extended \in Nat
        BY <4>1 DEF ArchiveHeader
      <4> QED
        BY <4>2
    <3>3. StreamBytes(n) + EndMarker <= tarStreamMaxBytes
      BY <1>1, <3>1, <3>2, ShortIsRead
    <3>4. StreamBytes(n) \in Nat
      BY <1>2
    <3> HIDE DEF n
    <3> QED
      BY <1>3, <2>2, <3>3, <3>4
  <2> QED
    BY <2>1, <2>2, <2>3 DEF Unreadable, StreamTooLong
<1>5. CASE Extracting /\ TooDense
  <2>1. Format = "zip" /\ Header.dense /\ position \in DOMAIN archive
    BY <1>1, <1>5, HeaderType DEF TooDense
  <2> QED
    BY <2>1 DEF Unreadable, Header
<1> QED
  BY <1>4, <1>5

LEMMA RefuseStep == ASSUME ArchiveInv, Refuse PROVE ArchiveInv'
<1>1. /\ stage = "extract" /\ (StreamCut \/ (Extracting /\ (OverLimit \/ TooDense \/ Malformed)))
      /\ stage' = "refused" /\ spool' = {}
      /\ UNCHANGED <<archive, party, position, entries, blobs, tree, archiveSetting>>
  BY DEF Refuse
<1>2. ArchiveTypes /\ EntriesFit /\ position \in Nat
  BY DEF ArchiveInv, ArchiveTypes
<1>3. ArchiveTypes'
  BY <1>1, <1>2 DEF ArchiveTypes
<1>4. EntriesFit'
  BY <1>1, <1>2, ListStays DEF EntriesFit
<1>5. ASSUME party = "mirror" PROVE MirrorFollows'
  <2>1. StreamCut \/ (Extracting /\ TooDense)
    BY <1>1, <1>5, MirrorTakes
  <2>2. Unreadable'
    BY <1>1, <1>5, <2>1, MirrorRefuses, StreamStays
  <2>3. TreeFits' /\ ArchiveOfTree'
    BY <1>1, <1>5, TreeStays, ArchiveStays DEF ArchiveInv, MirrorFollows
  <2> QED
    BY <1>1, <2>2, <2>3 DEF MirrorFollows
<1> QED
  BY <1>1, <1>3, <1>4, <1>5 DEF ArchiveInv

LEMMA FailStep == ASSUME ArchiveInv, WriteFails PROVE ArchiveInv'
<1>1. /\ Extracting /\ stage' = "failed" /\ spool' = {} /\ stage = "extract"
      /\ UNCHANGED <<archive, party, position, entries, blobs, tree, archiveSetting>>
  BY DEF WriteFails, Extracting
<1>2. ArchiveTypes /\ EntriesFit /\ position \in Nat
  BY DEF ArchiveInv, ArchiveTypes
<1>3. ArchiveTypes'
  BY <1>1, <1>2 DEF ArchiveTypes
<1>4. EntriesFit'
  BY <1>1, <1>2, ListStays DEF EntriesFit
<1>5. party = "mirror" => MirrorFollows'
  BY <1>1, TreeStays, ArchiveStays DEF ArchiveInv, MirrorFollows
<1> QED
  BY <1>1, <1>3, <1>4, <1>5 DEF ArchiveInv

LEMMA SkipStep == ASSUME ArchiveInv, SkipHeader PROVE ArchiveInv'
<1>1. /\ Extracting /\ ~ OverLimit /\ stage = "extract" /\ Header.type \in {"dir", "global"} /\ position' = position + 1
      /\ UNCHANGED <<archive, party, stage, entries, blobs, spool, tree, archiveSetting>>
  BY DEF SkipHeader, Extracting
<1>2. ArchiveTypes /\ EntriesFit /\ OneFileEach /\ position \in Nat \ {0}
  BY <1>1 DEF ArchiveInv, ArchiveTypes
<1>3. party # "mirror"
  BY <1>1, MirrorTakes
<1>4. ArchiveTypes'
  BY <1>1, <1>2 DEF ArchiveTypes
<1>5. EntriesFit'
  <2>1. position <= limits.count /\ limits.count \in Nat
    BY <1>1, <1>2, ArchiveSettingType DEF OverLimit
  <2>2. position <= position' /\ position' - 1 <= limits.count /\ position' \in Nat
    BY <1>1, <1>2, <2>1
  <2> QED
    BY <1>1, <1>2, <2>2, ListStays
<1>6. OneFileEach'
  <2>1. 1 .. position - 1 \subseteq 1 .. position' - 1 /\ Used(entries)' = Used(entries)
    BY <1>1, <1>2 DEF Used
  <2> QED
    BY <1>1, <1>2, <2>1 DEF OneFileEach
<1> QED
  BY <1>1, <1>3, <1>4, <1>5, <1>6 DEF ArchiveInv

LEMMA TakeStep == ASSUME ArchiveInv, TakeEntry PROVE ArchiveInv'
<1>1. /\ Extracting /\ ~ OverLimit /\ ~ Malformed /\ stage = "extract" /\ Header.type \in {"file", "symlink"}
      /\ entries' = Append(entries, NewEntry) /\ AddBlob(Header.content) /\ position' = position + 1
      /\ UNCHANGED <<archive, party, stage, tree, archiveSetting>>
  BY DEF TakeEntry, NewEntry, Extracting
<1>2. /\ ArchiveTypes /\ EntriesFit /\ OneFileEach /\ position \in Nat \ {0}
      /\ entries \in Seq(TreeEntry) /\ Len(entries) \in Nat
  BY <1>1, LenProperties DEF ArchiveInv, ArchiveTypes
<1>3. /\ NewEntry \in TreeEntry /\ WithinLimits(NewEntry) /\ NewEntry.blob = Header.content
      /\ position <= limits.count /\ Unpacked(entries) + Len(Header.content) <= limits.unpacked
  BY <1>1, <1>2, NewEntryFits
<1> DEFINE n == Len(entries)
<1>4. /\ entries' \in Seq(TreeEntry) /\ Len(entries') = n + 1 /\ DOMAIN entries' = 1 .. n + 1 /\ entries'[n + 1] = NewEntry
      /\ (\A i \in 1 .. n : entries'[i] = entries[i]) /\ n \in Nat /\ DOMAIN entries = 1 .. n
  BY <1>1, <1>2, <1>3, AppendType, LenProperties
<1>5. ArchiveTypes'
  BY <1>1, <1>2, <1>4 DEF ArchiveTypes
<1>6. EntriesFit'
  <2>1. limits' = limits /\ \A e : WithinLimits(e)' <=> WithinLimits(e)
    BY <1>1, SameLimits
  <2>2. \A i \in 1 .. n + 1 : WithinLimits(entries'[i])
    BY <1>2, <1>3, <1>4 DEF EntriesFit
  <2>3. \A i \in DOMAIN entries' : WithinLimits(entries[i])'
    BY <1>1, <1>4, <2>2 DEF WithinLimits, limits, PathLength
  <2>4. Unpacked(entries') <= limits.unpacked
    <3>1. Unpacked(entries') = Total(Sizes(entries'), DOMAIN entries')
      BY UnpackedIs
    <3>2. Unpacked(entries) = Total(Sizes(entries), DOMAIN entries)
      BY UnpackedIs
    <3>3. Unpacked(entries') <= Unpacked(entries) + Len(Header.content)
      BY <1>1, <1>2, <1>3, <3>1, <3>2, SizesAppend
    <3>4. Unpacked(entries) \in Nat /\ Unpacked(entries') \in Nat /\ Len(Header.content) \in Nat /\ limits.unpacked \in Nat
      BY <1>1, <1>2, <1>4, <3>1, <3>2, SizesType, HeaderType, LenProperties, ArchiveSettingType
    <3> QED
      BY <1>3, <3>3, <3>4
  <2>5. Len(entries') <= position' - 1 /\ position' - 1 <= limits.count
    BY <1>1, <1>2, <1>3, <1>4 DEF EntriesFit
  <2> QED
    BY <2>1, <2>3, <2>4, <2>5 DEF EntriesFit
<1>7. OneFileEach'
  <2>1. Used(entries)' = Used(entries) \cup {Header.content}
    BY <1>3, <1>4 DEF Used
  <2> QED
    BY <1>1, <1>2, <2>1, OneFileMore
<1>8. ASSUME party = "mirror" PROVE MirrorFollows'
  <2>1. /\ TreeFits /\ ArchiveOfTree /\ position <= Len(archive) /\ NewEntry = AsEntry(Header)
        /\ entries = [i \in 1 .. position - 1 |-> AsEntry(archive[i])]
    BY <1>1, <1>8, MirrorTakes DEF ArchiveInv, MirrorFollows, Extracting
  <2>2. n = position - 1
    BY <1>2, <1>4, <2>1
  <2>3. \A i \in 1 .. n + 1 : entries'[i] = AsEntry(archive[i])
    <3>1. \A i \in 1 .. n : entries'[i] = AsEntry(archive[i])
      BY <1>4, <2>1, <2>2
    <3>2. entries'[n + 1] = AsEntry(archive[n + 1])
      <4>1. position = n + 1
        BY <1>2, <2>2
      <4> QED
        BY <1>4, <2>1, <4>1 DEF Header
    <3> HIDE DEF n
    <3> QED
      BY <1>4, <3>1, <3>2
  <2>4. entries' = [i \in 1 .. n + 1 |-> entries'[i]]
    BY <1>4, LenProperties
  <2>5. entries' = [i \in 1 .. position' - 1 |-> AsEntry(archive[i])]
    <3>1. position' - 1 = n + 1
      BY <1>1, <1>2, <2>2
    <3> HIDE DEF n
    <3> QED
      BY <2>3, <2>4, <3>1
  <2>6. position' <= Len(archive) + 1
    BY <1>1, <1>2, <2>1, HeaderType
  <2>7. TreeFits' /\ ArchiveOfTree'
    BY <1>1, <2>1, TreeStays, ArchiveStays
  <2> QED
    BY <1>1, <2>5, <2>6, <2>7 DEF MirrorFollows, AsEntry
<1> QED
  BY <1>1, <1>5, <1>6, <1>7, <1>8 DEF ArchiveInv


------------------------------------------------------------------------------
(* The end of an extraction.                                                  *)

\* Without the common top directory every entry is as valid, and not longer.
LEMMA StrippedType ==
    ASSUME ArchiveTypes, EntriesFit
    PROVE  /\ Stripped \in Seq(TreeEntry) /\ DOMAIN Stripped = DOMAIN entries /\ Len(Stripped) = Len(entries)
           /\ \A i \in DOMAIN entries : WithinLimits(Stripped[i]) /\ Stripped[i].blob = entries[i].blob
<1>1. /\ Len(entries) \in Nat /\ DOMAIN entries = 1 .. Len(entries)
      /\ \A i \in DOMAIN entries : entries[i] \in TreeEntry /\ WithinLimits(entries[i])
  BY LenProperties DEF ArchiveTypes, EntriesFit
<1>2. CASE ~ CommonTop
  <2>1. Stripped = entries /\ entries \in Seq(TreeEntry)
    BY <1>2 DEF Stripped, ArchiveTypes
  <2> QED
    BY <1>1, <2>1
<1>3. CASE CommonTop
  <2> DEFINE r == [i \in DOMAIN entries |-> [entries[i] EXCEPT !.path = Tail(@)]]
  <2>1. Stripped = r
    BY <1>3 DEF Stripped
  <2>2. ASSUME NEW i \in DOMAIN entries
        PROVE  r[i] \in TreeEntry /\ WithinLimits(r[i]) /\ r[i].blob = entries[i].blob
    <3> DEFINE e == entries[i]
               p == e.path
    <3>1. e \in TreeEntry /\ WithinLimits(e) /\ p \in Seq(STRING) /\ Len(p) > 1
      BY <1>1, <1>3, <2>2 DEF CommonTop, TreeEntry
    <3>2. Canonical(p)
      BY <3>1 DEF WithinLimits
    <3>3. Plain(p)
      BY <3>1, <3>2, CanonicalIs
    <3>4. Tail(p) \in Seq(STRING) /\ Plain(Tail(p)) /\ PathLength(Tail(p)) <= PathLength(p)
      BY <3>1, <3>3, TailNotLonger
    <3>5. Canonical(Tail(p))
      BY <3>4, CanonicalIs
    <3>6. PathLength(p) <= limits.path /\ PathLength(p) \in Nat /\ PathLength(Tail(p)) \in Nat /\ limits.path \in Nat
      <4>1. \A q \in Seq(STRING) : /\ Len(q) \in Nat /\ Tops(q) \in Nat
                                   /\ PathLength(q) = Len(q) + archiveSetting.longer * Tops(q)
        BY TopsType, LenProperties
      <4>2. archiveSetting.longer \in Nat /\ limits.path \in Nat
        BY ArchiveSettingType
      <4>3. \A q \in Seq(STRING) : PathLength(q) \in Nat
        BY <4>1, <4>2
      <4> QED
        BY <3>1, <3>4, <4>2, <4>3 DEF WithinLimits
    <3>7. /\ r[i] = [e EXCEPT !.path = Tail(p)] /\ r[i].path = Tail(p)
          /\ r[i].blob = e.blob /\ r[i].mode = e.mode /\ r[i] \in TreeEntry
      BY <2>2, <3>1, <3>4 DEF TreeEntry
    <3> HIDE DEF r, e, p
    <3>8. PathLength(r[i].path) <= limits.path
      BY <3>4, <3>6, <3>7
    <3>9. WithinLimits(r[i])
      BY <3>1, <3>5, <3>7, <3>8 DEF WithinLimits
    <3> QED
      BY <3>7, <3>9 DEF e
  <2>3. DOMAIN r = DOMAIN entries
    OBVIOUS
  <2>4. r = [i \in 1 .. Len(entries) |-> r[i]]
    BY <1>1
  <2> HIDE DEF r
  <2>5. r \in [1 .. Len(entries) -> TreeEntry]
    BY <1>1, <2>2, <2>4
  <2>6. r \in Seq(TreeEntry) /\ Len(r) = Len(entries)
    BY <1>1, <2>5
  <2> QED
    BY <2>1, <2>2, <2>3, <2>6
<1> QED
  BY <1>2, <1>3

\* What is left of the entries is safe and within the limits.
LEMMA FilteredType ==
    ASSUME ArchiveTypes, EntriesFit
    PROVE  /\ Filtered \in Seq(TreeEntry) /\ Len(Filtered) <= Len(entries)
           /\ Elements(Filtered) = {e \in Elements(Stripped) : Safe(e)}
           /\ \A i \in DOMAIN Filtered : WithinLimits(Filtered[i]) /\ Safe(Filtered[i])
           /\ Used(Filtered) \subseteq Used(entries)
           /\ Unpacked(Filtered) <= Unpacked(entries)
<1> DEFINE S == {e \in ToSet(Stripped) : Safe(e)}
           s == Stripped
           k == Filtered
<1>1. k = Keeping(s, S) /\ S = {e \in Elements(s) : Safe(e)}
  BY DEF Filtered, ToSet, Elements
<1>2. /\ s \in Seq(TreeEntry) /\ DOMAIN s = DOMAIN entries /\ Len(s) = Len(entries) /\ Len(entries) \in Nat
      /\ \A i \in DOMAIN entries : WithinLimits(s[i]) /\ s[i].blob = entries[i].blob
      /\ entries \in Seq(TreeEntry) /\ DOMAIN entries = 1 .. Len(entries)
  BY StrippedType, LenProperties DEF ArchiveTypes
<1> HIDE DEF S, s, k
<1>3. k \in Seq(TreeEntry \cap S) /\ Len(k) = Cardinality(PlacesOf(s, S)) /\ Elements(k) = Elements(s) \cap S
  BY <1>1, <1>2, KeepingType
<1>4. k \in Seq(TreeEntry) /\ Len(k) \in Nat /\ DOMAIN k = 1 .. Len(k)
  <2>1. Seq(TreeEntry \cap S) \subseteq Seq(TreeEntry)
    BY SeqMonotonic
  <2> QED
    BY <1>3, <2>1, LenProperties
<1>5. PICK h \in [1 .. Len(k) -> 1 .. Len(s)] :
        \A m, n \in 1 .. Len(k) : k[m] = s[h[m]] /\ (h[m] = h[n] => m = n)
  <2>1. PICK h \in [1 .. Len(Keeping(s, S)) -> 1 .. Len(s)] :
            \A m, n \in 1 .. Len(Keeping(s, S)) : Keeping(s, S)[m] = s[h[m]] /\ (h[m] = h[n] => m = n)
    BY <1>2, KeepingPlaces
  <2>2. h \in [1 .. Len(k) -> 1 .. Len(s)]
    BY <1>1
  <2>3. \A m, n \in 1 .. Len(k) : k[m] = s[h[m]] /\ (h[m] = h[n] => m = n)
    BY <1>1, <2>1
  <2> QED
    BY <2>2, <2>3
<1>6. Len(k) <= Len(entries)
  <2>1. PlacesOf(s, S) \in SUBSET (1 .. Len(s)) /\ IsFiniteSet(1 .. Len(s)) /\ Cardinality(1 .. Len(s)) = Len(s)
    <3>1. Len(s) \in Nat
      BY <1>2
    <3> QED
      BY <3>1, Interval DEF PlacesOf
  <2> QED
    BY <1>2, <1>3, <2>1, FS_Subset
<1>7. Elements(k) = {e \in Elements(s) : Safe(e)}
  BY <1>1, <1>3
<1>8. \A i \in DOMAIN k : WithinLimits(k[i]) /\ Safe(k[i])
  <2> SUFFICES ASSUME NEW i \in DOMAIN k PROVE WithinLimits(k[i]) /\ Safe(k[i])
    OBVIOUS
  <2>1. k[i] \in Elements(k)
    BY DEF Elements
  <2>2. PICK j \in DOMAIN s : k[i] = s[j]
    BY <1>7, <2>1 DEF Elements
  <2> QED
    BY <1>2, <1>7, <2>1, <2>2
<1>9. Used(k) \subseteq Used(entries)
  <2> SUFFICES ASSUME NEW i \in DOMAIN k PROVE k[i].blob \in Used(entries)
    BY DEF Used
  <2>1. h[i] \in DOMAIN entries /\ k[i] = s[h[i]]
    BY <1>2, <1>4, <1>5
  <2> QED
    BY <1>2, <2>1 DEF Used
<1>10. Unpacked(k) <= Unpacked(entries)
  <2> DEFINE f == Sizes(entries)
             g == Sizes(k)
             P == DOMAIN k
             D == DOMAIN entries
  <2>1. Counted(f, D) /\ \A i \in D : f[i] = Len(entries[i].blob)
    BY <1>2, SizesType
  <2>2. Counted(g, P) /\ \A i \in P : g[i] = Len(k[i].blob)
    BY <1>4, SizesType
  <2>3. h \in [P -> D] /\ \A p, q \in P : h[p] = h[q] => p = q
    BY <1>2, <1>4, <1>5
  <2>4. \A p \in P : g[p] = f[h[p]]
    <3> SUFFICES ASSUME NEW p \in P PROVE g[p] = f[h[p]]
      OBVIOUS
    <3>1. k[p] = s[h[p]] /\ h[p] \in D
      BY <1>4, <1>5, <2>3
    <3>2. s[h[p]].blob = entries[h[p]].blob
      BY <1>2, <3>1
    <3> HIDE DEF f, g, P, D
    <3> QED
      BY <2>1, <2>2, <3>1, <3>2
  <2>5. IsFiniteSet(P)
    BY <2>2 DEF Counted
  <2> HIDE DEF f, g, P, D
  <2>6. Total(g, P) <= Total(f, D)
    BY <2>1, <2>3, <2>4, <2>5, TotalReindex
  <2> QED
    BY <2>6, UnpackedIs DEF f, g, P, D
<1> QED
  BY <1>4, <1>6, <1>7, <1>8, <1>9, <1>10 DEF k, s

\* What a mirror has of an archive it has read to its end.
LEMMA MirrorResult ==
    ASSUME ArchiveInv, party = "mirror", stage = "extract", position > Len(archive)
    PROVE  Elements(Filtered) = tree /\ Wellformed(Filtered)
<1>1. /\ ArchiveTypes /\ EntriesFit /\ TreeFits /\ ArchiveOfTree /\ position <= Len(archive) + 1
      /\ entries = [i \in 1 .. position - 1 |-> AsEntry(archive[i])]
      /\ archive \in Seq(ArchiveHeader) /\ position \in Nat \ {0} /\ tree \in SUBSET TreeEntry
  BY DEF ArchiveInv, MirrorFollows, ArchiveTypes
<1> DEFINE n == Len(archive)
<1>2. n \in Nat /\ position - 1 = n /\ DOMAIN archive = 1 .. n
  BY <1>1, LenProperties
<1>3. entries = [i \in 1 .. n |-> AsEntry(archive[i])] /\ DOMAIN entries = 1 .. n /\ Len(entries) = n
  <2>1. entries = [i \in 1 .. n |-> AsEntry(archive[i])]
    BY <1>1, <1>2
  <2>2. DOMAIN entries = 1 .. n /\ DOMAIN entries = 1 .. Len(entries) /\ Len(entries) \in Nat
    BY <1>1, <2>1, LenProperties DEF ArchiveTypes
  <2> QED
    BY <1>2, <2>1, <2>2
<1> HIDE DEF n
\* Each entry is a file of the tree below the top directory.
<1>4. \A i \in 1 .. n : \E e \in tree : archive[i] = Prefixed(e)
  BY <1>1, <1>2 DEF ArchiveOfTree
<1>5. ASSUME NEW i \in 1 .. n, NEW e \in tree, archive[i] = Prefixed(e)
      PROVE  /\ entries[i].path = <<Top>> \o e.path /\ entries[i].mode = e.mode /\ entries[i].blob = e.blob
             /\ Len(entries[i].path) > 1 /\ Head(entries[i].path) = Top /\ Tail(entries[i].path) = e.path
  <2>1. e \in TreeEntry /\ e.path \in Seq(STRING) /\ Canonical(e.path)
    BY <1>1, <1>5 DEF TreeFits, WithinLimits, TreeEntry
  <2>2. e.path # <<>>
    BY <2>1 DEF Canonical, Cleanable
  <2>3. /\ entries[i].path = <<Top>> \o e.path /\ entries[i].mode = e.mode /\ entries[i].blob = e.blob
    BY <1>3, <1>5 DEF AsEntry, Prefixed, HeaderOf
  <2> DEFINE p == e.path
             q == <<Top>> \o p
  <2>4. /\ q \in Seq(STRING) /\ Len(q) = 1 + Len(p) /\ q[1] = Top /\ Len(p) \in Nat \ {0}
        /\ \A j \in 1 .. Len(p) : q[1 + j] = p[j]
    <3>1. <<Top>> \in Seq(STRING) /\ Len(<<Top>>) = 1 /\ <<Top>>[1] = Top
      BY TopAssumption
    <3>2. Len(p) \in Nat \ {0}
      BY <2>1, <2>2, EmptySeq
    <3> QED
      BY <2>1, <3>1, <3>2, JoinedType
  <2> HIDE DEF q
  <2>5. q # <<>> /\ Head(q) = Top
    BY <2>4
  <2>6. Tail(q) \in Seq(STRING) /\ Len(Tail(q)) = Len(p) /\ \A j \in 1 .. Len(p) : Tail(q)[j] = p[j]
    BY <2>4, <2>5, HeadTailProperties
  <2>7. Tail(q) = p
    BY <2>1, <2>6, SeqEqual
  <2> QED
    BY <2>3, <2>4, <2>5, <2>7 DEF q
<1>6. n # 0
  BY <1>1, <1>2 DEF TreeFits, ArchiveOfTree
<1>7. CommonTop
  <2>1. 1 \in 1 .. n /\ entries # <<>>
    BY <1>2, <1>3, <1>6
  <2>2. \A i \in 1 .. n : Len(entries[i].path) > 1 /\ Head(entries[i].path) = Top
    BY <1>4, <1>5
  <2> QED
    BY <1>3, <2>1, <2>2 DEF CommonTop
\* So taking that directory off gives the tree.
<1>8. ASSUME NEW i \in 1 .. n, NEW e \in tree, archive[i] = Prefixed(e) PROVE Stripped[i] = e
  <2>1. Stripped[i] = [entries[i] EXCEPT !.path = Tail(@)]
    BY <1>3, <1>7 DEF Stripped
  <2>2. e \in TreeEntry /\ entries[i] \in TreeEntry
    BY <1>1, <1>3, LenProperties DEF ArchiveTypes
  <2> QED
    <3> DEFINE a == entries[i]
               b == [a EXCEPT !.path = Tail(a.path)]
    <3>1. Stripped[i] = b /\ a.mode = e.mode /\ a.blob = e.blob /\ Tail(a.path) = e.path
      BY <1>5, <1>8, <2>1
    <3>2. Tail(a.path) \in Seq(STRING)
      BY <2>2, <3>1 DEF TreeEntry
    <3>3. b \in TreeEntry /\ b.path = Tail(a.path) /\ b.mode = a.mode /\ b.blob = a.blob
      BY <2>2, <3>2 DEF TreeEntry
    <3> HIDE DEF a, b
    <3>4. /\ b = [path |-> b.path, mode |-> b.mode, blob |-> b.blob]
          /\ e = [path |-> e.path, mode |-> e.mode, blob |-> e.blob]
      BY <2>2, <3>3 DEF TreeEntry
    <3> QED
      BY <3>1, <3>3, <3>4
<1>9. Stripped \in Seq(TreeEntry) /\ DOMAIN Stripped = 1 .. n /\ Len(Stripped) = n
  BY <1>1, <1>3, StrippedType
<1>10. Elements(Stripped) = tree
  <2>1. \A i \in 1 .. n : Stripped[i] \in tree
    BY <1>4, <1>8
  <2>2. \A e \in tree : \E i \in 1 .. n : Stripped[i] = e
    <3> SUFFICES ASSUME NEW e \in tree PROVE \E i \in 1 .. n : Stripped[i] = e
      OBVIOUS
    <3>1. PICK i \in DOMAIN archive : archive[i] = Prefixed(e)
      <4>1. Prefixed(e) \in {archive[i] : i \in DOMAIN archive}
        BY <1>1 DEF ArchiveOfTree
      <4> QED
        BY <4>1
    <3> QED
      BY <1>2, <1>8, <3>1
  <2> QED
    BY <1>9, <2>1, <2>2 DEF Elements
<1>11. \A i, j \in DOMAIN Stripped : Stripped[i] = Stripped[j] => i = j
  <2> SUFFICES ASSUME NEW i \in 1 .. n, NEW j \in 1 .. n, Stripped[i] = Stripped[j] PROVE i = j
    BY <1>9
  <2>1. PICK e \in tree : archive[i] = Prefixed(e)
    BY <1>4
  <2>2. PICK f \in tree : archive[j] = Prefixed(f)
    BY <1>4
  <2>3. e = f
    BY <1>8, <2>1, <2>2
  <2> QED
    BY <1>1, <1>2, <2>1, <2>2, <2>3 DEF ArchiveOfTree
\* Nothing is dropped.
<1>12. Elements(Filtered) = tree
  BY <1>1, <1>10, FilteredType DEF TreeFits
<1>13. \A i, j \in DOMAIN Filtered : Filtered[i] = Filtered[j] => i = j
  BY <1>9, <1>11, KeepingDistinct DEF Filtered
<1> DEFINE k == Filtered
           paths == {k[i].path : i \in DOMAIN k}
           f == [i \in DOMAIN k |-> k[i].path]
<1>14. k \in Seq(TreeEntry) /\ DOMAIN k = 1 .. Len(k) /\ Len(k) \in Nat /\ \A i \in DOMAIN k : k[i] \in tree
  BY <1>1, <1>12, FilteredType, LenProperties DEF Elements
<1>15. k # <<>>
  BY <1>1, <1>12, <1>14 DEF TreeFits, Elements
<1>16. paths = {e.path : e \in tree}
  BY <1>12 DEF Elements
<1> HIDE DEF k
<1>17. Cardinality(paths) = Len(k)
  <2>1. f \in Surjection(DOMAIN k, paths)
    BY DEF Surjection
  <2>2. \A i, j \in DOMAIN k : k[i].path = k[j].path => i = j
    BY <1>1, <1>13, <1>14 DEF TreeFits, k
  <2>3. f \in Injection(DOMAIN k, paths)
    BY <2>2 DEF Injection, IsInjective
  <2>4. IsFiniteSet(DOMAIN k) /\ Cardinality(DOMAIN k) = Len(k)
    <3>1. IsFiniteSet(1 .. Len(k)) /\ Cardinality(1 .. Len(k)) = Len(k)
      BY <1>14, Interval
    <3> QED
      BY <1>14, <3>1, Zenon
  <2> HIDE DEF f, paths
  <2> QED
    BY <2>1, <2>3, <2>4, FS_Surjection
<1>18. Wellformed(k)
  BY <1>1, <1>15, <1>16, <1>17 DEF Wellformed, TreeFits
<1> QED
  BY <1>12, <1>18 DEF k

LEMMA ResultStep == ASSUME ArchiveInv, Result PROVE ArchiveInv'
<1>1. /\ stage = "extract" /\ position > Len(archive) /\ entries' = Filtered
      /\ blobs' = [b \in DOMAIN blobs \cap Used(Filtered) |-> blobs[b]]
      /\ UNCHANGED <<archive, party, position, tree, archiveSetting>>
      /\ IF Wellformed(Filtered)
         THEN stage' = "staged" /\ spool' = spool \ {blobs[b] : b \in DOMAIN blobs \ Used(Filtered)}
         ELSE stage' = "refused" /\ spool' = {}
  BY DEF Result
<1>2. ArchiveTypes /\ EntriesFit /\ OneFileEach
  BY <1>1 DEF ArchiveInv
<1>3. /\ Filtered \in Seq(TreeEntry) /\ Len(Filtered) <= Len(entries) /\ Used(Filtered) \subseteq Used(entries)
      /\ \A i \in DOMAIN Filtered : WithinLimits(Filtered[i]) /\ Safe(Filtered[i])
      /\ Unpacked(Filtered) <= Unpacked(entries)
  BY <1>2, FilteredType
<1>4. ArchiveTypes'
  BY <1>1, <1>2, <1>3 DEF ArchiveTypes
<1>5. EntriesFit'
  <2>1. limits' = limits /\ \A e : WithinLimits(e)' <=> WithinLimits(e)
    BY <1>1, SameLimits
  <2>2. \A i \in DOMAIN entries' : WithinLimits(entries[i])'
    BY <1>1, <1>3 DEF WithinLimits, limits, PathLength
  <2>3. Len(entries') <= position' - 1 /\ position' - 1 <= limits.count
    <3>1. Len(Filtered) \in Nat /\ Len(entries) \in Nat /\ position \in Nat
      BY <1>2, <1>3, LenProperties DEF ArchiveTypes
    <3> QED
      BY <1>1, <1>2, <1>3, <3>1 DEF EntriesFit
  <2>4. Unpacked(entries') <= limits.unpacked
    <3>1. Unpacked(Filtered) \in Nat /\ Unpacked(entries) \in Nat /\ limits.unpacked \in Nat
      BY <1>2, <1>3, UnpackedIs, SizesType, ArchiveSettingType DEF ArchiveTypes
    <3> QED
      BY <1>1, <1>2, <1>3, <3>1 DEF EntriesFit
  <2> QED
    BY <2>1, <2>2, <2>3, <2>4 DEF EntriesFit
<1>6. ASSUME Wellformed(Filtered) PROVE OneFileEach' /\ Returned'
  <2> DEFINE U == Used(entries)
             V == Used(Filtered)
  <2>1. /\ DOMAIN blobs = U /\ V \subseteq U /\ spool = {blobs[b] : b \in U}
        /\ \A a, b \in U : blobs[a] \in 1 .. position - 1 /\ (blobs[a] = blobs[b] => a = b)
    BY <1>2, <1>3 DEF OneFileEach
  <2>2. Used(entries)' = V
    BY <1>1 DEF Used
  <2> HIDE DEF U, V
  <2>3. /\ blobs' = [b \in V |-> blobs[b]] /\ spool' = spool \ {blobs[b] : b \in U \ V}
    <3>1. U \cap V = V
      BY <2>1
    <3> QED
      BY <1>1, <1>6, <2>1, <3>1 DEF V
  <2>4. spool' = {blobs[b] : b \in V}
    BY <2>1, <2>3
  <2>5. DOMAIN blobs' = V /\ \A b \in V : blobs'[b] = blobs[b]
    BY <2>3
  <2>6. blobs' = [b \in V |-> blobs'[b]] /\ spool' = {blobs'[b] : b \in V}
    BY <2>3, <2>4, <2>5
  <2>7. OneFileEach'
    BY <1>1, <2>1, <2>2, <2>5, <2>6 DEF OneFileEach
  <2>8. Returned'
    BY <1>1, <1>3, <1>6 DEF Returned, Wellformed, Clash
  <2> QED
    BY <2>7, <2>8
<1>7. ASSUME party = "mirror" PROVE MirrorFollows'
  <2>1. TreeFits /\ ArchiveOfTree
    BY <1>7 DEF ArchiveInv, MirrorFollows
  <2>2. Elements(Filtered) = tree /\ Wellformed(Filtered)
    BY <1>1, <1>7, MirrorResult
  <2>3. TreeFits' /\ ArchiveOfTree'
    BY <1>1, <2>1, TreeStays, ArchiveStays
  <2>4. stage' = "staged" /\ ToSet(entries') = tree'
    BY <1>1, <2>2 DEF Elements, ToSet
  <2> QED
    BY <2>3, <2>4 DEF MirrorFollows, ToSet
<1> QED
  BY <1>1, <1>4, <1>5, <1>6, <1>7 DEF ArchiveInv

------------------------------------------------------------------------------
(* Publication, and the universal archive.                                    *)

\* Of what is returned, publication accepts all that storage has room for.
LEMMA ReturnedAccepted == ASSUME ArchiveInv, stage = "staged" PROVE Accepted <=> Storable(ToSet(entries))
<1>1. ArchiveTypes /\ EntriesFit /\ OneFileEach /\ Returned
  BY DEF ArchiveInv
<1>2. /\ Len(entries) \in Nat /\ DOMAIN entries = 1 .. Len(entries) /\ position \in Nat /\ limits.count \in Nat
      /\ limits.file \in Nat /\ caps.file \in Nat
      /\ \A i \in DOMAIN entries : Len(entries[i].blob) \in Nat
  <2>1. Len(entries) \in Nat /\ DOMAIN entries = 1 .. Len(entries) /\ \A i \in DOMAIN entries : entries[i] \in TreeEntry
    BY <1>1, LenProperties DEF ArchiveTypes
  <2>2. \A i \in DOMAIN entries : entries[i].blob \in Seq(STRING)
    BY <2>1 DEF TreeEntry
  <2> QED
    BY <1>1, <2>1, <2>2, LenProperties, ArchiveSettingType DEF ArchiveTypes
<1> DEFINE S == ToSet(entries)
           small == \A i \in DOMAIN entries : Len(entries[i].blob) <= caps.file
           short == \A i \in DOMAIN entries : PathLength(entries[i].path) <= caps.path
<1>3. Storable(S) <=> small /\ short /\ TreeBytes(S) <= caps.object
  <2>1. (\A e \in S : Len(e.blob) <= caps.file) <=> small
    BY DEF ToSet
  <2>2. (\A e \in S : PathLength(e.path) <= caps.path) <=> short
    BY DEF ToSet
  <2> HIDE DEF S, small, short
  <2> QED
    BY <2>1, <2>2 DEF Storable
<1>4. Normal <=> small
  <2>1. Len(entries) \in 1 .. limits.count
    <3>1. Len(entries) # 0
      <4>1. entries # <<>> /\ entries \in Seq(TreeEntry)
        BY <1>1 DEF Returned, Wellformed, ArchiveTypes
      <4> QED
        BY <4>1, EmptySeq
    <3>2. Len(entries) <= position - 1 /\ position - 1 <= limits.count
      BY <1>1 DEF EntriesFit
    <3> QED
      BY <1>2, <3>1, <3>2
  <2>2. \A i \in DOMAIN entries :
           /\ Canonical(entries[i].path) /\ PathLength(entries[i].path) <= limits.path
           /\ Len(entries[i].blob) <= limits.file
    BY <1>1 DEF EntriesFit, WithinLimits
  <2>3. \A i \in DOMAIN entries : Len(entries[i].blob) <= maxBlobBytes <=> Len(entries[i].blob) <= caps.file
    <3> TAKE i \in DOMAIN entries
    <3>1. Len(entries[i].blob) \in Nat /\ Len(entries[i].blob) <= limits.file
      BY <1>2, <2>2
    <3> QED
      BY <1>2, <3>1 DEF maxBlobBytes
  <2>4. Unpacked(entries) <= limits.unpacked
    BY <1>1 DEF EntriesFit
  <2> QED
    BY <2>1, <2>2, <2>3, <2>4 DEF Normal
<1>5. Encodable <=> short /\ TreeBytes(S) <= caps.object
  BY <1>1 DEF Encodable, Returned
<1>6. BlobsStaged /\ ReferencesStaged
  BY <1>1 DEF BlobsStaged, ReferencesStaged, OneFileEach, Intact
<1>7. SymlinksStaged
  BY <1>1 DEF SymlinksStaged, Returned, EntriesFit, WithinLimits
<1> HIDE DEF S, small, short
<1>8. Accepted <=> Storable(S)
  BY <1>3, <1>4, <1>5, <1>6, <1>7 DEF Accepted
<1> QED
  BY <1>8 DEF S

LEMMA PublishStagedStep == ASSUME ArchiveInv, PublishStaged PROVE ArchiveInv'
<1>1. /\ stage = "staged" /\ stage' = (IF party = "mirror" THEN "mirrored" ELSE "published")
      /\ tree' = ToSet(entries) /\ spool' = {} /\ Accepted
      /\ UNCHANGED <<archive, party, position, entries, blobs, archiveSetting>>
  BY DEF PublishStaged
<1>2. ArchiveTypes /\ EntriesFit /\ Returned /\ position \in Nat
  BY <1>1 DEF ArchiveInv, ArchiveTypes
<1>3. ArchiveTypes'
  <2>1. ToSet(entries) \subseteq TreeEntry
    BY <1>2, LenProperties DEF ArchiveTypes, ToSet
  <2> QED
    BY <1>1, <1>2, <2>1 DEF ArchiveTypes
<1>4. EntriesFit' /\ Returned'
  <2>1. position <= position' /\ position' - 1 <= limits.count
    BY <1>1, <1>2 DEF EntriesFit
  <2> QED
    BY <1>1, <1>2, <2>1, ListStays
<1>5. party = "mirror" => MirrorFollows'
  BY <1>1, TreeStays, ArchiveStays DEF ArchiveInv, MirrorFollows
<1>6. tree' = ToSet(entries)' /\ Storable(tree)'
  <2>1. tree' = ToSet(entries)'
    BY <1>1 DEF ToSet
  <2>2. Storable(ToSet(entries))
    BY <1>1, ReturnedAccepted
  <2>3. Storable(tree)'
    BY <1>1, <2>2, SameLimits
  <2> QED
    BY <2>1, <2>3
<1> QED
  BY <1>1, <1>3, <1>4, <1>5, <1>6 DEF ArchiveInv

\* Storage has room for the tree that a mirror gets.
LEMMA PublishRefusedStep == ASSUME ArchiveInv, PublishRefused PROVE ArchiveInv'
<1>1. /\ stage = "staged" /\ ~ Accepted /\ stage' = "refused" /\ spool' = {}
      /\ UNCHANGED <<archive, party, position, entries, blobs, tree, archiveSetting>>
  BY DEF PublishRefused
<1>2. ArchiveTypes /\ EntriesFit /\ position \in Nat
  BY DEF ArchiveInv, ArchiveTypes
<1>3. ArchiveTypes'
  BY <1>1, <1>2 DEF ArchiveTypes
<1>4. EntriesFit'
  BY <1>1, <1>2, ListStays DEF EntriesFit
<1>5. party # "mirror"
  <2>1. ASSUME party = "mirror" PROVE Storable(ToSet(entries))
    BY <1>1, <2>1 DEF ArchiveInv, MirrorFollows, TreeFits
  <2> QED
    BY <1>1, <2>1, ReturnedAccepted
<1> QED
  BY <1>1, <1>3, <1>4, <1>5 DEF ArchiveInv

LEMMA WriteRefusedStep == ASSUME ArchiveInv, WriteRefused PROVE ArchiveInv'
<1>1. /\ stage = "published" /\ stage' = "unwritten"
      /\ UNCHANGED <<archive, party, position, entries, blobs, spool, tree, archiveSetting>>
  BY DEF WriteRefused
<1>2. ArchiveTypes /\ EntriesFit /\ position \in Nat
  BY DEF ArchiveInv, ArchiveTypes
<1>3. ArchiveTypes'
  BY <1>1, <1>2 DEF ArchiveTypes
<1>4. EntriesFit'
  BY <1>1, <1>2, ListStays DEF EntriesFit
<1>5. party = "mirror" => MirrorFollows'
  BY <1>1, TreeStays, ArchiveStays DEF ArchiveInv, MirrorFollows
<1> QED
  BY <1>1, <1>3, <1>4, <1>5 DEF ArchiveInv

\* A finite set as a sequence.
LEMMA SetToSeqType ==
    ASSUME NEW S, IsFiniteSet(S)
    PROVE  LET s == SetToSeq(S)
           IN  /\ s \in Seq(S) /\ Len(s) = Cardinality(S) /\ DOMAIN s = 1 .. Cardinality(S) /\ Cardinality(S) \in Nat
               /\ {s[i] : i \in DOMAIN s} = S /\ \A i, j \in DOMAIN s : s[i] = s[j] => i = j
<1> DEFINE s == SetToSeq(S)
           N == Cardinality(S)
<1>1. N \in Nat /\ ExistsBijection(1 .. N, S)
  BY FS_CardinalityType
<1>2. \E f \in [1 .. N -> S] : IsInjective(f)
  BY <1>1 DEF ExistsBijection, Bijection, Injection
<1>3. s \in [1 .. N -> S] /\ IsInjective(s)
  BY <1>2 DEF SetToSeq
<1>4. s \in Injection(1 .. N, S)
  BY <1>3 DEF Injection
<1>5. IsFiniteSet(1 .. N) /\ Cardinality(1 .. N) = N
  BY <1>1, Interval
<1> HIDE DEF s
<1>6. s \in Surjection(1 .. N, S)
  BY <1>4, <1>5, FS_Injection
<1>7. {s[i] : i \in 1 .. N} = S
  BY <1>6 DEF Surjection
<1> HIDE DEF N
<1>8. s \in Seq(S) /\ Len(s) = N /\ DOMAIN s = 1 .. N
  BY <1>1, <1>3
<1> QED
  BY <1>1, <1>3, <1>7, <1>8 DEF IsInjective, N, s

LEMMA PathsDistinct ==
    ASSUME NEW list \in Seq(TreeEntry), Wellformed(list)
    PROVE  \A i, j \in DOMAIN list : list[i].path = list[j].path => i = j
<1> DEFINE paths == {list[i].path : i \in DOMAIN list}
           f == [i \in DOMAIN list |-> list[i].path]
<1>1. Len(list) \in Nat /\ DOMAIN list = 1 .. Len(list) /\ Cardinality(paths) = Len(list)
  BY LenProperties DEF Wellformed
<1>2. f \in Surjection(DOMAIN list, paths)
  BY DEF Surjection
<1>3. IsFiniteSet(DOMAIN list) /\ Cardinality(DOMAIN list) = Len(list)
  <2>1. IsFiniteSet(1 .. Len(list)) /\ Cardinality(1 .. Len(list)) = Len(list)
    BY <1>1, Interval
  <2> QED
    BY <1>1, <2>1, Zenon
<1>4. f \in Injection(DOMAIN list, paths)
  <2> HIDE DEF f, paths
  <2> QED
    BY <1>1, <1>2, <1>3, FS_Surjection
<1> QED
  BY <1>4 DEF Injection, IsInjective

\* The extended header of a name that is too long.
LEMMA ExtendedType ==
    ASSUME ArchiveTypes, NEW name \in Seq(STRING), NEW target \in Seq(STRING)
    PROVE  Extended(name, target) \in Nat
<1> DEFINE records == Record(PathLength(name)) + Record(Len(target))
<1>1. PathLength(name) \in Nat /\ Len(target) \in Nat
  BY PathLengthType, LenProperties
<1>2. tar.short \in Nat /\ tar.record \in Nat /\ tar.block \in Nat
  BY ArchiveSettingType
<1>3. \A n \in Nat : Record(n) \in Nat
  <2> TAKE n \in Nat
  <2>1. Record(n) = n + tar.record \/ Record(n) = 0
    BY DEF Record
  <2> QED
    BY <1>2, <2>1
<1>4. records \in Nat
  <2>1. Record(PathLength(name)) \in Nat /\ Record(Len(target)) \in Nat
    BY <1>1, <1>3, Zenon
  <2> QED
    BY <2>1
<1>5. Padded(records) \in Nat
  BY <1>4, PaddedType
<1>6. Extended(name, target) = IF records = 0 THEN 0 ELSE tar.block + Padded(records)
  BY DEF Extended
<1> HIDE DEF records
<1> QED
  BY <1>2, <1>5, <1>6

LEMMA WriteStep == ASSUME ArchiveInv, WriteUniversal PROVE ArchiveInv'
<1> DEFINE H == {Prefixed(e) : e \in tree}
           s == SetToSeq(H)
           m == Len(entries)
<1>1. /\ stage = "published" /\ Writable /\ archive' = s /\ position' = 1 /\ entries' = <<>> /\ blobs' = <<>>
      /\ spool' = {} /\ stage' = "extract" /\ party' = "mirror" /\ UNCHANGED <<tree, archiveSetting>>
  BY DEF WriteUniversal, Read
<1>2. ArchiveTypes /\ EntriesFit /\ Returned /\ tree = ToSet(entries) /\ Storable(tree)
  BY <1>1 DEF ArchiveInv
<1>3. /\ entries \in Seq(TreeEntry) /\ m \in Nat /\ DOMAIN entries = 1 .. m /\ tree \in SUBSET TreeEntry
      /\ \A i \in 1 .. m : entries[i] \in TreeEntry /\ entries[i] \in tree
      /\ \A e \in tree : \E i \in 1 .. m : e = entries[i]
  BY <1>2, LenProperties DEF ArchiveTypes, ToSet
<1>4. \A i, j \in 1 .. m : entries[i].path = entries[j].path => i = j
  BY <1>2, <1>3, PathsDistinct DEF Returned
<1>5. \A e \in TreeEntry : Prefixed(e) \in ArchiveHeader /\ Prefixed(e).content = e.blob
  <2> SUFFICES ASSUME NEW e \in TreeEntry PROVE Prefixed(e) \in ArchiveHeader /\ Prefixed(e).content = e.blob
    OBVIOUS
  <2>1. <<Top>> \in Seq(STRING) /\ e.path \in Seq(STRING) /\ e.mode \in {"file", "symlink"} /\ e.blob \in Seq(STRING)
    BY TopAssumption DEF TreeEntry
  <2>2. <<Top>> \o e.path \in Seq(STRING)
    BY <2>1, ConcatProperties
  <2>3. <<>> \in Seq(STRING)
    BY EmptySeq
  <2>4. Extended(<<Top>> \o e.path, e.blob) \in Nat /\ Extended(<<Top>> \o e.path, <<>>) \in Nat
    BY <1>2, <2>1, <2>2, <2>3, ExtendedType
  <2> QED
    BY <2>1, <2>2, <2>4 DEF Prefixed, HeaderOf, ArchiveHeader
<1> HIDE DEF m
<1>6. IsFiniteSet(H) /\ Cardinality(H) <= m
  <2> DEFINE f == [i \in 1 .. m |-> Prefixed(entries[i])]
  <2>1. f \in Surjection(1 .. m, H)
    BY <1>3 DEF Surjection
  <2>2. IsFiniteSet(1 .. m) /\ Cardinality(1 .. m) = m
    BY <1>3, Interval
  <2> HIDE DEF f, H
  <2> QED
    BY <2>1, <2>2, FS_Surjection
<1>7. /\ s \in Seq(H) /\ Len(s) = Cardinality(H) /\ Cardinality(H) \in Nat /\ DOMAIN s = 1 .. Len(s)
      /\ {s[i] : i \in DOMAIN s} = H /\ \A i, j \in DOMAIN s : s[i] = s[j] => i = j
  <2> HIDE DEF H
  <2> QED
    BY <1>6, SetToSeqType
<1> HIDE DEF s
<1>8. ArchiveTypes'
  <2>1. H \subseteq ArchiveHeader
    BY <1>3, <1>5
  <2>2. s \in Seq(ArchiveHeader)
    <3> HIDE DEF H
    <3> QED
      BY <1>7, <2>1, SeqMonotonic
  <2>3. <<>> \in Seq(TreeEntry)
    BY EmptySeq
  <2> QED
    BY <1>1, <1>2, <2>2, <2>3 DEF ArchiveTypes
<1>9. DOMAIN <<>> = {} /\ Len(<<>>) = 0
  BY EmptySeq
<1>10. EntriesFit'
  <2>1. limits' = limits /\ limits.count \in Nat /\ limits.unpacked \in Nat
    BY <1>1, <1>2, SameLimits, ArchiveSettingType
  <2>2. Unpacked(entries') = 0
    <3>1. Unpacked(entries') = Total(Sizes(<<>>), DOMAIN <<>>)
      BY <1>1, UnpackedIs
    <3>2. Total(Sizes(<<>>), {}) = 0
      BY FS_EmptySet, TotalStep
    <3> QED
      BY <1>9, <3>1, <3>2
  <2>3. \A i \in DOMAIN entries' : WithinLimits(entries[i])'
    BY <1>1, <1>9
  <2>4. Len(entries') = 0 /\ position' - 1 = 0
    BY <1>1, <1>9
  <2> QED
    BY <2>1, <2>2, <2>3, <2>4 DEF EntriesFit
<1>11. OneFileEach'
  <2>1. Used(entries)' = {}
    BY <1>1, <1>9 DEF Used
  <2>2. blobs' = [b \in {} |-> blobs'[b]] /\ DOMAIN blobs' = {}
    BY <1>1, <1>9
  <2> QED
    BY <1>1, <2>1, <2>2 DEF OneFileEach
<1>12. TreeFits
  <2>1. \A e \in tree : WithinLimits(e) /\ Safe(e)
    BY <1>2, <1>3 DEF EntriesFit, Returned
  <2>2. \A e, f \in tree : e.path = f.path => e = f
    BY <1>3, <1>4
  <2>3. tree # {}
    <3>1. entries # <<>> /\ entries \in Seq(TreeEntry)
      BY <1>1, <1>2 DEF Returned, Wellformed, ArchiveTypes
    <3>2. Len(entries) \in Nat /\ Len(entries) # 0 /\ DOMAIN entries = 1 .. Len(entries)
      BY <3>1, EmptySeq, LenProperties
    <3>3. 1 \in DOMAIN entries
      BY <3>2
    <3> QED
      BY <1>3, <3>3
  <2>4. {e.path : e \in tree} = {entries[i].path : i \in DOMAIN entries}
    BY <1>2 DEF ToSet
  <2>5. ~ Clash({e.path : e \in tree})
    BY <1>2, <2>4 DEF Returned, Wellformed
  <2>6. \A e \in tree : Canonical(Prefixed(e).name) /\ PathLength(Prefixed(e).name) <= limits.path
    BY <1>1 DEF Writable
  <2> QED
    BY <1>2, <2>1, <2>2, <2>3, <2>5, <2>6 DEF TreeFits
<1>13. ArchiveOfTree'
  <2> DEFINE g == HeaderSizes(s)
             f == Sizes(entries)
             P == DOMAIN s
             h == [i \in P |-> CHOOSE j \in 1 .. m : Prefixed(entries[j]) = s[i]]
  <2>1. \A i \in P : h[i] \in 1 .. m /\ Prefixed(entries[h[i]]) = s[i]
    <3> SUFFICES ASSUME NEW i \in P PROVE \E j \in 1 .. m : Prefixed(entries[j]) = s[i]
      OBVIOUS
    <3>1. s[i] \in H
      BY <1>7
    <3> QED
      BY <1>3, <3>1
  <2>2. \A p, q \in P : h[p] = h[q] => p = q
    <3> SUFFICES ASSUME NEW p \in P, NEW q \in P, h[p] = h[q] PROVE p = q
      OBVIOUS
    <3>1. s[p] = s[q]
      <4> HIDE DEF h, P
      <4> QED
        BY <2>1
    <3> QED
      BY <1>7, <3>1
  <2>3. h \in [P -> 1 .. m]
    BY <2>1
  <2>4. Counted(f, 1 .. m) /\ (\A j \in 1 .. m : f[j] = Len(entries[j].blob)) /\ Total(f, 1 .. m) = Unpacked(entries)
    BY <1>3, SizesType, UnpackedIs
  <2>5. \A p \in P : g[p] = Len(s[p].content)
    BY DEF HeaderSizes
  <2>6. \A p \in P : g[p] = f[h[p]]
    <3> SUFFICES ASSUME NEW p \in P PROVE g[p] = f[h[p]]
      OBVIOUS
    <3>1. h[p] \in 1 .. m /\ Prefixed(entries[h[p]]) = s[p]
      BY <2>1
    <3> HIDE DEF h, P, f, g
    <3>2. s[p].content = entries[h[p]].blob
      BY <1>3, <1>5, <3>1
    <3> QED
      BY <2>4, <2>5, <3>1, <3>2
  <2>7. IsFiniteSet(P)
    BY <1>7, Interval
  <2> HIDE DEF h, P, f, g
  <2>8. Counted(g, P) /\ Total(g, P) <= Total(f, 1 .. m)
    BY <2>2, <2>3, <2>4, <2>6, <2>7, TotalReindex
  <2>9. Total(g, P) <= limits.unpacked
    <3>1. Unpacked(entries) <= limits.unpacked /\ limits.unpacked \in Nat
      BY <1>2, ArchiveSettingType DEF EntriesFit
    <3>2. Total(g, P) \in Nat /\ Total(f, 1 .. m) \in Nat
      BY <2>4, <2>8, TotalType
    <3> QED
      BY <2>4, <2>8, <3>1, <3>2
  <2>10. Len(s) <= limits.count
    <3>1. m <= position - 1 /\ position - 1 <= limits.count /\ position \in Nat /\ limits.count \in Nat
      BY <1>2, ArchiveSettingType DEF EntriesFit, ArchiveTypes, m
    <3> QED
      BY <1>3, <1>6, <1>7, <3>1
  <2>11. limits' = limits
    BY <1>1, SameLimits
  <2>12. H = {Prefixed(e) : e \in tree}'
    BY <1>1, SameLimits
  <2> HIDE DEF H
  <2> QED
    BY <1>1, <1>7, <2>9, <2>10, <2>11, <2>12 DEF ArchiveOfTree, P, g
<1>14. MirrorFollows'
  <2>1. TreeFits'
    BY <1>1, <1>12, TreeStays
  <2>2. entries' = [i \in 1 .. position' - 1 |-> AsEntry(archive'[i])]
    BY <1>1, <1>9
  <2>3. position' <= Len(archive') + 1
    BY <1>1, <1>7
  <2> QED
    BY <1>1, <1>13, <2>1, <2>2, <2>3 DEF MirrorFollows, AsEntry
<1> QED
  BY <1>1, <1>8, <1>10, <1>11, <1>14 DEF ArchiveInv

------------------------------------------------------------------------------
LEMMA ArchiveBegins == ASSUME ArchiveInit PROVE ArchiveInv
<1>1. /\ archiveSetting \in ArchiveSettings /\ party = "ingest" /\ stage = "extract" /\ position = 1
      /\ entries = <<>> /\ blobs = <<>> /\ spool = {} /\ tree = {}
  BY DEF ArchiveInit
<1>2. archive \in Seq(ArchiveHeader)
  <2>1. archiveSetting.headers \in DOMAIN Headers
    BY <1>1, ArchiveSettingsAssumption
  <2>2. Headers[archiveSetting.headers] \subseteq ArchiveHeader
    BY <2>1, HeadersAssumption
  <2>3. PICK n \in 0 .. archiveSetting.length : archive \in [1 .. n -> Headers[archiveSetting.headers]]
    BY DEF ArchiveInit
  <2>4. n \in Nat /\ archive \in [1 .. n -> ArchiveHeader]
    BY <1>1, <2>2, <2>3, ArchiveSettingsAssumption
  <2> QED
    BY <2>4
<1>3. DOMAIN <<>> = {} /\ Len(<<>>) = 0 /\ <<>> \in Seq(TreeEntry)
  BY EmptySeq
<1>4. ArchiveTypes
  BY <1>1, <1>2, <1>3 DEF ArchiveTypes
<1>5. EntriesFit
  <2>1. limits.count \in Nat /\ limits.unpacked \in Nat
    BY <1>4, ArchiveSettingType
  <2>2. Unpacked(entries) = 0
    <3>1. Unpacked(entries) = Total(Sizes(<<>>), DOMAIN <<>>)
      BY <1>1, UnpackedIs
    <3>2. Total(Sizes(<<>>), {}) = 0
      BY FS_EmptySet, TotalStep
    <3> QED
      BY <1>3, <3>1, <3>2
  <2> QED
    BY <1>1, <1>3, <2>1, <2>2 DEF EntriesFit
<1>6. OneFileEach
  <2>1. Used(entries) = {}
    BY <1>1, <1>3 DEF Used
  <2>2. blobs = [b \in {} |-> blobs[b]] /\ DOMAIN blobs = {}
    BY <1>1, <1>3
  <2> QED
    BY <1>1, <2>1, <2>2 DEF OneFileEach
<1> QED
  BY <1>1, <1>4, <1>5, <1>6 DEF ArchiveInv

LEMMA ArchiveGoesOn == ASSUME ArchiveInv, [ArchiveNext]_archiveVars PROVE ArchiveInv'
<1>1. CASE UNCHANGED archiveVars
  <2>1. /\ UNCHANGED <<archive, party, stage, position, entries, blobs, spool, tree, archiveSetting>>
    BY <1>1 DEF archiveVars
  <2>2. ArchiveTypes /\ EntriesFit /\ position \in Nat
    BY DEF ArchiveInv, ArchiveTypes
  <2>3. EntriesFit' /\ Returned' = Returned
    BY <2>1, <2>2, ListStays DEF EntriesFit
  <2>4. ArchiveTypes'
    BY <2>1, <2>2 DEF ArchiveTypes
  <2>5. OneFileEach' = OneFileEach
    BY <2>1 DEF OneFileEach
  <2>6. MirrorFollows => MirrorFollows'
    BY <2>1, TreeStays, ArchiveStays, StreamStays DEF MirrorFollows, AsEntry
  <2>7. Storable(tree)' <=> Storable(tree)
    BY <2>1, SameLimits
  <2> QED
    BY <2>1, <2>3, <2>4, <2>5, <2>6, <2>7 DEF ArchiveInv
<1>2. CASE Refuse
  BY <1>2, RefuseStep
<1>3. CASE WriteFails
  BY <1>3, FailStep
<1>4. CASE SkipHeader
  BY <1>4, SkipStep
<1>5. CASE TakeEntry
  BY <1>5, TakeStep
<1>6. CASE Result
  BY <1>6, ResultStep
<1>7. CASE PublishStaged
  BY <1>7, PublishStagedStep
<1>8. CASE WriteUniversal
  BY <1>8, WriteStep
<1>9. CASE WriteRefused
  BY <1>9, WriteRefusedStep
<1>10. CASE PublishRefused
  BY <1>10, PublishRefusedStep
<1> QED
  BY <1>1, <1>2, <1>3, <1>4, <1>5, <1>6, <1>7, <1>8, <1>9, <1>10 DEF ArchiveNext

\* Of what an extraction returns publication refuses nothing but what is beyond
\* storage's own caps, and there is one temporary file for each content, and none
\* after an error: extract.go and staged.go agree on the rest for every archive,
\* all limits and all caps.
THEOREM ExtractionSoundCorrect == ArchiveSpec => []ExtractionSound
<1>1. ASSUME ArchiveInv PROVE ExtractionSound
  BY <1>1, ReturnedAccepted DEF ArchiveInv, ExtractionSound, OneFileEach
<1> QED
  BY <1>1, ArchiveBegins, ArchiveGoesOn, PTL DEF ArchiveSpec

\* A universal archive (universal.go) that could be written is taken by every
\* mirror with the same limits and gives it the same tree, unless the stream of
\* the tar is longer than is read of it, which takes as many entries as there may
\* be or an extended header, or a file in the zip is packed too well.
THEOREM MirrorExactCorrect == ArchiveSpec => []MirrorExact
<1>1. ASSUME ArchiveInv PROVE MirrorExact
  BY <1>1 DEF ArchiveInv, MirrorFollows, MirrorExact
<1> QED
  BY <1>1, ArchiveBegins, ArchiveGoesOn, PTL DEF ArchiveSpec

------------------------------------------------------------------------------
(* Module zips: the walks over a text, and the mentions of the module in it.   *)

Text == Seq(STRING)
LEMMA ZipSettingType ==
    ASSUME zipSetting \in ZipSettings
    PROVE  /\ old \in Text /\ Len(old) \in Nat \ {0} /\ new \in Text /\ Len(new) \in Nat
           /\ zipSetting.rewrite \in BOOLEAN /\ zipSetting.budget \in Nat /\ zipSetting.maxCached \in Nat
           /\ zipSetting.trees \in DOMAIN ZipTrees
<1>1. zipSetting \in [trees : DOMAIN ZipTrees, modulePath : Seq(STRING) \ {<<>>}, target : Seq(STRING), rewrite : BOOLEAN,
                      maxCached : Nat, budget : Nat]
  BY ZipSettingsAssumption
<1>2. old \in Seq(STRING) /\ old # <<>> /\ new \in Seq(STRING)
  BY <1>1 DEF old, new
<1>3. Len(old) \in Nat \ {0} /\ Len(new) \in Nat
  BY <1>2, EmptySeq, LenProperties
<1> QED
  BY <1>1, <1>2, <1>3 DEF Text

\* The first place at which the module path is found.
LEMMA FirstFound ==
    ASSUME zipSetting \in ZipSettings, NEW text \in Text, NEW pos \in 1 .. Len(text) + 1, Found(text, pos) # {}
    PROVE  LET s == First(Found(text, pos))
           IN  /\ s \in pos .. Len(text) /\ Occurs(text, s)
               /\ s + Len(old) \in pos + 1 .. Len(text) + 1 /\ s + Len(old) > s
               /\ \A t \in pos .. Len(text) : Occurs(text, t) => s <= t
<1> DEFINE F == Found(text, pos)
           s == First(F)
<1>1. Len(text) \in Nat /\ Len(old) \in Nat \ {0}
  BY ZipSettingType, LenProperties DEF Text
<1>2. F \in SUBSET (pos .. Len(text)) /\ F \in SUBSET Nat /\ F # {}
  BY <1>1 DEF Found
<1>3. PICK m \in F : \A k \in F : m <= k
  <2> HIDE DEF F
  <2>1. PICK x \in F : TRUE
    BY <1>2
  <2> QED
    BY <1>2, <2>1, LeastNumber
<1>4. s \in F /\ \A k \in F : s <= k
  <2> HIDE DEF F
  <2> QED
    BY <1>3 DEF First
<1>5. s \in pos .. Len(text) /\ Occurs(text, s) /\ \A t \in pos .. Len(text) : Occurs(text, t) => s <= t
  <2> HIDE DEF s
  <2> QED
    BY <1>4 DEF Found
<1>6. s + Len(old) - 1 <= Len(text)
  <2> HIDE DEF s
  <2> QED
    BY <1>5 DEF Occurs
<1> HIDE DEF s, F
<1>7. s + Len(old) \in pos + 1 .. Len(text) + 1 /\ s + Len(old) > s
  BY <1>1, <1>5, <1>6
<1> QED
  BY <1>5, <1>7 DEF s, F

\* The walks, each from every place of a text.
ContentWalk(f, text) ==
    f = [pos \in 1 .. Len(text) + 1 |->
            LET found == Found(text, pos)
            IN  IF found = {} THEN SubSeq(text, pos, Len(text))
                ELSE SubSeq(text, pos, First(found) - 1)
                     \o (IF moduleBoundary(text, First(found)) THEN new ELSE old)
                     \o f[First(found) + Len(old)]]
SizeWalk(f, text) ==
    f = [pos \in 1 .. Len(text) + 1 |->
            LET found == Found(text, pos)
            IN  IF found = {} THEN Len(text) - pos + 1
                ELSE First(found) - pos
                     + (IF moduleBoundary(text, First(found)) THEN Len(new) ELSE Len(old))
                     + f[First(found) + Len(old)]]
MentionWalk(f, text) ==
    f = [pos \in 1 .. Len(text) + 1 |->
            LET found == Found(text, pos)
            IN  found # {} /\ (moduleBoundary(text, First(found)) \/ f[First(found) + 1])]
ContentFrom(text) == CHOOSE f : ContentWalk(f, text)
SizeFrom(text) == CHOOSE f : SizeWalk(f, text)
MentionFrom(text) == CHOOSE f : MentionWalk(f, text)

LEMMA WalksFrom ==
    ASSUME NEW text
    PROVE  /\ rewriteContent(text) = ContentFrom(text)[1]
           /\ rewrittenSize(text) = SizeFrom(text)[1]
           /\ containsModulePath(text) = MentionFrom(text)[1]
<1>1. rewriteContent(text) = ContentFrom(text)[1]
  BY DEF rewriteContent, ContentFrom, ContentWalk
<1>2. rewrittenSize(text) = SizeFrom(text)[1]
  BY DEF rewrittenSize, SizeFrom, SizeWalk
<1>3. containsModulePath(text) = MentionFrom(text)[1]
  BY DEF containsModulePath, MentionFrom, MentionWalk
<1> QED
  BY <1>1, <1>2, <1>3

\* The text between two places.
LEMMA Between ==
    ASSUME NEW text \in Text, NEW a \in 1 .. Len(text) + 1, NEW b \in a - 1 .. Len(text)
    PROVE  /\ SubSeq(text, a, b) \in Text /\ Len(SubSeq(text, a, b)) = b - a + 1
           /\ \A i \in 1 .. b - a + 1 : SubSeq(text, a, b)[i] = text[a + i - 1]
<1>1. Len(text) \in Nat /\ a \in Int /\ b \in Int /\ \A i \in a .. b : text[i] \in STRING
  BY LenProperties DEF Text
<1> QED
  BY <1>1, SubSeqProperties DEF Text

LEMMA ContentWalkExists ==
    ASSUME zipSetting \in ZipSettings, NEW text \in Text
    PROVE  ContentWalk(ContentFrom(text), text)
<1> DEFINE n == Len(text)
           D == 1 .. n + 1
           first(p) == First(Found(text, p))
           piece(p) == SubSeq(text, p, first(p) - 1) \o (IF moduleBoundary(text, first(p)) THEN new ELSE old)
           rank == [p \in D |-> n + 1 - p]
           stop == {p \in D : Found(text, p) = {}}
           base == [p \in D |-> SubSeq(text, p, n)]
           next == [p \in D |-> first(p) + Len(old)]
           step == [p \in D |-> [v \in Text |-> piece(p) \o v]]
<1>1. n \in Nat /\ rank \in [D -> 0 .. n]
  <2>1. n \in Nat
    BY LenProperties DEF Text
  <2> HIDE DEF n
  <2> QED
    BY <2>1
<1>2. ASSUME NEW p \in D, p \in stop PROVE base[p] \in Text
  <2>1. n \in p - 1 .. n
    BY <1>1
  <2>2. SubSeq(text, p, n) \in Text
    BY <2>1, Between
  <2> QED
    BY <2>2
<1>3. ASSUME NEW p \in D, p \notin stop
      PROVE  next[p] \in D /\ rank[next[p]] < rank[p] /\ \A v \in Text : step[p][v] \in Text
  <2>1. first(p) \in p .. n /\ first(p) + Len(old) \in p + 1 .. n + 1
    BY <1>3, FirstFound
  <2>2. next[p] \in D /\ rank[next[p]] < rank[p]
    <3>1. next[p] = first(p) + Len(old)
      OBVIOUS
    <3> HIDE DEF next, first, n
    <3> QED
      BY <1>1, <2>1, <3>1
  <2>3. SubSeq(text, p, first(p) - 1) \in Text
    <3>1. first(p) - 1 \in p - 1 .. n
      <4> HIDE DEF first, n
      <4> QED
        BY <1>1, <2>1
    <3> QED
      BY <3>1, Between
  <2>4. piece(p) \in Text
    BY <2>3, ZipSettingType, ConcatProperties DEF Text
  <2>5. \A v \in Text : piece(p) \o v \in Text
    <3> HIDE DEF piece
    <3> QED
      BY <2>4, ConcatProperties DEF Text
  <2> QED
    BY <2>2, <2>5
<1>4. PICK f \in [D -> Text] : \A p \in D : f[p] = IF p \in stop THEN base[p] ELSE step[p][f[next[p]]]
  <2>1. \A p \in D : p \in stop => base[p] \in Text
    BY <1>2
  <2>2. \A p \in D : p \notin stop => next[p] \in D /\ rank[next[p]] < rank[p] /\ \A v \in Text : step[p][v] \in Text
    BY <1>3
  <2> HIDE DEF n, D, rank, stop, base, next, step
  <2>3. Ranked(D, n, rank, Text, stop, base, next, step)
    BY <1>1, <2>1, <2>2 DEF Ranked
  <2> QED
    BY <2>3, DefinedAlong
<1>5. ASSUME NEW p \in D
      PROVE  f[p] = IF Found(text, p) = {} THEN SubSeq(text, p, n) ELSE piece(p) \o f[first(p) + Len(old)]
  <2>1. p \notin stop => next[p] = first(p) + Len(old) /\ next[p] \in D
    BY <1>3
  <2>2. p \notin stop => step[p][f[next[p]]] = piece(p) \o f[first(p) + Len(old)]
    <3> HIDE DEF piece, D, stop, next
    <3> QED
      BY <1>4, <2>1
  <2>3. f[p] = IF p \in stop THEN base[p] ELSE step[p][f[next[p]]]
    BY <1>4
  <2>4. p \in stop <=> Found(text, p) = {}
    OBVIOUS
  <2>5. base[p] = SubSeq(text, p, n)
    OBVIOUS
  <2> HIDE DEF piece, D, stop, next, base, step, first, n
  <2> QED
    BY <2>2, <2>3, <2>4, <2>5
<1>6. f = [p \in D |-> f[p]]
  OBVIOUS
<1>7. ContentWalk(f, text)
  BY <1>5, <1>6 DEF ContentWalk
<1> QED
  BY <1>7 DEF ContentFrom

LEMMA SizeWalkExists ==
    ASSUME zipSetting \in ZipSettings, NEW text \in Text
    PROVE  SizeWalk(SizeFrom(text), text)
<1> DEFINE n == Len(text)
           D == 1 .. n + 1
           first(p) == First(Found(text, p))
           piece(p) == first(p) - p + (IF moduleBoundary(text, first(p)) THEN Len(new) ELSE Len(old))
           rank == [p \in D |-> n + 1 - p]
           stop == {p \in D : Found(text, p) = {}}
           base == [p \in D |-> n - p + 1]
           next == [p \in D |-> first(p) + Len(old)]
           step == [p \in D |-> [v \in Nat |-> piece(p) + v]]
<1>1. n \in Nat /\ rank \in [D -> 0 .. n]
  <2>1. n \in Nat
    BY LenProperties DEF Text
  <2> HIDE DEF n
  <2> QED
    BY <2>1
<1>2. ASSUME NEW p \in D, p \in stop PROVE base[p] \in Nat
  <2> HIDE DEF n
  <2> QED
    BY <1>1
<1>3. ASSUME NEW p \in D, p \notin stop
      PROVE  next[p] \in D /\ rank[next[p]] < rank[p] /\ \A v \in Nat : step[p][v] \in Nat
  <2>1. first(p) \in p .. n /\ first(p) + Len(old) \in p + 1 .. n + 1
    BY <1>3, FirstFound
  <2>2. next[p] \in D /\ rank[next[p]] < rank[p]
    <3>1. next[p] = first(p) + Len(old)
      OBVIOUS
    <3> HIDE DEF next, first, n
    <3> QED
      BY <1>1, <2>1, <3>1
  <2>3. piece(p) \in Nat
    <3>1. Len(new) \in Nat /\ Len(old) \in Nat
      BY ZipSettingType
    <3> HIDE DEF first, n
    <3> QED
      BY <1>1, <2>1, <3>1
  <2>4. \A v \in Nat : piece(p) + v \in Nat
    <3> HIDE DEF piece
    <3> QED
      BY <2>3
  <2> QED
    BY <2>2, <2>4
<1>4. PICK f \in [D -> Nat] : \A p \in D : f[p] = IF p \in stop THEN base[p] ELSE step[p][f[next[p]]]
  <2>1. \A p \in D : p \in stop => base[p] \in Nat
    BY <1>2
  <2>2. \A p \in D : p \notin stop => next[p] \in D /\ rank[next[p]] < rank[p] /\ \A v \in Nat : step[p][v] \in Nat
    BY <1>3
  <2> HIDE DEF n, D, rank, stop, base, next, step
  <2>3. Ranked(D, n, rank, Nat, stop, base, next, step)
    BY <1>1, <2>1, <2>2 DEF Ranked
  <2> QED
    BY <2>3, DefinedAlong
<1>5. ASSUME NEW p \in D
      PROVE  f[p] = IF Found(text, p) = {} THEN n - p + 1 ELSE piece(p) + f[first(p) + Len(old)]
  <2>1. p \notin stop => next[p] = first(p) + Len(old) /\ next[p] \in D
    BY <1>3
  <2>2. p \notin stop => step[p][f[next[p]]] = piece(p) + f[first(p) + Len(old)]
    <3> HIDE DEF piece, D, stop, next
    <3> QED
      BY <1>4, <2>1
  <2>3. f[p] = IF p \in stop THEN base[p] ELSE step[p][f[next[p]]]
    BY <1>4
  <2>4. p \in stop <=> Found(text, p) = {}
    OBVIOUS
  <2>5. base[p] = n - p + 1
    OBVIOUS
  <2> HIDE DEF piece, D, stop, next, base, step, first, n
  <2> QED
    BY <2>2, <2>3, <2>4, <2>5
<1>6. f = [p \in D |-> f[p]]
  OBVIOUS
<1>7. SizeWalk(f, text)
  BY <1>5, <1>6 DEF SizeWalk
<1> QED
  BY <1>7 DEF SizeFrom

LEMMA MentionWalkExists ==
    ASSUME zipSetting \in ZipSettings, NEW text \in Text
    PROVE  MentionWalk(MentionFrom(text), text)
<1> DEFINE n == Len(text)
           D == 1 .. n + 1
           first(p) == First(Found(text, p))
           mention(p) == moduleBoundary(text, first(p))
           rank == [p \in D |-> n + 1 - p]
           stop == {p \in D : Found(text, p) = {}}
           base == [p \in D |-> FALSE]
           next == [p \in D |-> first(p) + 1]
           step == [p \in D |-> [v \in BOOLEAN |-> mention(p) \/ v]]
<1>1. n \in Nat /\ rank \in [D -> 0 .. n]
  <2>1. n \in Nat
    BY LenProperties DEF Text
  <2> HIDE DEF n
  <2> QED
    BY <2>1
<1>2. \A p \in D : p \in stop => base[p] \in BOOLEAN
  OBVIOUS
<1>3. ASSUME NEW p \in D, p \notin stop
      PROVE  next[p] \in D /\ rank[next[p]] < rank[p] /\ \A v \in BOOLEAN : step[p][v] \in BOOLEAN
  <2>1. first(p) \in p .. n
    BY <1>3, FirstFound
  <2>2. next[p] \in D /\ rank[next[p]] < rank[p]
    <3>1. next[p] = first(p) + 1
      OBVIOUS
    <3> HIDE DEF next, first, n
    <3> QED
      BY <1>1, <2>1, <3>1
  <2>3. \A v \in BOOLEAN : step[p][v] \in BOOLEAN
    <3> HIDE DEF mention, n
    <3> QED
      OBVIOUS
  <2> QED
    BY <2>2, <2>3
<1>4. PICK f \in [D -> BOOLEAN] : \A p \in D : f[p] = IF p \in stop THEN base[p] ELSE step[p][f[next[p]]]
  <2>2. \A p \in D : p \notin stop => next[p] \in D /\ rank[next[p]] < rank[p] /\ \A v \in BOOLEAN : step[p][v] \in BOOLEAN
    BY <1>3
  <2> HIDE DEF n, D, rank, stop, base, next, step
  <2>3. Ranked(D, n, rank, BOOLEAN, stop, base, next, step)
    BY <1>1, <1>2, <2>2 DEF Ranked
  <2> QED
    BY <2>3, DefinedAlong
<1>5. ASSUME NEW p \in D
      PROVE  f[p] = (Found(text, p) # {} /\ (mention(p) \/ f[first(p) + 1]))
  <2>1. p \notin stop => next[p] = first(p) + 1 /\ next[p] \in D
    BY <1>3
  <2>2. p \notin stop => step[p][f[next[p]]] = (mention(p) \/ f[first(p) + 1])
    <3> HIDE DEF mention, D, stop, next
    <3> QED
      BY <1>4, <2>1
  <2>3. f[p] = IF p \in stop THEN base[p] ELSE step[p][f[next[p]]]
    BY <1>4
  <2>4. p \in stop <=> Found(text, p) = {}
    OBVIOUS
  <2>5. base[p] = FALSE
    OBVIOUS
  <2> HIDE DEF mention, D, stop, next, base, step, first, n
  <2> QED
    BY <2>2, <2>3, <2>4, <2>5
<1>6. f = [p \in D |-> f[p]]
  OBVIOUS
<1>7. MentionWalk(f, text)
  BY <1>5, <1>6 DEF MentionWalk
<1> QED
  BY <1>7 DEF MentionFrom

\* Where the walks go on.
LEMMA WalksAt ==
    ASSUME zipSetting \in ZipSettings, NEW text \in Text, NEW pos \in 1 .. Len(text) + 1
    PROVE  LET s == First(Found(text, pos))
           IN  /\ Found(text, pos) = {} => /\ ContentFrom(text)[pos] = SubSeq(text, pos, Len(text))
                                           /\ SizeFrom(text)[pos] = Len(text) - pos + 1
                                           /\ ~ MentionFrom(text)[pos]
               /\ Found(text, pos) # {} =>
                      /\ ContentFrom(text)[pos] =
                             SubSeq(text, pos, s - 1) \o (IF moduleBoundary(text, s) THEN new ELSE old)
                             \o ContentFrom(text)[s + Len(old)]
                      /\ SizeFrom(text)[pos] =
                             s - pos + (IF moduleBoundary(text, s) THEN Len(new) ELSE Len(old))
                             + SizeFrom(text)[s + Len(old)]
                      /\ MentionFrom(text)[pos] <=> moduleBoundary(text, s) \/ MentionFrom(text)[s + 1]
<1> DEFINE c == ContentFrom(text)
           z == SizeFrom(text)
           f == MentionFrom(text)
           s == First(Found(text, pos))
<1>1. ContentWalk(c, text) /\ SizeWalk(z, text) /\ MentionWalk(f, text)
  BY ContentWalkExists, SizeWalkExists, MentionWalkExists
<1> HIDE DEF c, z, f
<1>2. c[pos] = IF Found(text, pos) = {} THEN SubSeq(text, pos, Len(text))
               ELSE SubSeq(text, pos, s - 1) \o (IF moduleBoundary(text, s) THEN new ELSE old) \o c[s + Len(old)]
  BY <1>1, Zenon DEF ContentWalk
<1>3. z[pos] = IF Found(text, pos) = {} THEN Len(text) - pos + 1
               ELSE s - pos + (IF moduleBoundary(text, s) THEN Len(new) ELSE Len(old)) + z[s + Len(old)]
  BY <1>1, Zenon DEF SizeWalk
<1>4. f[pos] = (Found(text, pos) # {} /\ (moduleBoundary(text, s) \/ f[s + 1]))
  BY <1>1, Zenon DEF MentionWalk
<1> HIDE DEF s
<1>5. Found(text, pos) = {} => c[pos] = SubSeq(text, pos, Len(text)) /\ z[pos] = Len(text) - pos + 1 /\ ~ f[pos]
  BY <1>2, <1>3, <1>4
<1>6. Found(text, pos) # {} =>
          /\ c[pos] = SubSeq(text, pos, s - 1) \o (IF moduleBoundary(text, s) THEN new ELSE old) \o c[s + Len(old)]
          /\ z[pos] = s - pos + (IF moduleBoundary(text, s) THEN Len(new) ELSE Len(old)) + z[s + Len(old)]
          /\ f[pos] <=> moduleBoundary(text, s) \/ f[s + 1]
  BY <1>2, <1>3, <1>4
<1> QED
  BY <1>5, <1>6 DEF c, z, f, s

\* What the one walk counts is the length of what the other one writes.
LEMMA SizeIsLength ==
    ASSUME zipSetting \in ZipSettings, NEW text \in Text
    PROVE  /\ \A pos \in 1 .. Len(text) + 1 : ContentFrom(text)[pos] \in Text
           /\ rewriteContent(text) \in Text /\ rewrittenSize(text) = Len(rewriteContent(text))
<1> DEFINE n == Len(text)
           c == ContentFrom(text)
           z == SizeFrom(text)
           Good(p) == c[p] \in Text /\ z[p] = Len(c[p])
           U == {p \in 1 .. n + 1 : ~ Good(p)}
<1>1. n \in Nat /\ n + 1 \in Nat
  <2>1. n \in Nat
    BY LenProperties DEF Text
  <2> HIDE DEF n
  <2> QED
    BY <2>1
<1>2. U = {}
  <2>1. ASSUME NEW p \in U PROVE \E q \in U : p < q
    <3>1. p \in 1 .. n + 1 /\ ~ Good(p)
      OBVIOUS
    <3>2. CASE Found(text, p) = {}
      <4>1. c[p] = SubSeq(text, p, n) /\ z[p] = n - p + 1
        BY <3>1, <3>2, WalksAt
      <4>2. n \in p - 1 .. n
        <5> HIDE DEF n
        <5> QED
          BY <1>1, <3>1
      <4>3. SubSeq(text, p, n) \in Text /\ Len(SubSeq(text, p, n)) = n - p + 1
        BY <3>1, <4>2, Between
      <4> QED
        BY <3>1, <4>1, <4>3
    <3>3. CASE Found(text, p) # {}
      <4> DEFINE s == First(Found(text, p))
                 piece == IF moduleBoundary(text, s) THEN new ELSE old
                 size == IF moduleBoundary(text, s) THEN Len(new) ELSE Len(old)
                 q == s + Len(old)
      <4>1. c[p] = SubSeq(text, p, s - 1) \o piece \o c[q] /\ z[p] = s - p + size + z[q]
        BY <3>1, <3>3, WalksAt
      <4>2. s \in p .. n /\ q \in p + 1 .. n + 1
        BY <3>1, <3>3, FirstFound
      <4>3. s - 1 \in p - 1 .. n /\ q \in 1 .. n + 1 /\ p < q /\ s - 1 - p + 1 = s - p
        <5> HIDE DEF s, q, n
        <5> QED
          BY <1>1, <3>1, <4>2
      <4>4. SubSeq(text, p, s - 1) \in Text /\ Len(SubSeq(text, p, s - 1)) = s - p
        BY <3>1, <4>3, Between
      <4>5. piece \in Text /\ Len(piece) = size /\ size \in Nat
        BY ZipSettingType
      <4>6. ASSUME Good(q) PROVE FALSE
        <5> DEFINE a == SubSeq(text, p, s - 1)
        <5>0. s - p \in Nat
          <6> HIDE DEF s, q, n
          <6> QED
            BY <1>1, <3>1, <4>2
        <5> HIDE DEF a, piece, size, c, z, s, q
        <5>1. a \in Text /\ Len(a) = s - p
          BY <4>4 DEF a
        <5>2. a \o piece \in Text /\ Len(a \o piece) = s - p + size
          BY <5>1, <4>5, ConcatProperties DEF Text
        <5>3. a \o piece \o c[q] \in Text /\ Len(a \o piece \o c[q]) = s - p + size + Len(c[q])
          <6> DEFINE b == a \o piece
          <6>1. b \in Seq(STRING) /\ Len(b) = s - p + size /\ c[q] \in Seq(STRING)
            BY <5>2, <4>6 DEF Text
          <6> HIDE DEF b
          <6>2. b \o c[q] \in Text /\ Len(b \o c[q]) = Len(b) + Len(c[q])
            BY <6>1, ConcatProperties DEF Text
          <6> QED
            BY <6>1, <6>2 DEF b
        <5>4. c[p] = a \o piece \o c[q]
          BY <4>1 DEF a
        <5> QED
          BY <3>1, <4>1, <4>6, <5>3, <5>4
      <4>7. q \in U
        <5> HIDE DEF Good, q
        <5> QED
          BY <4>3, <4>6
      <4> QED
        BY <4>3, <4>7
    <3> QED
      BY <3>2, <3>3
  <2>2. U \in SUBSET (1 .. n + 1)
    OBVIOUS
  <2> HIDE DEF U, n
  <2> QED
    BY <1>1, <2>1, <2>2, NoLast
<1>3. \A p \in 1 .. n + 1 : Good(p)
  <2> HIDE DEF Good
  <2> QED
    BY <1>2
<1>4. 1 \in 1 .. n + 1
  <2> HIDE DEF n
  <2> QED
    BY <1>1
<1>5. Good(1)
  BY <1>3, <1>4
<1> QED
  BY <1>3, <1>5, WalksFrom

\* A mention is an occurrence with both its boundaries.
LEMMA MentionIs ==
    ASSUME zipSetting \in ZipSettings, NEW text \in Text, NEW s \in 1 .. Len(text)
    PROVE  s \in Mentions(text) <=> Occurs(text, s) /\ moduleBoundary(text, s)
<1>1. Len(text) \in Nat /\ Len(old) \in Nat \ {0}
  BY ZipSettingType, LenProperties DEF Text
<1>2. (s = 1 \/ text[s - 1] \notin PathBytes) <=> (s > 1 => text[s - 1] \notin PathBytes)
  BY <1>1
<1>3. (s + Len(old) > Len(text) \/ text[s + Len(old)] \notin PathBytes \ {"/"})
      <=> (s + Len(old) <= Len(text) => text[s + Len(old)] = "/" \/ text[s + Len(old)] \notin PathBytes)
  BY <1>1
<1> QED
  BY <1>2, <1>3 DEF Mentions, moduleBoundary

\* The scan finds a text exactly if it has a mention.
LEMMA ContainsIs ==
    ASSUME zipSetting \in ZipSettings, NEW text \in Text
    PROVE  containsModulePath(text) <=> Mentions(text) # {}
<1> DEFINE n == Len(text)
           f == MentionFrom(text)
           Good(p) == f[p] <=> \E s \in p .. n : s \in Mentions(text)
           U == {p \in 1 .. n + 1 : ~ Good(p)}
<1>1. n \in Nat /\ n + 1 \in Nat
  <2>1. n \in Nat
    BY LenProperties DEF Text
  <2> HIDE DEF n
  <2> QED
    BY <2>1
<1>2. U = {}
  <2>1. ASSUME NEW p \in U PROVE \E q \in U : p < q
    <3>1. p \in 1 .. n + 1 /\ ~ Good(p)
      OBVIOUS
    <3>0. \A t \in p .. n : t \in 1 .. n /\ (t \in Mentions(text) <=> Occurs(text, t) /\ moduleBoundary(text, t))
      <4>1. \A t \in p .. n : t \in 1 .. n
        <5> HIDE DEF n
        <5> QED
          BY <1>1, <3>1
      <4> QED
        BY <4>1, MentionIs
    <3>2. CASE Found(text, p) = {}
      <4>1. ~ f[p]
        BY <3>1, <3>2, WalksAt
      <4>2. \A t \in p .. n : ~ Occurs(text, t)
        BY <3>2 DEF Found
      <4> QED
        BY <3>0, <3>1, <4>1, <4>2
    <3>3. CASE Found(text, p) # {}
      <4> DEFINE s == First(Found(text, p))
      <4>1. f[p] <=> moduleBoundary(text, s) \/ f[s + 1]
        BY <3>1, <3>3, WalksAt
      <4>2. s \in p .. n /\ Occurs(text, s) /\ \A t \in p .. n : Occurs(text, t) => s <= t
        BY <3>1, <3>3, FirstFound
      <4>3. s + 1 \in 1 .. n + 1 /\ p < s + 1 /\ \A t \in p .. n : t >= s => t = s \/ t \in s + 1 .. n
        <5> HIDE DEF s, n
        <5> QED
          BY <1>1, <3>1, <4>2
      <4>4. \A t \in s + 1 .. n : t \in p .. n
        <5> HIDE DEF s, n
        <5> QED
          BY <1>1, <3>1, <4>2
      <4>5. ASSUME Good(s + 1) PROVE FALSE
        <5>1. s \in Mentions(text) <=> moduleBoundary(text, s)
          BY <3>0, <4>2
        <5>2. \A t \in p .. n : t \in Mentions(text) => t = s \/ t \in s + 1 .. n
          <6> HIDE DEF s, n
          <6>1. \A t \in p .. n : t \in Int /\ s \in Int
            BY <1>1, <3>1, <4>2
          <6> QED
            BY <3>0, <4>2, <4>3, <6>1
        <5> HIDE DEF s, f, n
        <5>3. (\E t \in p .. n : t \in Mentions(text)) <=> s \in Mentions(text) \/ \E t \in s + 1 .. n : t \in Mentions(text)
          BY <4>2, <4>4, <5>2
        <5> QED
          BY <3>1, <4>1, <4>5, <5>1, <5>3
      <4>6. s + 1 \in U
        <5> HIDE DEF Good, s
        <5> QED
          BY <4>3, <4>5
      <4> QED
        BY <4>3, <4>6
    <3> QED
      BY <3>2, <3>3
  <2>2. U \in SUBSET (1 .. n + 1)
    OBVIOUS
  <2> HIDE DEF U, n
  <2> QED
    BY <1>1, <2>1, <2>2, NoLast
<1>3. Good(1)
  <2>1. 1 \in 1 .. n + 1
    <3> HIDE DEF n
    <3> QED
      BY <1>1
  <2> HIDE DEF Good
  <2> QED
    BY <1>2, <2>1
<1>4. Mentions(text) \subseteq 1 .. n
  BY DEF Mentions
<1> QED
  BY <1>3, <1>4, WalksFrom

------------------------------------------------------------------------------
(* What FlattenSeq makes of the first pieces.                                  *)

FlattenWalk(f, seqs) == f = [i \in 1 .. Len(seqs) |-> IF i = 1 THEN seqs[i] ELSE f[i - 1] \o seqs[i]]
FlattenFrom(seqs) == CHOOSE f : FlattenWalk(f, seqs)
Flat(seqs, m) == IF m = 0 THEN <<>> ELSE FlattenFrom(seqs)[m]
LEMMA FlattenIs ==
    ASSUME NEW seqs, Len(seqs) # 0
    PROVE  FlattenSeq(seqs) = Flat(seqs, Len(seqs))
BY DEF FlattenSeq, Flat, FlattenFrom, FlattenWalk

LEMMA FlattenWalkExists ==
    ASSUME NEW S, NEW seqs \in Seq(Seq(S))
    PROVE  FlattenWalk(FlattenFrom(seqs), seqs)
<1> DEFINE n == Len(seqs)
           D == 1 .. n
           V == Seq(S)
           rank == [p \in D |-> p]
           stop == {1}
           next == [p \in D |-> p - 1]
           step == [p \in D |-> [v \in V |-> v \o seqs[p]]]
<1>1. n \in Nat /\ \A p \in D : seqs[p] \in V
  BY LenProperties
<1>2. \A p \in D : p \notin stop => next[p] \in D /\ rank[next[p]] < rank[p] /\ \A v \in V : step[p][v] \in V
  <2> SUFFICES ASSUME NEW p \in D, p # 1 PROVE next[p] \in D /\ rank[next[p]] < rank[p] /\ \A v \in V : step[p][v] \in V
    OBVIOUS
  <2>1. p - 1 \in D /\ p - 1 < p
    <3> HIDE DEF n
    <3> QED
      BY <1>1
  <2>2. \A v \in V : v \o seqs[p] \in V
    BY <1>1, ConcatProperties
  <2> HIDE DEF n, D, V
  <2> QED
    BY <2>1, <2>2
<1>3. PICK f \in [D -> V] : \A p \in D : f[p] = IF p \in stop THEN seqs[p] ELSE step[p][f[next[p]]]
  <2>1. rank \in [D -> 0 .. n]
    <3> HIDE DEF n
    <3> QED
      BY <1>1
  <2> HIDE DEF n, D, V, rank, stop, next, step
  <2>2. Ranked(D, n, rank, V, stop, seqs, next, step)
    BY <1>1, <1>2, <2>1 DEF Ranked
  <2> QED
    BY <2>2, DefinedAlong
<1>4. ASSUME NEW p \in D PROVE f[p] = IF p = 1 THEN seqs[p] ELSE f[p - 1] \o seqs[p]
  <2>1. p # 1 => p - 1 \in D /\ f[p - 1] \in V
    <3>1. p # 1 => p - 1 \in D
      <4> HIDE DEF n
      <4> QED
        BY <1>1
    <3> HIDE DEF n, D, V
    <3> QED
      BY <1>3, <3>1
  <2>2. p # 1 => step[p][f[next[p]]] = f[p - 1] \o seqs[p]
    <3> HIDE DEF n, D, V
    <3> QED
      BY <2>1
  <2>3. f[p] = IF p = 1 THEN seqs[p] ELSE step[p][f[next[p]]]
    BY <1>3
  <2> HIDE DEF step, next, n, D, V
  <2> QED
    BY <2>2, <2>3
<1>5. f = [p \in D |-> f[p]]
  OBVIOUS
<1>6. FlattenWalk(f, seqs)
  BY <1>4, <1>5 DEF FlattenWalk
<1> QED
  BY <1>6 DEF FlattenFrom

LEMMA FlatStep ==
    ASSUME NEW S, NEW seqs \in Seq(Seq(S))
    PROVE  /\ Flat(seqs, 0) = <<>>
           /\ \A m \in 0 .. Len(seqs) : Flat(seqs, m) \in Seq(S)
           /\ \A m \in 1 .. Len(seqs) : Flat(seqs, m) = Flat(seqs, m - 1) \o seqs[m]
<1> DEFINE n == Len(seqs)
           f == FlattenFrom(seqs)
           U == {m \in 0 .. n : Flat(seqs, m) \notin Seq(S)}
<1>1. n \in Nat /\ \A p \in 1 .. n : seqs[p] \in Seq(S)
  BY LenProperties
<1>2. Flat(seqs, 0) = <<>> /\ <<>> \in Seq(S)
  BY EmptySeq DEF Flat
<1>3. \A m \in 1 .. n : f[m] = IF m = 1 THEN seqs[m] ELSE f[m - 1] \o seqs[m]
  <2>1. FlattenWalk(f, seqs)
    BY FlattenWalkExists
  <2> HIDE DEF f
  <2> QED
    BY <2>1, Zenon DEF FlattenWalk
<1>4. ASSUME NEW m \in 1 .. n PROVE Flat(seqs, m) = Flat(seqs, m - 1) \o seqs[m]
  <2>1. m # 0 /\ Flat(seqs, m) = f[m]
    <3>1. m # 0
      <4> HIDE DEF n
      <4> QED
        BY <1>1
    <3> QED
      BY <3>1 DEF Flat
  <2>2. CASE m = 1
    <3>1. Flat(seqs, m - 1) = <<>>
      BY <1>2, <2>2
    <3>2. <<>> \o seqs[m] = seqs[m]
      BY <1>1, ConcatEmptySeq
    <3> QED
      BY <1>3, <2>1, <2>2, <3>1, <3>2
  <2>3. CASE m # 1
    <3>1. m - 1 # 0
      <4> HIDE DEF n
      <4> QED
        BY <1>1, <2>3
    <3>2. Flat(seqs, m - 1) = f[m - 1]
      BY <3>1 DEF Flat
    <3> HIDE DEF f
    <3> QED
      BY <1>3, <2>1, <2>3, <3>2
  <2> QED
    BY <2>2, <2>3
<1>5. U = {}
  <2> SUFFICES ASSUME NEW u \in U PROVE FALSE
    OBVIOUS
  <2>1. PICK m \in U : \A k \in U : m <= k
    <3>1. U \in SUBSET Nat
      <4> HIDE DEF n
      <4> QED
        BY <1>1
    <3> HIDE DEF U
    <3> QED
      BY <3>1, LeastNumber
  <2>2. m \in 0 .. n /\ m # 0
    BY <1>2, <2>1
  <2>3. m - 1 \in 0 .. n /\ m \in 1 .. n /\ ~ m <= m - 1
    <3> HIDE DEF n
    <3> QED
      BY <1>1, <2>2
  <2>4. Flat(seqs, m - 1) \in Seq(S)
    <3>1. m - 1 \notin U
      <4> HIDE DEF U
      <4> QED
        BY <2>1, <2>3
    <3> QED
      BY <2>3, <3>1
  <2>5. Flat(seqs, m) \in Seq(S)
    BY <1>1, <1>4, <2>3, <2>4, ConcatProperties
  <2> QED
    BY <2>1, <2>5
<1> QED
  BY <1>2, <1>4, <1>5

LEMMA StringsAssociate == \A x, y, z \in Seq(STRING) : (x \o y) \o z = x \o (y \o z)
BY ONLY ConcatAssociative

\* Pieces that are the text itself, letter by letter.
LEMMA FlatLetters ==
    ASSUME NEW seqs \in Seq(Seq(STRING)), NEW text \in Seq(STRING), Len(text) = Len(seqs),
           NEW a \in 1 .. Len(text) + 1, NEW b \in a - 1 .. Len(text), \A i \in a .. b : seqs[i] = <<text[i]>>
    PROVE  Flat(seqs, b) = Flat(seqs, a - 1) \o SubSeq(text, a, b)
<1> DEFINE n == Len(text)
           Holds(k) == Flat(seqs, k) = Flat(seqs, a - 1) \o SubSeq(text, a, k)
           U == {k \in a - 1 .. b : ~ Holds(k)}
<1>0. a \in 1 .. n + 1 /\ b \in a - 1 .. n
  OBVIOUS
<1>1. n \in Nat /\ \A m \in 0 .. n : Flat(seqs, m) \in Seq(STRING)
  BY LenProperties, FlatStep
<1>2. \A k \in a - 1 .. b : k \in Nat /\ k \in 0 .. n /\ (k # a - 1 => k \in a .. b /\ k - 1 \in a - 1 .. b /\ k \in 1 .. n /\ a \in 1 .. n /\ k \in a .. n)
  <2> HIDE DEF n
  <2> QED
    BY <1>0, <1>1
<1>a. \A p, q, r \in Seq(STRING) : (p \o q) \o r = p \o (q \o r)
  BY ONLY StringsAssociate
<1>3. U = {}
  <2> SUFFICES ASSUME NEW u \in U PROVE FALSE
    OBVIOUS
  <2>1. PICK k \in U : \A j \in U : k <= j
    <3>1. U \in SUBSET Nat
      BY <1>2
    <3> HIDE DEF U
    <3> QED
      BY <3>1, LeastNumber
  <2>2. k \in a - 1 .. b /\ ~ Holds(k)
    BY <2>1
  <2>3. Flat(seqs, a - 1) \in Seq(STRING)
    <3>1. a - 1 \in 0 .. n
      <4> HIDE DEF n
      <4> QED
        BY <1>0, <1>1
    <3> QED
      BY <1>1, <3>1
  <2>4. CASE k = a - 1
    <3>1. SubSeq(text, a, a - 1) = <<>>
      BY SubSeqEmpty
    <3>2. Flat(seqs, a - 1) \o <<>> = Flat(seqs, a - 1)
      BY <2>3, ConcatEmptySeq
    <3> QED
      BY <2>2, <2>4, <3>1, <3>2
  <2>5. CASE k # a - 1
    <3>1. k \in a .. b /\ k - 1 \in a - 1 .. b /\ k \in 1 .. n /\ a \in 1 .. n /\ k \in a .. n /\ k \in Nat
      BY <1>2, <2>2, <2>5
    <3>2. Holds(k - 1)
      <4>1. k - 1 \notin U
        <5>1. ~ k <= k - 1
          BY <3>1
        <5> HIDE DEF U
        <5> QED
          BY <2>1, <5>1
      <4> QED
        BY <3>1, <4>1
    <3>3. Flat(seqs, k) = Flat(seqs, k - 1) \o <<text[k]>>
      BY <3>1, FlatStep
    <3>4. SubSeq(text, a, k) = SubSeq(text, a, k - 1) \o <<text[k]>>
      BY <3>1, SubSeqRecursiveSecond
    <3> DEFINE x == Flat(seqs, a - 1)
               y == SubSeq(text, a, k - 1)
               l == <<text[k]>>
    <3>5. x \in Seq(STRING) /\ y \in Seq(STRING) /\ l \in Seq(STRING)
      <4>1. \A i \in a .. k - 1 : text[i] \in STRING
        <5>1. \A i \in a .. k - 1 : i \in 1 .. n
          <6> HIDE DEF n
          <6> QED
            BY <1>0, <1>1, <3>1
        <5> QED
          BY <5>1, LenProperties
      <4>2. a \in Int /\ k - 1 \in Int
        BY <3>1
      <4>3. text[k] \in STRING
        BY <3>1, LenProperties
      <4> QED
        BY <2>3, <4>1, <4>2, <4>3, SubSeqProperties
    <3> HIDE DEF x, y, l
    <3>6. (x \o y) \o l = x \o (y \o l)
      BY <1>a, <3>5, Zenon
    <3>7. Flat(seqs, k - 1) = x \o y
      BY <3>2 DEF x, y
    <3>8. Flat(seqs, k) = (x \o y) \o l
      BY <3>3, <3>7 DEF l
    <3>9. SubSeq(text, a, k) = y \o l
      BY <3>4 DEF y, l
    <3> QED
      BY <2>2, <3>6, <3>8, <3>9 DEF x
  <2> QED
    BY <2>4, <2>5
<1>4. b \in a - 1 .. b
  <2> HIDE DEF n
  <2> QED
    BY <1>0, <1>1
<1> QED
  BY <1>3, <1>4

\* Pieces with nothing in them.
LEMMA FlatNothing ==
    ASSUME NEW S, NEW seqs \in Seq(Seq(S)),
           NEW a \in 1 .. Len(seqs) + 1, NEW b \in a - 1 .. Len(seqs), \A i \in a .. b : seqs[i] = <<>>
    PROVE  Flat(seqs, b) = Flat(seqs, a - 1)
<1> DEFINE n == Len(seqs)
           U == {k \in a - 1 .. b : Flat(seqs, k) # Flat(seqs, a - 1)}
<1>0. a \in 1 .. n + 1 /\ b \in a - 1 .. n
  OBVIOUS
<1>1. n \in Nat /\ \A m \in 0 .. n : Flat(seqs, m) \in Seq(S)
  BY LenProperties, FlatStep
<1>2. \A k \in a - 1 .. b : k \in Nat /\ (k # a - 1 => k \in a .. b /\ k - 1 \in a - 1 .. b /\ k \in 1 .. n /\ k - 1 \in 0 .. n)
  <2> HIDE DEF n
  <2> QED
    BY <1>0, <1>1
<1>3. U = {}
  <2> SUFFICES ASSUME NEW u \in U PROVE FALSE
    OBVIOUS
  <2>1. PICK k \in U : \A j \in U : k <= j
    <3>1. U \in SUBSET Nat
      BY <1>2
    <3> HIDE DEF U
    <3> QED
      BY <3>1, LeastNumber
  <2>2. k \in a - 1 .. b /\ Flat(seqs, k) # Flat(seqs, a - 1) /\ k # a - 1
    BY <2>1
  <2>3. k \in a .. b /\ k - 1 \in a - 1 .. b /\ k \in 1 .. n /\ k - 1 \in 0 .. n /\ k \in Nat
    BY <1>2, <2>2
  <2>4. Flat(seqs, k - 1) = Flat(seqs, a - 1)
    <3>1. k - 1 \notin U
      <4>1. ~ k <= k - 1
        BY <2>3
      <4> HIDE DEF U
      <4> QED
        BY <2>1, <4>1
    <3> QED
      BY <2>3, <3>1
  <2>5. Flat(seqs, k) = Flat(seqs, k - 1) \o <<>>
    BY <2>3, FlatStep
  <2>6. Flat(seqs, k - 1) \o <<>> = Flat(seqs, k - 1)
    BY <1>1, <2>3, ConcatEmptySeq
  <2> QED
    BY <2>2, <2>4, <2>5, <2>6
<1>4. b \in a - 1 .. b
  <2> HIDE DEF n
  <2> QED
    BY <1>0, <1>1
<1> QED
  BY <1>3, <1>4

\* Empty pieces add nothing.
LEMMA NothingAfter ==
    ASSUME NEW S, NEW seqs \in Seq(Seq(S)),
           NEW a \in 1 .. Len(seqs), NEW b \in a .. Len(seqs), \A i \in a + 1 .. b : seqs[i] = <<>>
    PROVE  Flat(seqs, b) = Flat(seqs, a)
<1>1. Len(seqs) \in Nat
  BY LenProperties
<1> DEFINE d == a + 1
<1>2. d \in 1 .. Len(seqs) + 1 /\ b \in d - 1 .. Len(seqs) /\ d - 1 = a
  BY <1>1
<1>3. \A i \in d .. b : seqs[i] = <<>>
  OBVIOUS
<1> HIDE DEF d
<1>4. Flat(seqs, b) = Flat(seqs, d - 1)
  BY <1>2, <1>3, FlatNothing
<1> QED
  BY <1>2, <1>4

LEMMA FourParts ==
    \A x, y, z, w \in Seq(STRING) : ((x \o y) \o z) \o w = x \o ((y \o z) \o w)
<1>1. \A x, y, z \in Seq(STRING) : (x \o y) \o z = x \o (y \o z)
  BY ONLY StringsAssociate
<1>2. \A x, y \in Seq(STRING) : x \o y \in Seq(STRING)
  BY ONLY ConcatProperties
<1>3. ASSUME NEW x \in Seq(STRING), NEW y \in Seq(STRING), NEW z \in Seq(STRING), NEW w \in Seq(STRING)
      PROVE ((x \o y) \o z) \o w = x \o ((y \o z) \o w)
  <2>1. (x \o y) \o z = x \o (y \o z)
    BY ONLY <1>1, x \in Seq(STRING), y \in Seq(STRING), z \in Seq(STRING), Zenon
  <2>2. y \o z \in Seq(STRING)
    BY ONLY <1>2, y \in Seq(STRING), z \in Seq(STRING), Zenon
  <2>3. (x \o (y \o z)) \o w = x \o ((y \o z) \o w)
    BY ONLY <1>1, <2>2, x \in Seq(STRING), w \in Seq(STRING), Zenon
  <2> QED
    BY ONLY <2>1, <2>3, Zenon
<1> QED
  BY ONLY <1>3, Zenon

------------------------------------------------------------------------------
(* The walk that writes renames the mentions, if the module path is a word of  *)
(* path characters: then a mention cannot begin inside another occurrence.     *)

PathIsWord == \A i \in 1 .. Len(old) : old[i] \in PathBytes
Pieces(text) ==
    [i \in DOMAIN text |->
        IF i \in Mentions(text) THEN new
        ELSE IF \E s \in Mentions(text) : i \in s .. s + Len(old) - 1 THEN <<>> ELSE <<text[i]>>]
Free(text, pos) == \A t \in Mentions(text) : t < pos => t + Len(old) <= pos

\* An occurrence of the module path ends before the next mention begins.
LEMMA NoOverlap ==
    ASSUME zipSetting \in ZipSettings, PathIsWord, NEW text \in Text, NEW s \in 1 .. Len(text), Occurs(text, s),
           NEW t \in Mentions(text), s < t
    PROVE  s + Len(old) <= t
<1> DEFINE n == Len(text)
           k == Len(old)
<1>1. n \in Nat /\ k \in Nat \ {0} /\ s \in 1 .. n
  BY ZipSettingType, LenProperties DEF Text
<1>2. t \in 1 .. n /\ (t = 1 \/ text[t - 1] \notin PathBytes)
  BY DEF Mentions
<1>3. s + k - 1 <= n /\ SubSeq(text, s, s + k - 1) = old
  BY DEF Occurs
<1> HIDE DEF n, k
<1>4. s + k - 1 \in s - 1 .. n /\ s \in 1 .. n + 1
  BY <1>1, <1>3
<1> DEFINE b == s + k - 1
<1>5. \A i \in 1 .. b - s + 1 : SubSeq(text, s, b)[i] = text[s + i - 1]
  <2>1. b \in s - 1 .. Len(text) /\ s \in 1 .. Len(text) + 1
    BY <1>4 DEF n
  <2> HIDE DEF b
  <2> QED
    BY <2>1, Between
<1> SUFFICES ASSUME t < s + k PROVE FALSE
  BY <1>1, <1>2 DEF k
<1>6. t - s \in 1 .. k /\ t - s \in 1 .. b - s + 1 /\ s + (t - s) - 1 = t - 1 /\ t # 1
  BY <1>1, <1>2
<1>7. old[t - s] = text[t - 1]
  BY <1>3, <1>5, <1>6
<1>8. old[t - s] \in PathBytes
  BY <1>6 DEF PathIsWord, k
<1> QED
  BY <1>2, <1>6, <1>7, <1>8

LEMMA PiecesType ==
    ASSUME zipSetting \in ZipSettings, NEW text \in Text
    PROVE  Pieces(text) \in Seq(Text) /\ Len(Pieces(text)) = Len(text)
<1> DEFINE n == Len(text)
           pieces == Pieces(text)
<1>1. n \in Nat /\ DOMAIN text = 1 .. n /\ \A i \in 1 .. n : text[i] \in STRING
  BY LenProperties DEF Text
<1>2. \A i \in 1 .. n : pieces[i] \in Text
  <2>1. new \in Text /\ <<>> \in Text /\ \A i \in 1 .. n : <<text[i]>> \in Text
    BY <1>1, ZipSettingType, EmptySeq DEF Text
  <2> QED
    BY <1>1, <2>1 DEF Pieces
<1>3. pieces \in [1 .. n -> Text]
  BY <1>1, <1>2 DEF Pieces
<1> HIDE DEF pieces, n
<1>4. pieces \in Seq(Text) /\ Len(pieces) = n
  BY <1>1, <1>3
<1> QED
  BY <1>4 DEF pieces, n

\* The reference definition joins the pieces.
LEMMA RenamedIs ==
    ASSUME zipSetting \in ZipSettings, NEW text \in Text
    PROVE  Renamed(text) = Flat(Pieces(text), Len(text))
<1>1. Renamed(text) = FlattenSeq(Pieces(text))
  BY DEF Renamed, Pieces
<1>2. Len(Pieces(text)) = Len(text) /\ Pieces(text) \in Seq(Text)
  BY PiecesType
<1>3. CASE Len(text) = 0
  <2>1. Pieces(text) = <<>>
    BY <1>2, <1>3, EmptySeq
  <2>2. FlattenSeq(Pieces(text)) = Pieces(text)
    BY <1>2, <1>3 DEF FlattenSeq
  <2> QED
    BY <1>1, <1>3, <2>1, <2>2 DEF Flat
<1>4. CASE Len(text) # 0
  BY <1>1, <1>2, <1>4, FlattenIs
<1> QED
  BY <1>3, <1>4

\* Between a place no mention reaches over and the next occurrence, the pieces
\* are the text.
LEMMA LettersBetween ==
    ASSUME zipSetting \in ZipSettings, NEW text \in Text, NEW pos \in 1 .. Len(text) + 1, Free(text, pos),
           NEW i \in pos .. Len(text), \A t \in Mentions(text) : t < pos \/ i < t
    PROVE  Pieces(text)[i] = <<text[i]>>
<1>1. Len(text) \in Nat /\ DOMAIN text = 1 .. Len(text) /\ Len(old) \in Nat \ {0}
  BY ZipSettingType, LenProperties DEF Text
<1>2. i \in DOMAIN text
  BY <1>1
<1>3. \A t \in Mentions(text) : t \in Nat
  BY <1>1 DEF Mentions
<1>4. \A t \in Mentions(text) : i \notin t .. t + Len(old) - 1
  <2> SUFFICES ASSUME NEW t \in Mentions(text), i \in t .. t + Len(old) - 1 PROVE FALSE
    OBVIOUS
  <2>1. t < pos
    BY <1>1, <1>3
  <2>2. t + Len(old) <= pos
    BY <2>1 DEF Free
  <2> QED
    BY <1>1, <1>3, <2>2
<1>5. i \notin Mentions(text)
  BY <1>1, <1>3
<1> QED
  BY <1>2, <1>4, <1>5 DEF Pieces

\* What is written from a place on is what is left of the pieces.
LEMMA WritesPieces ==
    ASSUME zipSetting \in ZipSettings, PathIsWord, NEW text \in Text
    PROVE  \A pos \in 1 .. Len(text) + 1 :
               Free(text, pos) => Flat(Pieces(text), pos - 1) \o ContentFrom(text)[pos] = Flat(Pieces(text), Len(text))
<1> DEFINE n == Len(text)
           k == Len(old)
           c == ContentFrom(text)
           pieces == Pieces(text)
           all == Flat(pieces, n)
           Good(p) == Free(text, p) => Flat(pieces, p - 1) \o c[p] = all
           U == {p \in 1 .. n + 1 : ~ Good(p)}
<1>1. n \in Nat /\ n + 1 \in Nat /\ k \in Nat \ {0}
  <2>1. n \in Nat /\ k \in Nat \ {0}
    BY ZipSettingType, LenProperties DEF Text
  <2> HIDE DEF n, k
  <2> QED
    BY <2>1
<1>2. pieces \in Seq(Seq(STRING)) /\ Len(pieces) = n /\ text \in Seq(STRING)
  BY PiecesType DEF Text
<1>3. \A m \in 0 .. n : Flat(pieces, m) \in Seq(STRING)
  BY <1>2, FlatStep
<1>4. \A x, y, z \in Seq(STRING) : (x \o y) \o z = x \o (y \o z)
  BY ONLY StringsAssociate
<1>5. \A t \in Mentions(text) : t \in 1 .. n /\ Occurs(text, t) /\ moduleBoundary(text, t)
  <2>1. \A t \in Mentions(text) : t \in 1 .. n
    BY DEF Mentions
  <2> QED
    BY <2>1, MentionIs
<1>6. ASSUME NEW p \in 1 .. n + 1, NEW b \in p - 1 .. n, Free(text, p), \A t \in Mentions(text) : t < p \/ b < t
      PROVE  Flat(pieces, b) = Flat(pieces, p - 1) \o SubSeq(text, p, b)
  <2>1. ASSUME NEW i \in p .. b PROVE pieces[i] = <<text[i]>>
    <3>1. i \in p .. n /\ i <= b /\ b \in Int /\ i \in Int
      <4> HIDE DEF n
      <4> QED
        BY <1>1, <1>6
    <3>2. \A t \in Mentions(text) : t < p \/ i < t
      <4>1. \A t \in Mentions(text) : t \in Int
        <5> HIDE DEF n
        <5> QED
          BY <1>1, <1>5
      <4> QED
        BY <1>6, <3>1, <4>1
    <3> QED
      BY <1>6, <3>1, <3>2, LettersBetween
  <2>2. p \in 1 .. Len(text) + 1 /\ b \in p - 1 .. Len(text) /\ Len(text) = Len(pieces)
    BY <1>2
  <2> HIDE DEF pieces, n
  <2> QED
    BY <1>2, <2>1, <2>2, FlatLetters
<1>7. ASSUME NEW p \in U PROVE \E q \in U : p < q
  <2>1. p \in 1 .. n + 1 /\ Free(text, p) /\ Flat(pieces, p - 1) \o c[p] # all
    OBVIOUS
  <2>2. CASE Found(text, p) = {}
    <3>1. c[p] = SubSeq(text, p, n)
      BY <2>1, <2>2, WalksAt
    <3>2. \A t \in Mentions(text) : t < p \/ n < t
      <4>1. \A t \in p .. n : ~ Occurs(text, t)
        BY <2>2 DEF Found
      <4> HIDE DEF n
      <4> QED
        BY <1>1, <1>5, <2>1, <4>1
    <3>3. n \in p - 1 .. n
      <4> HIDE DEF n
      <4> QED
        BY <1>1, <2>1
    <3>4. Flat(pieces, n) = Flat(pieces, p - 1) \o SubSeq(text, p, n)
      BY <1>6, <2>1, <3>2, <3>3
    <3> QED
      BY <2>1, <3>1, <3>4
  <2>3. CASE Found(text, p) # {}
    <3> DEFINE s == First(Found(text, p))
               q == s + k
               piece == IF moduleBoundary(text, s) THEN new ELSE old
    <3>1. c[p] = SubSeq(text, p, s - 1) \o piece \o c[q]
      BY <2>1, <2>3, WalksAt
    <3>2. s \in p .. n /\ Occurs(text, s) /\ q \in p + 1 .. n + 1 /\ \A t \in p .. n : Occurs(text, t) => s <= t
      BY <2>1, <2>3, FirstFound
    <3> HIDE DEF s
    <3>3. /\ s \in 1 .. n /\ s - 1 \in p - 1 .. n /\ s - 1 \in 0 .. n /\ p - 1 \in 0 .. n /\ q \in 1 .. n + 1
          /\ p < q /\ q - 1 \in s .. n /\ q - 1 \in s - 1 .. n /\ q - 1 \in 0 .. n /\ q \in Int /\ s \in Int /\ p \in Int
      <4> HIDE DEF n, k
      <4> QED
        BY <1>1, <2>1, <3>2
    <3>4. \A t \in Mentions(text) : t < p \/ s <= t
      <4> HIDE DEF n
      <4> QED
        BY <1>1, <1>5, <2>1, <3>2
    <3>5. \A t \in Mentions(text) : t \in Int /\ (s < t => q <= t)
      <4>1. \A t \in Mentions(text) : s < t => q <= t
        BY <3>2, <3>3, NoOverlap
      <4>2. \A t \in Mentions(text) : t \in Int
        <5> HIDE DEF n
        <5> QED
          BY <1>1, <1>5
      <4> QED
        BY <4>1, <4>2
    <3>6. Flat(pieces, s - 1) = Flat(pieces, p - 1) \o SubSeq(text, p, s - 1)
      <4>1. \A t \in Mentions(text) : t < p \/ s - 1 < t
        BY <3>3, <3>4, <3>5
      <4> HIDE DEF n, pieces
      <4> QED
        BY <1>6, <2>1, <3>3, <4>1
    <3>7. Free(text, q)
      <4> SUFFICES ASSUME NEW t \in Mentions(text), t < q PROVE t + k <= q
        BY DEF Free
      <4>1. t <= s
        BY <3>3, <3>5
      <4> HIDE DEF k, n
      <4> QED
        BY <1>1, <3>3, <3>5, <4>1
    <3>8. Flat(pieces, q - 1) = Flat(pieces, s - 1) \o piece
      <4>1. CASE moduleBoundary(text, s)
        <5>1. s \in Mentions(text)
          BY <3>2, <3>3, <4>1, MentionIs
        <5>2. Flat(pieces, s) = Flat(pieces, s - 1) \o new
          <6>1. s \in DOMAIN text
            BY <3>3, LenProperties DEF Text
          <6>2. pieces[s] = new
            BY <5>1, <6>1 DEF Pieces
          <6>3. s \in 1 .. Len(pieces)
            BY <1>2, <3>3
          <6> HIDE DEF pieces, n
          <6> QED
            BY <1>2, <6>2, <6>3, FlatStep
        <5>3. Flat(pieces, q - 1) = Flat(pieces, s)
          <6>1. ASSUME NEW i \in s + 1 .. q - 1 PROVE pieces[i] = <<>>
            <7>1. i \in 1 .. n /\ i \in s .. s + k - 1 /\ s < i /\ i < q /\ i \in Int
              <8> HIDE DEF n, k
              <8> QED
                BY <1>1, <3>3
            <7>2. i \notin Mentions(text)
              BY <3>3, <3>5, <7>1
            <7>3. i \in DOMAIN text
              BY <7>1, LenProperties DEF Text
            <7> QED
              BY <5>1, <7>1, <7>2, <7>3 DEF Pieces
          <6> DEFINE b == q - 1
          <6>2. s \in 1 .. Len(pieces) /\ b \in s .. Len(pieces)
            BY <1>2, <3>3
          <6>3. \A i \in s + 1 .. b : pieces[i] = <<>>
            BY <6>1
          <6> HIDE DEF pieces, n, q, b
          <6>4. Flat(pieces, b) = Flat(pieces, s)
            BY <1>2, <6>2, <6>3, NothingAfter
          <6> QED
            BY <6>4, Zenon DEF b
        <5> QED
          BY <4>1, <5>2, <5>3
      <4>2. CASE ~ moduleBoundary(text, s)
        <5>1. s \notin Mentions(text)
          BY <3>2, <3>3, <4>2, MentionIs
        <5>2. \A t \in Mentions(text) : t < s \/ q - 1 < t
          BY <3>3, <3>5, <5>1
        <5>3. Free(text, s)
          <6> SUFFICES ASSUME NEW t \in Mentions(text), t < s PROVE t + k <= s
            BY DEF Free
          <6>1. t + k <= p
            <7>1. t < p
              BY <3>3, <3>4, <3>5
            <7> QED
              BY <2>1, <7>1 DEF Free
          <6>2. p <= s
            <7> HIDE DEF n, k
            <7> QED
              BY <1>1, <3>2, <3>3
          <6> HIDE DEF n, k
          <6> QED
            BY <1>1, <3>3, <3>5, <6>1, <6>2
        <5>4. s \in 1 .. n + 1
          <6> HIDE DEF n, k
          <6> QED
            BY <1>1, <3>3
        <5> DEFINE b == q - 1
        <5>5. Flat(pieces, b) = Flat(pieces, s - 1) \o SubSeq(text, s, b)
          <6>1. b \in s - 1 .. n /\ \A t \in Mentions(text) : t < s \/ b < t
            BY <3>3, <5>2
          <6> HIDE DEF b, n, pieces, k
          <6> QED
            BY <1>6, <5>3, <5>4, <6>1
        <5>6. SubSeq(text, s, b) = old
          <6>1. SubSeq(text, s, s + Len(old) - 1) = old
            BY <3>2 DEF Occurs
          <6>2. b = s + Len(old) - 1
            <7>1. k \in Nat /\ s \in Int /\ k = Len(old)
              BY <1>1, <3>3
            <7> HIDE DEF k
            <7>2. b = s + k - 1
              BY <7>1
            <7> QED
              BY <7>1, <7>2
          <6> QED
            BY <6>1, <6>2, Zenon
        <5> QED
          BY <4>2, <5>5, <5>6
      <4> QED
        BY <4>1, <4>2
    <3>9. ASSUME Good(q) PROVE FALSE
      <4> DEFINE x == Flat(pieces, p - 1)
                 y == SubSeq(text, p, s - 1)
                 r == c[q]
      <4>1. x \in Seq(STRING) /\ y \in Seq(STRING) /\ piece \in Seq(STRING) /\ r \in Seq(STRING)
        <5>1. x \in Seq(STRING)
          BY <1>3, <3>3
        <5>2. y \in Seq(STRING)
          <6> DEFINE b == s - 1
          <6>1. b \in p - 1 .. Len(text) /\ p \in 1 .. Len(text) + 1
            BY <2>1, <3>3
          <6> HIDE DEF b
          <6>2. SubSeq(text, p, b) \in Text
            BY <6>1, Between
          <6> QED
            BY <6>2 DEF b, Text
        <5>3. piece \in Seq(STRING)
          BY ZipSettingType DEF Text
        <5>4. r \in Seq(STRING)
          BY <3>3, SizeIsLength DEF Text
        <5> QED
          BY <5>1, <5>2, <5>3, <5>4
      <4>2. Flat(pieces, q - 1) \o r = all
        BY <3>7, <3>9
      <4>3. Flat(pieces, q - 1) = x \o y \o piece
        BY <3>6, <3>8
      <4>4. c[p] = y \o piece \o r
        BY <3>1
      <4>5. x \o c[p] # all
        BY <2>1
      <4> HIDE DEF x, y, r, piece, all, c, pieces, q
      <4>6. x \o y \o piece \o r = x \o (y \o piece \o r)
        <5>1. \A u, v, z \in Seq(STRING) : ((x \o u) \o v) \o z = x \o ((u \o v) \o z)
          BY ONLY <4>1, FourParts, Zenon
        <5>2. y \in Seq(STRING) /\ piece \in Seq(STRING) /\ r \in Seq(STRING)
          BY ONLY <4>1
        <5> QED
          BY ONLY <5>1, <5>2, Zenon
      <4> QED
        BY ONLY <4>2, <4>3, <4>4, <4>5, <4>6, Zenon
    <3>10. q \in U
      <4> HIDE DEF Good, q
      <4> QED
        BY <3>3, <3>9
    <3> QED
      BY <3>3, <3>10
  <2> QED
    BY <2>2, <2>3
<1>8. U = {}
  <2>1. U \in SUBSET (1 .. n + 1)
    OBVIOUS
  <2> HIDE DEF U, n
  <2> QED
    BY <1>1, <1>7, <2>1, NoLast
<1> QED
  BY <1>8

\* The text that is written is the text with its mentions renamed; a text without
\* one is not changed.
LEMMA RenamesExactly ==
    ASSUME zipSetting \in ZipSettings, NEW text \in Text
    PROVE  /\ PathIsWord => rewriteContent(text) = Renamed(text)
           /\ Mentions(text) = {} => Renamed(text) = text
<1> DEFINE n == Len(text)
           pieces == Pieces(text)
<1>1. n \in Nat /\ pieces \in Seq(Seq(STRING)) /\ Len(pieces) = n /\ text \in Seq(STRING)
  BY PiecesType, LenProperties DEF Text
<1>2. 1 \in 1 .. n + 1 /\ n \in 1 - 1 .. n
  <2> HIDE DEF n
  <2> QED
    BY <1>1
<1>3. Flat(pieces, 0) = <<>> /\ 1 - 1 = 0
  BY DEF Flat
<1>4. \A x \in Seq(STRING) : <<>> \o x = x
  BY ONLY ConcatEmptySeq
<1>5. Renamed(text) = Flat(pieces, n)
  BY RenamedIs
<1>6. ASSUME PathIsWord PROVE rewriteContent(text) = Renamed(text)
  <2>1. Free(text, 1)
    <3>1. \A t \in Mentions(text) : t \in 1 .. n
      BY DEF Mentions
    <3> HIDE DEF n
    <3> QED
      BY <1>1, <3>1 DEF Free
  <2>2. Flat(pieces, 1 - 1) \o ContentFrom(text)[1] = Flat(pieces, n)
    BY <1>2, <1>6, <2>1, WritesPieces
  <2>3. ContentFrom(text)[1] \in Seq(STRING)
    BY <1>2, SizeIsLength DEF Text
  <2>4. rewriteContent(text) = ContentFrom(text)[1]
    BY WalksFrom
  <2> HIDE DEF pieces, n
  <2> QED
    BY <1>3, <1>4, <1>5, <2>2, <2>3, <2>4
<1>7. ASSUME Mentions(text) = {} PROVE Renamed(text) = text
  <2>1. Free(text, 1)
    BY <1>7 DEF Free
  <2>2. \A i \in 1 .. n : pieces[i] = <<text[i]>>
    <3> TAKE i \in 1 .. n
    <3>1. \A t \in Mentions(text) : t < 1 \/ i < t
      BY <1>7
    <3> QED
      BY <1>2, <2>1, <3>1, LettersBetween
  <2> DEFINE one == 1
  <2>3. one \in 1 .. Len(text) + 1 /\ n \in one - 1 .. Len(text) /\ Len(text) = Len(pieces)
    BY <1>1, <1>2
  <2>4. \A i \in one .. n : pieces[i] = <<text[i]>>
    BY <2>2
  <2>5. SubSeq(text, one, n) = text
    BY <1>1, SubSeqProperties
  <2> HIDE DEF pieces, n, one
  <2>6. Flat(pieces, n) = Flat(pieces, one - 1) \o SubSeq(text, one, n)
    BY <1>1, <2>3, <2>4, FlatLetters
  <2> QED
    BY <1>1, <1>3, <1>4, <1>5, <2>5, <2>6 DEF one
<1> QED
  BY <1>6, <1>7
------------------------------------------------------------------------------
(* The build: what is declared and what is given is the rewritten text of the  *)
(* same file, because the set of texts to rewrite is decided before.           *)

Given(text) == IF text \in rewriteSet THEN rewriteContent(text) ELSE text
ZipTypes ==
    /\ zipSetting \in ZipSettings /\ files \in ZipTrees[zipSetting.trees]
    /\ zipStage \in {"detect", "none", "sizes", "open"}
    /\ sizes \in Seq(Nat) /\ contents \in Seq(Text)
ZipStages ==
    /\ rewriteSet = IF zipStage \in {"sizes", "open"} /\ Rewriting THEN scanRewriteBlobs ELSE {}
    /\ zipStage \in {"detect", "none"} => sizes = <<>> /\ cache = {}
    /\ zipStage # "open" => contents = <<>>
    /\ zipStage = "open" => Len(sizes) = Len(Files)
ZipGiven ==
    /\ Len(sizes) <= Len(Files) /\ \A i \in 1 .. Len(sizes) : sizes[i] = Len(Given(Files[i].text))
    /\ Len(contents) <= Len(Files) /\ \A i \in 1 .. Len(contents) : contents[i] = Given(Files[i].text)
ZipCache == cache \subseteq rewriteSet /\ IsFiniteSet(cache) /\ UsedBytes <= zipSetting.budget
ZipInv == ZipTypes /\ ZipStages /\ ZipGiven /\ ZipCache

LEMMA TreeFiles ==
    ASSUME ZipTypes
    PROVE  /\ Files \in Seq(ZipFile) /\ Len(Files) \in Nat
           /\ \A i \in 1 .. Len(Files) : Files[i] \in files /\ Files[i].text \in Text
           /\ \A f \in files : f.text \in Text
           /\ \A f, g \in files : f.path = g.path => f = g
<1>1. IsFiniteSet(files) /\ files \subseteq ZipFile /\ \A f, g \in files : f.path = g.path => f = g
  BY ZipSettingType, ZipTreesAssumption DEF ZipTypes
<1> DEFINE s == Files
<1>2. /\ s \in Seq(files) /\ Len(s) \in Nat
  BY <1>1, SetToSeqType DEF Files
<1> HIDE DEF s
<1>3. \A i \in 1 .. Len(s) : s[i] \in files
  BY <1>2
<1>4. \A f \in files : f.text \in Text
  BY <1>1 DEF ZipFile, Text
<1>5. s \in Seq(ZipFile)
  BY <1>1, <1>2, SeqMonotonic
<1> QED
  BY <1>1, <1>2, <1>3, <1>4, <1>5 DEF s

\* Every text to rewrite is a text.
LEMMA RewriteTexts ==
    ASSUME ZipTypes
    PROVE  scanRewriteBlobs \subseteq Text
BY TreeFiles DEF scanRewriteBlobs

LEMMA GivenType ==
    ASSUME ZipTypes, NEW text \in Text
    PROVE  Given(text) \in Text /\ Len(Given(text)) \in Nat
           /\ Len(Given(text)) = IF text \in rewriteSet THEN rewrittenSize(text) ELSE Len(text)
<1>1. rewriteContent(text) \in Text /\ rewrittenSize(text) = Len(rewriteContent(text))
  BY SizeIsLength DEF ZipTypes
<1>2. \A x \in Text : Len(x) \in Nat
  BY LenProperties DEF Text
<1> QED
  BY <1>1, <1>2 DEF Given

LEMMA SumIsTotal == ASSUME NEW f PROVE SumOfLengths(f) = Total(f, DOMAIN f)
BY DEF SumOfLengths, Total

\* One more text in the cache uses as much more as it is long.
LEMMA OneMoreCached ==
    ASSUME ZipInv, NEW text \in Text, text \notin cache, FitsCache(text), cache' = cache \cup {text},
           zipSetting' = zipSetting
    PROVE  UsedBytes' <= zipSetting.budget
<1>1. zipSetting \in ZipSettings /\ IsFiniteSet(cache) /\ cache \subseteq Text
  BY RewriteTexts DEF ZipInv, ZipTypes, ZipCache, ZipStages
<1>2. \A c \in Text : Len(rewriteContent(c)) \in Nat /\ rewrittenSize(c) = Len(rewriteContent(c))
  BY <1>1, SizeIsLength, LenProperties DEF Text
<1> DEFINE more == cache \cup {text}
           w == [c \in more |-> Len(rewriteContent(c))]
           z == [c \in cache |-> Len(rewriteContent(c))]
           id == [c \in cache |-> c]
<1>3. UsedBytes = Total(z, cache)
  BY SumIsTotal DEF UsedBytes
<1>4. UsedBytes' = Total(w, more)
  <2>1. \A c : rewriteContent(c)' = rewriteContent(c)
    BY DEF rewriteContent, Found, First, Occurs, moduleBoundary, old, new
  <2> DEFINE u == [c \in cache' |-> Len(rewriteContent(c)')]
  <2>2. UsedBytes' = Total(u, cache')
    BY SumIsTotal DEF UsedBytes
  <2>3. u = w /\ cache' = more
    BY <2>1
  <2> HIDE DEF u, w, more
  <2> QED
    BY <2>2, <2>3
<1>5. Counted(w, more) /\ Counted(z, cache)
  <2>1. IsFiniteSet(more)
    BY <1>1, FS_AddElement
  <2> QED
    BY <1>1, <1>2, <2>1 DEF Counted
<1>6. Total(w, more) = w[text] + Total(w, cache)
  <2>1. text \in more /\ more \ {text} = cache
    OBVIOUS
  <2> HIDE DEF w, more
  <2> QED
    BY <1>5, <2>1, TotalRemove
<1>7. Total(w, cache) <= Total(z, cache)
  <2>1. id \in [cache -> cache] /\ \A p, q \in cache : id[p] = id[q] => p = q
    OBVIOUS
  <2>2. \A p \in cache : w[p] = z[id[p]]
    OBVIOUS
  <2> HIDE DEF w, z, id
  <2> QED
    BY <1>1, <1>5, <2>1, <2>2, TotalReindex
<1>8. Total(w, cache) \in Nat /\ Total(z, cache) \in Nat
  <2>1. Counted(w, cache)
    BY <1>1, <1>2 DEF Counted
  <2> HIDE DEF w, z
  <2> QED
    BY <1>5, <2>1, TotalType
<1>9. w[text] = rewrittenSize(text) /\ rewrittenSize(text) \in Nat
  BY <1>2
<1>10. zipSetting.budget \in Nat /\ Total(z, cache) + rewrittenSize(text) <= zipSetting.budget
  BY <1>1, <1>3, ZipSettingType DEF FitsCache
<1> HIDE DEF w, z, more
<1> QED
  BY <1>4, <1>6, <1>7, <1>8, <1>9, <1>10

LEMMA ZipInit_Inv == ASSUME ZipInit PROVE ZipInv
<1>1. ZipTypes
  BY EmptySeq DEF ZipInit, ZipTypes
<1>2. ZipStages
  BY DEF ZipInit, ZipStages
<1>3. ZipGiven
  BY <1>1, TreeFiles, EmptySeq DEF ZipInit, ZipGiven
<1>4. ZipCache
  <2> DEFINE z == [c \in cache |-> Len(rewriteContent(c))]
  <2>1. cache = {} /\ IsFiniteSet(cache)
    BY FS_EmptySet DEF ZipInit
  <2>2. UsedBytes = Total(z, cache)
    BY SumIsTotal DEF UsedBytes
  <2> HIDE DEF z
  <2>3. UsedBytes = 0
    BY <2>1, <2>2, TotalStep
  <2>4. zipSetting.budget \in Nat
    BY <1>1, ZipSettingType DEF ZipTypes
  <2> QED
    BY <2>1, <2>3, <2>4 DEF ZipCache
<1> QED
  BY <1>1, <1>2, <1>3, <1>4 DEF ZipInv

\* What the state of a step keeps of the text of the module, its files and the rewriting.
LEMMA SameTree ==
    ASSUME UNCHANGED <<files, zipSetting>>
    PROVE  /\ Files' = Files /\ scanRewriteBlobs' = scanRewriteBlobs /\ Rewriting' = Rewriting
           /\ rewriteSet' = rewriteSet => \A t : Given(t)' = Given(t)
           /\ cache' = cache => UsedBytes' = UsedBytes
<1>1. \A c : rewriteContent(c)' = rewriteContent(c)
  BY DEF rewriteContent, Found, First, Occurs, moduleBoundary, old, new
<1>2. \A c : containsModulePath(c)' = containsModulePath(c)
  BY DEF containsModulePath, Found, First, Occurs, moduleBoundary, old, new
<1>3. scanRewriteBlobs' = scanRewriteBlobs
  BY <1>2 DEF scanRewriteBlobs
<1>4. Files' = Files /\ Rewriting' = Rewriting
  BY DEF Files, Rewriting, new, old
<1>5. ASSUME rewriteSet' = rewriteSet PROVE \A t : Given(t)' = Given(t)
  BY <1>1, <1>5 DEF Given
<1>6. ASSUME cache' = cache PROVE UsedBytes' = UsedBytes
  <2> DEFINE u == [c \in cache' |-> Len(rewriteContent(c)')]
             z == [c \in cache |-> Len(rewriteContent(c))]
  <2>1. UsedBytes' = Total(u, cache') /\ UsedBytes = Total(z, cache)
    BY SumIsTotal DEF UsedBytes
  <2>2. u = z
    BY <1>1, <1>6
  <2> HIDE DEF u, z
  <2> QED
    BY <1>6, <2>1, <2>2
<1> QED
  BY <1>3, <1>4, <1>5, <1>6

\* Every step of the build keeps the invariant.
LEMMA ZipNext_Inv == ASSUME ZipInv, [ZipNext]_zipVars PROVE ZipInv'
<1> USE DEF ZipInv
<1>1. CASE Detect
  <2>1. ZipTypes'
    BY <1>1 DEF Detect, ZipTypes
  <2>2. sizes = <<>> /\ contents = <<>> /\ cache = {} /\ rewriteSet = {} /\ UNCHANGED <<files, zipSetting, sizes, contents, cache>>
    BY <1>1 DEF Detect, ZipStages
  <2>3. /\ zipStage' \in {"sizes", "none"}
        /\ rewriteSet' = IF zipStage' = "sizes" /\ Rewriting THEN scanRewriteBlobs ELSE {}
    BY <1>1, <2>2 DEF Detect
  <2>4. ZipStages'
    BY <2>2, <2>3, SameTree DEF ZipStages
  <2>5. ZipGiven'
    BY <2>1, <2>2, TreeFiles, SameTree, EmptySeq DEF ZipGiven
  <2>6. ZipCache'
    BY <2>2, SameTree DEF ZipCache
  <2> QED
    BY <2>1, <2>4, <2>5, <2>6
<1>2. CASE Lstat
  <2> DEFINE n == Len(sizes) + 1
             text == Files[n].text
             size == IF text \in rewriteSet THEN rewrittenSize(text) ELSE Len(text)
  <2>1. /\ zipStage = "sizes" /\ Len(sizes) < Len(Files) /\ UNCHANGED <<files, zipStage, rewriteSet, contents, zipSetting>>
        /\ cache' = IF (text \in rewriteSet /\ text \notin cache) /\ FitsCache(text) THEN cache \cup {text} ELSE cache
        /\ sizes' = Append(sizes, size)
    BY <1>2 DEF Lstat
  <2>2. sizes \in Seq(Nat) /\ Len(sizes) \in Nat /\ Len(Files) \in Nat
    BY TreeFiles, LenProperties DEF ZipTypes
  <2>3. n \in 1 .. Len(Files) /\ n \in Nat
    BY <2>1, <2>2
  <2>4. text \in Text
    BY <2>3, TreeFiles
  <2>5. size = Len(Given(text)) /\ size \in Nat
    BY <2>4, GivenType
  <2> HIDE DEF text, size
  <2>6. /\ sizes' \in Seq(Nat) /\ Len(sizes') = n /\ sizes'[n] = size /\ \A i \in 1 .. Len(sizes) : sizes'[i] = sizes[i]
    BY <2>1, <2>2, <2>5, AppendProperties
  <2>7. ZipTypes'
    BY <2>1, <2>6 DEF ZipTypes
  <2>8. ZipStages'
    BY <2>1, SameTree DEF ZipStages
  <2>9. Files' = Files /\ \A t : Given(t)' = Given(t)
    BY <2>1, SameTree
  <2>10. ZipGiven'
    <3>1. \A i \in 1 .. n : sizes'[i] = Len(Given(Files[i].text))
      <4> TAKE i \in 1 .. n
      <4>1. CASE i = n
        BY <4>1, <2>5, <2>6 DEF text
      <4>2. CASE i # n
        <5>1. i \in 1 .. Len(sizes)
          BY <2>2, <4>2
        <5> QED
          BY <2>6, <5>1 DEF ZipGiven
      <4> QED
        BY <4>1, <4>2
    <3>2. n <= Len(Files)
      BY <2>2, <2>3
    <3> HIDE DEF n
    <3>3. Len(sizes') <= Len(Files') /\ \A i \in 1 .. Len(sizes') : sizes'[i] = Len(Given(Files[i].text)')
      BY <2>6, <2>9, <3>1, <3>2
    <3> QED
      BY <2>1, <2>9, <3>3 DEF ZipGiven
  <2>11. ZipCache'
    <3>1. CASE (text \in rewriteSet /\ text \notin cache) /\ FitsCache(text)
      <4>1. cache' = cache \cup {text}
        BY <2>1, <3>1
      <4>2. UsedBytes' <= zipSetting.budget
        BY <2>1, <2>4, <3>1, <4>1, OneMoreCached
      <4>3. IsFiniteSet(cache')
        BY <4>1, FS_AddElement DEF ZipCache
      <4> QED
        BY <2>1, <3>1, <4>1, <4>2, <4>3 DEF ZipCache
    <3>2. CASE ~ ((text \in rewriteSet /\ text \notin cache) /\ FitsCache(text))
      <4>1. cache' = cache
        BY <2>1, <3>2
      <4> QED
        BY <2>1, <4>1, SameTree DEF ZipCache
    <3> QED
      BY <3>1, <3>2
  <2> QED
    BY <2>7, <2>8, <2>10, <2>11
<1>3. CASE Sized
  <2>1. /\ zipStage = "sizes" /\ Len(sizes) = Len(Files) /\ zipStage' = "open"
        /\ UNCHANGED <<files, rewriteSet, sizes, contents, cache, zipSetting>>
    BY <1>3 DEF Sized
  <2>2. ZipTypes'
    BY <2>1 DEF ZipTypes
  <2>3. ZipStages'
    BY <2>1, SameTree DEF ZipStages
  <2>4. ZipGiven'
    BY <2>1, SameTree DEF ZipGiven
  <2>5. ZipCache'
    BY <2>1, SameTree DEF ZipCache
  <2> QED
    BY <2>2, <2>3, <2>4, <2>5
<1>4. CASE Open
  <2> DEFINE n == Len(contents) + 1
             text == Files[n].text
  <2>1. /\ zipStage = "open" /\ Len(contents) < Len(Files) /\ contents' = Append(contents, Given(text))
        /\ UNCHANGED <<files, zipStage, rewriteSet, sizes, cache, zipSetting>>
    BY <1>4 DEF Open, Given
  <2>2. contents \in Seq(Text) /\ Len(contents) \in Nat /\ Len(Files) \in Nat
    BY TreeFiles, LenProperties DEF ZipTypes
  <2>3. n \in 1 .. Len(Files) /\ n \in Nat
    BY <2>1, <2>2
  <2>4. text \in Text
    BY <2>3, TreeFiles
  <2>5. Given(text) \in Text
    BY <2>4, GivenType
  <2> HIDE DEF text
  <2>6. /\ contents' \in Seq(Text) /\ Len(contents') = n /\ contents'[n] = Given(text)
        /\ \A i \in 1 .. Len(contents) : contents'[i] = contents[i]
    BY <2>1, <2>2, <2>5, AppendProperties
  <2>7. ZipTypes'
    BY <2>1, <2>6 DEF ZipTypes
  <2>8. ZipStages'
    BY <2>1, SameTree DEF ZipStages
  <2>9. Files' = Files /\ \A t : Given(t)' = Given(t)
    BY <2>1, SameTree
  <2>10. ZipGiven'
    <3>1. \A i \in 1 .. n : contents'[i] = Given(Files[i].text)
      <4> TAKE i \in 1 .. n
      <4>1. CASE i = n
        BY <4>1, <2>6 DEF text
      <4>2. CASE i # n
        <5>1. i \in 1 .. Len(contents)
          BY <2>2, <4>2
        <5> QED
          BY <2>6, <5>1 DEF ZipGiven
      <4> QED
        BY <4>1, <4>2
    <3>2. n <= Len(Files)
      BY <2>2, <2>3
    <3> HIDE DEF n
    <3>3. Len(contents') <= Len(Files') /\ \A i \in 1 .. Len(contents') : contents'[i] = Given(Files[i].text)'
      BY <2>6, <2>9, <3>1, <3>2
    <3> QED
      BY <2>1, <2>9, <3>3 DEF ZipGiven
  <2>11. ZipCache'
    BY <2>1, SameTree DEF ZipCache
  <2> QED
    BY <2>7, <2>8, <2>10, <2>11
<1>5. CASE UNCHANGED zipVars
  <2>1. UNCHANGED <<files, zipStage, rewriteSet, sizes, contents, cache, zipSetting>>
    BY <1>5 DEF zipVars
  <2>2. ZipTypes' /\ ZipStages' /\ ZipGiven' /\ ZipCache'
    BY <2>1, SameTree DEF ZipTypes, ZipStages, ZipGiven, ZipCache
  <2> QED
    BY <2>2
<1> QED
  BY <1>1, <1>2, <1>3, <1>4, <1>5 DEF ZipNext

\* Every module path that is built is a word of path characters.
ModulePathsAreWords == \A z \in ZipSettings : \A i \in 1 .. Len(z.modulePath) : z.modulePath[i] \in PathBytes

LEMMA ZipInv_Exact == ASSUME ZipInv, PathIsWord PROVE ZipExact
<1> USE DEF ZipInv
<1>1. ASSUME NEW i \in DOMAIN contents
      PROVE  LET f == Files[i]
                 source == \E g \in files : IsFile(g) /\ isGoSource(g) /\ g.text = f.text
             IN  /\ Len(contents[i]) = sizes[i]
                 /\ contents[i] = IF Rewriting /\ source THEN Renamed(f.text) ELSE f.text
                 /\ f \in RootGoMod => contents[i] = RenderGoMod
  <2> DEFINE f == Files[i]
             source == \E g \in files : IsFile(g) /\ isGoSource(g) /\ g.text = f.text
             text == f.text
  <2>1. Len(contents) \in Nat /\ DOMAIN contents = 1 .. Len(contents) /\ Len(sizes) \in Nat /\ Len(Files) \in Nat
    BY TreeFiles, LenProperties DEF ZipTypes
  <2>2. zipStage = "open" /\ Len(sizes) = Len(Files)
    <3>1. Len(contents) # 0
      BY <2>1
    <3>2. contents # <<>>
      BY <3>1, EmptySeq
    <3> QED
      BY <3>2 DEF ZipStages
  <2>3. i \in 1 .. Len(Files) /\ i \in 1 .. Len(sizes) /\ i \in 1 .. Len(contents)
    BY <2>1, <2>2 DEF ZipGiven
  <2>4. f \in files /\ text \in Text
    BY <2>3, TreeFiles
  <2>5. sizes[i] = Len(Given(text)) /\ contents[i] = Given(text)
    BY <2>3 DEF ZipGiven
  <2>6. zipSetting \in ZipSettings
    BY DEF ZipTypes
  <2> HIDE DEF f
  <2>7. Rewriting /\ source => Renamed(text) = rewriteContent(text) /\ Given(text) = rewriteContent(text)
    <3> SUFFICES ASSUME Rewriting, source PROVE Renamed(text) = rewriteContent(text) /\ Given(text) = rewriteContent(text)
      OBVIOUS
    <3>1. Renamed(text) = rewriteContent(text)
      BY <2>4, <2>6, RenamesExactly
    <3>2. CASE containsModulePath(text)
      <4>1. text \in scanRewriteBlobs
        BY <3>2 DEF scanRewriteBlobs
      <4>2. text \in rewriteSet
        BY <2>2, <4>1 DEF ZipStages
      <4> QED
        BY <3>1, <4>2 DEF Given
    <3>3. CASE ~ containsModulePath(text)
      <4>1. Mentions(text) = {}
        BY <2>4, <2>6, <3>3, ContainsIs
      <4>2. Renamed(text) = text
        BY <2>4, <2>6, <4>1, RenamesExactly
      <4> QED
        BY <3>1, <4>2 DEF Given
    <3> QED
      BY <3>2, <3>3
  <2>8. ~ (Rewriting /\ source) => Given(text) = text
    <3> SUFFICES ASSUME ~ (Rewriting /\ source) PROVE text \notin rewriteSet
      BY DEF Given
    <3> QED
      BY DEF ZipStages, scanRewriteBlobs
  <2>9. f \in RootGoMod => Given(text) = RenderGoMod
    <3> SUFFICES ASSUME f \in RootGoMod PROVE Given(text) = RenderGoMod
      OBVIOUS
    <3>1. \A g \in RootGoMod : g = f
      BY <2>4, TreeFiles DEF RootGoMod
    <3>2. (CHOOSE g \in RootGoMod : TRUE) = f
      BY <3>1
    <3>3. IsFile(f) /\ isGoSource(f)
      <4>1. Last(<<"go.mod">>) = "go.mod"
        BY DEF Last
      <4>2. IsFile(f) /\ f.path = <<"go.mod">>
        BY DEF RootGoMod
      <4> QED
        BY ONLY <4>1, <4>2 DEF isGoSource
    <3>4. source
      BY <2>4, <3>3
    <3> HIDE DEF source
    <3>5. RenderGoMod = IF Rewriting THEN rewriteContent(text) ELSE text
      BY <3>2 DEF RenderGoMod
    <3> QED
      BY <2>7, <2>8, <3>4, <3>5
  <2> HIDE DEF source, text
  <2>10. contents[i] = IF Rewriting /\ source THEN Renamed(text) ELSE text
    BY <2>5, <2>7, <2>8
  <2> QED
    BY <2>5, <2>9, <2>10 DEF f, source, text
<1>2. UsedBytes <= zipSetting.budget
  BY DEF ZipCache
<1> QED
  BY <1>1, <1>2 DEF ZipExact

\* Every file of the zip of a module is as long as it was declared, is the
\* stored text with exactly the mentions of the module renamed, and is the
\* go.mod that is served, however little the cache of rewritten texts holds.
THEOREM ZipExactCorrect == ASSUME ModulePathsAreWords PROVE ZipSpec => []ZipExact
<1>1. ZipInit => ZipInv
  BY ZipInit_Inv
<1>2. ZipInv /\ [ZipNext]_zipVars => ZipInv'
  BY ZipNext_Inv
<1>3. ZipInv => ZipExact
  BY ZipInv_Exact DEF ModulePathsAreWords, PathIsWord, ZipInv, ZipTypes, old
<1> QED
  BY <1>1, <1>2, <1>3, PTL DEF ZipSpec
==============================================================================
