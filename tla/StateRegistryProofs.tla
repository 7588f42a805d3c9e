------------------------ MODULE StateRegistryProofs ------------------------
(***************************************************************************)
(* What holds of mod/state for any keys, diagnostics and limits: types,    *)
(* the published snapshot, the inactive list, and the rules of             *)
(* availability and classification.                                        *)
(***************************************************************************)
EXTENDS StateRegistry, FiniteSetTheorems, SequenceTheorems, TLAPS

\* What availability and classification keep of one key.
KeyOK(m) ==
    /\ m.avail \in {"unknown", "available"} <=> m.down = 0
    /\ m.avail = "permanent" <=> m.down = permanentAt
    /\ m.avail = "unknown" <=> m.lastScan = 0
    /\ m.reclass => m.avail = "available"

KeysInv == \A k \in Keys : KeyOK(keyMap[k])

RegistryInv == TypeOK /\ SnapshotCurrent /\ InactiveListed /\ KeysInv

-----------------------------------------------------------------------------
(* One key.                                                                *)

\* What one mutation of a key may do to it.
KeyStep(m, n) ==
    /\ n \in KeyMuts
    /\ KeyOK(n)
    /\ n.lastScan >= m.lastScan
    /\ n.down > m.down => n.lastScan > m.lastScan \/ m.avail = "available"
    /\ m.class \notin {"none", n.class} => m.reclass /\ ~ n.reclass
    /\ n.reclass /\ ~ m.reclass => m.avail = "permanent"

\* The fields availability assigns keep the record's type.
LEMMA AvailabilityType ==
    ASSUME NEW m \in KeyMuts,
           NEW a \in {"unknown", "available", "temporary", "permanent"},
           NEW d \in 0..permanentAt, NEW p \in BOOLEAN, NEW t \in 0..MaxScan,
           NEW r \in BOOLEAN
    PROVE  [m EXCEPT !.avail = a, !.down = d, !.present = p, !.lastScan = t,
                     !.reclass = r] \in KeyMuts
BY DEF KeyMuts

\* A scan moves one key by a legal step (applyAvailable).
LEMMA AvailableStep ==
    ASSUME NEW m \in KeyMuts, KeyOK(m), NEW present \in BOOLEAN, NEW t \in 1..MaxScan,
           ~ staleScan(m, t)
    PROVE  KeyStep(m, applyAvailable(m, present, t))
<1> DEFINE n == applyAvailable(m, present, t)
<1>1. m.reclass \in BOOLEAN /\ m.lastScan \in 0..MaxScan /\ m.down \in 0..permanentAt
  BY DEF KeyMuts
<1>2. /\ n.avail = "available" /\ n.down = 0 /\ n.lastScan = t /\ n.class = m.class
      /\ n.reclass = (IF m.avail = "permanent" THEN TRUE ELSE m.reclass)
  BY DEF KeyMuts, applyAvailable
<1>3. n \in KeyMuts
  <2> DEFINE r == IF m.avail = "permanent" THEN TRUE ELSE m.reclass
  <2>1. r \in BOOLEAN
    BY <1>1, Zenon
  <2>2. t \in 0..MaxScan /\ 0 \in 0..permanentAt
    BY <1>1, ConstantsAssumption
  <2>3. n = [m EXCEPT !.avail = "available", !.down = 0, !.present = present,
                      !.lastScan = t, !.reclass = r]
    BY DEF applyAvailable
  <2> HIDE DEF n, r
  <2> QED
    BY <2>1, <2>2, <2>3, AvailabilityType
<1>4. KeyOK(n)
  BY <1>2, ConstantsAssumption DEF KeyOK
<1>5. n.lastScan >= m.lastScan
  BY <1>1, <1>2 DEF staleScan
<1> QED
  BY <1>1, <1>2, <1>3, <1>4, <1>5, ConstantsAssumption DEF KeyStep

\* A failed scan moves one key by a legal step (applyUnavailable).
LEMMA UnavailableStep ==
    ASSUME NEW m \in KeyMuts, KeyOK(m), NEW t \in 1..MaxScan,
           ~ staleScan(m, t), ~ sameCycleReplay(m, t)
    PROVE  KeyStep(m, applyUnavailable(m, t))
<1> DEFINE n == applyUnavailable(m, t)
           down == IF m.down < permanentAt THEN m.down + 1 ELSE m.down
<1>1. m.lastScan \in 0..MaxScan /\ m.down \in 0..permanentAt
  BY DEF KeyMuts
<1>2. /\ n.avail = (IF down >= permanentAt THEN "permanent" ELSE "temporary")
      /\ n.down = down /\ n.lastScan = t /\ n.class = m.class /\ n.reclass = FALSE
  BY DEF KeyMuts, applyUnavailable
<1>3. n \in KeyMuts
  <2> DEFINE a == IF down >= permanentAt THEN "permanent" ELSE "temporary"
  <2>1. /\ a \in {"unknown", "available", "temporary", "permanent"}
        /\ down \in 0..permanentAt /\ t \in 0..MaxScan
    BY <1>1, ConstantsAssumption
  <2>2. n = [m EXCEPT !.avail = a, !.down = down, !.present = FALSE,
                      !.reclass = FALSE, !.lastScan = t]
    BY DEF applyUnavailable
  <2>3. n = [m EXCEPT !.avail = a, !.down = down, !.present = FALSE,
                      !.lastScan = t, !.reclass = FALSE]
    BY <2>2
  <2> HIDE DEF n, a, down
  <2> QED
    BY <2>1, <2>3, AvailabilityType
<1>4. KeyOK(n)
  BY <1>1, <1>2, ConstantsAssumption DEF KeyOK
<1>5. n.lastScan >= m.lastScan
  BY <1>1, <1>2 DEF staleScan
<1>6. n.lastScan > m.lastScan \/ m.avail = "available"
  BY <1>1, <1>2, ConstantsAssumption DEF staleScan, sameCycleReplay
<1> QED
  BY <1>2, <1>3, <1>4, <1>5, <1>6 DEF KeyStep

\* So does any update (applyAvailability).
LEMMA AvailabilityStep ==
    ASSUME NEW m \in KeyMuts, KeyOK(m), NEW u \in Updates
    PROVE  KeyStep(m, applyAvailability(m, u))
<1> u.available \in BOOLEAN /\ u.present \in BOOLEAN /\ u.scanAt \in 1..MaxScan
  BY DEF Updates
<1>1. CASE staleScan(m, u.scanAt) \/ sameCycleReplay(m, u.scanAt)
  BY <1>1, ConstantsAssumption DEF applyAvailability, KeyStep, KeyMuts
<1>2. CASE ~ (staleScan(m, u.scanAt) \/ sameCycleReplay(m, u.scanAt))
  BY <1>2, AvailableStep, UnavailableStep DEF applyAvailability
<1> QED
  BY <1>1, <1>2

-----------------------------------------------------------------------------
(* All keys.                                                               *)

\* A step of a record that keeps availability, for a class assigned by
\* SetClassification.
LEMMA ClassStep ==
    ASSUME NEW m \in KeyMuts, KeyOK(m), NEW c \in {"git", "brother"},
           NEW b \in Urls \cup {NoUrl},
           m.class \notin {"none", c} => m.reclass
    PROVE  KeyStep(m, [m EXCEPT !.class = c,
                                !.reclass = IF m.class = c THEN @ ELSE FALSE,
                                !.brother = b])
<1> DEFINE r == IF m.class = c THEN m.reclass ELSE FALSE
           n == [m EXCEPT !.class = c, !.reclass = r, !.brother = b]
<1>1. r \in BOOLEAN
  BY Zenon DEF KeyMuts
<1>2. m.lastScan \in 0..MaxScan /\ m.down \in 0..permanentAt
  BY DEF KeyMuts
<1>3. \A x \in BOOLEAN : [m EXCEPT !.class = c, !.reclass = x, !.brother = b] \in KeyMuts
  BY DEF KeyMuts
<1>4. n \in KeyMuts
  BY <1>1, <1>3
<1>5. /\ n.avail = m.avail /\ n.down = m.down /\ n.lastScan = m.lastScan
      /\ n.class = c /\ n.reclass = r
  BY DEF KeyMuts
<1>6. KeyStep(m, n)
  BY <1>2, <1>4, <1>5 DEF KeyStep, KeyOK
<1> QED
  BY <1>6

\* A record that is not touched makes a legal step too.
LEMMA SameStep ==
    ASSUME NEW m \in KeyMuts, KeyOK(m)
    PROVE  KeyStep(m, m)
<1>1. m.lastScan \in 0..MaxScan /\ m.down \in 0..permanentAt
  BY DEF KeyMuts
<1> QED
  BY <1>1 DEF KeyStep

\* What statistics and the remote key write is not availability.
LEMMA DataStep ==
    ASSUME NEW m \in KeyMuts, KeyOK(m)
    PROVE  /\ \A s \in Stats : KeyStep(m, [m EXCEPT !.stats = s])
           /\ \A r \in RemoteKeys : KeyStep(m, [m EXCEPT !.remote = r])
<1>1. m.lastScan \in 0..MaxScan /\ m.down \in 0..permanentAt
  BY DEF KeyMuts
<1>2. ASSUME NEW s \in Stats  PROVE KeyStep(m, [m EXCEPT !.stats = s])
  <2> DEFINE n == [m EXCEPT !.stats = s]
  <2>1. n \in KeyMuts
    BY DEF KeyMuts
  <2>2. /\ n.avail = m.avail /\ n.down = m.down /\ n.lastScan = m.lastScan
        /\ n.class = m.class /\ n.reclass = m.reclass
    BY DEF KeyMuts
  <2> QED
    BY <1>1, <2>1, <2>2 DEF KeyStep, KeyOK
<1>3. ASSUME NEW r \in RemoteKeys  PROVE KeyStep(m, [m EXCEPT !.remote = r])
  <2> DEFINE n == [m EXCEPT !.remote = r]
  <2>1. n \in KeyMuts
    BY DEF KeyMuts
  <2>2. /\ n.avail = m.avail /\ n.down = m.down /\ n.lastScan = m.lastScan
        /\ n.class = m.class /\ n.reclass = m.reclass
    BY DEF KeyMuts
  <2> QED
    BY <1>1, <2>1, <2>2 DEF KeyStep, KeyOK
<1> QED
  BY <1>2, <1>3

\* Every key makes a legal step, whatever the operation.
LEMMA KeysStep ==
    ASSUME keyMap \in [Keys -> KeyMuts], KeysInv, [Next]_vars
    PROVE  /\ keyMap' \in [Keys -> KeyMuts]
           /\ \A k \in Keys : KeyStep(keyMap[k], keyMap'[k])
<1>1. \A k \in Keys : keyMap[k] \in KeyMuts /\ KeyOK(keyMap[k])
  BY DEF KeysInv
<1>2. ASSUME keyMap' = keyMap
      PROVE  \A k \in Keys : KeyStep(keyMap[k], keyMap'[k])
  BY <1>1, <1>2, SameStep
<1>3. ASSUME NEW m \in KeyMuts, NEW n, KeyStep(m, n)  PROVE n \in KeyMuts
  BY <1>3 DEF KeyStep
<1>4. ASSUME NEW K \in SUBSET Keys, NEW batch \in [K -> Updates],
             ApplyAvailabilityBatch(batch)
      PROVE  /\ keyMap' \in [Keys -> KeyMuts]
             /\ \A k \in Keys : KeyStep(keyMap[k], keyMap'[k])
  <2>1. keyMap' = [k \in Keys |-> IF k \in DOMAIN batch
                                  THEN applyAvailability(keyMap[k], batch[k])
                                  ELSE keyMap[k]]
    BY <1>4 DEF ApplyAvailabilityBatch
  <2>2. ASSUME NEW k \in Keys  PROVE KeyStep(keyMap[k], keyMap'[k])
    <3>1. CASE k \in K
      <4>1. batch[k] \in Updates
        BY <3>1
      <4>2. keyMap'[k] = applyAvailability(keyMap[k], batch[k])
        BY <2>1, <3>1
      <4> QED
        BY <1>1, <4>1, <4>2, AvailabilityStep
    <3>2. CASE k \notin K
      BY <1>1, <2>1, <3>2, SameStep
    <3> QED
      BY <3>1, <3>2
  <2> QED
    BY <1>1, <1>3, <2>1, <2>2
<1>5. ASSUME NEW K \in SUBSET Keys, NEW batch \in [K -> Stats],
             SetMirrorStatsBatch(batch)
      PROVE  /\ keyMap' \in [Keys -> KeyMuts]
             /\ \A k \in Keys : KeyStep(keyMap[k], keyMap'[k])
  <2>1. keyMap' = [k \in Keys |-> IF k \in DOMAIN batch
                                  THEN [keyMap[k] EXCEPT !.stats = batch[k]]
                                  ELSE keyMap[k]]
    BY <1>5 DEF SetMirrorStatsBatch
  <2>2. ASSUME NEW k \in Keys  PROVE KeyStep(keyMap[k], keyMap'[k])
    <3>1. CASE k \in K
      <4>1. batch[k] \in Stats
        BY <3>1
      <4>2. keyMap'[k] = [keyMap[k] EXCEPT !.stats = batch[k]]
        BY <2>1, <3>1
      <4> QED
        BY <1>1, <4>1, <4>2, DataStep
    <3>2. CASE k \notin K
      BY <1>1, <2>1, <3>2, SameStep
    <3> QED
      BY <3>1, <3>2
  <2> QED
    BY <1>1, <1>3, <2>1, <2>2
<1>6. ASSUME NEW k \in Keys, NEW n, KeyStep(keyMap[k], n), keyMap' = [keyMap EXCEPT ![k] = n]
      PROVE  /\ keyMap' \in [Keys -> KeyMuts]
             /\ \A j \in Keys : KeyStep(keyMap[j], keyMap'[j])
  <2>1. n \in KeyMuts
    BY <1>1, <1>3, <1>6
  <2>2. ASSUME NEW j \in Keys  PROVE KeyStep(keyMap[j], keyMap'[j])
    BY <1>1, <1>6, SameStep
  <2> QED
    BY <1>6, <2>1, <2>2
<1>7. ASSUME NEW k \in Keys, NEW class \in {"git", "brother"}, NEW url \in Urls \cup {NoUrl},
             SetClassification(k, class, url)
      PROVE  /\ keyMap' \in [Keys -> KeyMuts]
             /\ \A j \in Keys : KeyStep(keyMap[j], keyMap'[j])
  <2> DEFINE m == keyMap[k]
             b == IF class = "brother" THEN url ELSE NoUrl
             n == [m EXCEPT !.class = class,
                            !.reclass = IF m.class = class THEN @ ELSE FALSE,
                            !.brother = b]
  <2>1. b \in Urls \cup {NoUrl} /\ m \in KeyMuts /\ KeyOK(m)
    BY <1>1
  <2>2. m.class \notin {"none", class} => m.reclass
    BY <1>7 DEF SetClassification
  <2>3. KeyStep(m, n)
    <3> HIDE DEF m, b
    <3> QED
      BY <2>1, <2>2, ClassStep
  <2>4. keyMap' = [keyMap EXCEPT ![k] = n]
    BY <1>7 DEF SetClassification
  <2> QED
    BY <1>6, <2>3, <2>4
<1>8. ASSUME NEW k \in Keys, NEW remote \in RemoteKeys, SetRemoteKey(k, remote)
      PROVE  /\ keyMap' \in [Keys -> KeyMuts]
             /\ \A j \in Keys : KeyStep(keyMap[j], keyMap'[j])
  <2>1. keyMap' = [keyMap EXCEPT ![k] = [keyMap[k] EXCEPT !.remote = remote]]
    BY <1>8 DEF SetRemoteKey
  <2>2. KeyStep(keyMap[k], [keyMap[k] EXCEPT !.remote = remote])
    BY <1>1, DataStep
  <2> QED
    BY <1>6, <2>1, <2>2
<1>9. CASE keyMap' = keyMap
  BY <1>2, <1>9
<1>10. Next => \/ \E K \in SUBSET Keys \ {{}} :
                    \/ \E batch \in [K -> Updates] : ApplyAvailabilityBatch(batch)
                    \/ \E batch \in [K -> Stats] : SetMirrorStatsBatch(batch)
               \/ \E k \in Keys, class \in {"git", "brother"}, url \in Urls \cup {NoUrl} :
                    SetClassification(k, class, url)
               \/ \E k \in Keys, remote \in RemoteKeys : SetRemoteKey(k, remote)
               \/ keyMap' = keyMap
  BY DEF Next, ClearKeyDiagnostics, ClearVersionDiagnostics, ClearDiagnostic,
         ClearAllDiagnostics, Deactivate, SetContentChecksum, SetLastRescan,
         RaiseDiagnostic, RaiseKnown, RaiseNew, RaiseEvicting, RaiseDropped
<1>11. CASE Next
  BY <1>4, <1>5, <1>7, <1>8, <1>9, <1>10, <1>11, Zenon
<1> QED
  BY <1>9, <1>11 DEF vars

-----------------------------------------------------------------------------
(* The inactive list.                                                      *)

Listed(q) == {q[i] : i \in DOMAIN q}
Once(q) == \A i, j \in DOMAIN q : q[i] = q[j] => i = j

\* Taking one record off the list takes off that one (unlinkInactiveLocked).
LEMMA UnlinkedList ==
    ASSUME inactive \in Seq(Diags), Once(inactive), NEW d \in Listed(inactive)
    PROVE  /\ Unlinked(d) \in Seq(Diags)
           /\ Listed(Unlinked(d)) = Listed(inactive) \ {d}
           /\ Once(Unlinked(d))
<1> DEFINE x == Index(d)
           s == Unlinked(d)
           step(i) == IF i < x THEN i ELSE i + 1
<1>1. x \in 1..Len(inactive) /\ inactive[x] = d
  BY DEF Index, Listed
<1>2. Len(inactive) \in Nat \ {0} /\ DOMAIN inactive = 1..Len(inactive)
  BY <1>1
<1>3. s = [i \in 1..(Len(inactive) - 1) |-> inactive[step(i)]]
  BY DEF Unlinked
<1> HIDE DEF x, s
<1>4. \A i \in 1..(Len(inactive) - 1) :
         step(i) \in 1..Len(inactive) /\ step(i) # x /\ s[i] = inactive[step(i)]
  BY <1>1, <1>2, <1>3
<1>5. s \in Seq(Diags) /\ DOMAIN s = 1..(Len(inactive) - 1)
  <2>1. \A i \in 1..(Len(inactive) - 1) : inactive[step(i)] \in Diags
    BY <1>2, <1>4
  <2>2. s \in [1..(Len(inactive) - 1) -> Diags]
    BY <1>3, <2>1
  <2>3. Len(inactive) - 1 \in Nat
    BY <1>2
  <2> QED
    BY <1>3, <2>2, <2>3
<1>6. Once(s)
  <2> SUFFICES ASSUME NEW i \in 1..(Len(inactive) - 1), NEW j \in 1..(Len(inactive) - 1),
                      s[i] = s[j]
               PROVE  i = j
    BY <1>5 DEF Once
  <2>1. inactive[step(i)] = inactive[step(j)]
    BY <1>4
  <2>2. step(i) = step(j)
    BY <1>2, <1>4, <2>1 DEF Once
  <2> QED
    BY <1>1, <2>2
<1>7. Listed(s) \subseteq Listed(inactive) \ {d}
  BY <1>1, <1>2, <1>4, <1>5 DEF Listed, Once
<1>8. ASSUME NEW e \in Listed(inactive), e # d  PROVE e \in Listed(s)
  <2>1. PICK i \in 1..Len(inactive) : inactive[i] = e
    BY <1>2 DEF Listed
  <2>2. i # x
    BY <1>1, <1>8, <2>1
  <2>3. CASE i < x
    <3>1. i \in 1..(Len(inactive) - 1) /\ step(i) = i
      BY <1>1, <1>2, <2>3
    <3> QED
      BY <1>4, <1>5, <2>1, <3>1 DEF Listed
  <2>4. CASE i > x
    <3>1. i - 1 \in 1..(Len(inactive) - 1) /\ step(i - 1) = i
      BY <1>1, <1>2, <2>4
    <3> QED
      BY <1>4, <1>5, <2>1, <3>1 DEF Listed
  <2> QED
    BY <1>1, <1>2, <2>2, <2>3, <2>4
<1> QED
  BY <1>5, <1>6, <1>7, <1>8 DEF s

\* Eviction takes off the oldest (evictOldestInactiveLocked).
LEMMA TailList ==
    ASSUME inactive \in Seq(Diags), Once(inactive), inactive # <<>>
    PROVE  /\ Tail(inactive) \in Seq(Diags)
           /\ Head(inactive) \in Listed(inactive)
           /\ Listed(Tail(inactive)) = Listed(inactive) \ {Head(inactive)}
           /\ Once(Tail(inactive))
<1> DEFINE s == Tail(inactive)
<1>1. /\ Len(inactive) \in Nat \ {0} /\ DOMAIN inactive = 1..Len(inactive)
      /\ Head(inactive) = inactive[1]
  BY EmptySeq
<1>2. /\ s \in Seq(Diags) /\ DOMAIN s = 1..(Len(inactive) - 1)
      /\ \A i \in 1..(Len(inactive) - 1) : s[i] = inactive[i + 1]
  <2>1. /\ s \in Seq(Diags) /\ Len(s) = Len(inactive) - 1
        /\ \A i \in 1..Len(s) : s[i] = inactive[i + 1]
    BY HeadTailProperties, Zenon
  <2>2. DOMAIN s = 1..Len(s)
    BY <2>1, LenProperties, Zenon
  <2> HIDE DEF s
  <2> QED
    BY <2>1, <2>2
<1> HIDE DEF s
<1>3. Once(s)
  <2> SUFFICES ASSUME NEW i \in 1..(Len(inactive) - 1), NEW j \in 1..(Len(inactive) - 1),
                      s[i] = s[j]
               PROVE  i = j
    BY <1>2, Zenon DEF Once
  <2>1. /\ i + 1 \in DOMAIN inactive /\ j + 1 \in DOMAIN inactive
        /\ inactive[i + 1] = inactive[j + 1]
    BY <1>1, <1>2
  <2>2. i + 1 = j + 1
    BY <2>1, Zenon DEF Once
  <2> QED
    BY <1>1, <2>2
<1>4. Head(inactive) \in Listed(inactive)
  BY <1>1 DEF Listed
<1>5. Listed(s) \subseteq Listed(inactive) \ {Head(inactive)}
  BY <1>1, <1>2 DEF Listed, Once
<1>6. ASSUME NEW e \in Listed(inactive), e # Head(inactive)  PROVE e \in Listed(s)
  <2>1. PICK i \in 1..Len(inactive) : inactive[i] = e
    BY <1>1 DEF Listed
  <2>2. i - 1 \in 1..(Len(inactive) - 1) /\ s[i - 1] = inactive[i]
    BY <1>1, <1>2, <1>6, <2>1
  <2> QED
    BY <1>2, <2>1, <2>2 DEF Listed
<1> QED
  BY <1>2, <1>3, <1>4, <1>5, <1>6 DEF s

\* Records deactivated together join the end of the list (pushInactiveTailLocked).
LEMMA AppendedList ==
    ASSUME inactive \in Seq(Diags), Once(inactive), NEW D \in SUBSET Diags,
           IsFiniteSet(D), D \cap Listed(inactive) = {}, NEW order \in Orders(D)
    PROVE  /\ inactive \o order \in Seq(Diags)
           /\ Listed(inactive \o order) = Listed(inactive) \cup D
           /\ Once(inactive \o order)
<1> DEFINE s == inactive \o order
           n == Len(inactive)
           c == Cardinality(D)
<1>1. c \in Nat /\ n \in Nat /\ DOMAIN inactive = 1..n
  BY FS_CardinalityType
<1>2. order \in [1..c -> D] /\ Listed(order) = D
  BY DEF Orders, Listed
<1>3. order \in Seq(Diags) /\ Len(order) = c /\ DOMAIN order = 1..c
  BY <1>1, <1>2
<1>4. Once(order)
  <2>1. \A e \in D : \E i \in 1..c : order[i] = e
    BY <1>2, <1>3 DEF Listed
  <2>2. IsFiniteSet(1..c) /\ Cardinality(1..c) = c
    BY <1>1, FS_Interval
  <2>3. order \in Surjection(1..c, D)
    BY <1>2, <2>1, Zenon DEF Surjection
  <2>4. order \in Injection(1..c, D)
    BY <2>2, <2>3, FS_SurjSameCardinalityImpliesInj
  <2>5. \A i, j \in 1..c : order[i] = order[j] => i = j
    BY <1>3, <2>4, Zenon DEF Injection, IsInjective
  <2> QED
    BY <1>3, <2>5, Zenon DEF Once
<1>5. /\ s \in Seq(Diags) /\ DOMAIN s = 1..(n + c)
      /\ \A i \in 1..(n + c) : s[i] = IF i <= n THEN inactive[i] ELSE order[i - n]
  <2>1. inactive \in Seq(Diags) /\ order \in Seq(Diags)
    BY <1>3
  <2>2. /\ s \in Seq(Diags) /\ Len(s) = n + Len(order)
        /\ \A i \in 1..(n + Len(order)) : s[i] = IF i <= n THEN inactive[i] ELSE order[i - n]
    BY <2>1, ConcatProperties, Zenon
  <2>3. DOMAIN s = 1..Len(s)
    BY <2>2, LenProperties, Zenon
  <2> HIDE DEF s, n, c
  <2> QED
    BY <1>3, <2>2, <2>3
<1> HIDE DEF s, n, c
<1>6. ASSUME NEW i \in 1..(n + c), i > n
      PROVE  i - n \in 1..c /\ s[i] = order[i - n] /\ s[i] \in D
  BY <1>1, <1>2, <1>5, <1>6
<1>7. ASSUME NEW i \in 1..(n + c), i <= n
      PROVE  i \in 1..n /\ s[i] = inactive[i] /\ s[i] \in Listed(inactive)
  BY <1>1, <1>5, <1>7 DEF Listed
<1>8. Once(s)
  <2> SUFFICES ASSUME NEW i \in 1..(n + c), NEW j \in 1..(n + c), s[i] = s[j]
               PROVE  i = j
    BY <1>5 DEF Once
  <2>1. CASE i <= n /\ j <= n
    BY <1>1, <1>7, <2>1 DEF Once
  <2>2. CASE i > n /\ j > n
    <3>1. i - n = j - n
      BY <1>3, <1>4, <1>6, <2>2 DEF Once
    <3> QED
      BY <1>1, <3>1
  <2>3. CASE (i <= n /\ j > n) \/ (i > n /\ j <= n)
    BY <1>6, <1>7, <2>3
  <2> QED
    BY <1>1, <2>1, <2>2, <2>3
<1>9. Listed(s) \subseteq Listed(inactive) \cup D
  <2> SUFFICES ASSUME NEW i \in 1..(n + c)  PROVE s[i] \in Listed(inactive) \cup D
    BY <1>5 DEF Listed
  <2> QED
    BY <1>1, <1>6, <1>7
<1>10. Listed(inactive) \subseteq Listed(s)
  <2> SUFFICES ASSUME NEW i \in 1..n  PROVE inactive[i] \in Listed(s)
    BY <1>1 DEF Listed
  <2>1. i \in 1..(n + c) /\ s[i] = inactive[i]
    BY <1>1, <1>7
  <2> QED
    BY <1>5, <2>1 DEF Listed
<1>11. D \subseteq Listed(s)
  <2> SUFFICES ASSUME NEW e \in D  PROVE e \in Listed(s)
    OBVIOUS
  <2>1. PICK i \in 1..c : order[i] = e
    BY <1>2, <1>3 DEF Listed
  <2>2. n + i \in 1..(n + c) /\ s[n + i] = order[i]
    BY <1>1, <1>5
  <2> QED
    BY <1>5, <2>1, <2>2 DEF Listed
<1> QED
  BY <1>5, <1>8, <1>9, <1>10, <1>11 DEF s

-----------------------------------------------------------------------------
(* The registry.                                                           *)

\* The registry's part of the invariant.
RegistryOK ==
    /\ diag \in [Diags -> Effects \cup {NoRecord}]
    /\ active \subseteq Diags
    /\ inactive \in Seq(Diags)
    /\ Cardinality(Records) <= MaxDiagnostics
    /\ InactiveListed

\* InactiveListed, in the terms of the list lemmas.
LEMMA ListedRecords ==
    InactiveListed <=> /\ Listed(inactive) = Records \ active
                       /\ active \subseteq Records
                       /\ Once(inactive)
BY DEF InactiveListed, Listed, Once

\* The same of the next state.
LEMMA ListedRecordsNext ==
    InactiveListed' <=> /\ Listed(inactive') = Records' \ active'
                        /\ active' \subseteq Records'
                        /\ Once(inactive')
BY DEF InactiveListed, Listed, Once

\* Raising an identity keeps the registry.
LEMMA RaiseStep ==
    ASSUME RegistryOK, NEW d \in Diags, NEW e \in Effects, RaiseDiagnostic(d, e)
    PROVE  RegistryOK'
<1>1. e # NoRecord /\ IsFiniteSet(Diags) /\ MaxDiagnostics \in Nat \ {0}
  BY ConstantsAssumption
<1>2. /\ Records \subseteq Diags /\ Records' \subseteq Diags
      /\ IsFiniteSet(Records) /\ Cardinality(Records) \in Nat
  BY <1>1, FS_Subset, FS_CardinalityType DEF Records
<1>3. /\ Listed(inactive) = Records \ active /\ active \subseteq Records /\ Once(inactive)
      /\ inactive \in Seq(Diags) /\ active \subseteq Diags
      /\ diag \in [Diags -> Effects \cup {NoRecord}]
      /\ Cardinality(Records) <= MaxDiagnostics
  BY ListedRecords DEF RegistryOK
<1>4. CASE RaiseKnown(d, e)
  <2>1. /\ diag' = [diag EXCEPT ![d] = e] /\ active' = active \cup {d} /\ d \in Records
        /\ inactive' = IF d \in active THEN inactive ELSE Unlinked(d)
    BY <1>4 DEF RaiseKnown
  <2>2. diag' \in [Diags -> Effects \cup {NoRecord}] /\ Records' = Records
    BY <1>1, <1>3, <2>1 DEF Records
  <2>3. /\ inactive' \in Seq(Diags) /\ Once(inactive')
        /\ Listed(inactive') = Listed(inactive) \ {d}
    <3>1. CASE d \in active
      BY <1>3, <2>1, <3>1
    <3>2. CASE d \notin active
      <4>1. d \in Listed(inactive)
        BY <1>3, <2>1, <3>2
      <4> QED
        BY <1>3, <2>1, <3>2, <4>1, UnlinkedList
    <3> QED
      BY <3>1, <3>2
  <2>4. Listed(inactive') = Records' \ active' /\ active' \subseteq Records'
    BY <1>3, <2>1, <2>2, <2>3
  <2> QED
    BY <1>2, <1>3, <2>1, <2>2, <2>3, <2>4, ListedRecordsNext DEF RegistryOK
<1>5. CASE RaiseNew(d, e)
  <2>1. /\ diag' = [diag EXCEPT ![d] = e] /\ active' = active \cup {d} /\ d \notin Records
        /\ inactive' = inactive /\ Cardinality(Records) < MaxDiagnostics
    BY <1>5 DEF RaiseNew
  <2>2. diag' \in [Diags -> Effects \cup {NoRecord}] /\ Records' = Records \cup {d}
    BY <1>1, <1>3, <2>1 DEF Records
  <2>3. Cardinality(Records') = Cardinality(Records) + 1
    BY <1>2, <2>1, <2>2, FS_AddElement
  <2>4. Cardinality(Records') <= MaxDiagnostics
    BY <1>1, <1>2, <2>1, <2>3
  <2>5. Listed(inactive') = Records' \ active' /\ active' \subseteq Records'
    BY <1>3, <2>1, <2>2
  <2> QED
    BY <1>3, <2>1, <2>2, <2>4, <2>5, ListedRecordsNext DEF RegistryOK
<1>6. CASE RaiseEvicting(d, e)
  <2> DEFINE o == Head(inactive)
  <2>1. /\ diag' = [diag EXCEPT ![o] = NoRecord, ![d] = e]
        /\ active' = active \cup {d} /\ d \notin Records
        /\ inactive' = Tail(inactive) /\ inactive # <<>>
    BY <1>6 DEF RaiseEvicting
  <2>2. /\ inactive' \in Seq(Diags) /\ Once(inactive') /\ o \in Listed(inactive)
        /\ Listed(inactive') = Listed(inactive) \ {o}
    BY <1>3, <2>1, TailList
  <2> HIDE DEF o
  <2>3. o \in Records /\ o \notin active /\ o \in Diags /\ o # d
    BY <1>2, <1>3, <2>1, <2>2
  <2>4. /\ diag' \in [Diags -> Effects \cup {NoRecord}]
        /\ Records' = (Records \ {o}) \cup {d}
    BY <1>1, <1>3, <2>1, <2>3 DEF Records
  <2>5. /\ IsFiniteSet(Records \ {o})
        /\ Cardinality(Records \ {o}) = Cardinality(Records) - 1
    BY <1>2, <2>3, FS_RemoveElement
  <2>6. Cardinality(Records') = Cardinality(Records \ {o}) + 1
    BY <2>1, <2>4, <2>5, FS_AddElement
  <2>7. Cardinality(Records') <= MaxDiagnostics
    BY <1>1, <1>2, <1>3, <2>5, <2>6
  <2>8. Listed(inactive') = Records' \ active' /\ active' \subseteq Records'
    BY <1>3, <2>1, <2>2, <2>3, <2>4
  <2>9. active' \subseteq Diags
    BY <1>3, <2>1
  <2> QED
    BY <2>2, <2>4, <2>7, <2>8, <2>9, ListedRecordsNext DEF RegistryOK
<1>7. CASE RaiseDropped(d)
  <2>1. UNCHANGED <<diag, active, inactive>>
    BY <1>7 DEF RaiseDropped, registry
  <2>2. Records' = Records
    BY <2>1 DEF Records
  <2> QED
    BY <1>3, <2>1, <2>2, ListedRecordsNext DEF RegistryOK
<1> QED
  BY <1>4, <1>5, <1>6, <1>7 DEF RaiseDiagnostic

\* Clearing keeps it, whatever is cleared (clearDiagnosticsLocked).
LEMMA DeactivateStep ==
    ASSUME RegistryOK, NEW D \in SUBSET Diags, Deactivate(D)
    PROVE  RegistryOK'
<1> DEFINE A == D \cap active
<1>1. /\ Listed(inactive) = Records \ active /\ active \subseteq Records /\ Once(inactive)
      /\ inactive \in Seq(Diags) /\ active \subseteq Diags
      /\ diag \in [Diags -> Effects \cup {NoRecord}]
      /\ Cardinality(Records) <= MaxDiagnostics
  BY ListedRecords DEF RegistryOK
<1>2. PICK order \in Orders(A) : inactive' = inactive \o order
  BY DEF Deactivate
<1>3. diag' = diag /\ active' = active \ D /\ Records' = Records
  BY DEF Deactivate, Records
<1>4. A \in SUBSET Diags /\ IsFiniteSet(A) /\ A \cap Listed(inactive) = {}
  BY <1>1, FS_Subset, ConstantsAssumption
<1>5. /\ inactive' \in Seq(Diags) /\ Once(inactive')
      /\ Listed(inactive') = Listed(inactive) \cup A
  BY <1>1, <1>2, <1>4, AppendedList
<1>6. Listed(inactive') = Records' \ active' /\ active' \subseteq Records'
  BY <1>1, <1>3, <1>5
<1> QED
  BY <1>1, <1>3, <1>5, <1>6, ListedRecordsNext DEF RegistryOK

-----------------------------------------------------------------------------
(* The snapshot.                                                           *)

\* What buildSnapshotLocked makes of the registry depends on nothing else.
LEMMA RegistryViews ==
    ASSUME UNCHANGED registry
    PROVE  /\ MaxStatus(Impacts(active))' = MaxStatus(Impacts(active))
           /\ {diag[d].reason : d \in active}' = {diag[d].reason : d \in active}
           /\ [d \in active |-> diag[d]]' = [d \in active |-> diag[d]]
           /\ \A k \in Keys : statusForKey(k)' = statusForKey(k)
<1>1. diag' = diag /\ active' = active
  BY DEF registry
<1>2. \A k \in Keys : statusForKey(k)' = statusForKey(k)
  BY <1>1 DEF statusForKey, MaxStatus, Impacts
<1>3. MaxStatus(Impacts(active))' = MaxStatus(Impacts(active))
  BY <1>1 DEF MaxStatus, Impacts
<1> QED
  BY <1>1, <1>2, <1>3

\* Replacing the key views, the content and the rescan time of a current
\* snapshot gives the current one when the rest has not changed.
LEMMA ReplacedParts ==
    ASSUME SnapshotCurrent, UNCHANGED <<registry, dropped>>,
           snap' = [snap EXCEPT !.content = content', !.lastRescan = lastRescan',
                                !.keys = [k \in Keys |-> [view |-> keyView(keyMap'[k]),
                                                          status |-> snap.keys[k].status]]]
    PROVE  SnapshotCurrent'
<1>1. snap.keys = [k \in Keys |-> [view |-> keyView(keyMap[k]), status |-> statusForKey(k)]]
  BY DEF SnapshotCurrent, buildSnapshot
<1>2. \A k \in Keys : snap.keys[k].status = statusForKey(k)'
  BY <1>1, RegistryViews
<1>3. [k \in Keys |-> [view |-> keyView(keyMap'[k]), status |-> snap.keys[k].status]]
        = [k \in Keys |-> [view |-> keyView(keyMap[k]), status |-> statusForKey(k)]]'
  BY <1>2 DEF keyView
<1>4. snap' = [content |-> content',
               lastRescan |-> lastRescan',
               status |-> snap.status,
               reasons |-> snap.reasons,
               dropped |-> snap.dropped,
               keys |-> [k \in Keys |-> [view |-> keyView(keyMap[k]), status |-> statusForKey(k)]]',
               diags |-> snap.diags]
  BY <1>3 DEF SnapshotCurrent, buildSnapshot
<1>5. /\ snap.status = MaxStatus(Impacts(active))
      /\ snap.reasons = {diag[d].reason : d \in active}
      /\ snap.dropped = dropped
      /\ snap.diags = [d \in active |-> diag[d]]
  BY DEF SnapshotCurrent, buildSnapshot
<1>6. /\ snap.status = MaxStatus(Impacts(active))'
      /\ snap.reasons = {diag[d].reason : d \in active}'
      /\ snap.dropped = dropped'
      /\ snap.diags = [d \in active |-> diag[d]]'
  BY <1>5, RegistryViews
<1> QED
  BY <1>4, <1>6 DEF SnapshotCurrent, buildSnapshot

\* Each mutation publishes a current snapshot, or needs none.
LEMMA SnapshotStep ==
    ASSUME SnapshotCurrent, [Next]_vars
    PROVE  SnapshotCurrent'
<1>1. ASSUME UNCHANGED vars  PROVE SnapshotCurrent'
  BY <1>1 DEF SnapshotCurrent, buildSnapshot, vars, keyView, statusForKey, MaxStatus, Impacts
<1>2. ASSUME UNCHANGED <<registry, dropped, content, lastRescan>>,
             IF keyMap' = keyMap THEN UNCHANGED snap ELSE publishKeyViewsChanged
      PROVE  SnapshotCurrent'
  <2>1. CASE keyMap' = keyMap
    BY <1>1, <1>2, <2>1 DEF vars, registry
  <2>2. CASE keyMap' # keyMap
    BY <1>2, <2>2, ReplacedParts DEF publishKeyViewsChanged
  <2> QED
    BY <2>1, <2>2
<1>3. ASSUME UNCHANGED <<keyMap, registry, dropped>>, publishMetaChanged
      PROVE  SnapshotCurrent'
  <2>1. snap.keys = [k \in Keys |-> [view |-> keyView(keyMap'[k]),
                                     status |-> snap.keys[k].status]]
    BY <1>3 DEF SnapshotCurrent, buildSnapshot
  <2>2. snap' = [snap EXCEPT !.content = content', !.lastRescan = lastRescan',
                             !.keys = snap.keys]
    BY <1>3 DEF publishMetaChanged, SnapshotCurrent, buildSnapshot
  <2> QED
    BY <1>3, <2>1, <2>2, ReplacedParts
<1>4. ASSUME UNCHANGED <<keyMap, registry, content, lastRescan>>, publishHealthChanged
      PROVE  SnapshotCurrent'
  <2>1. snap' = [content |-> content,
                 lastRescan |-> lastRescan,
                 status |-> MaxStatus(Impacts(active)),
                 reasons |-> {diag[d].reason : d \in active},
                 dropped |-> dropped',
                 keys |-> [k \in Keys |-> [view |-> keyView(keyMap[k]), status |-> statusForKey(k)]],
                 diags |-> [d \in active |-> diag[d]]]
    BY <1>4 DEF publishHealthChanged, SnapshotCurrent, buildSnapshot
  <2>2. [k \in Keys |-> [view |-> keyView(keyMap[k]), status |-> statusForKey(k)]]'
          = [k \in Keys |-> [view |-> keyView(keyMap[k]), status |-> statusForKey(k)]]
    BY <1>4, RegistryViews DEF keyView
  <2> QED
    BY <1>4, <2>1, <2>2, RegistryViews DEF SnapshotCurrent, buildSnapshot
<1>5. ASSUME publishChanged  PROVE SnapshotCurrent'
  BY <1>5 DEF publishChanged, SnapshotCurrent
<1>6. CASE Next
  <2>1. ASSUME NEW K \in SUBSET Keys, NEW batch \in [K -> Updates],
               ApplyAvailabilityBatch(batch)
        PROVE  SnapshotCurrent'
    BY <1>2, <2>1 DEF ApplyAvailabilityBatch
  <2>2. ASSUME NEW K \in SUBSET Keys, NEW batch \in [K -> Stats],
               SetMirrorStatsBatch(batch)
        PROVE  SnapshotCurrent'
    BY <1>2, <2>2 DEF SetMirrorStatsBatch
  <2>3. ASSUME NEW k \in Keys, NEW class, NEW url, SetClassification(k, class, url)
        PROVE  SnapshotCurrent'
    BY <1>2, <2>3 DEF SetClassification
  <2>4. ASSUME NEW k \in Keys, NEW remote \in RemoteKeys, SetRemoteKey(k, remote)
        PROVE  SnapshotCurrent'
    BY <2>4, ReplacedParts DEF SetRemoteKey, publishKeyViewsChanged
  <2>5. ASSUME NEW c \in Contents, SetContentChecksum(c)  PROVE SnapshotCurrent'
    BY <1>3, <2>5 DEF SetContentChecksum
  <2>6. ASSUME NEW t \in 1..MaxScan, SetLastRescan(t)  PROVE SnapshotCurrent'
    BY <1>3, <2>6 DEF SetLastRescan
  <2>7. ASSUME NEW d \in Diags, NEW e \in Effects, RaiseDiagnostic(d, e)
        PROVE  SnapshotCurrent'
    <3>1. CASE RaiseDropped(d)
      BY <1>4, <3>1 DEF RaiseDropped
    <3>2. CASE RaiseKnown(d, e) \/ RaiseNew(d, e) \/ RaiseEvicting(d, e)
      BY <1>5, <3>2 DEF RaiseKnown, RaiseNew, RaiseEvicting
    <3> QED
      BY <2>7, <3>1, <3>2 DEF RaiseDiagnostic
  <2>8. ASSUME NEW D, Deactivate(D)  PROVE SnapshotCurrent'
    BY <1>5, <2>8 DEF Deactivate
  <2> QED
    BY <1>6, <2>1, <2>2, <2>3, <2>4, <2>5, <2>6, <2>7, <2>8
    DEF Next, ClearDiagnostic, ClearKeyDiagnostics, ClearVersionDiagnostics,
        ClearAllDiagnostics
<1> QED
  BY <1>1, <1>6

-----------------------------------------------------------------------------
(* The theorems.                                                           *)

\* The counters and checksums keep their ranges.
LEMMA CountersStep ==
    ASSUME dropped \in 0..MaxDropped, content \in Contents \cup {NoContent},
           lastRescan \in 0..MaxScan, [Next]_vars
    PROVE  /\ dropped' \in 0..MaxDropped
           /\ content' \in Contents \cup {NoContent}
           /\ lastRescan' \in 0..MaxScan
<1>1. CASE UNCHANGED vars
  BY <1>1 DEF vars
<1>2. CASE Next
  <2>1. ASSUME NEW d, RaiseDropped(d)
        PROVE  dropped' \in 0..MaxDropped /\ UNCHANGED <<content, lastRescan>>
    BY <2>1, ConstantsAssumption DEF RaiseDropped
  <2>2. \/ UNCHANGED <<dropped, content, lastRescan>>
        \/ \E c \in Contents : SetContentChecksum(c)
        \/ \E t \in 1..MaxScan : SetLastRescan(t)
        \/ \E d \in Diags : RaiseDropped(d)
    BY <1>2 DEF Next, ApplyAvailabilityBatch, SetMirrorStatsBatch, SetClassification,
                SetRemoteKey, ClearKeyDiagnostics, ClearVersionDiagnostics,
                ClearDiagnostic, ClearAllDiagnostics, Deactivate, RaiseDiagnostic,
                RaiseKnown, RaiseNew, RaiseEvicting
  <2> QED
    BY <2>1, <2>2 DEF SetContentChecksum, SetLastRescan
<1> QED
  BY <1>1, <1>2

\* The registry's part is kept by every step.
LEMMA RegistryStep ==
    ASSUME RegistryOK, [Next]_vars
    PROVE  RegistryOK'
<1>1. ASSUME UNCHANGED registry  PROVE RegistryOK'
  BY <1>1 DEF RegistryOK, InactiveListed, Records, registry
<1>2. ASSUME NEW k, NEW v
      PROVE  /\ {d \in Diags : KeyOf[d] = k} \in SUBSET Diags
             /\ {d \in Diags : KeyOf[d] = k /\ VersionOf[d] = v} \in SUBSET Diags
  OBVIOUS
<1>3. CASE Next
  <2>1. \/ UNCHANGED registry
        \/ \E d \in Diags, e \in Effects : RaiseDiagnostic(d, e)
        \/ \E D \in SUBSET Diags : Deactivate(D)
    BY <1>2, <1>3 DEF Next, ApplyAvailabilityBatch, SetMirrorStatsBatch,
                SetClassification, SetRemoteKey, SetContentChecksum, SetLastRescan,
                ClearKeyDiagnostics, ClearVersionDiagnostics, ClearDiagnostic,
                ClearAllDiagnostics
  <2> QED
    BY <1>1, <2>1, RaiseStep, DeactivateStep
<1> QED
  BY <1>1, <1>3 DEF vars, registry

\* TypeOK and InactiveListed, taken apart.
LEMMA InvParts ==
    RegistryInv <=> /\ keyMap \in [Keys -> KeyMuts]
                    /\ RegistryOK
                    /\ dropped \in 0..MaxDropped
                    /\ content \in Contents \cup {NoContent}
                    /\ lastRescan \in 0..MaxScan
                    /\ SnapshotCurrent
                    /\ KeysInv
BY DEF RegistryInv, TypeOK, RegistryOK

\* The same of the next state.
LEMMA InvPartsNext ==
    RegistryInv' <=> /\ keyMap' \in [Keys -> KeyMuts]
                     /\ RegistryOK'
                     /\ dropped' \in 0..MaxDropped
                     /\ content' \in Contents \cup {NoContent}
                     /\ lastRescan' \in 0..MaxScan
                     /\ SnapshotCurrent'
                     /\ KeysInv'
BY DEF RegistryInv, TypeOK, RegistryOK

\* A new registry is empty and its snapshot says so (New).
LEMMA InitInv == Init => RegistryInv
<1> SUFFICES ASSUME Init  PROVE RegistryInv
  OBVIOUS
<1>1. newKeyMut \in KeyMuts /\ KeyOK(newKeyMut)
  BY ConstantsAssumption DEF newKeyMut, KeyMuts, KeyOK
<1>2. keyMap \in [Keys -> KeyMuts] /\ KeysInv
  BY <1>1 DEF Init, KeysInv
<1>3. Records = {}
  BY DEF Init, Records
<1>4. RegistryOK
  <2>1. Cardinality(Records) <= MaxDiagnostics
    BY <1>3, FS_EmptySet, ConstantsAssumption
  <2>2. /\ inactive = <<>> /\ active = {} /\ inactive \in Seq(Diags) /\ DOMAIN inactive = {}
        /\ diag \in [Diags -> Effects \cup {NoRecord}]
    BY DEF Init
  <2> QED
    BY <1>3, <2>1, <2>2 DEF RegistryOK, InactiveListed
<1>5. /\ dropped \in 0..MaxDropped /\ content \in Contents \cup {NoContent}
      /\ lastRescan \in 0..MaxScan
  BY ConstantsAssumption DEF Init
<1>6. SnapshotCurrent
  BY DEF Init, SnapshotCurrent
<1> QED
  BY <1>2, <1>4, <1>5, <1>6, InvParts

\* The invariant is inductive.
LEMMA NextInv == RegistryInv /\ [Next]_vars => RegistryInv'
<1> SUFFICES ASSUME RegistryInv, [Next]_vars  PROVE RegistryInv'
  OBVIOUS
<1>1. keyMap' \in [Keys -> KeyMuts] /\ KeysInv'
  BY InvParts, KeysStep DEF KeysInv, KeyStep
<1> QED
  BY <1>1, InvParts, InvPartsNext, RegistryStep, CountersStep, SnapshotStep

\* RegistryInv holds in every reachable state.
THEOREM Invariance == Spec => []RegistryInv
BY InitInv, NextInv, PTL DEF Spec

\* TypeOK holds in every reachable state: every record of a key has the type
\* of keyMutObj, and the registry never exceeds maxDiagnostics.
THEOREM TypeCorrect == Spec => []TypeOK
<1>1. RegistryInv => TypeOK
  BY DEF RegistryInv
<1> QED
  BY <1>1, Invariance, PTL

\* SnapshotCurrent: readers see what a full rebuild would show.
THEOREM SnapshotCorrect == Spec => []SnapshotCurrent
<1>1. RegistryInv => SnapshotCurrent
  BY DEF RegistryInv
<1> QED
  BY <1>1, Invariance, PTL

\* InactiveListed: the list is the inactive records, each once.
THEOREM InactiveCorrect == Spec => []InactiveListed
<1>1. RegistryInv => InactiveListed
  BY DEF RegistryInv
<1> QED
  BY <1>1, Invariance, PTL

\* DownCounted: availability and the count of outages agree.
THEOREM DownCorrect == Spec => []DownCounted
<1>1. RegistryInv => DownCounted
  BY DEF RegistryInv, KeysInv, KeyOK, DownCounted
<1> QED
  BY <1>1, Invariance, PTL

\* ScanCountedOnce: an outage is counted once per scan, and scans go forward.
THEOREM ScanCorrect == Spec => ScanCountedOnce
<1>1. RegistryInv /\ [Next]_vars =>
        [\A k \in Keys :
           /\ keyMap'[k].lastScan >= keyMap[k].lastScan
           /\ keyMap'[k].down > keyMap[k].down =>
                 keyMap'[k].lastScan > keyMap[k].lastScan
                 \/ keyMap[k].avail = "available"]_vars
  BY InvParts, KeysStep DEF KeyStep
<1> QED
  BY <1>1, Invariance, PTL DEF Spec, ScanCountedOnce

\* ReclassEarned: a class changes only after a recovery from a permanent
\* outage, once for each.
THEOREM ReclassCorrect == Spec => ReclassEarned
<1>1. RegistryInv /\ [Next]_vars =>
        [\A k \in Keys :
           /\ keyMap[k].class \notin {"none", keyMap'[k].class} =>
                 keyMap[k].reclass /\ keyMap[k].avail = "available" /\ ~ keyMap'[k].reclass
           /\ keyMap'[k].reclass /\ ~ keyMap[k].reclass =>
                 keyMap[k].avail = "permanent"]_vars
  BY InvParts, KeysStep DEF KeyStep, KeysInv, KeyOK
<1> QED
  BY <1>1, Invariance, PTL DEF Spec, ReclassEarned

\* ActiveKept: a record is forgotten only when it is inactive, the registry is
\* full and another takes its place.
THEOREM ActiveCorrect == Spec => ActiveKept
<1> DEFINE Kept == /\ \A d \in active : diag'[d] # NoRecord
                   /\ \A d \in Records : diag'[d] = NoRecord =>
                         Cardinality(Records) = MaxDiagnostics /\ active \subseteq active'
<1>1. ASSUME RegistryInv, [Next]_vars  PROVE [Kept]_vars
  <2>1. /\ Listed(inactive) = Records \ active /\ active \subseteq Records
        /\ Once(inactive) /\ inactive \in Seq(Diags)
        /\ diag \in [Diags -> Effects \cup {NoRecord}]
        /\ Cardinality(Records) <= MaxDiagnostics
    BY <1>1, InvParts, ListedRecords DEF RegistryOK
  <2>2. /\ \A e \in Effects : e # NoRecord
        /\ Records \subseteq Diags /\ \A d \in Records : diag[d] # NoRecord
        /\ MaxDiagnostics \in Nat /\ Cardinality(Records) \in Nat
    BY ConstantsAssumption, FS_Subset, FS_CardinalityType DEF Records
  <2>3. ASSUME diag' = diag  PROVE Kept
    BY <2>1, <2>2, <2>3
  <2>4. ASSUME NEW d \in Diags, NEW e \in Effects, RaiseDiagnostic(d, e)  PROVE Kept
    <3>1. CASE RaiseKnown(d, e) \/ RaiseNew(d, e)
      <4>1. diag' = [diag EXCEPT ![d] = e]
        BY <3>1 DEF RaiseKnown, RaiseNew
      <4>2. \A x \in Records : diag'[x] # NoRecord
        BY <2>1, <2>2, <4>1
      <4> QED
        BY <2>1, <4>2
    <3>2. CASE RaiseEvicting(d, e)
      <4> DEFINE o == Head(inactive)
      <4>1. /\ diag' = [diag EXCEPT ![o] = NoRecord, ![d] = e]
            /\ active \subseteq active' /\ inactive # <<>>
            /\ Cardinality(Records) >= MaxDiagnostics
        BY <3>2 DEF RaiseEvicting
      <4>2. o \notin active
        BY <2>1, <4>1, TailList
      <4> HIDE DEF o
      <4>3. \A x \in active : diag'[x] # NoRecord
        BY <2>1, <2>2, <4>1, <4>2
      <4>4. Cardinality(Records) = MaxDiagnostics
        BY <2>1, <2>2, <4>1
      <4> QED
        BY <4>1, <4>3, <4>4
    <3>3. CASE RaiseDropped(d)
      BY <2>3, <3>3 DEF RaiseDropped, registry
    <3> QED
      BY <2>4, <3>1, <3>2, <3>3 DEF RaiseDiagnostic
  <2>5. \/ diag' = diag
        \/ \E d \in Diags, e \in Effects : RaiseDiagnostic(d, e)
    BY <1>1 DEF Next, vars, registry, ApplyAvailabilityBatch, SetMirrorStatsBatch,
                SetClassification, SetRemoteKey, SetContentChecksum, SetLastRescan,
                ClearKeyDiagnostics, ClearVersionDiagnostics, ClearDiagnostic,
                ClearAllDiagnostics, Deactivate
  <2>6. Kept
    BY <2>3, <2>4, <2>5
  <2> QED
    BY <2>6
<1> QED
  BY <1>1, Invariance, PTL DEF Spec, ActiveKept
=============================================================================
