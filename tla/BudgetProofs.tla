---------------------------- MODULE BudgetProofs -----------------------------
(* Budgets: the bytes that may be stored, and the time a shutdown may take.    *)
EXTENDS Quota, Lifecycle, FiniteLemmas

------------------------------------------------------------------------------
(* The durable budget for any objects, sizes, requests and limits: the bytes   *)
(* that are referenced, and why every eviction is earned.                      *)

Row == [key : {q.key : q \in Requests}, version : Nat, seq : Nat, ingest : Nat, tree : DOMAIN BlobsOf]
AllObjects == UNION {ObjectsOf(t) : t \in DOMAIN BlobsOf}
Phases == {"idle", "prune", "page", "evict", "admit", "write"}
Admission ==
    [at : Phases, request : Requests \cup {NoRequest}, pending : SUBSET AllObjects, limit : Int, target : Nat,
     prune : SUBSET Row, retained : SUBSET Row, after : Nat, page : Seq(Row), measured : Nat, estimate : Nat]
QuotaType ==
    /\ quotaSetting \in QuotaSettings
    /\ rows \in SUBSET Row /\ IsFiniteSet(rows)
    /\ commits \in Nat /\ adopted \in Nat
    /\ admission \in Admission

\* A version has its number from upstream or is historical; rows differ in
\* their version and in their time.
RowsInv ==
    /\ \A r \in rows :
           /\ r.ingest < commits
           /\ \/ r.seq = r.version /\ 0 < r.version /\ r.version < FirstHistorical
              \/ r.seq = 0 /\ FirstHistorical <= r.version /\ r.version < FirstHistorical + commits
    /\ \A r, s \in rows : r.ingest = s.ingest \/ (r.key = s.key /\ r.version = s.version) => r = s

\* What the publish relies on is there, and the limit leaves room for the rest.
Active == ~ In("idle")
Evicting == admission.at \in {"prune", "page", "evict", "admit"}
AdmissionInv ==
    /\ Active =>
           /\ request \in Requests
           /\ admission.pending \subseteq ObjectsOf(request.tree)
           /\ BlobsOf[request.tree] \subseteq objects \cup admission.pending
    /\ Evicting => quotaSetting.max > 0 /\ admission.limit = quotaSetting.max - Bytes(admission.pending)
    /\ In("write") /\ quotaSetting.max > 0 => ReferencedBytes(rows) < quotaSetting.max - Bytes(admission.pending)

\* The newest of a key are those that were the newest when the eviction began.
Protected(r) == versionProtected(r, request.tree)
Before(r, S) == {s \in S : s.key = r.key /\ Newer(s, r)}
RetainInv ==
    Evicting =>
        /\ admission.retained \subseteq rows
        /\ \A r \in rows \ admission.retained : quotaSetting.retain <= Cardinality(Before(r, admission.retained))
        /\ \A r \in admission.retained : Cardinality(Before(r, rows)) < quotaSetting.retain
PruneInv ==
    In("prune") =>
        /\ admission.prune # {} => quotaSetting.perKey > 0
        /\ admission.estimate = 0 /\ admission.after = 0
        /\ \A r \in admission.prune :
               /\ ~ Protected(r)
               /\ keepCount <= Cardinality(Before(r, rows \ admission.prune))

\* The store is above its target, also between two measurements; a page has
\* the oldest that may go.
MayGo(r) == r \notin admission.retained /\ ~ Protected(r)
PageInv ==
    /\ admission.at \in {"page", "evict"} =>
           /\ ReferencedBytes(rows) >= admission.target
           /\ ReferencedBytes(rows) + admission.estimate >= admission.measured
    /\ In("page") => \A s \in rows : MayGo(s) => admission.after <= s.ingest
    /\ In("evict") =>
           /\ admission.page # <<>>
           /\ \A i \in 1 .. Len(admission.page) : admission.page[i] \in rows /\ MayGo(admission.page[i])
           /\ \A i, k \in 1 .. Len(admission.page) : i < k => admission.page[i].ingest < admission.page[k].ingest
           /\ \A s \in rows :
                  (\E i \in 1 .. Len(admission.page) : s = admission.page[i])
                  \/ (MayGo(s) => /\ admission.after <= s.ingest
                                  /\ \A i \in 1 .. Len(admission.page) : admission.page[i].ingest <= s.ingest)

QuotaInv ==
    /\ QuotaType /\ RowsInv /\ AdmissionInv /\ RetainInv /\ PruneInv /\ PageInv
    /\ WithinBudget

------------------------------------------------------------------------------
(* Bytes of objects, and of rows.                                             *)

\* Objects that can be counted.
Sized(S) == Counted(BytesOf, S)
LEMMA BytesTotal == ASSUME NEW S PROVE Bytes(S) = Total(BytesOf, S)
BY DEF Bytes, Total
LEMMA BytesType == ASSUME NEW S, Sized(S) PROVE Bytes(S) \in Nat
BY BytesTotal, TotalType DEF Sized
\* More objects are no fewer bytes.
LEMMA BytesSubset == ASSUME NEW S, Sized(S), NEW A \in SUBSET S PROVE Bytes(A) <= Bytes(S)
BY BytesTotal, TotalSubset DEF Sized
\* The bytes of a union are at most those of its parts.
LEMMA BytesUnion ==
    ASSUME NEW A, Sized(A), NEW B, Sized(B)
    PROVE  Bytes(A \cup B) <= Bytes(A) + Bytes(B)
BY BytesTotal, TotalUnion DEF Sized

\* The blobs of finitely many rows can be summed up.
LEMMA BlobsSized ==
    ASSUME NEW R \in SUBSET Row, IsFiniteSet(R)
    PROVE  Sized(Blobs(R)) /\ ReferencedBytes(R) \in Nat
<1> DEFINE f == [r \in R |-> BlobsOf[r.tree]]
           T == {f[r] : r \in R}
<1>1. \A r \in R : IsFiniteSet(f[r]) /\ \A o \in f[r] : BytesOf[o] \in Nat
  BY ObjectsAssumption DEF Row
<1>2. Blobs(R) = UNION T
  BY DEF Blobs
<1>3. IsFiniteSet(T)
  <2> HIDE DEF f
  <2> QED
    BY FiniteImage
<1>4. IsFiniteSet(UNION T) /\ \A o \in UNION T : BytesOf[o] \in Nat
  <2>1. \A t \in T : IsFiniteSet(t) /\ \A o \in t : BytesOf[o] \in Nat
    BY <1>1
  <2> HIDE DEF T
  <2> QED
    BY <1>3, <2>1, FS_UNION
<1>5. Sized(Blobs(R))
  BY <1>2, <1>4 DEF Sized, Counted
<1> QED
  BY <1>5, BytesType DEF ReferencedBytes

\* Fewer rows refer to fewer bytes.
LEMMA FewerRows ==
    ASSUME NEW R \in SUBSET Row, IsFiniteSet(R), NEW Q \in SUBSET R
    PROVE  /\ Q \in SUBSET Row /\ IsFiniteSet(Q)
           /\ ReferencedBytes(Q) \in Nat /\ ReferencedBytes(R) \in Nat
           /\ ReferencedBytes(Q) <= ReferencedBytes(R)
<1>1. Q \in SUBSET Row /\ IsFiniteSet(Q)
  BY FS_Subset
<1>2. Blobs(Q) \in SUBSET Blobs(R)
  BY DEF Blobs
<1>3. Sized(Blobs(R))
  BY BlobsSized
<1> QED
  BY <1>1, <1>2, <1>3, BlobsSized, BytesSubset DEF ReferencedBytes

\* A row that goes takes no more than the bytes of its blobs.
LEMMA OneRowLess ==
    ASSUME NEW R \in SUBSET Row, IsFiniteSet(R), NEW r \in R
    PROVE  /\ Bytes(BlobsOf[r.tree]) \in Nat
           /\ ReferencedBytes(R) <= ReferencedBytes(R \ {r}) + Bytes(BlobsOf[r.tree])
<1> DEFINE Q == R \ {r}
           B == BlobsOf[r.tree]
<1>1. Blobs(R) = Blobs(Q) \cup B
  BY DEF Blobs
<1>2. Q \in SUBSET Row /\ IsFiniteSet(Q)
  BY FS_Subset
<1>3. Sized(Blobs(Q)) /\ Sized(B)
  <2>1. Sized(B)
    BY ObjectsAssumption DEF Row, Sized, Counted
  <2> HIDE DEF Q
  <2> QED
    BY <1>2, <2>1, BlobsSized
<1>4. Bytes(Blobs(Q) \cup B) <= Bytes(Blobs(Q)) + Bytes(B) /\ Bytes(B) \in Nat
  <2> HIDE DEF Q, B
  <2> QED
    BY <1>3, BytesUnion, BytesType
<1>5. Bytes(Blobs(R)) = Bytes(Blobs(Q) \cup B)
  BY ONLY <1>1, Zenon
<1> QED
  BY <1>4, <1>5 DEF ReferencedBytes

\* The objects of a tree, or some of them, can be summed up.
LEMMA ObjectsSized ==
    ASSUME NEW t \in DOMAIN BlobsOf, NEW P \in SUBSET ObjectsOf(t)
    PROVE  Sized(P) /\ Bytes(P) \in Nat
<1>1. IsFiniteSet(ObjectsOf(t))
  BY ObjectsAssumption, FS_AddElement DEF ObjectsOf
<1>2. Sized(P)
  BY <1>1, ObjectsAssumption, FS_Subset DEF ObjectsOf, Sized, Counted
<1> QED
  BY <1>2, BytesType

------------------------------------------------------------------------------
(* The order of the versions of a key.                                        *)

NewerRelation(R) == {p \in R \X R : Newer(p[1], p[2])}

\* Newer orders the rows of a key.
LEMMA NewerOrders ==
    ASSUME QuotaType, RowsInv, NEW r \in rows
    PROVE  /\ StrictOrder(RowsOf(r.key), NewerRelation(rows))
           /\ IsFiniteSet(RowsOf(r.key)) /\ r \in RowsOf(r.key)
           /\ \A x \in RowsOf(r.key) :
                 /\ Preceding(x, RowsOf(r.key), NewerRelation(rows)) = Before(x, rows)
                 /\ Rank(x) = Cardinality(Before(x, rows)) + 1
<1> DEFINE S == RowsOf(r.key)
           R == NewerRelation(rows)
<1>1. S \subseteq rows /\ IsFiniteSet(S) /\ r \in S
  BY FS_Subset DEF QuotaType, RowsOf
<1>2. \A x, y \in S : <<x, y>> \in R <=> Newer(x, y)
  BY <1>1 DEF NewerRelation
<1>3. \A x \in S : x.seq \in Nat /\ x.version \in Nat
  BY <1>1 DEF QuotaType, Row
<1>4. \A x, y \in S : x # y => x.version # y.version
  BY <1>1 DEF RowsInv, RowsOf
<1>5. StrictOrder(S, R)
  <2>1. \A x \in S : ~ Newer(x, x)
    BY <1>3 DEF Newer
  <2>2. \A x, y \in S : x # y => Newer(x, y) \/ Newer(y, x)
    BY <1>3, <1>4 DEF Newer
  <2>3. \A x, y, z \in S : Newer(x, y) /\ Newer(y, z) => Newer(x, z)
    BY <1>3 DEF Newer
  <2> HIDE DEF S, R
  <2> QED
    BY <1>2, <2>1, <2>2, <2>3 DEF StrictOrder
<1>6. \A x \in S : Preceding(x, S, R) = Before(x, rows)
  <2> SUFFICES ASSUME NEW x \in S PROVE Preceding(x, S, R) = Before(x, rows)
    OBVIOUS
  <2>1. Preceding(x, S, R) = {y \in S : Newer(y, x)}
    BY <1>2 DEF Preceding
  <2> QED
    BY <2>1 DEF RowsOf, Before
<1>7. \A x \in S : Rank(x) = Cardinality(Before(x, rows)) + 1
  <2> SUFFICES ASSUME NEW x \in S PROVE Rank(x) = Cardinality(Before(x, rows)) + 1
    OBVIOUS
  <2>1. {s \in RowsOf(x.key) : Newer(s, x)} = Before(x, rows)
    BY DEF RowsOf, Before
  <2> QED
    BY <2>1 DEF Rank
<1> QED
  BY <1>1, <1>5, <1>6, <1>7

\* The newest k of a key are all newer than one that is not among them.
LEMMA NewestBefore ==
    ASSUME QuotaType, RowsInv, NEW r \in rows, NEW k \in Nat, k <= Cardinality(Before(r, rows))
    PROVE  Cardinality({s \in Before(r, rows) : Cardinality(Before(s, rows)) < k}) = k
<1> DEFINE S == RowsOf(r.key)
           R == NewerRelation(rows)
<1>1. StrictOrder(S, R) /\ IsFiniteSet(S) /\ r \in S /\ \A x \in S : Preceding(x, S, R) = Before(x, rows)
  BY NewerOrders
<1>2. {s \in S : <<s, r>> \in R /\ Cardinality(Preceding(s, S, R)) < k}
        = {s \in Before(r, rows) : Cardinality(Before(s, rows)) < k}
  <2>1. \A s \in S : Cardinality(Preceding(s, S, R)) = Cardinality(Before(s, rows))
    BY <1>1
  <2>2. {s \in S : <<s, r>> \in R /\ Cardinality(Preceding(s, S, R)) < k}
          = {s \in Preceding(r, S, R) : Cardinality(Preceding(s, S, R)) < k}
    BY DEF Preceding
  <2>3. Preceding(r, S, R) = Before(r, rows) /\ Before(r, rows) \subseteq S
    BY <1>1 DEF Before, RowsOf
  <2> HIDE DEF S, R
  <2> QED
    BY <2>1, <2>2, <2>3
<1>3. Cardinality(Preceding(r, S, R)) = Cardinality(Before(r, rows))
  BY <1>1
<1> HIDE DEF S, R
<1>4. Cardinality({s \in S : <<s, r>> \in R /\ Cardinality(Preceding(s, S, R)) < k}) = k
  BY <1>1, <1>3, FirstPlaces
<1> QED
  BY <1>2, <1>4

\* More rows, no fewer before.
LEMMA MoreBefore ==
    ASSUME NEW r, NEW S, IsFiniteSet(S), NEW T \in SUBSET S
    PROVE  /\ Cardinality(Before(r, T)) \in Nat /\ Cardinality(Before(r, S)) \in Nat
           /\ Cardinality(Before(r, T)) <= Cardinality(Before(r, S))
<1>1. Before(r, T) \in SUBSET Before(r, S) /\ Before(r, S) \in SUBSET S
  BY DEF Before
<1>2. IsFiniteSet(Before(r, S)) /\ IsFiniteSet(Before(r, T))
  BY <1>1, FS_Subset
<1> QED
  BY <1>1, <1>2, FS_Subset, FS_CardinalityType

------------------------------------------------------------------------------
(* The steps.                                                                 *)

\* The numbers a setting has.
LEMMA Settings ==
    ASSUME QuotaType
    PROVE  /\ quotaSetting.max \in Nat /\ quotaSetting.evictTo \in Nat /\ quotaSetting.retain \in Nat
           /\ quotaSetting.perKey \in Nat /\ quotaSetting.history \in BOOLEAN
           /\ keepCount \in Nat /\ keepCount >= quotaSetting.retain /\ keepCount >= quotaSetting.perKey
<1>1. quotaSetting \in [max : Nat, evictTo : Nat, retain : Nat, perKey : Nat, history : BOOLEAN, before : Seq(Requests)]
  BY QuotaSettingsAssumption, Zenon DEF QuotaType
<1> QED
  BY <1>1 DEF keepCount

\* What a request asks for.
LEMMA RequestType ==
    ASSUME NEW q \in Requests
    PROVE  /\ q.version \in Nat /\ 0 < q.version /\ q.version < FirstHistorical
           /\ q.tree \in DOMAIN BlobsOf /\ FirstHistorical \in Nat
BY RequestsAssumption

\* What a publish may be like.
LEMMA IdleType == Idle \in Admission
BY DEF Idle, Admission, Phases

\* A publish that ends, whatever rows it has taken away, leaves nothing to rely on.
LEMMA Ends ==
    ASSUME QuotaInv, Reject, rows' \in SUBSET rows, UNCHANGED <<commits, adopted, quotaSetting>>
    PROVE  QuotaInv'
<1>1. QuotaType'
  <2>1. rows' \in SUBSET Row /\ IsFiniteSet(rows')
    BY FS_Subset DEF QuotaInv, QuotaType
  <2> QED
    BY <2>1, IdleType DEF QuotaInv, QuotaType, Reject
<1>2. RowsInv'
  BY DEF QuotaInv, RowsInv
<1>3. In("idle")'
  BY DEF Reject, Idle, In
<1>4. AdmissionInv' /\ RetainInv' /\ PruneInv' /\ PageInv'
  BY <1>3 DEF AdmissionInv, RetainInv, PruneInv, PageInv, Active, Evicting, In
<1>5. WithinBudget'
  <2>1. ReferencedBytes(rows') <= ReferencedBytes(rows)
        /\ ReferencedBytes(rows') \in Nat /\ ReferencedBytes(rows) \in Nat
    BY FewerRows DEF QuotaInv, QuotaType
  <2>2. WithinBudget' = (quotaSetting.max > 0 => ReferencedBytes(rows') < quotaSetting.max + adopted)
    BY DEF WithinBudget
  <2> QED
    BY <2>1, <2>2, Settings DEF QuotaInv, QuotaType, WithinBudget
<1> QED
  BY <1>1, <1>2, <1>4, <1>5 DEF QuotaInv

\* What a publish counts as incoming, and whom it will keep.
LEMMA PublishKeeps ==
    ASSUME QuotaInv, NEW q \in Requests, Publish(q)
    PROVE  QuotaInv'
<1> USE DEF QuotaInv
<1> DEFINE pending == PendingObjects(q.tree)
           limit == quotaSetting.max - Bytes(pending)
<1>1. /\ q.tree \in DOMAIN BlobsOf /\ pending \in SUBSET ObjectsOf(q.tree) /\ Sized(pending) /\ Bytes(pending) \in Nat
  <2>1. q.tree \in DOMAIN BlobsOf /\ pending \in SUBSET ObjectsOf(q.tree)
    BY RequestType DEF PendingObjects
  <2> HIDE DEF pending
  <2> QED
    BY <2>1, ObjectsSized
<1>2. ReferencedBytes(rows) \in Nat
  BY BlobsSized DEF QuotaType
<1>3. Retained \in SUBSET rows /\ Prunable(q.tree) \in SUBSET rows /\ rows \in SUBSET Row
  BY DEF Retained, Prunable, QuotaType
<1>4. UNCHANGED <<rows, objects, commits, adopted, quotaSetting>>
  BY DEF Publish
<1>5. CASE quotaSetting.max = 0 /\ admission' = [Idle EXCEPT !.request = q, !.pending = pending, !.at = "write"]
  <2>0. admission'.at = "write" /\ admission'.request = q /\ admission'.pending = pending
    <3> HIDE DEF pending
    <3> QED
      BY <1>5 DEF Idle
  <2>1. admission' \in Admission
    <3> HIDE DEF pending
    <3>1. pending \in SUBSET AllObjects
      BY <1>1 DEF AllObjects
    <3> QED
      BY <1>5, <3>1, IdleType DEF Admission, Phases
  <2>2. BlobsOf[q.tree] \subseteq objects \cup pending
    BY DEF PendingObjects, ObjectsOf
  <2> HIDE DEF pending
  <2> QED
    BY <1>1, <1>4, <1>5, <2>0, <2>1, <2>2
       DEF QuotaType, RowsInv, AdmissionInv, RetainInv, PruneInv, PageInv, WithinBudget, Active, Evicting, In, request
<1>6. CASE /\ Bytes(pending) < quotaSetting.max
           /\ admission' = [Idle EXCEPT !.request = q, !.pending = pending,
                                        !.at = IF ReferencedBytes(rows) < limit THEN "write" ELSE "prune",
                                        !.limit = limit, !.target = Target(limit),
                                        !.prune = Prunable(q.tree), !.retained = Retained]
  <2>1. limit \in Nat /\ limit > 0 /\ quotaSetting.max > 0 /\ Target(limit) \in Nat
    <3> HIDE DEF pending
    <3> QED
      BY <1>1, <1>6, Settings DEF Target
  <2>2. /\ admission'.at = (IF ReferencedBytes(rows) < limit THEN "write" ELSE "prune")
        /\ admission'.request = q /\ admission'.pending = pending
        /\ admission'.limit = limit /\ admission'.target = Target(limit)
        /\ admission'.prune = Prunable(q.tree) /\ admission'.retained = Retained
        /\ admission'.after = 0 /\ admission'.page = <<>> /\ admission'.measured = 0 /\ admission'.estimate = 0
    <3> HIDE DEF pending, limit
    <3> QED
      BY <1>6 DEF Idle
  <2>3. admission' \in Admission
    <3> HIDE DEF pending, limit
    <3>1. pending \in SUBSET AllObjects
      BY <1>1 DEF AllObjects
    <3>2. Prunable(q.tree) \in SUBSET Row /\ Retained \in SUBSET Row
      BY <1>3
    <3> DEFINE where == IF ReferencedBytes(rows) < limit THEN "write" ELSE "prune"
               target == Target(limit)
               prune == Prunable(q.tree)
    <3>3. where \in Phases /\ limit \in Int /\ target \in Nat
      BY <2>1 DEF Phases
    <3>4. /\ admission' = [Idle EXCEPT !.request = q, !.pending = pending, !.at = where, !.limit = limit,
                                        !.target = target, !.prune = prune, !.retained = Retained]
          /\ prune \in SUBSET Row
      BY <1>6, <3>2
    <3> HIDE DEF where, target, prune
    <3> QED
      BY <3>1, <3>2, <3>3, <3>4, IdleType DEF Admission
  <2>4. AdmissionInv'
    <3>1. BlobsOf[q.tree] \subseteq objects \cup pending
      BY DEF PendingObjects, ObjectsOf
    <3> HIDE DEF pending
    <3> QED
      BY <1>1, <1>2, <1>4, <2>1, <2>2, <3>1 DEF AdmissionInv, Active, Evicting, In, request
  <2>5. RetainInv'
    <3>1. ASSUME NEW r \in rows PROVE r \in Retained <=> Cardinality(Before(r, rows)) < quotaSetting.retain
      <4>1. Rank(r) = Cardinality(Before(r, rows)) + 1 /\ Cardinality(Before(r, rows)) \in Nat
        BY NewerOrders, MoreBefore DEF QuotaType
      <4> QED
        BY <4>1, Settings DEF Retained
    <3>2. ASSUME NEW r \in rows, r \notin Retained PROVE quotaSetting.retain <= Cardinality(Before(r, Retained))
      <4>1. quotaSetting.retain <= Cardinality(Before(r, rows)) /\ quotaSetting.retain \in Nat
        BY <3>1, <3>2, Settings, MoreBefore DEF QuotaType
      <4>2. Cardinality({s \in Before(r, rows) : Cardinality(Before(s, rows)) < quotaSetting.retain}) = quotaSetting.retain
        BY <4>1, NewestBefore
      <4>3. {s \in Before(r, rows) : Cardinality(Before(s, rows)) < quotaSetting.retain} = Before(r, Retained)
        BY <1>3, <3>1 DEF Before
      <4> QED
        BY <4>1, <4>2, <4>3
    <3> QED
      BY <1>3, <1>4, <2>2, <3>1, <3>2 DEF RetainInv
  <2>6. PruneInv'
    <3>1. ASSUME NEW r \in Prunable(q.tree)
          PROVE  /\ quotaSetting.perKey > 0 /\ r \in rows /\ ~ versionProtected(r, q.tree)
                 /\ keepCount <= Cardinality(Before(r, rows \ Prunable(q.tree)))
      <4>1. quotaSetting.perKey > 0 /\ r \in rows /\ ~ versionProtected(r, q.tree) /\ Rank(r) > keepCount
        BY <3>1, Settings DEF Prunable
      <4>2. \A s \in rows : Rank(s) = Cardinality(Before(s, rows)) + 1 /\ Cardinality(Before(s, rows)) \in Nat
        BY NewerOrders, MoreBefore DEF QuotaType
      <4>3. keepCount <= Cardinality(Before(r, rows)) /\ keepCount \in Nat
        BY <4>1, <4>2, Settings
      <4> DEFINE K == {s \in Before(r, rows) : Cardinality(Before(s, rows)) < keepCount}
                 B == Before(r, rows \ Prunable(q.tree))
      <4>4. Cardinality(K) = keepCount
        BY <4>1, <4>3, NewestBefore
      <4>5. K \in SUBSET B
        BY <4>2, Settings DEF Prunable, Before
      <4>6. IsFiniteSet(B)
        BY FS_Subset DEF Before, QuotaType
      <4> HIDE DEF K, B
      <4>7. Cardinality(K) <= Cardinality(B)
        BY <4>5, <4>6, FS_Subset
      <4> QED
        BY <4>1, <4>4, <4>7 DEF B
    <3>2. keepCount' = keepCount
      BY <1>4 DEF keepCount
    <3> QED
      BY <1>4, <2>2, <3>1, <3>2 DEF PruneInv, Protected, request
  <2>7. PageInv'
    BY <2>2 DEF PageInv, In
  <2> QED
    BY <1>4, <2>3, <2>4, <2>5, <2>6, <2>7 DEF QuotaType, RowsInv, WithinBudget
<1> QED
  BY <1>5, <1>6 DEF Publish

\* A version that shares nothing with the incoming tree leaves what the publish
\* relies on, and is none of the retained.
LEMMA DeletionSafe ==
    ASSUME QuotaInv, Evicting, NEW r \in Row, ~ Protected(r), r \notin admission.retained, deleteVersionLocked(r),
           UNCHANGED <<commits, adopted, quotaSetting>>, admission' \in Admission,
           admission'.request = admission.request, admission'.pending = admission.pending,
           admission'.limit = admission.limit, admission'.retained = admission.retained,
           admission'.at \in {"prune", "page", "evict", "admit"}
    PROVE  QuotaType' /\ RowsInv' /\ AdmissionInv' /\ RetainInv' /\ WithinBudget'
<1> USE DEF QuotaInv
<1>1. rows' = rows \ {r} /\ rows' \in SUBSET Row /\ rows \in SUBSET Row /\ IsFiniteSet(rows') /\ IsFiniteSet(rows)
  BY FS_Subset DEF deleteVersionLocked, Without, QuotaType
<1>2. ~ In("write")' /\ ~ In("write") /\ Active /\ Active' /\ Evicting'
  BY DEF In, Active, Evicting
<1>3. QuotaType' /\ RowsInv'
  BY <1>1 DEF QuotaType, RowsInv
<1>4. request \in Requests /\ request' = request
  BY <1>2 DEF AdmissionInv, request
<1>5. BlobsOf[request.tree] \subseteq objects' \cup admission.pending
  <2>1. BlobsOf[request.tree] \cap ObjectsOf(r.tree) = {}
    <3>1. r.tree \notin BlobsOf[request.tree]
      BY <1>4, RequestType, ObjectsAssumption DEF Row
    <3> QED
      BY <3>1 DEF ObjectsOf, Protected, versionProtected
  <2>2. BlobsOf[request.tree] \subseteq objects \cup admission.pending
    BY <1>2 DEF AdmissionInv
  <2> QED
    BY <2>1, <2>2 DEF deleteVersionLocked, Unreferenced
<1>6. AdmissionInv'
  BY <1>2, <1>4, <1>5 DEF AdmissionInv, request
<1>7. RetainInv'
  <2>1. admission.retained \subseteq rows'
    BY <1>1 DEF RetainInv
  <2>2. \A s \in admission.retained : Cardinality(Before(s, rows')) < quotaSetting.retain
    <3> SUFFICES ASSUME NEW s \in admission.retained
                 PROVE  Cardinality(Before(s, rows')) < quotaSetting.retain
      OBVIOUS
    <3>1. Cardinality(Before(s, rows)) < quotaSetting.retain
      BY DEF RetainInv
    <3>2. /\ Cardinality(Before(s, rows')) <= Cardinality(Before(s, rows))
          /\ Cardinality(Before(s, rows')) \in Nat /\ Cardinality(Before(s, rows)) \in Nat
      BY <1>1, MoreBefore
    <3> QED
      BY <3>1, <3>2, Settings
  <2> QED
    BY <1>1, <2>1, <2>2 DEF RetainInv
<1>8. WithinBudget'
  <2>1. ReferencedBytes(rows') <= ReferencedBytes(rows)
        /\ ReferencedBytes(rows') \in Nat /\ ReferencedBytes(rows) \in Nat
    BY <1>1, FewerRows
  <2>2. WithinBudget' = (quotaSetting.max > 0 => ReferencedBytes(rows') < quotaSetting.max + adopted)
    BY DEF WithinBudget
  <2> QED
    BY <2>1, <2>2, Settings DEF QuotaType, WithinBudget
<1> QED
  BY <1>3, <1>6, <1>7, <1>8

\* A row that is pruned has keepCount newer ones, and is none of the retained.
LEMMA PrunedRow ==
    ASSUME QuotaInv, In("prune"), NEW r \in admission.prune
    PROVE  /\ keepCount <= Cardinality(Before(r, rows)) /\ Cardinality(Before(r, rows)) \in Nat
           /\ r \notin admission.retained /\ r \in Row /\ ~ Protected(r) /\ quotaSetting.perKey > 0
<1>1. /\ keepCount <= Cardinality(Before(r, rows \ admission.prune)) /\ r \in Row /\ ~ Protected(r)
      /\ quotaSetting.perKey > 0
  BY DEF QuotaInv, PruneInv, QuotaType, Admission
<1>2. /\ Cardinality(Before(r, rows \ admission.prune)) <= Cardinality(Before(r, rows))
      /\ Cardinality(Before(r, rows \ admission.prune)) \in Nat /\ Cardinality(Before(r, rows)) \in Nat
  BY MoreBefore DEF QuotaInv, QuotaType
<1>3. keepCount <= Cardinality(Before(r, rows))
  BY <1>1, <1>2, Settings DEF QuotaInv
<1>4. r \in admission.retained => Cardinality(Before(r, rows)) < quotaSetting.retain
  BY DEF QuotaInv, RetainInv, Evicting, In
<1> QED
  BY <1>1, <1>2, <1>3, <1>4, Settings DEF QuotaInv

LEMMA PruneKeeps ==
    ASSUME QuotaInv, Prune
    PROVE  QuotaInv'
<1>1. PICK r \in admission.prune :
          \/ deleteVersionLocked(r) /\ admission' = [admission EXCEPT !.prune = @ \ {r}]
          \/ CleanupFails(r)
  BY DEF Prune
<1>2. CASE CleanupFails(r)
  BY <1>2, Ends DEF CleanupFails, Without, Prune
<1>3. CASE deleteVersionLocked(r) /\ admission' = [admission EXCEPT !.prune = @ \ {r}]
  <2>1. In("prune") /\ Evicting /\ UNCHANGED <<commits, adopted, quotaSetting>>
    BY DEF Prune, In, Evicting
  <2>2. r \in Row /\ ~ Protected(r) /\ r \notin admission.retained
    BY <2>1, PrunedRow
  <2>3. /\ admission' \in Admission /\ admission'.prune = admission.prune \ {r}
        /\ admission'.request = admission.request /\ admission'.pending = admission.pending
        /\ admission'.limit = admission.limit /\ admission'.retained = admission.retained
        /\ admission'.at = "prune" /\ admission'.estimate = admission.estimate /\ admission'.after = admission.after
    BY <1>3, <2>1 DEF QuotaInv, QuotaType, Admission, In
  <2>4. QuotaType' /\ RowsInv' /\ AdmissionInv' /\ RetainInv' /\ WithinBudget'
    BY <1>3, <2>1, <2>2, <2>3, DeletionSafe
  <2>5. PruneInv'
    <3>1. rows' \ admission'.prune = rows \ admission.prune
      BY <1>3, <2>3 DEF deleteVersionLocked, Without
    <3>2. keepCount' = keepCount
      BY <2>1 DEF keepCount
    <3>3. \A s : Protected(s)' = Protected(s)
      BY <2>3 DEF Protected, request, versionProtected
    <3>4. PruneInv /\ In("prune")
      BY <2>1 DEF QuotaInv
    <3> QED
      BY <2>1, <2>3, <3>1, <3>2, <3>3, <3>4 DEF PruneInv
  <2>6. PageInv'
    BY <2>3 DEF PageInv, In
  <2> QED
    BY <2>4, <2>5, <2>6 DEF QuotaInv
<1> QED
  BY <1>1, <1>2, <1>3

LEMMA PrunedKeeps ==
    ASSUME QuotaInv, Pruned
    PROVE  QuotaInv'
<1> USE DEF QuotaInv
<1> DEFINE where == IF admission.target = 0 \/ ReferencedBytes(rows) < admission.target THEN "admit" ELSE "page"
           m == ReferencedBytes(rows)
<1>1. /\ In("prune") /\ admission' = [admission EXCEPT !.measured = m, !.at = where]
      /\ UNCHANGED <<rows, objects, commits, adopted, quotaSetting>>
  BY DEF Pruned
<1>2. m \in Nat /\ where \in {"admit", "page"} /\ (where = "page" => m >= admission.target) /\ admission.target \in Nat
  BY BlobsSized DEF QuotaType, Admission
<1> HIDE DEF where, m
<1>3. /\ admission' \in Admission /\ admission'.at = where /\ admission'.measured = m
      /\ admission'.estimate = 0 /\ admission'.after = 0 /\ admission'.target = admission.target
      /\ admission'.request = admission.request /\ admission'.pending = admission.pending
      /\ admission'.limit = admission.limit /\ admission'.retained = admission.retained
  BY <1>1, <1>2 DEF QuotaType, Admission, Phases, PruneInv, In
<1>4. QuotaType' /\ RowsInv' /\ WithinBudget'
  BY <1>1, <1>3 DEF QuotaType, RowsInv, WithinBudget
<1>5. AdmissionInv' /\ RetainInv'
  BY <1>1, <1>2, <1>3 DEF AdmissionInv, RetainInv, Evicting, Active, In, request
<1>6. PruneInv'
  BY <1>2, <1>3 DEF PruneInv, In
<1>7. PageInv'
  <2>1. ReferencedBytes(rows') = m
    BY <1>1 DEF m
  <2>2. \A s \in rows : s.ingest \in Nat /\ 0 <= s.ingest
    BY DEF QuotaType, Row
  <2>3. In("page")' => \A s \in rows' : MayGo(s)' => admission'.after <= s.ingest
    BY <1>1, <1>3, <2>2
  <2> QED
    BY <1>2, <1>3, <2>1, <2>3 DEF PageInv, In
<1> QED
  BY <1>4, <1>5, <1>6, <1>7

\* Rows are ordered by the time of their ingest.
IngestRelation(R) == {p \in R \X R : p[1].ingest < p[2].ingest}
LEMMA IngestOrders ==
    ASSUME QuotaType, RowsInv, NEW C \in SUBSET rows
    PROVE  /\ StrictOrder(C, IngestRelation(rows)) /\ IsFiniteSet(C)
           /\ \A x \in C : Preceding(x, C, IngestRelation(rows)) = Older(x, C)
           /\ \A x, y \in C : <<x, y>> \in IngestRelation(rows) <=> x.ingest < y.ingest
<1> DEFINE R == IngestRelation(rows)
<1>1. \A x, y \in C : <<x, y>> \in R <=> x.ingest < y.ingest
  BY DEF IngestRelation
<1>2. \A x \in C : x.ingest \in Nat
  BY DEF QuotaType, Row
<1>3. \A x, y \in C : x.ingest = y.ingest => x = y
  BY DEF RowsInv
<1>4. IsFiniteSet(C)
  BY FS_Subset DEF QuotaType
<1> HIDE DEF R
<1>5. StrictOrder(C, R)
  <2>1. \A x \in C : <<x, x>> \notin R
    BY <1>1, <1>2
  <2>2. \A x, y \in C : x # y => <<x, y>> \in R \/ <<y, x>> \in R
    BY <1>1, <1>2, <1>3
  <2>3. \A x, y, z \in C : <<x, y>> \in R /\ <<y, z>> \in R => <<x, z>> \in R
    BY <1>1, <1>2
  <2> QED
    BY <2>1, <2>2, <2>3 DEF StrictOrder
<1>6. \A x \in C : Preceding(x, C, R) = Older(x, C)
  BY <1>1 DEF Preceding, Older
<1> QED
  BY <1>1, <1>4, <1>5, <1>6 DEF R

\* A page has the oldest candidates, one after the other.
FirstOf(C) == {r \in C : Cardinality(Older(r, C)) < PageSize}
PageOf(P) == [i \in 1 .. Cardinality(P) |-> CHOOSE r \in P : Cardinality(Older(r, P)) = i - 1]
LEMMA PageSorted ==
    ASSUME QuotaType, RowsInv, NEW C \in SUBSET rows, C # {}
    PROVE  LET P == FirstOf(C)
               page == PageOf(P)
           IN
           /\ Cardinality(P) \in Nat \ {0} /\ page \in [1 .. Cardinality(P) -> P]
           /\ \A i, k \in 1 .. Cardinality(P) : i < k => page[i].ingest < page[k].ingest
           /\ \A r \in P : \E i \in 1 .. Cardinality(P) : page[i] = r
           /\ \A s \in C \ P, r \in P : r.ingest < s.ingest
           /\ Cardinality(C) < PageSize => P = C
<1> DEFINE P == FirstOf(C)
           page == PageOf(P)
           R == IngestRelation(rows)
           n == Cardinality(P)
<1>1. /\ P \in SUBSET rows /\ P \in SUBSET C
      /\ \A r \in C : r \in P <=> Cardinality(Older(r, C)) < PageSize
      /\ page = [i \in 1 .. n |-> CHOOSE r \in P : Cardinality(Older(r, P)) = i - 1]
  BY DEF FirstOf, PageOf
<1>2. /\ StrictOrder(C, R) /\ IsFiniteSet(C) /\ \A x \in C : Preceding(x, C, R) = Older(x, C)
      /\ \A x, y \in C : <<x, y>> \in R <=> x.ingest < y.ingest
  BY IngestOrders
<1>3. /\ StrictOrder(P, R) /\ IsFiniteSet(P) /\ \A x \in P : Preceding(x, P, R) = Older(x, P)
      /\ \A x, y \in P : <<x, y>> \in R <=> x.ingest < y.ingest
  BY <1>1, IngestOrders
<1>4. \A x \in C : x.ingest \in Nat
  BY DEF QuotaType, Row
<1>5. PageSize \in Nat \ {0}
  BY RequestsAssumption
<1> HIDE DEF R, P, page
<1>6. P # {}
  <2> DEFINE spot == [x \in C |-> Cardinality(Preceding(x, C, R))]
             m == Cardinality(C)
  <2>1. spot \in Surjection(C, 0 .. m - 1) /\ m \in Nat
    BY <1>2, Places, FS_CardinalityType
  <2>2. m # 0
    BY <1>2, FS_EmptySet
  <2>3. PICK x \in C : spot[x] = 0
    <3> HIDE DEF spot, m
    <3>1. 0 \in 0 .. m - 1
      BY <2>1, <2>2
    <3> QED
      BY <2>1, <3>1 DEF Surjection
  <2>4. Cardinality(Older(x, C)) = 0
    BY <1>2, <2>3
  <2> QED
    BY <1>1, <1>5, <2>4
<1>7. n \in Nat \ {0}
  BY <1>3, <1>6, FS_EmptySet, FS_CardinalityType
<1> DEFINE spot == [x \in P |-> Cardinality(Preceding(x, P, R))]
<1>8. spot \in Injection(P, 0 .. n - 1) /\ spot \in Surjection(P, 0 .. n - 1)
  BY <1>3, Places
<1>9. \A x \in P : spot[x] = Cardinality(Older(x, P)) /\ spot[x] \in 0 .. n - 1
  BY <1>3, <1>8 DEF Injection
<1> HIDE DEF spot, n
<1>10. \A x \in P : spot[x] \in Nat /\ spot[x] + 1 \in 1 .. n /\ (spot[x] + 1) - 1 = spot[x]
  <2>1. \A p \in 0 .. n - 1 : p \in Nat /\ p + 1 \in 1 .. n /\ (p + 1) - 1 = p
    BY <1>7
  <2> QED
    BY <1>9, <2>1
<1>11. ASSUME NEW i \in 1 .. n PROVE page[i] \in P /\ spot[page[i]] = i - 1
  <2>1. i - 1 \in 0 .. n - 1
    BY <1>7
  <2>2. \E r \in P : spot[r] = i - 1
    BY <1>8, <2>1 DEF Surjection
  <2>3. \E r \in P : Cardinality(Older(r, P)) = i - 1
    BY <1>9, <2>2
  <2>4. page[i] = CHOOSE r \in P : Cardinality(Older(r, P)) = i - 1
    BY <1>1
  <2>5. page[i] \in P /\ Cardinality(Older(page[i], P)) = i - 1
    BY <2>3, <2>4
  <2> QED
    BY <1>9, <2>5
<1>12. page \in [1 .. n -> P]
  BY <1>1, <1>11
<1>13. ASSUME NEW x \in P, NEW y \in P, spot[x] < spot[y] PROVE x.ingest < y.ingest
  <2>1. x # y /\ spot[x] \in Nat /\ spot[y] \in Nat
    BY <1>13, <1>10
  <2>2. CASE <<y, x>> \in R
    <3>1. Cardinality(Preceding(y, P, R)) < Cardinality(Preceding(x, P, R))
      BY <1>3, <2>2, PlacesGrow
    <3>2. spot[y] < spot[x]
      BY <3>1 DEF spot
    <3> QED
      BY <1>13, <2>1, <3>2
  <2> QED
    BY <1>3, <2>1, <2>2 DEF StrictOrder
<1>14. ASSUME NEW i \in 1 .. n, NEW k \in 1 .. n, i < k PROVE page[i].ingest < page[k].ingest
  <2>1. i - 1 < k - 1
    BY <1>7, <1>14
  <2> QED
    BY <1>11, <1>13, <2>1
<1>15. ASSUME NEW r \in P PROVE \E i \in 1 .. n : page[i] = r
  <2>1. spot[r] + 1 \in 1 .. n /\ (spot[r] + 1) - 1 = spot[r]
    BY <1>10
  <2>2. page[spot[r] + 1] \in P /\ spot[page[spot[r] + 1]] = spot[r]
    BY <1>11, <2>1
  <2> QED
    BY <1>8, <2>1, <2>2 DEF Injection, IsInjective
<1>16. ASSUME NEW s \in C \ P, NEW r \in P PROVE r.ingest < s.ingest
  <2>1. Cardinality(Older(r, C)) < PageSize /\ ~ Cardinality(Older(s, C)) < PageSize
    BY <1>1, <1>16
  <2>2. Cardinality(Older(r, C)) \in Nat /\ Cardinality(Older(s, C)) \in Nat
    BY <1>2, FS_Subset, FS_CardinalityType DEF Older
  <2>3. CASE <<s, r>> \in R
    <3>1. Cardinality(Preceding(s, C, R)) < Cardinality(Preceding(r, C, R))
      BY <1>1, <1>2, <2>3, PlacesGrow
    <3>2. Cardinality(Older(s, C)) < Cardinality(Older(r, C))
      BY <1>1, <1>2, <3>1
    <3> QED
      BY <1>5, <2>1, <2>2, <3>2
  <2>4. r # s /\ r \in C /\ s \in C
    BY <1>1, <1>16
  <2> QED
    BY <1>2, <2>3, <2>4 DEF StrictOrder
<1>17. ASSUME Cardinality(C) < PageSize, NEW r \in C PROVE r \in P
  <2>1. /\ Older(r, C) \subseteq C /\ Cardinality(Older(r, C)) <= Cardinality(C)
        /\ Cardinality(Older(r, C)) \in Nat /\ Cardinality(C) \in Nat
    BY <1>2, FS_Subset, FS_CardinalityType DEF Older
  <2> QED
    BY <1>1, <1>5, <1>17, <2>1
<1>18. Cardinality(C) < PageSize => P = C
  BY <1>1, <1>17
<1> QED
  BY <1>7, <1>12, <1>14, <1>15, <1>16, <1>18 DEF n, P, page

LEMMA PageKeeps ==
    ASSUME QuotaInv, Page
    PROVE  QuotaInv'
<1> USE DEF QuotaInv
<1> DEFINE C == Candidates
           P == FirstOf(C)
           page == PageOf(P)
           short == Cardinality(C) < PageSize
           where == IF C = {} \/ EndsWithFullPage THEN "admit" ELSE "evict"
           after == IF short THEN commits ELSE page[Len(page)].ingest + 1
<1>1. /\ In("page") /\ admission' = [admission EXCEPT !.at = where, !.page = page, !.after = after]
      /\ UNCHANGED <<rows, objects, commits, adopted, quotaSetting>>
  BY DEF Page, FirstOf, PageOf
<1>2. C \in SUBSET rows /\ rows \in SUBSET Row /\ P \in SUBSET Row
  BY DEF Candidates, Unread, QuotaType, FirstOf
<1>3. C # {} =>
        /\ Cardinality(P) \in Nat \ {0} /\ page \in [1 .. Cardinality(P) -> P]
        /\ \A i, k \in 1 .. Cardinality(P) : i < k => page[i].ingest < page[k].ingest
        /\ \A r \in P : \E i \in 1 .. Cardinality(P) : page[i] = r
        /\ \A s \in C \ P, r \in P : r.ingest < s.ingest
        /\ short => P = C
  <2> HIDE DEF C
  <2> QED
    BY <1>2, PageSorted
<1>4. C = {} => Cardinality(P) = 0 /\ page = <<>> /\ short
  <2>1. C = {} => P = {} /\ Cardinality(C) = 0
    BY FS_EmptySet DEF FirstOf
  <2>2. P = {} => Cardinality(P) = 0
    BY FS_EmptySet
  <2>3. Cardinality(P) = 0 => page = <<>>
    BY DEF PageOf
  <2>4. PageSize \in Nat \ {0}
    BY RequestsAssumption
  <2>5. Cardinality(C) = 0 => short
    BY <2>4
  <2> HIDE DEF P, page, C, short
  <2> QED
    BY <2>1, <2>2, <2>3, <2>5
<1>5. page \in Seq(P) /\ Len(page) = Cardinality(P) /\ Cardinality(P) \in Nat /\ (C # {} => page # <<>>)
  <2> HIDE DEF P, C, page
  <2>1. CASE C # {}
    <3> DEFINE n == Cardinality(P)
    <3>1. n \in Nat \ {0} /\ page \in [1 .. n -> P]
      BY <1>3, <2>1
    <3> HIDE DEF n
    <3>2. page \in Seq(P) /\ Len(page) = n
      BY <3>1
    <3> QED
      BY <3>1, <3>2 DEF n
  <2>2. CASE C = {}
    BY <1>4, <2>2
  <2> QED
    BY <2>1, <2>2
<1>6. \A s : s \in C <=> s \in rows /\ MayGo(s) /\ s.ingest >= admission.after
  BY DEF Candidates, Unread, MayGo, Protected
<1>7. P \subseteq C
  BY DEF FirstOf
<1>8. where \in {"admit", "evict"} /\ (where = "evict" => C # {})
  OBVIOUS
<1>9. /\ \A s \in rows : MayGo(s) => s \in C
      /\ \A s \in rows : s.ingest \in Nat /\ s.ingest < commits
      /\ commits \in Nat /\ admission.after \in Nat
  <2>1. \A s \in rows : MayGo(s) => admission.after <= s.ingest
    BY <1>1 DEF PageInv
  <2>2. \A s \in rows : s.ingest \in Nat /\ s.ingest < commits
    BY DEF QuotaType, RowsInv, Row
  <2>3. commits \in Nat /\ admission.after \in Nat
    BY DEF QuotaType, Admission
  <2>4. \A s \in rows : MayGo(s) => s.ingest >= admission.after
    BY <2>1, <2>2, <2>3
  <2> QED
    BY <1>6, <2>2, <2>3, <2>4
\* What was read and may go is on the page.
<1>10. /\ after \in Nat
       /\ \A s \in C \ P : after <= s.ingest
  <2>1. CASE short
    <3>1. C = {} \/ P = C
      BY <1>3, <2>1
    <3>2. C \ P = {}
      BY <3>1
    <3> HIDE DEF C, P, page, short
    <3> QED
      BY <1>9, <2>1, <3>2
  <2>2. CASE ~ short
    <3> HIDE DEF C, P, page, short
    <3>1. C # {} /\ Len(page) \in 1 .. Cardinality(P) /\ page[Len(page)] \in P
      BY <1>3, <1>4, <1>5, <2>2
    <3>2. page[Len(page)].ingest \in Nat
      BY <1>2, <1>7, <1>9, <3>1
    <3>3. \A s \in C \ P : page[Len(page)].ingest < s.ingest /\ s.ingest \in Nat
      BY <1>2, <1>3, <1>9, <3>1
    <3> QED
      BY <2>2, <3>2, <3>3
  <2> QED
    BY <2>1, <2>2
<1> HIDE DEF C, P, page, where, after, short
<1>11. /\ admission' \in Admission /\ admission'.at = where /\ admission'.page = page
       /\ admission'.after = after
       /\ admission'.measured = admission.measured
       /\ admission'.estimate = admission.estimate /\ admission'.target = admission.target
       /\ admission'.request = admission.request /\ admission'.pending = admission.pending
       /\ admission'.limit = admission.limit /\ admission'.retained = admission.retained
  <2>1. page \in Seq(Row)
    BY <1>2, <1>5
  <2> QED
    BY <1>1, <1>8, <1>10, <2>1 DEF QuotaType, Admission, Phases
<1>12. QuotaType' /\ RowsInv' /\ WithinBudget'
  BY <1>1, <1>11 DEF QuotaType, RowsInv, WithinBudget
<1>13. AdmissionInv' /\ RetainInv'
  BY <1>1, <1>8, <1>11 DEF AdmissionInv, RetainInv, Evicting, Active, In, request
<1>14. PruneInv'
  BY <1>8, <1>11 DEF PruneInv, In
<1>15. PageInv'
  <2>1. \A s : MayGo(s)' = MayGo(s)
    BY <1>11 DEF MayGo, Protected, request, versionProtected
  <2>2. ReferencedBytes(rows') >= admission'.target /\ ReferencedBytes(rows') + admission'.estimate >= admission'.measured
    BY <1>1, <1>11 DEF PageInv, In
  <2>3. ASSUME In("evict")'
        PROVE  /\ admission'.page # <<>>
               /\ \A i \in 1 .. Len(page) : page[i] \in rows /\ MayGo(page[i])
               /\ \A i, k \in 1 .. Len(page) : i < k => page[i].ingest < page[k].ingest
    <3>1. C # {}
      BY <1>8, <1>11, <2>3 DEF In
    <3> QED
      BY <1>3, <1>5, <1>6, <1>7, <1>11, <3>1
  <2>4. ASSUME In("evict")', NEW s \in rows
        PROVE  \/ \E i \in 1 .. Len(page) : s = page[i]
               \/ (MayGo(s) => after <= s.ingest /\ \A i \in 1 .. Len(page) : page[i].ingest <= s.ingest)
    <3>1. C # {}
      BY <1>8, <1>11, <2>4 DEF In
    <3>2. CASE s \in P
      BY <1>3, <1>5, <3>1, <3>2
    <3>3. CASE s \notin P
      <4>1. ASSUME MayGo(s) PROVE after <= s.ingest
        <5>1. s \in C \ P
          BY <1>9, <3>3, <4>1
        <5> QED
          BY <1>10, <5>1
      <4>2. ASSUME MayGo(s), NEW i \in 1 .. Len(page) PROVE page[i].ingest <= s.ingest
        <5>1. s \in C \ P
          BY <1>9, <3>3, <4>2
        <5>2. page[i] \in P /\ page[i].ingest < s.ingest
          BY <1>3, <1>5, <3>1, <5>1
        <5>3. page[i].ingest \in Nat /\ s.ingest \in Nat
          BY <1>2, <1>7, <1>9, <5>2
        <5> QED
          BY <5>2, <5>3
      <4> QED
        BY <4>1, <4>2
    <3> QED
      BY <3>2, <3>3
  <2>5. admission'.at # "page" /\ ~ In("page")'
    BY <1>8, <1>11 DEF In
  <2> QED
    BY <1>1, <1>11, <2>1, <2>2, <2>3, <2>4, <2>5 DEF PageInv
<1> QED
  BY <1>12, <1>13, <1>14, <1>15

\* The head of a page may go, and nothing older may.
LEMMA HeadOfPage ==
    ASSUME QuotaInv, In("evict")
    PROVE  LET page == admission.page
               r == Head(page)
           IN  /\ r = page[1] /\ r \in rows /\ r \in Row /\ MayGo(r) /\ Evicting
               /\ page \in Seq(Row) /\ Len(page) \in Nat \ {0}
               /\ \A s \in rows : s.ingest < r.ingest => ~ MayGo(s)
<1> USE DEF QuotaInv
<1> DEFINE page == admission.page
           n == Len(page)
<1>1. page \in Seq(Row) /\ page # <<>> /\ rows \subseteq Row
  BY DEF QuotaType, Admission, PageInv
<1>2. n \in Nat \ {0} /\ Head(page) = page[1] /\ 1 \in 1 .. n
  <2> HIDE DEF page
  <2> QED
    BY <1>1
<1>3. page[1] \in rows /\ MayGo(page[1])
  BY <1>2 DEF PageInv
<1>4. ASSUME NEW s \in rows, s.ingest < page[1].ingest, MayGo(s) PROVE FALSE
  <2>1. \E i \in 1 .. n : page[1].ingest <= s.ingest
    <3>1. CASE \E i \in 1 .. n : s = page[i]
      <4>1. PICK i \in 1 .. n : s = page[i]
        BY <3>1
      <4>2. CASE i = 1
        <5>1. page[1].ingest \in Nat
          BY <1>1, <1>3 DEF Row
        <5> QED
          BY <1>4, <4>1, <4>2, <5>1
      <4>3. CASE i # 1
        <5>1. 1 < i
          BY <1>2, <4>3
        <5>2. page[1].ingest < page[i].ingest
          BY <1>2, <5>1 DEF PageInv
        <5>3. page[1].ingest \in Nat /\ s.ingest \in Nat
          BY <1>1, <1>3 DEF Row
        <5> QED
          BY <1>2, <4>1, <5>2, <5>3
      <4> QED
        BY <4>2, <4>3
    <3>2. CASE ~ \E i \in 1 .. n : s = page[i]
      BY <1>2, <1>4, <3>2 DEF PageInv
    <3> QED
      BY <3>1, <3>2
  <2>2. page[1].ingest \in Nat /\ s.ingest \in Nat
    BY <1>1, <1>3 DEF Row
  <2> QED
    BY <1>4, <2>1, <2>2
<1>5. Evicting
  BY DEF Evicting, In
<1> QED
  BY <1>1, <1>2, <1>3, <1>4, <1>5

LEMMA EvictKeeps ==
    ASSUME QuotaInv, EvictVersion
    PROVE  QuotaInv'
<1> USE DEF QuotaInv
<1> DEFINE page == admission.page
           r == Head(page)
           rest == Tail(page)
           size == Bytes(BlobsOf[r.tree])
           estimate == admission.estimate + size
           now == ReferencedBytes(Without(r))
           measured == IF Measures(estimate) THEN now ELSE admission.measured
           left == IF Measures(estimate) THEN 0 ELSE estimate
           where == IF measured < admission.target THEN "admit" ELSE IF rest = <<>> THEN "page" ELSE "evict"
<1>1. /\ In("evict") /\ UNCHANGED <<commits, adopted, quotaSetting>>
      /\ \/ CleanupFails(r)
         \/ /\ deleteVersionLocked(r)
            /\ admission' = [admission EXCEPT !.page = rest, !.measured = measured, !.estimate = left, !.at = where]
  BY DEF EvictVersion
<1>2. /\ r = page[1] /\ r \in rows /\ r \in Row /\ MayGo(r) /\ Evicting
      /\ page \in Seq(Row) /\ Len(page) \in Nat \ {0}
  BY <1>1, HeadOfPage
<1>3. CASE CleanupFails(r)
  <2>1. Reject /\ rows' \in SUBSET rows
    BY <1>3 DEF CleanupFails, Without
  <2> QED
    BY <1>1, <2>1, Ends
<1>4. CASE /\ deleteVersionLocked(r)
           /\ admission' = [admission EXCEPT !.page = rest, !.measured = measured, !.estimate = left, !.at = where]
  <2>1. /\ ReferencedBytes(rows) <= now + size /\ size \in Nat /\ now \in Nat
        /\ ReferencedBytes(rows) \in Nat
    <3>1. rows \in SUBSET Row /\ IsFiniteSet(rows) /\ r \in rows
      BY <1>2 DEF QuotaType
    <3> HIDE DEF r
    <3>2. size \in Nat /\ ReferencedBytes(rows) <= ReferencedBytes(rows \ {r}) + size
      BY <3>1, OneRowLess
    <3>3. ReferencedBytes(rows \ {r}) \in Nat /\ ReferencedBytes(rows) \in Nat
      BY <3>1, FewerRows
    <3> QED
      BY <3>2, <3>3 DEF Without
  <2>2. /\ admission.measured \in Nat /\ admission.estimate \in Nat /\ admission.target \in Nat
        /\ ReferencedBytes(rows) >= admission.target
        /\ ReferencedBytes(rows) + admission.estimate >= admission.measured
    BY <1>1 DEF QuotaType, Admission, PageInv, In
  <2>3. rest \in Seq(Row) /\ Len(rest) = Len(page) - 1 /\ \A i \in 1 .. Len(rest) : rest[i] = page[i + 1]
    <3> HIDE DEF page
    <3>1. page # <<>>
      BY <1>2
    <3> QED
      BY <1>2, <3>1
  <2>4. rest = <<>> <=> Len(page) = 1
    <3>1. \A s \in Seq(Row) : s = <<>> <=> Len(s) = 0
      OBVIOUS
    <3> HIDE DEF page, rest
    <3>2. rest = <<>> <=> Len(rest) = 0
      BY <2>3, <3>1
    <3> QED
      BY <1>2, <2>3, <3>2 DEF rest
  <2> HIDE DEF size, now
  <2>5. measured \in Nat /\ left \in Nat /\ where \in {"admit", "page", "evict"}
    BY <2>1, <2>2
  <2>6. /\ where # "admit" => now >= admission.target
        /\ now + left >= measured
    <3>1. CASE Measures(estimate)
      BY <2>1, <2>2, <3>1
    <3>2. CASE ~ Measures(estimate)
      <4>1. admission.measured > admission.target + estimate
        BY <2>1, <2>2, <3>2 DEF Measures
      <4> QED
        BY <2>1, <2>2, <3>2, <4>1
    <3> QED
      BY <3>1, <3>2
  <2>7. (where = "page" => rest = <<>>) /\ (where = "evict" => rest # <<>>)
    OBVIOUS
  <2> HIDE DEF measured, left, where, rest, r
  <2>8. /\ admission' \in Admission /\ admission'.at = where /\ admission'.page = rest
        /\ admission'.measured = measured /\ admission'.estimate = left
        /\ admission'.target = admission.target /\ admission'.after = admission.after
        /\ admission'.request = admission.request /\ admission'.pending = admission.pending
        /\ admission'.limit = admission.limit /\ admission'.retained = admission.retained
    BY <1>4, <2>3, <2>5 DEF QuotaType, Admission, Phases
  <2>9. QuotaType' /\ RowsInv' /\ AdmissionInv' /\ RetainInv' /\ WithinBudget'
    BY <1>1, <1>2, <1>4, <2>5, <2>8, DeletionSafe DEF MayGo
  <2>10. PruneInv'
    BY <2>5, <2>8 DEF PruneInv, In
  <2>11. rows' = rows \ {r} /\ ReferencedBytes(rows') = now
    BY <1>4 DEF deleteVersionLocked, Without, now
  <2>12. PageInv'
    <3>1. \A s : MayGo(s)' = MayGo(s)
      BY <2>8 DEF MayGo, Protected, request, versionProtected
    <3>2. admission'.at \in {"page", "evict"} =>
              /\ ReferencedBytes(rows') >= admission'.target
              /\ ReferencedBytes(rows') + admission'.estimate >= admission'.measured
      BY <2>6, <2>8, <2>11
    <3>3. /\ \A i \in 1 .. Len(page) : page[i] \in rows /\ MayGo(page[i])
          /\ \A i, k \in 1 .. Len(page) : i < k => page[i].ingest < page[k].ingest
          /\ \A s \in rows :
                 \/ \E i \in 1 .. Len(page) : s = page[i]
                 \/ (MayGo(s) => admission.after <= s.ingest /\ \A i \in 1 .. Len(page) : page[i].ingest <= s.ingest)
      BY <1>1 DEF PageInv
    <3> HIDE DEF page
    <3>4. \A i \in 1 .. Len(rest) : i + 1 \in 1 .. Len(page) /\ 1 < i + 1 /\ 1 \in 1 .. Len(page)
      BY <1>2, <2>3
    <3>5. \A i \in 1 .. Len(rest) : rest[i] \in rows' /\ MayGo(rest[i])
      <4> SUFFICES ASSUME NEW i \in 1 .. Len(rest) PROVE rest[i] \in rows' /\ MayGo(rest[i])
        OBVIOUS
      <4>1. page[i + 1] \in rows /\ MayGo(page[i + 1]) /\ page[1].ingest < page[i + 1].ingest
        BY <3>3, <3>4
      <4>2. page[1].ingest \in Nat
        BY <1>2 DEF Row
      <4>3. page[i + 1] # r
        BY <1>2, <4>1, <4>2
      <4> QED
        BY <2>3, <2>11, <4>1, <4>3
    <3>6. \A i, k \in 1 .. Len(rest) : i < k => rest[i].ingest < rest[k].ingest
      <4> SUFFICES ASSUME NEW i \in 1 .. Len(rest), NEW k \in 1 .. Len(rest), i < k
                   PROVE  rest[i].ingest < rest[k].ingest
        OBVIOUS
      <4>1. i + 1 < k + 1
        BY <1>2, <2>3
      <4> QED
        BY <2>3, <3>3, <3>4, <4>1
    <3>7. ASSUME NEW s \in rows'
          PROVE  \/ \E i \in 1 .. Len(rest) : s = rest[i]
                 \/ (MayGo(s) => admission.after <= s.ingest /\ \A i \in 1 .. Len(rest) : rest[i].ingest <= s.ingest)
      <4>1. s \in rows /\ s # r
        BY <2>11
      <4>2. CASE \E i \in 1 .. Len(page) : s = page[i]
        <5>1. PICK i \in 1 .. Len(page) : s = page[i]
          BY <4>2
        <5>2. i # 1
          BY <1>2, <4>1, <5>1
        <5>3. i - 1 \in 1 .. Len(rest) /\ (i - 1) + 1 = i
          BY <1>2, <2>3, <5>2
        <5> QED
          BY <2>3, <5>1, <5>3
      <4>3. CASE ~ \E i \in 1 .. Len(page) : s = page[i]
        BY <2>3, <3>3, <3>4, <4>1, <4>3
      <4> QED
        BY <4>2, <4>3
    <3>8. In("page")' => \A s \in rows' : MayGo(s) => admission.after <= s.ingest
      <4> SUFFICES ASSUME In("page")', NEW s \in rows', MayGo(s) PROVE admission.after <= s.ingest
        BY <2>8
      <4>1. rest = <<>>
        BY <2>7, <2>8 DEF In
      <4>2. Len(rest) = 0
        BY <4>1
      <4> QED
        BY <3>7, <4>2
    <3>9. In("evict")' => rest # <<>>
      BY <2>7, <2>8 DEF In
    <3> QED
      BY <2>8, <3>1, <3>2, <3>5, <3>6, <3>7, <3>8, <3>9 DEF PageInv
  <2> QED
    BY <2>9, <2>10, <2>12
<1> QED
  BY <1>1, <1>3, <1>4

\* What is published joins the rows: versions and times stay distinct, and the
\* bytes that come are those that were counted, and the orphans.
LEMMA CommitKeeps ==
    ASSUME QuotaInv, Commit
    PROVE  QuotaInv'
<1> USE DEF QuotaInv
<1>1. In("write") /\ admission' = Idle /\ UNCHANGED quotaSetting /\ request \in Requests
  BY DEF Commit, AdmissionInv, Active, In
<1>2. CASE UNCHANGED <<rows, commits, adopted>>
  BY <1>1, <1>2, Ends DEF Reject
<1>3. CASE /\ rows' = Superseded \cup {Inserted}
           /\ adopted' = Bytes(Adopted)
           /\ commits' = commits + 1
  <2> DEFINE old == rows \ Existing
             past == {Historical(r) : r \in Existing}
             new == Inserted
  <2>1. /\ rows \in SUBSET Row /\ IsFiniteSet(rows) /\ commits \in Nat
        /\ FirstHistorical \in Nat /\ request.version \in Nat
        /\ 0 < request.version /\ request.version < FirstHistorical /\ request.tree \in DOMAIN BlobsOf
    BY <1>1, RequestType DEF QuotaType
  <2>2. Existing \in SUBSET rows /\ old \in SUBSET rows /\ rows' \in SUBSET (old \cup past \cup {new})
    BY <1>3 DEF Existing, Superseded
  <2>3. ASSUME NEW r \in Existing
        PROVE  /\ Historical(r) \in Row /\ Historical(r).key = r.key /\ Historical(r).ingest = r.ingest
               /\ Historical(r).version = FirstHistorical + commits /\ Historical(r).seq = 0
               /\ Historical(r).tree = r.tree
    <3>1. r \in Row /\ FirstHistorical + commits \in Nat
      BY <2>1, <2>2
    <3> QED
      BY <3>1 DEF Historical, Row
  <2>4. /\ new \in Row /\ new.key = request.key /\ new.ingest = commits /\ new.version = request.version
        /\ new.seq = request.version /\ new.tree = request.tree
    BY <1>1, <2>1 DEF Inserted, RowOf, Row
  <2>5. IsFiniteSet(rows') /\ rows' \in SUBSET Row
    <3>1. IsFiniteSet(old) /\ IsFiniteSet(Existing)
      BY <2>1, <2>2, FS_Subset
    <3>2. IsFiniteSet(past)
      <4> DEFINE f == [r \in Existing |-> Historical(r)]
                 image == {f[r] : r \in Existing}
      <4>1. past = image
        OBVIOUS
      <4> HIDE DEF f
      <4>2. IsFiniteSet(image)
        BY <3>1, FiniteImage
      <4> HIDE DEF past, image
      <4> QED
        BY <4>1, <4>2
    <3>3. old \cup past \cup {new} \in SUBSET Row
      BY <2>1, <2>2, <2>3, <2>4
    <3> HIDE DEF old, past, new
    <3>4. IsFiniteSet(old \cup past)
      BY <3>1, <3>2, FS_Union
    <3>5. IsFiniteSet((old \cup past) \cup {new})
      BY <3>4, FS_AddElement
    <3> QED
      BY <2>2, <3>3, <3>5, FS_Subset
  <2>6. Adopted \in SUBSET ObjectsOf(request.tree) /\ Sized(Adopted) /\ Bytes(Adopted) \in Nat
    <3>1. Adopted \in SUBSET ObjectsOf(request.tree)
      BY DEF Adopted, ObjectsOf
    <3> QED
      BY <2>1, <3>1, ObjectsSized
  <2>7. QuotaType'
    BY <1>1, <1>3, <2>1, <2>5, <2>6, IdleType DEF QuotaType
  <2>8. RowsInv'
    <3>1. \A r \in rows :
             /\ r.ingest \in Nat /\ r.ingest < commits /\ r.version \in Nat /\ r.version < FirstHistorical + commits
             /\ \/ r.seq = r.version /\ 0 < r.version /\ r.version < FirstHistorical
                \/ r.seq = 0 /\ FirstHistorical <= r.version /\ r.version < FirstHistorical + commits
      <4> SUFFICES ASSUME NEW r \in rows
                   PROVE  /\ r.ingest \in Nat /\ r.ingest < commits /\ r.version \in Nat
                          /\ r.version < FirstHistorical + commits
                          /\ \/ r.seq = r.version /\ 0 < r.version /\ r.version < FirstHistorical
                             \/ r.seq = 0 /\ FirstHistorical <= r.version /\ r.version < FirstHistorical + commits
        OBVIOUS
      <4>1. r.ingest \in Nat /\ r.version \in Nat
        BY <2>1 DEF Row
      <4> QED
        BY <2>1, <4>1 DEF RowsInv
    <3>2. \A r, s \in rows : r.ingest = s.ingest \/ (r.key = s.key /\ r.version = s.version) => r = s
      BY DEF RowsInv
    <3>3. \A r, s \in Existing : r = s
      BY <2>2, <3>2 DEF Existing
    <3>4. \A r \in old : ~ (r.key = request.key /\ r.version = request.version)
      BY DEF Existing
    <3>5. \A r \in rows' : r \in old \/ (\E e \in Existing : r = Historical(e)) \/ r = new
      BY <2>2
    <3> HIDE DEF new
    <3>6. ASSUME NEW r \in rows'
          PROVE  /\ r.ingest < commits + 1
                 /\ \/ r.seq = r.version /\ 0 < r.version /\ r.version < FirstHistorical
                    \/ r.seq = 0 /\ FirstHistorical <= r.version /\ r.version < FirstHistorical + (commits + 1)
      <4>1. CASE r \in old
        BY <2>1, <2>2, <3>1, <4>1
      <4>2. CASE \E e \in Existing : r = Historical(e)
        <5>1. PICK e \in Existing : r = Historical(e)
          BY <4>2
        <5>2. r.ingest = e.ingest /\ e.ingest \in Nat /\ e.ingest < commits
              /\ r.version = FirstHistorical + commits /\ r.seq = 0
          BY <2>2, <2>3, <3>1, <5>1
        <5> QED
          BY <2>1, <5>2
      <4>3. CASE r = new
        BY <2>1, <2>4, <4>3
      <4> QED
        BY <3>5, <4>1, <4>2, <4>3
    <3>7. ASSUME NEW r \in rows', NEW s \in rows', r.ingest = s.ingest \/ (r.key = s.key /\ r.version = s.version)
          PROVE  r = s
      <4>1. ASSUME NEW x \in old, NEW e \in Existing
            PROVE  x.ingest # Historical(e).ingest /\ x.version # Historical(e).version
        <5>1. x.ingest # e.ingest
          BY <2>2, <3>2
        <5>2. x.version < FirstHistorical + commits /\ x.version \in Nat
          BY <2>2, <3>1
        <5> QED
          BY <2>1, <2>3, <5>1, <5>2
      <4>2. ASSUME NEW x \in old
            PROVE  x.ingest # new.ingest /\ ~ (x.key = new.key /\ x.version = new.version)
        BY <2>1, <2>2, <2>4, <3>1, <3>4
      <4>3. ASSUME NEW e \in Existing
            PROVE  Historical(e).ingest # new.ingest /\ Historical(e).version # new.version
        <5>1. e.ingest \in Nat /\ e.ingest < commits
          BY <2>2, <3>1
        <5> QED
          BY <2>1, <2>3, <2>4, <5>1
      <4>4. CASE r \in old /\ s \in old
        BY <2>2, <3>2, <3>7, <4>4
      <4> QED
        BY <3>3, <3>5, <3>7, <4>1, <4>2, <4>3, <4>4
    <3> QED
      BY <1>1, <1>3, <3>6, <3>7 DEF RowsInv
  <2>9. AdmissionInv' /\ RetainInv' /\ PruneInv' /\ PageInv'
    BY <1>1 DEF Idle, AdmissionInv, RetainInv, PruneInv, PageInv, Active, Evicting, In
  <2>10. ASSUME quotaSetting.max > 0 PROVE ReferencedBytes(rows') < quotaSetting.max + adopted'
    <3> DEFINE A == Blobs(rows)
               B == admission.pending
               C == Adopted
    <3>1. B \in SUBSET ObjectsOf(request.tree)
      BY <1>1 DEF AdmissionInv, Active, In
    <3>2. Sized(A) /\ Sized(B) /\ Sized(C) /\ Bytes(A) \in Nat /\ Bytes(B) \in Nat /\ Bytes(C) \in Nat
      <4>1. Sized(A) /\ Bytes(A) \in Nat
        BY <2>1, BlobsSized DEF ReferencedBytes
      <4>2. Sized(B) /\ Bytes(B) \in Nat
        <5> HIDE DEF B
        <5> QED
          BY <2>1, <3>1, ObjectsSized
      <4> QED
        BY <2>6, <4>1, <4>2
    <3>3. Bytes(A) < quotaSetting.max - Bytes(B)
      BY <1>1, <2>10 DEF AdmissionInv, ReferencedBytes
    <3>4. Blobs(rows') \in SUBSET ((A \cup B) \cup C)
      <4>1. Blobs(rows') \subseteq A \cup BlobsOf[request.tree]
        <5> SUFFICES ASSUME NEW r \in rows' PROVE BlobsOf[r.tree] \subseteq A \cup BlobsOf[request.tree]
          BY DEF Blobs
        <5>1. \A s \in rows : BlobsOf[s.tree] \subseteq A
          BY DEF Blobs
        <5> HIDE DEF A
        <5>2. CASE r \in old
          BY <2>2, <5>1, <5>2
        <5>3. CASE r \in past
          BY <2>2, <2>3, <5>1, <5>3
        <5>4. CASE r = new
          BY <2>4, <5>4
        <5> QED
          BY <2>2, <5>2, <5>3, <5>4
      <4>2. BlobsOf[request.tree] \subseteq objects \cup B
        BY <1>1 DEF AdmissionInv, Active, In
      <4> QED
        BY <4>1, <4>2 DEF Adopted
    <3> HIDE DEF A, B, C
    <3>5. Sized(A \cup B) /\ Sized((A \cup B) \cup C)
      BY <3>2, FS_Union DEF Sized, Counted
    <3>6. Bytes(A \cup B) <= Bytes(A) + Bytes(B)
      BY <3>2, BytesUnion
    <3>7. Bytes((A \cup B) \cup C) <= Bytes(A \cup B) + Bytes(C)
      BY <3>2, <3>5, BytesUnion
    <3>8. Bytes(Blobs(rows')) <= Bytes((A \cup B) \cup C)
      BY <3>4, <3>5, BytesSubset
    <3>9. Sized(Blobs(rows'))
      BY <3>4, <3>5, FS_Subset DEF Sized, Counted
    <3>10. Bytes(A \cup B) \in Nat /\ Bytes((A \cup B) \cup C) \in Nat /\ Bytes(Blobs(rows')) \in Nat
      BY <3>5, <3>9, BytesType
    <3>11. quotaSetting.max \in Nat /\ adopted' = Bytes(C)
      BY <1>3, Settings DEF C
    <3> QED
      BY <3>2, <3>3, <3>6, <3>7, <3>8, <3>10, <3>11 DEF ReferencedBytes
  <2>11. WithinBudget'
    <3>1. WithinBudget' = (quotaSetting.max > 0 => ReferencedBytes(rows') < quotaSetting.max + adopted')
      BY <1>1 DEF WithinBudget
    <3> QED
      BY <2>10, <3>1
  <2> QED
    BY <2>7, <2>8, <2>9, <2>11
<1> QED
  BY <1>2, <1>3 DEF Commit

------------------------------------------------------------------------------
(* The theorem.                                                               *)

LEMMA QuotaInitially == QuotaInit => QuotaInv
<1> SUFFICES ASSUME QuotaInit PROVE QuotaInv
  OBVIOUS
<1> DEFINE before == quotaSetting.before
           n == Len(before)
           blobs == UNION {BlobsOf[before[i].tree] : i \in 1 .. n}
<1>1. /\ quotaSetting \in QuotaSettings /\ rows = {RowOf(before[i], i - 1) : i \in 1 .. n}
      /\ commits = n /\ admission = Idle /\ adopted = 0
  BY DEF QuotaInit
<1>2. before \in Seq(Requests)
  <2>1. quotaSetting \in [max : Nat, evictTo : Nat, retain : Nat, perKey : Nat, history : BOOLEAN, before : Seq(Requests)]
    BY <1>1, QuotaSettingsAssumption, Zenon
  <2> QED
    BY <2>1
<1>3. \A i, k \in 1 .. n : before[i].key = before[k].key /\ before[i].version = before[k].version => i = k
  BY <1>1, QuotaSettingsAssumption, Zenon
<1>4. quotaSetting.max > 0 => Bytes(blobs) < quotaSetting.max
  BY <1>1, QuotaSettingsAssumption, Zenon DEF Bytes
<1>5. n \in Nat /\ \A i \in 1 .. n : before[i] \in Requests
  <2> HIDE DEF before
  <2> QED
    BY <1>2
<1>6. ASSUME NEW i \in 1 .. n
      PROVE  LET r == RowOf(before[i], i - 1)
             IN  /\ r \in Row /\ r.key = before[i].key /\ r.version = before[i].version /\ r.seq = before[i].version
                 /\ r.ingest = i - 1 /\ r.tree = before[i].tree /\ 0 < r.version /\ r.version < FirstHistorical
  <2>1. before[i] \in Requests /\ i - 1 \in Nat
    BY <1>5
  <2>2. /\ before[i].version \in Nat /\ 0 < before[i].version /\ before[i].version < FirstHistorical
        /\ before[i].tree \in DOMAIN BlobsOf
    BY <2>1, RequestType
  <2> HIDE DEF before
  <2> QED
    BY <2>1, <2>2 DEF RowOf, Row
<1> HIDE DEF before, n
<1>7. IsFiniteSet(rows) /\ rows \in SUBSET Row
  <2> DEFINE f == [i \in 1 .. n |-> RowOf(before[i], i - 1)]
             image == {f[i] : i \in 1 .. n}
  <2>1. rows = image
    BY <1>1
  <2>2. IsFiniteSet(1 .. n)
    BY <1>5, FS_Interval
  <2>3. rows \in SUBSET Row
    BY <1>1, <1>6
  <2> HIDE DEF f
  <2>4. IsFiniteSet(image)
    BY <2>2, FiniteImage
  <2> HIDE DEF image
  <2> QED
    BY <2>1, <2>3, <2>4
<1>8. QuotaType
  BY <1>1, <1>5, <1>7, IdleType DEF QuotaType
<1>9. RowsInv
  <2>1. ASSUME NEW r \in rows
        PROVE  /\ r.ingest < commits /\ r.seq = r.version /\ 0 < r.version /\ r.version < FirstHistorical
    BY <1>1, <1>5, <1>6
  <2>2. ASSUME NEW r \in rows, NEW s \in rows, r.ingest = s.ingest \/ (r.key = s.key /\ r.version = s.version)
        PROVE  r = s
    <3>1. PICK i \in 1 .. n : r = RowOf(before[i], i - 1)
      BY <1>1
    <3>2. PICK k \in 1 .. n : s = RowOf(before[k], k - 1)
      BY <1>1
    <3>3. i = k
      <4>1. CASE r.ingest = s.ingest
        <5>1. i - 1 = k - 1
          BY <1>6, <3>1, <3>2, <4>1
        <5> QED
          BY <1>5, <5>1
      <4>2. CASE r.key = s.key /\ r.version = s.version
        BY <1>3, <1>6, <3>1, <3>2, <4>2
      <4> QED
        BY <2>2, <4>1, <4>2
    <3> QED
      BY <3>1, <3>2, <3>3
  <2> QED
    BY <2>1, <2>2 DEF RowsInv
<1>10. AdmissionInv /\ RetainInv /\ PruneInv /\ PageInv
  BY <1>1 DEF Idle, AdmissionInv, RetainInv, PruneInv, PageInv, Active, Evicting, In
<1>11. WithinBudget
  <2>1. Blobs(rows) = blobs
    BY <1>1, <1>6 DEF Blobs
  <2>2. ReferencedBytes(rows) = Bytes(blobs)
    <3>1. Bytes(Blobs(rows)) = Bytes(blobs)
      BY ONLY <2>1, Zenon
    <3> QED
      BY <3>1 DEF ReferencedBytes
  <2> HIDE DEF blobs
  <2> QED
    BY <1>1, <1>4, <1>8, <2>2, Settings DEF WithinBudget
<1> QED
  BY <1>8, <1>9, <1>10, <1>11 DEF QuotaInv

\* A step that leaves the rows alone and goes on with the publish, or none.
LEMMA AdmitKeeps ==
    ASSUME QuotaInv, Admit
    PROVE  QuotaInv'
<1> USE DEF QuotaInv
<1>1. In("admit") /\ UNCHANGED <<rows, objects, commits, adopted, quotaSetting>>
  BY DEF Admit
<1>2. CASE Reject
  BY <1>1, <1>2, Ends
<1>3. CASE WithinLimit /\ admission' = [admission EXCEPT !.at = "write"]
  <2>1. /\ admission' \in Admission /\ admission'.at = "write" /\ admission'.request = admission.request
        /\ admission'.pending = admission.pending
    BY <1>3 DEF QuotaType, Admission, Phases
  <2>2. QuotaType' /\ RowsInv' /\ WithinBudget'
    BY <1>1, <2>1 DEF QuotaType, RowsInv, WithinBudget
  <2>3. ReferencedBytes(rows) < quotaSetting.max - Bytes(admission.pending)
    BY <1>1, <1>3 DEF WithinLimit, AdmissionInv, Evicting, In
  <2>4. AdmissionInv'
    BY <1>1, <2>1, <2>3 DEF AdmissionInv, Evicting, Active, In, request
  <2>5. RetainInv' /\ PruneInv' /\ PageInv'
    BY <2>1 DEF RetainInv, PruneInv, PageInv, Evicting, In
  <2> QED
    BY <2>2, <2>4, <2>5
<1> QED
  BY <1>2, <1>3 DEF Admit

LEMMA QuotaStep == QuotaInv /\ [QuotaNext]_quotaVars => QuotaInv'
<1> SUFFICES ASSUME QuotaInv, [QuotaNext]_quotaVars PROVE QuotaInv'
  OBVIOUS
<1>1. CASE \E q \in Requests : Publish(q)
  BY <1>1, PublishKeeps
<1>2. CASE EvictionFails
  BY <1>2, Ends DEF EvictionFails
<1>3. CASE PublishFails
  BY <1>3, Ends DEF PublishFails
<1>4. CASE Sweep
  <2>1. /\ UNCHANGED <<rows, commits, admission, adopted, quotaSetting>> /\ In("idle")
    BY <1>4 DEF Sweep
  <2>2. ~ Active' /\ ~ Evicting' /\ ~ In("prune")' /\ ~ In("page")' /\ ~ In("evict")' /\ ~ In("write")'
        /\ admission'.at = "idle"
    BY <2>1 DEF Active, Evicting, In
  <2>3. QuotaType' /\ RowsInv' /\ WithinBudget'
    BY <2>1 DEF QuotaInv, QuotaType, RowsInv, WithinBudget
  <2>4. AdmissionInv' /\ RetainInv' /\ PruneInv' /\ PageInv'
    BY <2>2 DEF AdmissionInv, RetainInv, PruneInv, PageInv
  <2> QED
    BY <2>3, <2>4 DEF QuotaInv
<1>5. CASE UNCHANGED quotaVars
  BY <1>5 DEF quotaVars, QuotaInv, QuotaType, RowsInv, AdmissionInv, RetainInv, PruneInv, PageInv, WithinBudget,
              Active, Evicting, In, Protected, MayGo, request, versionProtected, keepCount
<1> QED
  BY <1>1, <1>2, <1>3, <1>4, <1>5, PruneKeeps, PrunedKeeps, PageKeeps, EvictKeeps, AdmitKeeps, CommitKeeps DEF QuotaNext

\* A retained row has fewer than RetainLatestPerKey newer ones, any other as many.
LEMMA RetainedRank ==
    ASSUME QuotaInv, Evicting, NEW r \in rows
    PROVE  r \in admission.retained <=> Rank(r) <= quotaSetting.retain
<1> USE DEF QuotaInv
<1>1. Rank(r) = Cardinality(Before(r, rows)) + 1 /\ Cardinality(Before(r, rows)) \in Nat
  BY NewerOrders, MoreBefore DEF QuotaType
<1>2. quotaSetting.retain \in Nat
  BY Settings
<1>3. r \in admission.retained => Cardinality(Before(r, rows)) < quotaSetting.retain
  BY DEF RetainInv
<1>4. r \notin admission.retained => quotaSetting.retain <= Cardinality(Before(r, rows))
  <2> SUFFICES ASSUME r \notin admission.retained PROVE quotaSetting.retain <= Cardinality(Before(r, rows))
    OBVIOUS
  <2>1. quotaSetting.retain <= Cardinality(Before(r, admission.retained))
    BY DEF RetainInv
  <2>2. /\ Cardinality(Before(r, admission.retained)) <= Cardinality(Before(r, rows))
        /\ Cardinality(Before(r, admission.retained)) \in Nat
    <3>1. admission.retained \in SUBSET rows /\ IsFiniteSet(rows)
      BY DEF RetainInv, QuotaType
    <3> QED
      BY <3>1, MoreBefore
  <2> QED
    BY <1>1, <1>2, <2>1, <2>2
<1> QED
  BY <1>1, <1>2, <1>3, <1>4

LEMMA EvictionStep == QuotaInv /\ [QuotaNext]_quotaVars => EvictionEarned
<1> SUFFICES ASSUME QuotaInv, QuotaNext, NEW r \in rows, r \notin rows'
             PROVE  \/ In("write") /\ r \in Existing
                    \/ /\ Rank(r) > quotaSetting.retain
                       /\ BlobsOf[r.tree] \cap BlobsOf[request.tree] = {}
                       /\ \/ quotaSetting.perKey > 0 /\ Cardinality(RowsOf(r.key)) > quotaSetting.perKey
                          \/ /\ ReferencedBytes(rows) >= admission.target
                             /\ \A s \in rows : s.ingest < r.ingest =>
                                    versionProtected(s, request.tree) \/ Rank(s) <= quotaSetting.retain
  BY DEF EvictionEarned, quotaVars
<1>1. Commit => In("write") /\ r \in Existing
  BY DEF Commit, Superseded
<1>2. CASE Prune
  <2>1. In("prune") /\ r \in admission.prune
    BY <1>2 DEF Prune, CleanupFails, deleteVersionLocked, Without
  <2>2. /\ keepCount <= Cardinality(Before(r, rows)) /\ Cardinality(Before(r, rows)) \in Nat
        /\ ~ Protected(r) /\ quotaSetting.perKey > 0
    BY <2>1, PrunedRow
  <2>3. IsFiniteSet(RowsOf(r.key)) /\ r \in RowsOf(r.key) /\ Rank(r) = Cardinality(Before(r, rows)) + 1
    BY NewerOrders DEF QuotaInv
  <2>4. Cardinality(Before(r, rows)) < Cardinality(RowsOf(r.key))
    <3>1. Before(r, rows) \in SUBSET RowsOf(r.key)
      BY DEF Before, RowsOf
    <3>2. r \notin Before(r, rows)
      <4>1. r.seq \in Nat /\ r.version \in Nat
        BY DEF QuotaInv, QuotaType, Row
      <4> QED
        BY <4>1 DEF Before, Newer
    <3>3. /\ Cardinality(Before(r, rows)) <= Cardinality(RowsOf(r.key))
          /\ Cardinality(RowsOf(r.key)) = Cardinality(Before(r, rows)) => RowsOf(r.key) = Before(r, rows)
      BY <2>3, <3>1, FS_Subset
    <3>4. Cardinality(RowsOf(r.key)) \in Nat
      BY <2>3, FS_CardinalityType
    <3> QED
      BY <2>2, <2>3, <3>2, <3>3, <3>4
  <2>5. Cardinality(RowsOf(r.key)) \in Nat
    BY <2>3, FS_CardinalityType
  <2>6. Rank(r) > quotaSetting.retain /\ Cardinality(RowsOf(r.key)) > quotaSetting.perKey
    BY <2>2, <2>3, <2>4, <2>5, Settings DEF QuotaInv
  <2> QED
    BY <2>2, <2>6 DEF Protected, versionProtected
<1>3. CASE EvictVersion
  <2>1. In("evict") /\ r = Head(admission.page)
    BY <1>3 DEF EvictVersion, CleanupFails, deleteVersionLocked, Without
  <2>2. MayGo(r) /\ Evicting /\ \A s \in rows : s.ingest < r.ingest => ~ MayGo(s)
    BY <2>1, HeadOfPage
  <2>3. Rank(r) > quotaSetting.retain
    <3>1. ~ Rank(r) <= quotaSetting.retain
      BY <2>2, RetainedRank DEF MayGo
    <3>2. Rank(r) \in Nat
      BY NewerOrders, MoreBefore DEF QuotaInv, QuotaType
    <3> QED
      BY <3>1, <3>2, Settings DEF QuotaInv
  <2>4. ReferencedBytes(rows) >= admission.target
    BY <2>1 DEF QuotaInv, PageInv, In
  <2>5. \A s \in rows : s.ingest < r.ingest => versionProtected(s, request.tree) \/ Rank(s) <= quotaSetting.retain
    BY <2>2, RetainedRank DEF MayGo, Protected
  <2> QED
    BY <2>2, <2>3, <2>4, <2>5 DEF MayGo, Protected, versionProtected
<1>4. ASSUME NEW q \in Requests, Publish(q) PROVE FALSE
  BY <1>4 DEF Publish
<1>5. ~ Pruned /\ ~ Page /\ ~ EvictionFails /\ ~ Admit /\ ~ PublishFails /\ ~ Sweep
  BY DEF Pruned, Page, EvictionFails, Admit, PublishFails, Sweep
<1> QED
  BY <1>1, <1>2, <1>3, <1>4, <1>5 DEF QuotaNext

\* Whatever is published, evicted, failed or left behind, and for all sizes and
\* limits: the durable budget of quota.go is kept, and every version that goes
\* is one replaced or one whose eviction the settings call for.
THEOREM BudgetKeptCorrect == QuotaSpec => BudgetKept
<1>1. QuotaInv => WithinBudget
  BY DEF QuotaInv
<1>2. QuotaInv /\ [QuotaNext]_quotaVars => [EvictionEarned]_quotaVars
  BY EvictionStep
<1> QED
  BY QuotaInitially, QuotaStep, <1>1, <1>2, PTL DEF QuotaSpec, BudgetKept

------------------------------------------------------------------------------
(* The shutdown of the process, for any kinds of work: nothing is used after   *)
(* it was closed, and a process that keeps to its budgets leaves nothing under *)
(* way.                                                                        *)

AfterMesh == {"telemetry", "reconcile", "close", "storage wait", "logger", "exited"}
AfterLoop == {"node", "node wait"} \cup AfterMesh
AfterRequests == {"rescan", "loop"} \cup AfterLoop
AfterReconcile == {"close", "storage wait", "logger", "exited"}

LifeType ==
    /\ work \in [Workers -> {"off", "on", "op"}]
    /\ open \subseteq {"pebble", "index", "node"}
    /\ closer \in {"off", "operations", "metrics", "databases", "done"}
    /\ meshCloser \in {"off", "closing", "done"}
    /\ reader \in {"off", "idle", "storage", "storage done", "checked", "node"}
    /\ loop \in {"off", "idle", "cycle", "done"}
    /\ collector \in {"off", "idle", "collect", "prune", "done"}

\* The storage could not be opened, and nothing that uses it was started.
Unopened ==
    /\ place \notin {"recover", "unrecovered", "mesh", "server", "start", "listen", "ready"}
    /\ collector = "off" /\ closer = "off" /\ reader = "off" /\ loop = "off"
    /\ "storage" \notin has

\* The databases are open until the operations and the collector are done and
\* the metrics are unregistered.
Databases ==
    /\ {"pebble", "index"} \subseteq open \/ closer \in {"databases", "done"} \/ Unopened
    /\ closer # "off" => "storage" \in told
    /\ closer \in {"metrics", "databases", "done"} => (\A w \in Workers : work[w] # "op") /\ collector = "done"
    /\ closer = "databases" => "index" \in open
    /\ closer = "done" => open \subseteq {"node"}
    /\ closer # "off" /\ "storage" \in has => place \in {"storage wait", "logger", "exited"}
    /\ place \in {"storage", "recover", "mesh", "server", "start", "listen", "ready"} => closer = "off"
    /\ place \in {"storage", "recover", "unrecovered"} => "storage" \notin has
    /\ reader = "storage" => closer \notin {"databases", "done"}

\* The node is open from its start until no reader holds its lock.
Node ==
    /\ place \in {"server", "start", "listen", "ready"} => "node" \in open
    /\ place \in {"storage", "recover", "mesh", "server", "start"} => reader = "off"
    /\ reader # "off" => "node" \in open \/ meshCloser = "done"
    /\ reader = "node" => meshCloser # "done"
    /\ meshCloser # "off" => place \in AfterLoop \ {"node"}
    /\ "node" \in open => "mesh" \in has
    /\ meshCloser = "done" => "node" \notin open

\* Work is there only after the start of the loop, and what was awaited within
\* the budgets does not come back.
Drain ==
    /\ loop = "off" => \A w \in Workers : work[w] = "off"
    /\ loop # "cycle" => work["cycle"] = "off"
    /\ place \in {"storage", "recover", "unrecovered", "mesh", "server", "start", "listen"} => loop = "off"
    /\ place \in {"start", "listen", "ready"} => "server" \in has
    /\ "server" \notin has => loop = "off"
    /\ over = {} =>
           /\ place \in AfterRequests => work["request"] = "off"
           /\ place \in AfterLoop => loop \in {"off", "done"}
           /\ place \in AfterMesh => "node" \notin open
           /\ place \in AfterReconcile => work["reconcile"] = "off"
           /\ place \in {"logger", "exited"} /\ "storage" \in has => closer = "done"

LifeInv == LifeType /\ Databases /\ Node /\ Drain

\* The kinds of work that are named.
LEMMA WorkerNames ==
    "request" \in Workers /\ "session" \in Workers /\ "cycle" \in Workers /\ "reconcile" \in Workers
BY DEF Workers

\* The process begins with nothing built.
LEMMA InitInv == Init => LifeInv
BY DEF Init, LifeInv, LifeType, Databases, Node, Drain, Unopened, Workers, AfterMesh, AfterLoop, AfterRequests, AfterReconcile

\* The start, also one that fails half-way.
LEMMA StartingInv ==
    LifeInv /\ Starting => LifeInv'
<1> SUFFICES ASSUME LifeInv, Starting
             PROVE  LifeInv'
  OBVIOUS
<1> USE WorkerNames DEF LifeInv, runtime, background, AfterMesh, AfterLoop, AfterRequests, AfterReconcile
<1>1. CASE OpenStorage
  <2>1. LifeType'
    BY <1>1 DEF LifeType, OpenStorage
  <2>2. Databases'
    BY <1>1 DEF LifeType, Databases, Unopened, OpenStorage
  <2>3. Node'
    BY <1>1 DEF LifeType, Node, OpenStorage
  <2>4. Drain'
    BY <1>1 DEF LifeType, Databases, Node, Drain, OpenStorage
  <2> QED
    BY <2>1, <2>2, <2>3, <2>4
<1>2. CASE OpenStorageFails
  <2>1. LifeType'
    BY <1>2 DEF LifeType, OpenStorageFails
  <2>2. Databases'
    BY <1>2 DEF LifeType, Databases, Unopened, OpenStorageFails
  <2>3. Node'
    BY <1>2 DEF LifeType, Node, OpenStorageFails
  <2>4. Drain'
    BY <1>2 DEF LifeType, Databases, Node, Drain, OpenStorageFails
  <2> QED
    BY <2>1, <2>2, <2>3, <2>4
<1>3. CASE Recover
  <2>1. LifeType'
    BY <1>3 DEF LifeType, Recover
  <2>2. Databases'
    BY <1>3 DEF LifeType, Databases, Unopened, Recover
  <2>3. Node'
    BY <1>3 DEF LifeType, Node, Recover
  <2>4. Drain'
    BY <1>3 DEF LifeType, Databases, Node, Drain, Recover
  <2> QED
    BY <2>1, <2>2, <2>3, <2>4
<1>4. CASE RecoverFails
  <2>1. LifeType'
    BY <1>4 DEF LifeType, RecoverFails
  <2>2. Databases'
    BY <1>4 DEF LifeType, Databases, Unopened, RecoverFails
  <2>3. Node'
    BY <1>4 DEF LifeType, Node, RecoverFails
  <2>4. Drain'
    BY <1>4 DEF LifeType, Databases, Node, Drain, RecoverFails
  <2> QED
    BY <2>1, <2>2, <2>3, <2>4
<1>5. CASE RecoverClosed
  <2>1. LifeType'
    BY <1>5 DEF LifeType, RecoverClosed
  <2>2. Databases'
    BY <1>5 DEF LifeType, Databases, Unopened, RecoverClosed
  <2>3. Node'
    BY <1>5 DEF LifeType, Node, RecoverClosed
  <2>4. Drain'
    BY <1>5 DEF LifeType, Databases, Node, Drain, RecoverClosed
  <2> QED
    BY <2>1, <2>2, <2>3, <2>4
<1>6. CASE StartMesh
  <2>1. LifeType'
    BY <1>6 DEF LifeType, StartMesh
  <2>2. Databases'
    BY <1>6 DEF LifeType, Databases, Unopened, StartMesh
  <2>3. Node'
    BY <1>6 DEF LifeType, Node, StartMesh
  <2>4. Drain'
    BY <1>6 DEF LifeType, Databases, Node, Drain, StartMesh
  <2> QED
    BY <2>1, <2>2, <2>3, <2>4
<1>7. CASE BuildServer
  <2>1. LifeType'
    BY <1>7 DEF LifeType, BuildServer
  <2>2. Databases'
    BY <1>7 DEF LifeType, Databases, Unopened, BuildServer
  <2>3. Node'
    BY <1>7 DEF LifeType, Node, BuildServer
  <2>4. Drain'
    BY <1>7 DEF LifeType, Databases, Node, Drain, BuildServer
  <2> QED
    BY <2>1, <2>2, <2>3, <2>4
<1>8. CASE StartTelemetry
  <2>1. LifeType'
    BY <1>8 DEF LifeType, StartTelemetry
  <2>2. Databases'
    BY <1>8 DEF LifeType, Databases, Unopened, StartTelemetry
  <2>3. Node'
    BY <1>8 DEF LifeType, Node, StartTelemetry
  <2>4. Drain'
    BY <1>8 DEF LifeType, Databases, Node, Drain, StartTelemetry
  <2> QED
    BY <2>1, <2>2, <2>3, <2>4
<1>9. CASE StartListeners
  <2>1. LifeType'
    BY <1>9 DEF LifeType, StartListeners
  <2>2. Databases'
    BY <1>9 DEF LifeType, Databases, Unopened, StartListeners
  <2>3. Node'
    BY <1>9 DEF LifeType, Node, StartListeners
  <2>5. work'["cycle"] = "off" /\ work'["request"] = "off"
    <3>1. loop = "off" /\ \E state : work' = [work EXCEPT !["reconcile"] = state]
      BY <1>9 DEF Drain, StartListeners
    <3>2. work["cycle"] = "off" /\ work["request"] = "off"
      BY <3>1 DEF Drain
    <3> QED
      BY <3>1, <3>2 DEF LifeType
  <2>6. place' = "ready" /\ loop' = "idle" /\ "server" \in has /\ UNCHANGED <<over, has, open, closer, meshCloser>>
    BY <1>9 DEF Drain, StartListeners
  <2>4. Drain'
    BY <2>5, <2>6 DEF Node, Drain
  <2> QED
    BY <2>1, <2>2, <2>3, <2>4
<1>10. CASE StartListenersFails
  <2>1. LifeType'
    BY <1>10 DEF LifeType, StartListenersFails
  <2>2. Databases'
    BY <1>10 DEF LifeType, Databases, Unopened, StartListenersFails
  <2>3. Node'
    BY <1>10 DEF LifeType, Node, StartListenersFails
  <2>4. Drain'
    BY <1>10 DEF LifeType, Databases, Node, Drain, StartListenersFails
  <2> QED
    BY <2>1, <2>2, <2>3, <2>4
<1> QED
  BY <1>1, <1>2, <1>3, <1>4, <1>5, <1>6, <1>7, <1>8, <1>9, <1>10 DEF Starting

\* The shutdown: what is awaited is over, or a budget is used up.
LEMMA StoppingInv ==
    LifeInv /\ Stopping => LifeInv'
<1> SUFFICES ASSUME LifeInv, Stopping
             PROVE  LifeInv'
  OBVIOUS
<1> USE WorkerNames DEF LifeInv, runtime, background, AfterMesh, AfterLoop, AfterRequests, AfterReconcile
<1>1. CASE Stop
  <2>1. LifeType'
    BY <1>1 DEF LifeType, Stop
  <2>2. Databases'
    BY <1>1 DEF LifeType, Databases, Unopened, Stop
  <2>3. Node'
    BY <1>1 DEF LifeType, Node, Stop
  <2>4. Drain'
    BY <1>1 DEF LifeType, Databases, Node, Drain, Stop
  <2> QED
    BY <2>1, <2>2, <2>3, <2>4
<1>2. CASE StopSessions
  <2>1. LifeType'
    BY <1>2 DEF LifeType, StopSessions
  <2>2. Databases'
    BY <1>2 DEF LifeType, Databases, Unopened, StopSessions
  <2>3. Node'
    BY <1>2 DEF LifeType, Node, StopSessions
  <2>4. Drain'
    BY <1>2 DEF LifeType, Databases, Node, Drain, StopSessions
  <2> QED
    BY <2>1, <2>2, <2>3, <2>4
<1>3. CASE StopListeners
  <2>1. LifeType'
    BY <1>3 DEF LifeType, StopListeners
  <2>2. Databases'
    BY <1>3 DEF LifeType, Databases, Unopened, StopListeners
  <2>3. Node'
    BY <1>3 DEF LifeType, Node, StopListeners
  <2>4. Drain'
    BY <1>3 DEF LifeType, Databases, Node, Drain, StopListeners
  <2> QED
    BY <2>1, <2>2, <2>3, <2>4
<1>4. CASE RequestsDone
  <2>1. LifeType'
    BY <1>4 DEF LifeType, RequestsDone, Drained
  <2>2. Databases'
    BY <1>4 DEF LifeType, Databases, Unopened, RequestsDone, Drained
  <2>3. Node'
    BY <1>4 DEF LifeType, Node, RequestsDone, Drained
  <2>4. Drain'
    BY <1>4 DEF LifeType, Databases, Node, Drain, RequestsDone, Drained
  <2> QED
    BY <2>1, <2>2, <2>3, <2>4
<1>5. CASE StopRescan
  <2>1. LifeType'
    BY <1>5 DEF LifeType, StopRescan
  <2>2. Databases'
    BY <1>5 DEF LifeType, Databases, Unopened, StopRescan
  <2>3. Node'
    BY <1>5 DEF LifeType, Node, StopRescan
  <2>4. Drain'
    BY <1>5 DEF LifeType, Databases, Node, Drain, StopRescan
  <2> QED
    BY <2>1, <2>2, <2>3, <2>4
<1>6. CASE LoopDone
  <2>1. LifeType'
    BY <1>6 DEF LifeType, LoopDone, Drained
  <2>2. Databases'
    BY <1>6 DEF LifeType, Databases, Unopened, LoopDone, Drained
  <2>3. Node'
    BY <1>6 DEF LifeType, Node, LoopDone, Drained
  <2>4. Drain'
    BY <1>6 DEF LifeType, Databases, Node, Drain, LoopDone, Drained
  <2> QED
    BY <2>1, <2>2, <2>3, <2>4
<1>7. CASE StopMesh
  <2>1. LifeType'
    BY <1>7 DEF LifeType, StopMesh
  <2>2. Databases'
    BY <1>7 DEF LifeType, Databases, Unopened, StopMesh
  <2>3. Node'
    BY <1>7 DEF LifeType, Node, StopMesh
  <2>4. Drain'
    BY <1>7 DEF LifeType, Databases, Node, Drain, StopMesh
  <2> QED
    BY <2>1, <2>2, <2>3, <2>4
<1>8. CASE MeshDone
  <2>1. LifeType'
    BY <1>8 DEF LifeType, MeshDone, Drained
  <2>2. Databases'
    BY <1>8 DEF LifeType, Databases, Unopened, MeshDone, Drained
  <2>3. Node'
    BY <1>8 DEF LifeType, Node, MeshDone, Drained
  <2>4. Drain'
    BY <1>8 DEF LifeType, Databases, Node, Drain, MeshDone, Drained
  <2> QED
    BY <2>1, <2>2, <2>3, <2>4
<1>9. CASE StopTelemetry
  <2>1. LifeType'
    BY <1>9 DEF LifeType, StopTelemetry
  <2>2. Databases'
    BY <1>9 DEF LifeType, Databases, Unopened, StopTelemetry
  <2>3. Node'
    BY <1>9 DEF LifeType, Node, StopTelemetry
  <2>4. Drain'
    BY <1>9 DEF LifeType, Databases, Node, Drain, StopTelemetry
  <2> QED
    BY <2>1, <2>2, <2>3, <2>4
<1>10. CASE ReconcileDone
  <2>1. LifeType'
    BY <1>10 DEF LifeType, ReconcileDone, Drained
  <2>2. Databases'
    BY <1>10 DEF LifeType, Databases, Unopened, ReconcileDone, Drained
  <2>3. Node'
    BY <1>10 DEF LifeType, Node, ReconcileDone, Drained
  <2>4. Drain'
    BY <1>10 DEF LifeType, Databases, Node, Drain, ReconcileDone, Drained
  <2> QED
    BY <2>1, <2>2, <2>3, <2>4
<1>11. CASE CloseStorage
  <2>1. LifeType'
    BY <1>11 DEF LifeType, CloseStorage
  <2>2. Databases'
    BY <1>11 DEF LifeType, Databases, Unopened, CloseStorage
  <2>3. Node'
    BY <1>11 DEF LifeType, Node, CloseStorage
  <2>4. Drain'
    BY <1>11 DEF LifeType, Databases, Node, Drain, CloseStorage
  <2> QED
    BY <2>1, <2>2, <2>3, <2>4
<1>12. CASE StorageDone
  <2>1. LifeType'
    BY <1>12 DEF LifeType, StorageDone
  <2>2. Databases'
    BY <1>12 DEF LifeType, Databases, Unopened, StorageDone
  <2>3. Node'
    BY <1>12 DEF LifeType, Node, StorageDone
  <2>4. Drain'
    BY <1>12 DEF LifeType, Databases, Node, Drain, StorageDone
  <2> QED
    BY <2>1, <2>2, <2>3, <2>4
<1>13. CASE Exit
  <2>1. LifeType'
    BY <1>13 DEF LifeType, Exit
  <2>2. Databases'
    BY <1>13 DEF LifeType, Databases, Unopened, Exit
  <2>3. Node'
    BY <1>13 DEF LifeType, Node, Exit
  <2>4. Drain'
    BY <1>13 DEF LifeType, Databases, Node, Drain, Exit
  <2> QED
    BY <2>1, <2>2, <2>3, <2>4
<1> QED
  BY <1>1, <1>2, <1>3, <1>4, <1>5, <1>6, <1>7, <1>8, <1>9, <1>10, <1>11, <1>12, <1>13 DEF Stopping

\* The end of a budget.
LEMMA BudgetsInv ==
    LifeInv /\ Budgets => LifeInv'
<1> SUFFICES ASSUME LifeInv, Budgets
             PROVE  LifeInv'
  OBVIOUS
<1> USE WorkerNames DEF LifeInv, runtime, background, AfterMesh, AfterLoop, AfterRequests, AfterReconcile
<1>1. CASE DrainOver
  <2>1. LifeType'
    BY <1>1 DEF LifeType, DrainOver, Drained, ShuttingDown
  <2>2. Databases'
    BY <1>1 DEF LifeType, Databases, Unopened, DrainOver, Drained, ShuttingDown
  <2>3. Node'
    BY <1>1 DEF LifeType, Node, DrainOver, Drained, ShuttingDown
  <2>4. Drain'
    BY <1>1 DEF LifeType, Databases, Node, Drain, DrainOver, Drained, ShuttingDown
  <2> QED
    BY <2>1, <2>2, <2>3, <2>4
<1>2. CASE StorageOver
  <2>1. LifeType'
    BY <1>2 DEF LifeType, StorageOver
  <2>2. Databases'
    BY <1>2 DEF LifeType, Databases, Unopened, StorageOver
  <2>3. Node'
    BY <1>2 DEF LifeType, Node, StorageOver
  <2>4. Drain'
    BY <1>2 DEF LifeType, Databases, Node, Drain, StorageOver
  <2> QED
    BY <2>1, <2>2, <2>3, <2>4
<1> QED
  BY <1>1, <1>2 DEF Budgets

\* The closing of the databases and of the node in the background.
LEMMA ClosingInv ==
    LifeInv /\ Closing => LifeInv'
<1> SUFFICES ASSUME LifeInv, Closing
             PROVE  LifeInv'
  OBVIOUS
<1> USE WorkerNames DEF LifeInv, runtime, background, AfterMesh, AfterLoop, AfterRequests, AfterReconcile
<1>1. CASE OperationsDone
  <2>1. LifeType'
    BY <1>1 DEF LifeType, OperationsDone, Quiet
  <2>2. Databases'
    BY <1>1 DEF LifeType, Databases, Unopened, OperationsDone, Quiet
  <2>3. Node'
    BY <1>1 DEF LifeType, Node, OperationsDone, Quiet
  <2>4. Drain'
    BY <1>1 DEF LifeType, Databases, Node, Drain, OperationsDone, Quiet
  <2> QED
    BY <2>1, <2>2, <2>3, <2>4
<1>2. CASE Unregister
  <2>1. LifeType'
    BY <1>2 DEF LifeType, Unregister
  <2>2. Databases'
    BY <1>2 DEF LifeType, Databases, Unopened, Unregister
  <2>3. Node'
    BY <1>2 DEF LifeType, Node, Unregister
  <2>4. Drain'
    BY <1>2 DEF LifeType, Databases, Node, Drain, Unregister
  <2> QED
    BY <2>1, <2>2, <2>3, <2>4
<1>3. CASE CloseDatabase
  <2>1. LifeType'
    BY <1>3 DEF LifeType, CloseDatabase
  <2>2. Databases'
    BY <1>3 DEF LifeType, Databases, Unopened, CloseDatabase
  <2>3. Node'
    BY <1>3 DEF LifeType, Node, CloseDatabase
  <2>4. Drain'
    BY <1>3 DEF LifeType, Databases, Node, Drain, CloseDatabase
  <2> QED
    BY <2>1, <2>2, <2>3, <2>4
<1>4. CASE CloseNode
  <2>1. LifeType'
    BY <1>4 DEF LifeType, CloseNode
  <2>2. Databases'
    BY <1>4 DEF LifeType, Databases, Unopened, CloseNode
  <2>3. Node'
    BY <1>4 DEF LifeType, Node, CloseNode
  <2>4. Drain'
    BY <1>4 DEF LifeType, Databases, Node, Drain, CloseNode
  <2> QED
    BY <2>1, <2>2, <2>3, <2>4
<1> QED
  BY <1>1, <1>2, <1>3, <1>4 DEF Closing

\* Requests, sessions, the reconcile, and their operations.
LEMMA WorkInv ==
    LifeInv /\ (Signal \/ RequestArrives \/ SessionBegins \/ (\E w \in Workers : BeginOperation(w)) \/ Ending) => LifeInv'
<1> SUFFICES ASSUME LifeInv, Signal \/ RequestArrives \/ SessionBegins \/ (\E w \in Workers : BeginOperation(w)) \/ Ending
             PROVE  LifeInv'
  OBVIOUS
<1> USE WorkerNames DEF LifeInv, runtime, background, AfterMesh, AfterLoop, AfterRequests, AfterReconcile
<1>1. CASE Signal
  <2>1. LifeType'
    BY <1>1 DEF LifeType, Signal
  <2>2. Databases'
    BY <1>1 DEF LifeType, Databases, Unopened, Signal
  <2>3. Node'
    BY <1>1 DEF LifeType, Node, Signal
  <2>4. Drain'
    BY <1>1 DEF LifeType, Databases, Node, Drain, Signal
  <2> QED
    BY <2>1, <2>2, <2>3, <2>4
<1>2. CASE RequestArrives
  <2>1. LifeType'
    BY <1>2 DEF LifeType, RequestArrives, Serving
  <2>2. Databases'
    BY <1>2 DEF LifeType, Databases, Unopened, RequestArrives, Serving
  <2>3. Node'
    BY <1>2 DEF LifeType, Node, RequestArrives, Serving
  <2>4. Drain'
    BY <1>2 DEF LifeType, Databases, Node, Drain, RequestArrives, Serving
  <2> QED
    BY <2>1, <2>2, <2>3, <2>4
<1>3. CASE SessionBegins
  <2>1. LifeType'
    BY <1>3 DEF LifeType, SessionBegins, Serving
  <2>2. Databases'
    BY <1>3 DEF LifeType, Databases, Unopened, SessionBegins, Serving
  <2>3. Node'
    BY <1>3 DEF LifeType, Node, SessionBegins, Serving
  <2>4. Drain'
    BY <1>3 DEF LifeType, Databases, Node, Drain, SessionBegins, Serving
  <2> QED
    BY <2>1, <2>2, <2>3, <2>4
<1>4. ASSUME NEW w \in Workers, BeginOperation(w) PROVE LifeInv'
  <2>1. LifeType'
    BY <1>4 DEF LifeType, BeginOperation
  <2>2. Databases'
    BY <1>4 DEF LifeType, Databases, Unopened, BeginOperation
  <2>3. Node'
    BY <1>4 DEF LifeType, Node, BeginOperation
  <2>4. Drain'
    BY <1>4 DEF LifeType, Databases, Node, Drain, BeginOperation
  <2> QED
    BY <2>1, <2>2, <2>3, <2>4
<1>5. ASSUME NEW w \in Workers, EndOperation(w) PROVE LifeInv'
  <2>1. LifeType'
    BY <1>5 DEF LifeType, EndOperation
  <2>2. Databases'
    BY <1>5 DEF LifeType, Databases, Unopened, EndOperation
  <2>3. Node'
    BY <1>5 DEF LifeType, Node, EndOperation
  <2>4. Drain'
    BY <1>5 DEF LifeType, Databases, Node, Drain, EndOperation
  <2> QED
    BY <2>1, <2>2, <2>3, <2>4
<1>6. ASSUME NEW w \in Workers, EndWork(w) PROVE LifeInv'
  <2>1. LifeType'
    BY <1>6 DEF LifeType, EndWork
  <2>2. Databases'
    BY <1>6 DEF LifeType, Databases, Unopened, EndWork
  <2>3. Node'
    BY <1>6 DEF LifeType, Node, EndWork
  <2>4. Drain'
    BY <1>6 DEF LifeType, Databases, Node, Drain, EndWork
  <2> QED
    BY <2>1, <2>2, <2>3, <2>4
<1> QED
  BY <1>1, <1>2, <1>3, <1>4, <1>5, <1>6 DEF Ending

\* The loops of the supervisor and of the collector.
LEMMA LoopsInv ==
    LifeInv /\ (CycleTick \/ CycleTrigger \/ CycleEnds \/ LoopEnds
               \/ CollectorTick \/ CollectorTrigger \/ CollectorStep \/ CollectorEnds) => LifeInv'
<1> SUFFICES ASSUME LifeInv, CycleTick \/ CycleTrigger \/ CycleEnds \/ LoopEnds
               \/ CollectorTick \/ CollectorTrigger \/ CollectorStep \/ CollectorEnds
             PROVE  LifeInv'
  OBVIOUS
<1> USE WorkerNames DEF LifeInv, runtime, background, AfterMesh, AfterLoop, AfterRequests, AfterReconcile
<1>1. CASE CycleTick
  <2>1. LifeType'
    BY <1>1 DEF LifeType, CycleTick
  <2>2. Databases'
    BY <1>1 DEF LifeType, Databases, Unopened, CycleTick
  <2>3. Node'
    BY <1>1 DEF LifeType, Node, CycleTick
  <2>4. Drain'
    BY <1>1 DEF LifeType, Databases, Node, Drain, CycleTick
  <2> QED
    BY <2>1, <2>2, <2>3, <2>4
<1>2. CASE CycleTrigger
  <2>1. LifeType'
    BY <1>2 DEF LifeType, CycleTrigger
  <2>2. Databases'
    BY <1>2 DEF LifeType, Databases, Unopened, CycleTrigger
  <2>3. Node'
    BY <1>2 DEF LifeType, Node, CycleTrigger
  <2>4. Drain'
    BY <1>2 DEF LifeType, Databases, Node, Drain, CycleTrigger
  <2> QED
    BY <2>1, <2>2, <2>3, <2>4
<1>3. CASE CycleEnds
  <2>1. LifeType'
    BY <1>3 DEF LifeType, CycleEnds
  <2>2. Databases'
    BY <1>3 DEF LifeType, Databases, Unopened, CycleEnds
  <2>3. Node'
    BY <1>3 DEF LifeType, Node, CycleEnds
  <2>4. Drain'
    BY <1>3 DEF LifeType, Databases, Node, Drain, CycleEnds
  <2> QED
    BY <2>1, <2>2, <2>3, <2>4
<1>4. CASE LoopEnds
  <2>1. LifeType'
    BY <1>4 DEF LifeType, LoopEnds
  <2>2. Databases'
    BY <1>4 DEF LifeType, Databases, Unopened, LoopEnds
  <2>3. Node'
    BY <1>4 DEF LifeType, Node, LoopEnds
  <2>4. Drain'
    BY <1>4 DEF LifeType, Databases, Node, Drain, LoopEnds
  <2> QED
    BY <2>1, <2>2, <2>3, <2>4
<1>5. CASE CollectorTick
  <2>1. LifeType'
    BY <1>5 DEF LifeType, CollectorTick, Collect
  <2>2. Databases'
    BY <1>5 DEF LifeType, Databases, Unopened, CollectorTick, Collect
  <2>3. Node'
    BY <1>5 DEF LifeType, Node, CollectorTick, Collect
  <2>4. Drain'
    BY <1>5 DEF LifeType, Databases, Node, Drain, CollectorTick, Collect
  <2> QED
    BY <2>1, <2>2, <2>3, <2>4
<1>6. CASE CollectorTrigger
  <2>1. LifeType'
    BY <1>6 DEF LifeType, CollectorTrigger, Collect
  <2>2. Databases'
    BY <1>6 DEF LifeType, Databases, Unopened, CollectorTrigger, Collect
  <2>3. Node'
    BY <1>6 DEF LifeType, Node, CollectorTrigger, Collect
  <2>4. Drain'
    BY <1>6 DEF LifeType, Databases, Node, Drain, CollectorTrigger, Collect
  <2> QED
    BY <2>1, <2>2, <2>3, <2>4
<1>7. CASE CollectorStep
  <2>1. LifeType'
    BY <1>7 DEF LifeType, CollectorStep
  <2>2. Databases'
    BY <1>7 DEF LifeType, Databases, Unopened, CollectorStep
  <2>3. Node'
    BY <1>7 DEF LifeType, Node, CollectorStep
  <2>4. Drain'
    BY <1>7 DEF LifeType, Databases, Node, Drain, CollectorStep
  <2> QED
    BY <2>1, <2>2, <2>3, <2>4
<1>8. CASE CollectorEnds
  <2>1. LifeType'
    BY <1>8 DEF LifeType, CollectorEnds
  <2>2. Databases'
    BY <1>8 DEF LifeType, Databases, Unopened, CollectorEnds
  <2>3. Node'
    BY <1>8 DEF LifeType, Node, CollectorEnds
  <2>4. Drain'
    BY <1>8 DEF LifeType, Databases, Node, Drain, CollectorEnds
  <2> QED
    BY <2>1, <2>2, <2>3, <2>4
<1> QED
  BY <1>1, <1>2, <1>3, <1>4, <1>5, <1>6, <1>7, <1>8

\* The collections of metrics.
LEMMA ReadingInv ==
    LifeInv /\ Reading => LifeInv'
<1> SUFFICES ASSUME LifeInv, Reading
             PROVE  LifeInv'
  OBVIOUS
<1> USE WorkerNames DEF LifeInv, runtime, background, AfterMesh, AfterLoop, AfterRequests, AfterReconcile
<1>1. CASE CollectMetrics
  <2>1. LifeType'
    BY <1>1 DEF LifeType, CollectMetrics
  <2>2. Databases'
    BY <1>1 DEF LifeType, Databases, Unopened, CollectMetrics
  <2>3. Node'
    BY <1>1 DEF LifeType, Node, CollectMetrics
  <2>4. Drain'
    BY <1>1 DEF LifeType, Databases, Node, Drain, CollectMetrics
  <2> QED
    BY <2>1, <2>2, <2>3, <2>4
<1>2. CASE ReadStorage
  <2>1. LifeType'
    BY <1>2 DEF LifeType, ReadStorage
  <2>2. Databases'
    BY <1>2 DEF LifeType, Databases, Unopened, ReadStorage
  <2>3. Node'
    BY <1>2 DEF LifeType, Node, ReadStorage
  <2>4. Drain'
    BY <1>2 DEF LifeType, Databases, Node, Drain, ReadStorage
  <2> QED
    BY <2>1, <2>2, <2>3, <2>4
<1>3. CASE CheckNode
  <2>1. LifeType'
    BY <1>3 DEF LifeType, CheckNode
  <2>2. Databases'
    BY <1>3 DEF LifeType, Databases, Unopened, CheckNode
  <2>3. Node'
    BY <1>3 DEF LifeType, Node, CheckNode
  <2>4. Drain'
    BY <1>3 DEF LifeType, Databases, Node, Drain, CheckNode
  <2> QED
    BY <2>1, <2>2, <2>3, <2>4
<1>4. CASE LockNode
  <2>1. LifeType'
    BY <1>4 DEF LifeType, LockNode
  <2>2. Databases'
    BY <1>4 DEF LifeType, Databases, Unopened, LockNode
  <2>3. Node'
    BY <1>4 DEF LifeType, Node, LockNode
  <2>4. Drain'
    BY <1>4 DEF LifeType, Databases, Node, Drain, LockNode
  <2> QED
    BY <2>1, <2>2, <2>3, <2>4
<1>5. CASE ReadNode
  <2>1. LifeType'
    BY <1>5 DEF LifeType, ReadNode
  <2>2. Databases'
    BY <1>5 DEF LifeType, Databases, Unopened, ReadNode
  <2>3. Node'
    BY <1>5 DEF LifeType, Node, ReadNode
  <2>4. Drain'
    BY <1>5 DEF LifeType, Databases, Node, Drain, ReadNode
  <2> QED
    BY <2>1, <2>2, <2>3, <2>4
<1> QED
  BY <1>1, <1>2, <1>3, <1>4, <1>5 DEF Reading

\* Every step keeps the invariant.
LEMMA NextInv == LifeInv /\ [Next]_vars => LifeInv'
<1> SUFFICES ASSUME LifeInv, [Next]_vars
             PROVE  LifeInv'
  OBVIOUS
<1>1. CASE Next
  BY <1>1, StartingInv, StoppingInv, BudgetsInv, ClosingInv, WorkInv, LoopsInv, ReadingInv DEF Next
<1>2. CASE UNCHANGED vars
  <2> USE <1>2 DEF vars
  <2>1. LifeType'
    BY DEF LifeInv, LifeType
  <2>2. Databases'
    BY DEF LifeInv, Databases, Unopened
  <2>3. Node'
    BY DEF LifeInv, Node
  <2>4. Drain'
    BY DEF LifeInv, Drain
  <2> QED
    BY <2>1, <2>2, <2>3, <2>4 DEF LifeInv
<1> QED
  BY <1>1, <1>2

LEMMA Invariance == Spec => []LifeInv
BY InitInv, NextInv, PTL DEF Spec

\* Nobody uses a database or the node after it was closed: Close may give up
\* waiting, but the databases are closed by a goroutine that does not.
THEOREM OpenInUseCorrect == Spec => []OpenInUse
<1>1. LifeInv => OpenInUse
  <2> SUFFICES ASSUME LifeInv
               PROVE  OpenInUse
    OBVIOUS
  <2>1. ASSUME (\E w \in Workers : work[w] = "op") \/ collector \in {"collect", "prune"}
        PROVE  {"pebble", "index"} \subseteq open
    BY <2>1 DEF LifeInv, LifeType, Databases, Drain, Unopened
  <2>2. reader = "storage" => "pebble" \in open
    BY DEF LifeInv, LifeType, Databases, Unopened
  <2>3. reader = "node" => "node" \in open
    BY DEF LifeInv, Node
  <2> QED
    BY <2>1, <2>2, <2>3 DEF OpenInUse
<1> QED
  BY <1>1, Invariance, PTL

\* A process that had its storage and kept to its budgets ends with nothing
\* under way (the order of the parts in shutdown of src/runtime.go).
THEOREM OrderlyExitCorrect == Spec => []OrderlyExit
<1>1. LifeInv => OrderlyExit
  BY DEF LifeInv, LifeType, Databases, Node, Drain, Workers, OrderlyExit,
         AfterMesh, AfterLoop, AfterRequests, AfterReconcile
<1> QED
  BY <1>1, Invariance, PTL
==============================================================================
