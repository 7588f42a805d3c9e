------------------------- MODULE DurableStoreProofs -------------------------
(***************************************************************************)
(* Proofs about DurableStore, for every set of keys, names, trees and      *)
(* blobs and every interleaving: type correctness, exact reference counts, *)
(* and no dangling version; the history, and the catalogue implemented.   *)
(***************************************************************************)
EXTENDS DurableStore, FiniteSetTheorems, TLAPS

TableType == [RowIds -> Trees \cup {NoTree}]

-----------------------------------------------------------------------------
(* Reference sets and their cardinality.                                   *)

\* The blobs of a tree are blobs, and the tree is not one of them.
LEMMA TreeBlobsType ==
    ASSUME NEW t \in Trees
    PROVE  /\ TreeBlobs(t) \subseteq Blobs
           /\ TreeObjects(t) \subseteq Objects
BY ConstantsAssumption DEF TreeBlobs, TreeObjects, Objects

\* The paths of a tree that hold a blob are finitely many.
LEMMA CountBlobRefsType ==
    ASSUME NEW t \in Trees \cup {NoTree}, NEW b
    PROVE  /\ CountBlobRefs(t, b) \in Nat
           /\ t = NoTree => CountBlobRefs(t, b) = 0
<1> DEFINE P == {p \in Paths : TreeAt[t][p] = b}
<1>1. IsFiniteSet(P)
  BY FiniteAssumption, FS_Subset
<1>2. Cardinality(P) \in Nat
  BY <1>1, FS_CardinalityType
<1> QED
  BY <1>2 DEF CountBlobRefs

\* A tree counts a blob exactly when it holds it.
LEMMA CountBlobRefsZero ==
    ASSUME NEW t \in Trees, NEW b \in Blobs
    PROVE  b \notin TreeBlobs(t) => CountBlobRefs(t, b) = 0
<1> SUFFICES ASSUME b \notin TreeBlobs(t)
             PROVE  CountBlobRefs(t, b) = 0
  OBVIOUS
<1>1. {p \in Paths : TreeAt[t][p] = b} = {}
  BY ConstantsAssumption DEF TreeBlobs
<1>2. t # NoTree
  BY ConstantsAssumption
<1> QED
  BY <1>1, <1>2, FS_EmptySet DEF CountBlobRefs

\* The index has finitely many rows.
LEMMA RowIdsFinite == IsFiniteSet(RowIds)
<1>1. IsFiniteSet(HistTags)
  BY ConstantsAssumption, FS_Interval DEF HistTags
<1>2. IsFiniteSet(Tags)
  BY <1>1, FiniteAssumption, FS_Union DEF Tags
<1> QED
  BY <1>2, FiniteAssumption, FS_Product DEF RowIds

\* A blob is named by finitely many (row, path) pairs.
LEMMA RefSetFinite ==
    ASSUME NEW f, NEW b
    PROVE  /\ IsFiniteSet(RefSet(f, b))
           /\ Cardinality(RefSet(f, b)) \in Nat
<1>1. IsFiniteSet(RowIds \X Paths)
  BY RowIdsFinite, FiniteAssumption, FS_Product
<1>2. RefSet(f, b) \in SUBSET (RowIds \X Paths)
  BY DEF RefSet
<1>3. IsFiniteSet(RefSet(f, b))
  BY <1>1, <1>2, FS_Subset
<1> QED
  BY <1>3, FS_CardinalityType

\* The references of one row are counted by CountBlobRefs.
RowRefs(f, r, b) == {x \in RefSet(f, b) : x[1] = r}

\* One row names a blob as often as CountBlobRefs counts.
LEMMA RowRefsCount ==
    ASSUME NEW f \in TableType, NEW r \in RowIds, NEW b \in Blobs
    PROVE  /\ IsFiniteSet(RowRefs(f, r, b))
           /\ Cardinality(RowRefs(f, r, b)) = CountBlobRefs(f[r], b)
<1> DEFINE P == {p \in Paths : TreeAt[f[r]][p] = b}
<1>1. IsFiniteSet(P)
  BY FiniteAssumption, FS_Subset
<1>2. Cardinality(P) \in Nat
  BY <1>1, FS_CardinalityType
<1>3. CASE f[r] = NoTree
  <2>1. RowRefs(f, r, b) = {}
    BY <1>3 DEF RowRefs, RefSet
  <2> QED
    BY <2>1, <1>3, FS_EmptySet DEF CountBlobRefs
<1>4. CASE f[r] # NoTree
  <2>1. RowRefs(f, r, b) = {r} \X P
    BY <1>4 DEF RowRefs, RefSet
  <2>2. IsFiniteSet({r}) /\ Cardinality({r}) = 1
    BY FS_Singleton
  <2>3. IsFiniteSet({r} \X P) /\ Cardinality({r} \X P) = 1 * Cardinality(P)
    BY <1>1, <2>2, FS_Product
  <2>4. CountBlobRefs(f[r], b) = Cardinality(P)
    BY <1>4 DEF CountBlobRefs
  <2> QED
    BY <1>2, <2>1, <2>3, <2>4
<1> QED
  BY <1>3, <1>4

\* Changing one row changes the number of references to a blob by the
\* difference of the two trees' counts.
LEMMA RefSetUpdate ==
    ASSUME NEW f \in TableType, NEW r \in RowIds, NEW b \in Blobs,
           NEW t \in Trees \cup {NoTree}
    PROVE  Cardinality(RefSet([f EXCEPT ![r] = t], b))
             = Cardinality(RefSet(f, b)) - CountBlobRefs(f[r], b) + CountBlobRefs(t, b)
<1> DEFINE g == [f EXCEPT ![r] = t]
           F == RefSet(f, b)
           G == RefSet(g, b)
           FPart == RowRefs(f, r, b)
           GPart == RowRefs(g, r, b)
<1>1. g \in TableType /\ g[r] = t
  BY DEF TableType
<1>2. IsFiniteSet(FPart) /\ Cardinality(FPart) = CountBlobRefs(f[r], b)
  BY RowRefsCount
<1>3. IsFiniteSet(GPart) /\ Cardinality(GPart) = CountBlobRefs(t, b)
  BY <1>1, RowRefsCount
<1>4. F \ FPart = G \ GPart
  BY DEF RowRefs, RefSet, TableType
<1>5. F \cap FPart = FPart /\ G \cap GPart = GPart
  BY DEF RowRefs
<1>6. Cardinality(F \ FPart) = Cardinality(F) - Cardinality(FPart)
  BY <1>5, RefSetFinite, FS_Difference
<1>7. Cardinality(G \ GPart) = Cardinality(G) - Cardinality(GPart)
  BY <1>5, RefSetFinite, FS_Difference
<1>8. /\ Cardinality(F) \in Nat
      /\ Cardinality(G) \in Nat
      /\ CountBlobRefs(f[r], b) \in Nat
      /\ CountBlobRefs(t, b) \in Nat
  BY RefSetFinite, CountBlobRefsType DEF TableType
<1>9. Cardinality(F) - Cardinality(FPart) = Cardinality(G) - Cardinality(GPart)
  BY <1>4, <1>6, <1>7
<1>10. Cardinality(F) - CountBlobRefs(f[r], b) = Cardinality(G) - CountBlobRefs(t, b)
  BY <1>2, <1>3, <1>9
<1> HIDE DEF F, G
<1> QED
  BY <1>8, <1>10 DEF F, G

-----------------------------------------------------------------------------
(* Type correctness.                                                       *)

\* What the writer holds at each point of its program.
Control ==
    /\ pc \in {"budget", "write", "commit", "fail"} => row \in RowIds /\ new \in Trees
    /\ pc = "key" => row \in RowIds
    /\ pc = "refs" => old \in Trees
    /\ ret # "idle" => pc \in {"refs", "objs"} /\ row \in RowIds
    /\ ret = "budget" => new \in Trees
    /\ left # {} => pc \in {"write", "fail"}

TypeInv == TypeOK /\ Control

\* Adding the references of a tree keeps the counts natural numbers.
LEMMA AddBlobRefsType ==
    ASSUME NEW f \in [Blobs -> Nat], NEW t \in Trees
    PROVE  AddBlobRefs(f, t) \in [Blobs -> Nat]
BY CountBlobRefsType DEF AddBlobRefs

\* The guard of SubtractBlobRefs keeps refcounts natural.
LEMMA SubtractBlobRefsType ==
    ASSUME TypeOK, NEW t \in Trees, NoUnderflow(t)
    PROVE  SubtractBlobRefs(refs, t) \in [Blobs -> Nat]
<1> SUFFICES ASSUME NEW b \in Blobs
             PROVE  refs[b] - CountBlobRefs(t, b) \in Nat
  BY DEF SubtractBlobRefs
<1>1. refs[b] \in Nat /\ CountBlobRefs(t, b) \in Nat
  BY CountBlobRefsType DEF TypeOK
<1>2. CASE b \in TreeBlobs(t)
  BY <1>1, <1>2 DEF NoUnderflow
<1>3. CASE b \notin TreeBlobs(t)
  BY <1>1, <1>3, CountBlobRefsZero
<1> QED
  BY <1>2, <1>3

\* A nonempty set of naturals with an upper bound has a largest element.
LEMMA LargestNatural ==
    ASSUME NEW S \in SUBSET Nat, S # {}, NEW u \in Nat, \A n \in S : n <= u
    PROVE  \E m \in S : \A n \in S : n <= m
<1> DEFINE T == {u - n : n \in S}
           R == OpToRel(<, Nat)
<1>1. T \subseteq Nat /\ T # {}
  <2>1. \A n \in S : n \in Nat /\ u - n \in Nat
    OBVIOUS
  <2> QED
    BY <2>1
<1>2. \E x \in T : \A y \in T : ~ (<<y, x>> \in R)
  <2>1. IsWellFoundedOn(R, Nat)
    BY NatLessThanWellFounded
  <2> HIDE DEF R, T
  <2> QED
    BY <1>1, <2>1, WFMin
<1>3. \E x \in T : \A y \in T : ~ (y < x)
  BY <1>1, <1>2 DEF OpToRel
<1>4. PICK x \in T : \A y \in T : ~ (y < x)
  BY <1>3
<1>5. PICK m \in S : x = u - m
  BY <1>4
<1>6. ASSUME NEW n \in S
      PROVE  n <= m
  <2>1. ~ (u - n < u - m)
    BY <1>4, <1>5
  <2>2. n \in Nat /\ m \in Nat
    OBVIOUS
  <2> QED
    BY <2>1, <2>2
<1> QED
  BY <1>6

\* The next historical tag is a positive number, at most one more than the
\* last tag.
LEMMA NextHistoricalVersionType ==
    ASSUME TypeOK
    PROVE  NextHistoricalVersion \in 1..(MaxHist + 1)
<1>1. HistoricalTags \in SUBSET Nat /\ \A n \in HistoricalTags : 1 <= n /\ n <= MaxHist
  BY ConstantsAssumption DEF HistoricalTags, HistTags
<1>2. CASE histNext # 0
  BY <1>2, ConstantsAssumption DEF NextHistoricalVersion, TypeOK
<1>3. CASE histNext = 0 /\ HistoricalTags = {}
  BY <1>3, ConstantsAssumption DEF NextHistoricalVersion
<1>4. CASE histNext = 0 /\ HistoricalTags # {}
  <2>1. \E m \in HistoricalTags : \A n \in HistoricalTags : n <= m
    BY <1>1, <1>4, LargestNatural, ConstantsAssumption
  <2> DEFINE m == CHOOSE m \in HistoricalTags : \A n \in HistoricalTags : n <= m
  <2>2. m \in HistoricalTags
    BY <2>1
  <2>3. NextHistoricalVersion = 1 + m
    BY <1>4 DEF NextHistoricalVersion
  <2> HIDE DEF m
  <2> QED
    BY <1>1, <2>2, <2>3, ConstantsAssumption
<1> QED
  BY <1>2, <1>3, <1>4

\* The empty store has its types and its control states.
LEMMA TypeInvInit == Init => TypeInv
BY ConstantsAssumption DEF Init, TypeInv, TypeOK, Control, Jobs

\* Every step of the store keeps them.
LEMMA TypeInvNext == TypeInv /\ [Next]_vars => TypeInv'
<1> SUFFICES ASSUME TypeInv, [Next]_vars
             PROVE  TypeInv'
  OBVIOUS
<1> USE DEF TypeInv, TypeOK, Control
<1>1. CASE UNCHANGED vars
  BY <1>1 DEF vars
<1>2. ASSUME NEW k \in Keys, NEW tag \in Names \cup BrotherTags, NEW t \in Trees,
             Stage(k, tag, t)
      PROVE  TypeInv'
  BY <1>2, TreeBlobsType DEF Stage, FilterMissingBlobs, Jobs, index, pebble, writer, gc
<1>3. ASSUME NEW k \in Keys, Abandon(k)
      PROVE  TypeInv'
  BY <1>3 DEF Abandon, index, pebble, writer, gc
<1>4. ASSUME NEW k \in Keys, PublishBegin(k)
      PROVE  TypeInv'
  <2>1. jobs[k] \in Jobs
    BY <1>4 DEF PublishBegin
  <2>2. jobs[k].tag \in Tags /\ jobs[k].tree \in Trees /\ jobs[k].staged \subseteq Blobs
    BY <2>1, ConstantsAssumption DEF Jobs, Tags
  <2>3. PendingObjects(jobs[k]) \subseteq Objects
    BY <2>2 DEF PendingObjects, Objects
  <2>4. <<k, jobs[k].tag>> \in RowIds
    BY <2>2 DEF RowIds
  <2> QED
    BY <1>4, <2>2, <2>3, <2>4 DEF PublishBegin, index, pebble, writer, gc
<1>5. ASSUME NEW k \in Keys, PublishReject(k)
      PROVE  TypeInv'
  BY <1>5 DEF PublishReject, index, pebble, writer, gc
<1>6. ASSUME NEW r \in RowIds, NEW resume \in {"idle", "budget", "key"},
             DeleteVersionTx(r, resume), pc = resume,
             resume # "idle" => row \in RowIds,
             resume = "budget" => new \in Trees
      PROVE  TypeInv'
  <2>1. tree[r] \in Trees /\ NoUnderflow(tree[r])
    BY <1>6 DEF DeleteVersionTx
  <2>2. refs' \in [Blobs -> Nat]
    BY <1>6, <2>1, SubtractBlobRefsType DEF DeleteVersionTx
  <2> QED
    BY <1>6, <2>1, <2>2 DEF DeleteVersionTx, pebble, gc
<1>7. ASSUME NEW r \in RowIds, EvictVersion(r)
      PROVE  TypeInv'
  BY <1>6, <1>7 DEF EvictVersion
<1>8. ASSUME NEW r \in RowIds, DeleteKeyNext(r)
      PROVE  TypeInv'
  BY <1>6, <1>8 DEF DeleteKeyNext
<1>9. ASSUME NEW r \in RowIds, DeleteVersion(r)
      PROVE  TypeInv'
  BY <1>6, <1>9 DEF DeleteVersion
<1>10. ASSUME NEW r \in RowIds, DeleteKeyBegin(r)
       PROVE  TypeInv'
  BY <1>10 DEF DeleteKeyBegin, index, pebble, gc
<1>11. CASE BudgetReject \/ CommitSkip \/ DeleteKeyEnd
  BY <1>11 DEF BudgetReject, CommitSkip, DeleteKeyEnd, Unlock, index, pebble, gc
<1>12. CASE BudgetAdmit \/ WriteError \/ CommitError
  BY <1>12 DEF BudgetAdmit, WriteError, CommitError, index, pebble, gc
<1>13. ASSUME NEW batch \in SUBSET left, WriteBatch(batch)
       PROVE  TypeInv'
  BY <1>13 DEF WriteBatch, index, gc
<1>14. CASE WriteLast
  BY <1>14 DEF WriteLast, SyncedBy, index, gc
<1>15. CASE CommitFirst
  <2>1. new \in Trees /\ row \in RowIds
    BY <1>15 DEF CommitFirst
  <2>2. refs' \in [Blobs -> Nat] /\ refRows' \subseteq Blobs
    BY <1>15, <2>1, AddBlobRefsType, TreeBlobsType DEF CommitFirst
  <2> QED
    BY <1>15, <2>1, <2>2 DEF CommitFirst, Unlock, pebble, gc
<1>16. CASE CommitHistory
  <2>1. new \in Trees /\ row \in RowIds
    BY <1>16 DEF CommitHistory
  <2>2. refs' \in [Blobs -> Nat] /\ refRows' \subseteq Blobs
    BY <1>16, <2>1, AddBlobRefsType, TreeBlobsType DEF CommitHistory
  <2>3. tree' \in [RowIds -> Trees \cup {NoTree}]
    BY <1>16, <2>1 DEF CommitHistory
  <2>4. histNext' \in 0..(MaxHist + 1)
    BY <1>16, ConstantsAssumption DEF CommitHistory, HistTags
  <2> QED
    BY <1>16, <2>1, <2>2, <2>3, <2>4 DEF CommitHistory, Unlock, pebble, gc
<1>17. CASE CommitOverwrite
  <2>1. new \in Trees /\ row \in RowIds /\ tree[row] \in Trees
    BY <1>17 DEF CommitOverwrite
  <2>2. refs' \in [Blobs -> Nat] /\ refRows' \subseteq Blobs
    BY <1>17, <2>1, SubtractBlobRefsType, AddBlobRefsType, TreeBlobsType DEF CommitOverwrite
  <2> QED
    BY <1>17, <2>1, <2>2 DEF CommitOverwrite, pebble, gc
<1>18. CASE CleanupPublishFailure
  BY <1>18 DEF CleanupPublishFailure, Unlock, SyncedBy, index, gc
<1>19. CASE CleanupPublishFailureError
  BY <1>19 DEF CleanupPublishFailureError, Unlock, SyncedBy, index, gc
<1>20. CASE CleanupRefs
  <2>1. DeletedObjects(old) \subseteq Objects
    BY <1>20, TreeBlobsType DEF CleanupRefs, DeletedObjects, UnreferencedBlobs, Objects
  <2> QED
    BY <1>20, <2>1 DEF CleanupRefs, pebble, gc
<1>21. CASE CleanupObjs
  BY <1>21 DEF CleanupObjs, Resume, Unlock, SyncedBy, index, gc
<1>22. CASE CleanupError
  BY <1>22 DEF CleanupError, Unlock, SyncedBy, index, gc
<1>23. CASE RepairBlobRefs
  <2>1. refs' \in [Blobs -> Nat]
    BY <1>23, RefSetFinite DEF RepairBlobRefs
  <2>2. refRows' \subseteq Blobs
    BY <1>23, TreeBlobsType DEF RepairBlobRefs, ReachableBlobs
  <2> QED
    BY <1>23, <2>1, <2>2 DEF RepairBlobRefs, pebble, gc
<1>24. CASE GCRead
  BY <1>24, ConstantsAssumption
     DEF GCRead, GCReadBlobs, GCReadTrees, GCSnapshot, ReachableTrees, Objects,
         index, pebble, writer
<1>25. ASSUME NEW batch \in SUBSET gcSet, GCBatch(batch)
       PROVE  TypeInv'
  BY <1>25 DEF GCBatch, SyncedBy, index, writer
<1>26. CASE GCAbort
  BY <1>26 DEF GCAbort, index, pebble, writer
<1>27. CASE Crash
  BY <1>27 DEF Crash, Unlock, index
<1> QED
  BY <1>1, <1>2, <1>3, <1>4, <1>5, <1>7, <1>8, <1>9, <1>10, <1>11, <1>12, <1>13,
     <1>14, <1>15, <1>16, <1>17, <1>18, <1>19, <1>20, <1>21, <1>22, <1>23, <1>24,
     <1>25, <1>26, <1>27
     DEF Next, WriterStep, GCSweep

\* Every variable keeps its type and refcounts stay natural numbers, for all
\* operations of mod/storage, their failures and crashes.
THEOREM TypeCorrect == Spec => []TypeOK
<1>1. TypeInv => TypeOK
  BY DEF TypeInv
<1> QED
  BY <1>1, TypeInvInit, TypeInvNext, PTL DEF Spec

-----------------------------------------------------------------------------
(* Reference counts.                                                       *)

\* The empty index references nothing.
LEMMA RefsExactInit == Init => RefsExact
<1> SUFFICES ASSUME Init, NEW b \in Blobs
             PROVE  refs[b] = Cardinality(RefSet(tree, b)) /\ refs[b] = 0
  BY DEF RefsExact
<1>1. RefSet(tree, b) = {}
  BY DEF Init, RefSet
<1> QED
  BY <1>1, FS_EmptySet DEF Init

\* Steps that leave the version rows and blob_refs alone.
LEMMA RefsExactUnchanged ==
    ASSUME RefsExact, UNCHANGED <<tree, refs, refRows>>
    PROVE  RefsExact'
BY DEF RefsExact, RefSet

\* A transaction that adds the references of the tree it files under a free
\* row, or one already subtracted.
LEMMA RefsExactAdd ==
    ASSUME TypeOK, RefsExact, NEW r \in RowIds, NEW t \in Trees,
           tree[r] = NoTree,
           tree' = [tree EXCEPT ![r] = t],
           refs' = AddBlobRefs(refs, t),
           refRows' = refRows \cup TreeBlobs(t)
    PROVE  RefsExact'
<1> SUFFICES ASSUME NEW b \in Blobs
             PROVE  /\ refs'[b] = Cardinality(RefSet(tree', b))
                    /\ refs'[b] > 0 => b \in refRows'
  BY DEF RefsExact, RefSet
<1>1. refs'[b] = refs[b] + CountBlobRefs(t, b)
  BY DEF AddBlobRefs
<1>2. refs[b] \in Nat /\ CountBlobRefs(t, b) \in Nat
  BY CountBlobRefsType DEF TypeOK
<1>3. refs'[b] = Cardinality(RefSet(tree', b))
  <2>1. CountBlobRefs(tree[r], b) = 0
    BY CountBlobRefsType
  <2>2. Cardinality(RefSet(tree', b)) = Cardinality(RefSet(tree, b)) - 0 + CountBlobRefs(t, b)
    BY <2>1, RefSetUpdate DEF TypeOK, TableType
  <2> QED
    BY <1>1, <1>2, <2>2 DEF RefsExact
<1>4. refs'[b] > 0 => b \in refRows'
  <2>1. CASE b \in TreeBlobs(t)
    BY <2>1
  <2>2. CASE b \notin TreeBlobs(t)
    BY <1>1, <1>2, <2>2, CountBlobRefsZero DEF RefsExact
  <2> QED
    BY <2>1, <2>2
<1> QED
  BY <1>3, <1>4

\* Deleting a row subtracts exactly the references it had.
LEMMA RefsExactDelete ==
    ASSUME TypeOK, RefsExact, NEW r \in RowIds, NEW resume, DeleteVersionTx(r, resume)
    PROVE  RefsExact'
<1> SUFFICES ASSUME NEW b \in Blobs
             PROVE  /\ refs'[b] = Cardinality(RefSet(tree', b))
                    /\ refs'[b] > 0 => b \in refRows'
  BY DEF RefsExact, RefSet
<1>1. refs'[b] = refs[b] - CountBlobRefs(tree[r], b) /\ refRows' = refRows
  BY DEF DeleteVersionTx, SubtractBlobRefs
<1>2. refs[b] \in Nat /\ CountBlobRefs(tree[r], b) \in Nat
  BY CountBlobRefsType DEF TypeOK
<1>3. CountBlobRefs(NoTree, b) = 0
  BY CountBlobRefsType
<1>4. Cardinality(RefSet(tree', b)) = Cardinality(RefSet(tree, b)) - CountBlobRefs(tree[r], b) + 0
  BY <1>3, RefSetUpdate DEF DeleteVersionTx, TypeOK, TableType
<1> QED
  BY <1>1, <1>2, <1>4 DEF RefsExact

\* Moving a row to a historical tag keeps its references.
LEMMA RefsExactHistory ==
    ASSUME TypeInv, RefsExact, CommitHistory
    PROVE  RefsExact'
<1> DEFINE h == HistoricalRow
           f == [tree EXCEPT ![h] = tree[row]]
<1>1. /\ row \in RowIds /\ new \in Trees
      /\ tree[row] \in Trees /\ tree[h] = NoTree
  BY DEF CommitHistory, TypeInv, TypeOK, Control
<1>2. h \in RowIds
  BY <1>1 DEF CommitHistory, HistoricalRow, RowIds, Tags
<1>3. h # row
  BY <1>1, ConstantsAssumption
<1>4. f \in TableType /\ tree \in TableType /\ f[row] = tree[row]
  BY <1>1, <1>3 DEF TypeInv, TypeOK, TableType
<1>5. tree' = [f EXCEPT ![row] = new]
  BY DEF CommitHistory
<1> SUFFICES ASSUME NEW b \in Blobs
             PROVE  /\ refs'[b] = Cardinality(RefSet(tree', b))
                    /\ refs'[b] > 0 => b \in refRows'
  BY DEF RefsExact, RefSet
<1>6. refs'[b] = refs[b] + CountBlobRefs(new, b) /\ refRows' = refRows \cup TreeBlobs(new)
  BY DEF CommitHistory, AddBlobRefs
<1>7. /\ refs[b] \in Nat
      /\ CountBlobRefs(new, b) \in Nat
      /\ CountBlobRefs(tree[row], b) \in Nat
      /\ CountBlobRefs(tree[h], b) = 0
      /\ Cardinality(RefSet(tree, b)) \in Nat
  BY <1>1, CountBlobRefsType, RefSetFinite DEF TypeInv, TypeOK
<1>8. Cardinality(RefSet(f, b))
        = Cardinality(RefSet(tree, b)) - CountBlobRefs(tree[h], b) + CountBlobRefs(tree[row], b)
  BY <1>1, <1>2, <1>4, RefSetUpdate
<1> HIDE DEF f
<1>9. Cardinality(RefSet(tree', b))
        = Cardinality(RefSet(f, b)) - CountBlobRefs(f[row], b) + CountBlobRefs(new, b)
  BY <1>1, <1>4, <1>5, RefSetUpdate
<1>10. Cardinality(RefSet(tree', b)) = Cardinality(RefSet(tree, b)) + CountBlobRefs(new, b)
  BY <1>4, <1>7, <1>8, <1>9
<1>11. refs'[b] > 0 => b \in refRows'
  <2>1. CASE b \in TreeBlobs(new)
    BY <1>6, <2>1
  <2>2. CASE b \notin TreeBlobs(new)
    BY <1>1, <1>6, <1>7, <2>2, CountBlobRefsZero DEF RefsExact
  <2> QED
    BY <2>1, <2>2
<1> QED
  BY <1>6, <1>10, <1>11 DEF RefsExact

\* Replacing a row trades its references for those of the new tree.
LEMMA RefsExactOverwrite ==
    ASSUME TypeInv, RefsExact, CommitOverwrite
    PROVE  RefsExact'
<1>1. row \in RowIds /\ new \in Trees /\ tree[row] \in Trees
  BY DEF CommitOverwrite, TypeInv, TypeOK, Control
<1> SUFFICES ASSUME NEW b \in Blobs
             PROVE  /\ refs'[b] = Cardinality(RefSet(tree', b))
                    /\ refs'[b] > 0 => b \in refRows'
  BY DEF RefsExact, RefSet
<1>2. /\ refs'[b] = refs[b] - CountBlobRefs(tree[row], b) + CountBlobRefs(new, b)
      /\ refRows' = refRows \cup TreeBlobs(new)
  BY DEF CommitOverwrite, AddBlobRefs, SubtractBlobRefs
<1>3. /\ refs[b] \in Nat
      /\ CountBlobRefs(new, b) \in Nat
      /\ CountBlobRefs(tree[row], b) \in Nat
  BY <1>1, CountBlobRefsType DEF TypeInv, TypeOK
<1>4. Cardinality(RefSet(tree', b))
        = Cardinality(RefSet(tree, b)) - CountBlobRefs(tree[row], b) + CountBlobRefs(new, b)
  BY <1>1, RefSetUpdate DEF CommitOverwrite, TypeInv, TypeOK, TableType
<1>5. refs'[b] > 0 => b \in refRows'
  <2>1. CASE b \in TreeBlobs(new)
    BY <1>2, <2>1
  <2>2. CASE b \notin TreeBlobs(new)
    <3>1. CountBlobRefs(new, b) = 0
      BY <1>1, <2>2, CountBlobRefsZero
    <3> QED
      BY <1>2, <1>3, <3>1 DEF RefsExact
  <2> QED
    BY <2>1, <2>2
<1> QED
  BY <1>2, <1>4, <1>5 DEF RefsExact

\* RepairBlobRefs recomputes the counts; a blob with a count has a tree.
LEMMA RefsExactRepair ==
    ASSUME TypeOK, RepairBlobRefs
    PROVE  RefsExact'
<1> SUFFICES ASSUME NEW b \in Blobs
             PROVE  /\ refs'[b] = Cardinality(RefSet(tree', b))
                    /\ refs'[b] > 0 => b \in refRows'
  BY DEF RefsExact, RefSet
<1>1. refs'[b] = Cardinality(RefSet(tree, b)) /\ tree' = tree /\ refRows' = ReachableBlobs
  BY DEF RepairBlobRefs
<1>2. ASSUME refs'[b] > 0
      PROVE  b \in ReachableBlobs
  <2>1. RefSet(tree, b) # {}
    BY <1>1, <1>2, FS_EmptySet
  <2>2. PICK x \in RowIds \X Paths : tree[x[1]] # NoTree /\ TreeAt[tree[x[1]]][x[2]] = b
    BY <2>1 DEF RefSet
  <2>3. x[1] \in RowIds /\ x[2] \in Paths
    BY <2>2
  <2>4. b \in TreeBlobs(tree[x[1]])
    BY <2>2, <2>3, ConstantsAssumption DEF TreeBlobs
  <2> QED
    BY <2>2, <2>3, <2>4 DEF ReachableBlobs
<1> QED
  BY <1>1, <1>2

\* Every step keeps the refcounts exact.
LEMMA RefsExactNext == TypeInv /\ RefsExact /\ [Next]_vars => RefsExact'
<1> SUFFICES ASSUME TypeInv, RefsExact, [Next]_vars
             PROVE  RefsExact'
  OBVIOUS
<1>1. TypeOK
  BY DEF TypeInv
<1>2. ASSUME NEW r \in RowIds, EvictVersion(r) \/ DeleteKeyNext(r) \/ DeleteVersion(r)
      PROVE  RefsExact'
  BY <1>1, <1>2, RefsExactDelete DEF EvictVersion, DeleteKeyNext, DeleteVersion
<1>3. CASE CommitFirst
  <2>1. row \in RowIds /\ new \in Trees
    BY <1>3 DEF CommitFirst, TypeInv, Control
  <2> QED
    BY <1>1, <1>3, <2>1, RefsExactAdd DEF CommitFirst
<1>4. CASE CommitHistory
  BY <1>4, RefsExactHistory
<1>5. CASE CommitOverwrite
  BY <1>5, RefsExactOverwrite
<1>6. CASE CleanupRefs
  <2>1. tree' = tree /\ refs' = refs /\ refRows' = refRows \ DeletedObjects(old)
    BY <1>6 DEF CleanupRefs
  <2>2. old \in Trees
    BY <1>6 DEF CleanupRefs, TypeInv, Control
  <2>3. \A b \in Blobs : refs[b] > 0 => b \notin DeletedObjects(old)
    BY <2>2, ConstantsAssumption DEF DeletedObjects, UnreferencedBlobs
  <2> QED
    BY <2>1, <2>3 DEF RefsExact, RefSet
<1>7. CASE RepairBlobRefs
  BY <1>1, <1>7, RefsExactRepair
<1>8. CASE UNCHANGED <<tree, refs, refRows>>
  BY <1>8, RefsExactUnchanged
<1>9. CASE UNCHANGED vars
  BY <1>8, <1>9 DEF vars
<1>10. ASSUME NEW k \in Keys, NEW tag, NEW t, Stage(k, tag, t)
       PROVE  RefsExact'
  BY <1>8, <1>10 DEF Stage, index
<1>11. ASSUME NEW k \in Keys, Abandon(k) \/ PublishBegin(k) \/ PublishReject(k)
       PROVE  RefsExact'
  BY <1>8, <1>11 DEF Abandon, PublishBegin, PublishReject, index
<1>12. ASSUME NEW r \in RowIds, DeleteKeyBegin(r)
       PROVE  RefsExact'
  BY <1>8, <1>12 DEF DeleteKeyBegin, index
<1>13. ASSUME NEW batch, WriteBatch(batch) \/ GCBatch(batch)
       PROVE  RefsExact'
  BY <1>8, <1>13 DEF WriteBatch, GCBatch, index
<1>14. CASE BudgetReject \/ BudgetAdmit \/ WriteLast \/ WriteError \/ CommitError \/ CommitSkip
  BY <1>8, <1>14 DEF BudgetReject, BudgetAdmit, WriteLast, WriteError, CommitError, CommitSkip, index
<1>15. CASE CleanupPublishFailure \/ CleanupPublishFailureError \/ CleanupObjs \/ CleanupError
            \/ DeleteKeyEnd
  BY <1>8, <1>15 DEF CleanupPublishFailure, CleanupPublishFailureError, CleanupObjs, CleanupError,
                     DeleteKeyEnd, index
<1>16. CASE GCRead \/ GCAbort \/ Crash
  BY <1>8, <1>16 DEF GCRead, GCReadBlobs, GCReadTrees, GCSnapshot, GCAbort, Crash, index
<1> QED
  BY <1>2, <1>3, <1>4, <1>5, <1>6, <1>7, <1>9, <1>10, <1>11, <1>12, <1>13, <1>14, <1>15, <1>16
     DEF Next, WriterStep, GCSweep

\* blob_refs always agrees with the trees of the version rows: through
\* publishes in both mutation modes, evictions, deletes, repairs, failed
\* operations and crashes.
THEOREM RefsExactCorrect == Spec => []RefsExact
BY TypeInvInit, TypeInvNext, RefsExactInit, RefsExactNext, PTL DEF Spec

-----------------------------------------------------------------------------
(* No dangling version.                                                    *)

\* The version table f needs the object o.
NeededIn(f, o) == \E r \in RowIds : f[r] # NoTree /\ o \in TreeObjects(f[r])

Complete == \A o \in Objects : NeededIn(tree, o) => o \in stored

\* What is about to be deleted is needed by no version, nor by the publish
\* that waits for the eviction to end.
DeadUnneeded ==
    /\ dead # {} => pc = "objs"
    /\ \A o \in dead : ~ NeededIn(tree, o)
    /\ ret = "budget" => dead \cap TreeObjects(new) = {}
    /\ ret = "budget" /\ pc = "refs" => TreeObjects(old) \cap TreeObjects(new) = {}

\* The objects a publish found missing are needed by no version.
PendUnneeded ==
    pc \in {"budget", "write", "commit", "fail"} \/ ret = "budget" =>
        \A o \in pend : ~ NeededIn(tree, o)

\* Where crashes happen, what is not synced belongs to the running publish.
UnsyncedPending ==
    /\ Crashes => unsynced \subseteq pend /\ (unsynced # {} => pc \in {"write", "fail"})
    /\ pc = "write" /\ left = {} => pend = {}

DurableInv == Complete /\ IncomingIntact /\ DeadUnneeded /\ PendUnneeded /\ UnsyncedPending

\* A complete index has no dangling version.
LEMMA CompleteNoDangling == TypeOK /\ Complete => NoDangling
BY TreeBlobsType DEF Complete, NoDangling, Readable, NeededIn, TypeOK

\* The index references an object exactly when some version needs it: the
\* check of the collector and of the cleanup of a failed publish is right.
LEMMA ReferencedNeeded ==
    ASSUME TypeOK, RefsExact, NEW o \in Objects
    PROVE  pendingObjectReferenced(o) <=> NeededIn(tree, o)
<1>1. CASE o \in Blobs
  <2>1. NeededIn(tree, o) <=> RefSet(tree, o) # {}
    <3>1. ASSUME NEW r \in RowIds, tree[r] # NoTree
          PROVE  o \in TreeObjects(tree[r]) <=> \E p \in Paths : TreeAt[tree[r]][p] = o
      BY <1>1, <3>1, ConstantsAssumption DEF TreeObjects, TreeBlobs, TypeOK
    <3>2. RefSet(tree, o) # {} <=>
            \E r \in RowIds : \E p \in Paths : tree[r] # NoTree /\ TreeAt[tree[r]][p] = o
      <4>1. ASSUME NEW r \in RowIds, NEW p \in Paths, tree[r] # NoTree, TreeAt[tree[r]][p] = o
            PROVE  <<r, p>> \in RefSet(tree, o)
        BY <4>1 DEF RefSet
      <4>2. ASSUME NEW x \in RefSet(tree, o)
            PROVE  /\ x[1] \in RowIds /\ x[2] \in Paths
                   /\ tree[x[1]] # NoTree /\ TreeAt[tree[x[1]]][x[2]] = o
        BY DEF RefSet
      <4> QED
        BY <4>1, <4>2
    <3> QED
      BY <3>1, <3>2 DEF NeededIn
  <2>2. refs[o] \in Nat /\ refs[o] = Cardinality(RefSet(tree, o))
    BY <1>1 DEF TypeOK, RefsExact
  <2>3. refs[o] > 0 <=> RefSet(tree, o) # {}
    BY <2>2, RefSetFinite, FS_EmptySet
  <2>4. pendingObjectReferenced(o) <=> refs[o] > 0
    BY <1>1 DEF pendingObjectReferenced, BlobReferenced, RefsExact
  <2> QED
    BY <2>1, <2>3, <2>4
<1>2. CASE o \in Trees
  <2>1. o \notin Blobs /\ o # NoTree
    BY <1>2, ConstantsAssumption
  <2>2. ASSUME NEW r \in RowIds, tree[r] # NoTree
        PROVE  o \in TreeObjects(tree[r]) <=> tree[r] = o
    BY <2>1, <2>2, TreeBlobsType DEF TreeObjects, TypeOK
  <2> QED
    BY <2>1, <2>2 DEF pendingObjectReferenced, TreeReferenced, NeededIn
<1> QED
  BY <1>1, <1>2 DEF Objects

\* What cleanupDeletedObjectsLocked selects is needed by no version.
LEMMA DeletedUnneeded ==
    ASSUME TypeOK, RefsExact, NEW t \in Trees, NEW o \in DeletedObjects(t)
    PROVE  o \in TreeObjects(t) /\ ~ NeededIn(tree, o)
<1>1. o \in TreeObjects(t) /\ o \in Objects
  BY TreeBlobsType DEF DeletedObjects, UnreferencedBlobs, TreeObjects, Objects
<1>2. ~ pendingObjectReferenced(o)
  BY <1>1, TreeBlobsType, ConstantsAssumption
     DEF DeletedObjects, UnreferencedBlobs, pendingObjectReferenced, BlobReferenced
<1> QED
  BY <1>1, <1>2, ReferencedNeeded

\* Deleting a row needs nothing new.
LEMMA NeededShrinks ==
    ASSUME TypeOK, NEW r \in RowIds, NEW o, NeededIn([tree EXCEPT ![r] = NoTree], o)
    PROVE  NeededIn(tree, o)
BY DEF NeededIn, TypeOK

\* The empty store is durable.
LEMMA DurableInit == Init => DurableInv
BY DEF Init, DurableInv, Complete, NeededIn, IncomingIntact, Publishing, DeadUnneeded,
       PendUnneeded, UnsyncedPending

\* A step after which nobody holds writeMu and every needed object is there.
LEMMA DurableUnlock ==
    ASSUME Unlock,
           \A o \in Objects : NeededIn(tree', o) => o \in stored',
           Crashes => unsynced' = {}
    PROVE  DurableInv'
BY DEF Unlock, DurableInv, Complete, IncomingIntact, Publishing, DeadUnneeded, PendUnneeded,
       UnsyncedPending, NeededIn

\* A new tree under a row adds its objects, and no others, to what is needed.
LEMMA NeededGrows ==
    ASSUME NEW f \in TableType, NEW r \in RowIds, NEW t \in Trees, NEW o,
           NeededIn([f EXCEPT ![r] = t], o)
    PROVE  NeededIn(f, o) \/ o \in TreeObjects(t)
BY DEF NeededIn, TableType

\* The objects of the tree being committed are all in Pebble.
LEMMA IncomingStored ==
    ASSUME TypeInv, DurableInv, pc = "commit"
    PROVE  TreeObjects(new) \subseteq stored
BY DEF TypeInv, Control, DurableInv, IncomingIntact, Publishing

\* A commit makes visible only what was written and synced.
LEMMA DurableCommit ==
    ASSUME TypeInv, DurableInv, CommitFirst \/ CommitHistory \/ CommitOverwrite
    PROVE  \A o \in Objects : NeededIn(tree', o) => o \in stored'
<1> SUFFICES ASSUME NEW o \in Objects, NeededIn(tree', o)
             PROVE  o \in stored
  BY DEF CommitFirst, CommitHistory, CommitOverwrite, pebble
<1>1. row \in RowIds /\ new \in Trees /\ tree \in TableType /\ TreeObjects(new) \subseteq stored
  BY IncomingStored
     DEF CommitFirst, CommitHistory, CommitOverwrite, TypeInv, TypeOK, Control, TableType
<1>2. NeededIn(tree, o) => o \in stored
  BY DEF DurableInv, Complete
<1>3. CASE CommitFirst \/ CommitOverwrite
  <2>1. tree' = [tree EXCEPT ![row] = new]
    BY <1>3 DEF CommitFirst, CommitOverwrite
  <2> QED
    BY <1>1, <1>2, <2>1, NeededGrows
<1>4. CASE CommitHistory
  <2> DEFINE f == [tree EXCEPT ![HistoricalRow] = tree[row]]
  <2>1. tree' = [f EXCEPT ![row] = new] /\ tree[row] # NoTree /\ tree[row] \in Trees
    BY <1>1, <1>4 DEF CommitHistory, TypeInv, TypeOK
  <2>2. HistoricalRow \in RowIds
    BY <1>1, <1>4 DEF CommitHistory, HistoricalRow, RowIds, Tags
  <2>3. f \in TableType
    BY <1>1 DEF TableType
  <2>4. NeededIn(f, o) \/ o \in TreeObjects(new)
    <3> HIDE DEF f
    <3> QED
      BY <1>1, <2>1, <2>3, NeededGrows
  <2>5. NeededIn(f, o) => NeededIn(tree, o) \/ o \in TreeObjects(tree[row])
    BY <1>1, <2>1, <2>2, NeededGrows
  <2>6. o \in TreeObjects(tree[row]) => NeededIn(tree, o)
    BY <1>1, <2>1 DEF NeededIn
  <2> QED
    BY <1>1, <1>2, <2>4, <2>5, <2>6
<1> QED
  BY <1>3, <1>4

\* Deleting a version row, from outside a publish or as an eviction that
\* shares nothing with the incoming tree.
LEMMA DurableDelete ==
    ASSUME TypeInv, DurableInv, NEW r \in RowIds, NEW resume \in {"idle", "budget", "key"},
           DeleteVersionTx(r, resume), pc = resume,
           resume = "budget" => TreeObjects(tree[r]) \cap TreeObjects(new) = {}
    PROVE  DurableInv'
<1>1. \A o : NeededIn(tree', o) => NeededIn(tree, o)
  BY NeededShrinks DEF DeleteVersionTx, TypeInv
<1>2. /\ stored' = stored /\ unsynced' = unsynced /\ pend' = pend /\ new' = new
      /\ dead' = dead /\ left' = left
      /\ pc' = "refs" /\ ret' = resume /\ old' = tree[r]
  BY DEF DeleteVersionTx, pebble
<1>3. Complete'
  BY <1>1, <1>2 DEF DurableInv, Complete
<1>4. IncomingIntact'
  BY <1>2 DEF DurableInv, IncomingIntact, Publishing
<1>5. DeadUnneeded'
  BY <1>2 DEF DurableInv, DeadUnneeded
<1>6. PendUnneeded'
  BY <1>1, <1>2 DEF DurableInv, PendUnneeded
<1>7. UnsyncedPending'
  BY <1>2 DEF DurableInv, UnsyncedPending
<1> QED
  BY <1>3, <1>4, <1>5, <1>6, <1>7 DEF DurableInv

\* Deleting unneeded objects.
LEMMA DurableObjects ==
    ASSUME DurableInv, tree' = tree, NEW D, stored' = stored \ D,
           \A o \in D : ~ NeededIn(tree, o)
    PROVE  \A o \in Objects : NeededIn(tree', o) => o \in stored'
BY DEF DurableInv, Complete

\* Writing the objects of a publish disturbs nothing that is visible.
LEMMA DurableWrite ==
    ASSUME TypeInv, DurableInv,
           BudgetAdmit \/ WriteLast \/ WriteError \/ CommitError
             \/ \E batch \in SUBSET left : WriteBatch(batch)
    PROVE  DurableInv'
<1>1. tree' = tree /\ dead' = dead /\ pend' = pend /\ new' = new /\ ret' = ret /\ old' = old
      /\ stored \subseteq stored'
  BY DEF BudgetAdmit, WriteLast, WriteError, CommitError, WriteBatch, index, pebble
<1>2. /\ pc \in {"budget", "write", "commit"}
      /\ pc' \in {"write", "commit", "fail"}
      /\ ret = "idle"
  BY DEF BudgetAdmit, WriteLast, WriteError, CommitError, WriteBatch, TypeInv, Control
<1>3. Complete'
  BY <1>1 DEF DurableInv, Complete
<1>4. IncomingIntact'
  BY <1>1, <1>2
     DEF BudgetAdmit, WriteLast, WriteError, CommitError, WriteBatch, pebble,
         DurableInv, IncomingIntact, Publishing
<1>5. DeadUnneeded'
  BY <1>1, <1>2 DEF DurableInv, DeadUnneeded
<1>6. PendUnneeded'
  BY <1>1, <1>2 DEF DurableInv, PendUnneeded
<1>7. UnsyncedPending'
  BY <1>1, <1>2
     DEF BudgetAdmit, WriteLast, WriteError, CommitError, WriteBatch, pebble, SyncedBy,
         DurableInv, UnsyncedPending, TypeInv, TypeOK
<1> QED
  BY <1>3, <1>4, <1>5, <1>6, <1>7 DEF DurableInv

\* The cleanup of a failed publish removes everything that was not synced.
LEMMA DurableCleanupFailure ==
    ASSUME TypeInv, RefsExact, DurableInv, ~ (Crashes /\ CleanupFails),
           CleanupPublishFailure \/ CleanupPublishFailureError
    PROVE  DurableInv'
<1>1. Unlock /\ tree' = tree /\ pc = "fail"
  BY DEF CleanupPublishFailure, CleanupPublishFailureError, index
<1>2. \A o \in pend : o \in Objects /\ ~ NeededIn(tree, o)
  BY <1>1 DEF TypeInv, TypeOK, DurableInv, PendUnneeded
<1>3. UnreferencedPending = pend
  BY <1>2, ReferencedNeeded DEF UnreferencedPending, TypeInv
<1>4. \E done \in SUBSET pend : stored' = stored \ done
  BY <1>3 DEF CleanupPublishFailure, CleanupPublishFailureError
<1>5. \A o \in Objects : NeededIn(tree', o) => o \in stored'
  BY <1>1, <1>2, <1>4, DurableObjects
<1>6. ASSUME Crashes
      PROVE  unsynced' = {}
  <2>1. unsynced' = SyncedBy(pend) /\ unsynced \subseteq pend
    BY <1>3, <1>6 DEF CleanupPublishFailure, CleanupPublishFailureError, DurableInv, UnsyncedPending
  <2> QED
    BY <2>1 DEF SyncedBy
<1> QED
  BY <1>1, <1>5, <1>6, DurableUnlock

\* A cleanup deletes only what no row references.
LEMMA DurableCleanup ==
    ASSUME TypeInv, DurableInv, CleanupObjs \/ CleanupError
    PROVE  DurableInv'
<1>1. /\ tree' = tree
      /\ \E done \in SUBSET dead : stored' = stored \ done /\ unsynced' = SyncedBy(done)
      /\ pc \in {"refs", "objs"}
  BY DEF CleanupObjs, CleanupError, index
<1>2. \A o \in dead : ~ NeededIn(tree, o)
  BY DEF DurableInv, DeadUnneeded
<1>3. \A o \in Objects : NeededIn(tree', o) => o \in stored'
  BY <1>1, <1>2, DurableObjects
<1>4. Crashes => unsynced' = {}
  BY <1>1 DEF SyncedBy, DurableInv, UnsyncedPending
<1>5. CASE Unlock
  BY <1>3, <1>4, <1>5, DurableUnlock
<1>6. CASE CleanupObjs /\ ret # "idle"
  <2>1. /\ pc = "objs" /\ pc' = ret /\ dead' = {} /\ ret' = "idle"
        /\ row' = row /\ new' = new /\ pend' = pend /\ left' = left
        /\ stored' = stored \ dead
    BY <1>6 DEF CleanupObjs, Resume
  <2>2. ret \in {"budget", "key"}
    BY <1>6 DEF TypeInv, TypeOK
  <2>3. Complete'
    BY <1>3 DEF Complete
  <2>4. IncomingIntact'
    BY <2>1, <2>2 DEF DurableInv, DeadUnneeded, IncomingIntact, Publishing
  <2>5. DeadUnneeded'
    BY <2>1 DEF DeadUnneeded
  <2>6. PendUnneeded'
    BY <1>1, <2>1, <2>2 DEF DurableInv, PendUnneeded
  <2>7. UnsyncedPending'
    BY <1>4, <2>1, <2>2 DEF UnsyncedPending
  <2> QED
    BY <2>3, <2>4, <2>5, <2>6, <2>7 DEF DurableInv
<1> QED
  BY <1>5, <1>6 DEF CleanupObjs, CleanupError, Resume

\* Every step keeps the store durable.
LEMMA DurableNext ==
    ASSUME ~ (Crashes /\ CleanupFails)
    PROVE  TypeInv /\ RefsExact /\ DurableInv /\ [Next]_vars => DurableInv'
<1> SUFFICES ASSUME TypeInv, RefsExact, DurableInv, [Next]_vars
             PROVE  DurableInv'
  OBVIOUS
<1>1. ASSUME UNCHANGED <<tree, stored, unsynced, writer>>
      PROVE  DurableInv'
  BY <1>1 DEF writer, DurableInv, Complete, IncomingIntact, Publishing, DeadUnneeded,
              PendUnneeded, UnsyncedPending
<1>2. CASE UNCHANGED vars
  BY <1>1, <1>2 DEF vars, writer
<1>3. ASSUME NEW k \in Keys, NEW tag, NEW t, Stage(k, tag, t)
      PROVE  DurableInv'
  BY <1>1, <1>3 DEF Stage, index, pebble
<1>4. ASSUME NEW k \in Keys, Abandon(k) \/ PublishReject(k)
      PROVE  DurableInv'
  BY <1>1, <1>4 DEF Abandon, PublishReject, index, pebble
<1>5. ASSUME NEW k \in Keys, PublishBegin(k)
      PROVE  DurableInv'
  <2>1. /\ pc = "idle" /\ pc' = "budget" /\ tree' = tree /\ dead' = dead /\ ret' = ret
        /\ new' = jobs[k].tree /\ pend' = PendingObjects(jobs[k]) /\ left' = left
        /\ stored' = stored /\ unsynced' = unsynced
    BY <1>5 DEF PublishBegin, index, pebble
  <2>2. ret = "idle" /\ jobs[k].tree \in Trees /\ jobs[k].staged \subseteq Blobs
    BY <1>5, <2>1 DEF PublishBegin, TypeInv, TypeOK, Control, Jobs
  <2>3. pend' \subseteq Objects /\ pend' \cap stored = {}
    BY <2>1, <2>2 DEF PendingObjects, Objects
  <2>4. Complete'
    BY <2>1 DEF DurableInv, Complete
  <2>5. IncomingIntact'
    BY <1>5, <2>1, <2>2
       DEF PublishBegin, ReferencesPresent, PendingObjects, TreeObjects, IncomingIntact, Publishing
  <2>6. DeadUnneeded'
    BY <2>1, <2>2 DEF DurableInv, DeadUnneeded
  <2>7. PendUnneeded'
    BY <2>1, <2>3 DEF DurableInv, Complete, PendUnneeded
  <2>8. UnsyncedPending'
    BY <2>1 DEF DurableInv, UnsyncedPending
  <2> QED
    BY <2>4, <2>5, <2>6, <2>7, <2>8 DEF DurableInv
<1>6. ASSUME NEW r \in RowIds, EvictVersion(r)
      PROVE  DurableInv'
  BY <1>6, DurableDelete DEF EvictVersion, versionProtected
<1>7. ASSUME NEW r \in RowIds, DeleteKeyNext(r)
      PROVE  DurableInv'
  BY <1>7, DurableDelete DEF DeleteKeyNext
<1>8. ASSUME NEW r \in RowIds, DeleteVersion(r)
      PROVE  DurableInv'
  BY <1>8, DurableDelete DEF DeleteVersion
<1>9. ASSUME NEW r \in RowIds, DeleteKeyBegin(r)
      PROVE  DurableInv'
  <2>1. /\ pc = "idle" /\ pc' = "key" /\ tree' = tree /\ stored' = stored /\ unsynced' = unsynced
        /\ dead' = dead /\ ret' = ret /\ pend' = pend
    BY <1>9 DEF DeleteKeyBegin, index, pebble
  <2>2. ret = "idle"
    BY <2>1 DEF TypeInv, TypeOK, Control
  <2> QED
    BY <2>1, <2>2 DEF DurableInv, Complete, IncomingIntact, Publishing, DeadUnneeded,
                      PendUnneeded, UnsyncedPending
<1>10. CASE BudgetReject \/ CommitSkip \/ DeleteKeyEnd
  <2>1. /\ Unlock /\ tree' = tree /\ stored' = stored /\ unsynced' = unsynced
        /\ pc \notin {"write", "fail"}
    BY <1>10 DEF BudgetReject, CommitSkip, DeleteKeyEnd, index, pebble
  <2> QED
    BY <2>1, DurableUnlock DEF DurableInv, Complete, UnsyncedPending
<1>11. CASE BudgetAdmit \/ WriteLast \/ WriteError \/ CommitError
              \/ \E batch \in SUBSET left : WriteBatch(batch)
  BY <1>11, DurableWrite
<1>12. CASE CommitFirst \/ CommitHistory
  <2>1. Unlock /\ unsynced' = unsynced /\ pc = "commit"
    BY <1>12 DEF CommitFirst, CommitHistory, pebble
  <2> QED
    BY <1>12, <2>1, DurableCommit, DurableUnlock DEF DurableInv, UnsyncedPending
<1>13. CASE CommitOverwrite
  <2>1. /\ pc = "commit" /\ pc' = "refs" /\ ret' = ret /\ dead' = dead
        /\ unsynced' = unsynced /\ pend' = pend
    BY <1>13 DEF CommitOverwrite, pebble
  <2>2. ret = "idle"
    BY <2>1 DEF TypeInv, TypeOK, Control
  <2>3. Complete'
    BY <1>13, DurableCommit DEF Complete
  <2>4. dead' = {}
    BY <2>1 DEF DurableInv, DeadUnneeded
  <2> QED
    BY <2>1, <2>2, <2>3, <2>4
       DEF DurableInv, IncomingIntact, Publishing, DeadUnneeded, PendUnneeded, UnsyncedPending
<1>14. CASE CleanupPublishFailure \/ CleanupPublishFailureError
  BY <1>14, DurableCleanupFailure
<1>15. CASE CleanupRefs
  <2>1. /\ pc = "refs" /\ pc' = "objs" /\ tree' = tree /\ dead' = DeletedObjects(old)
        /\ stored' = stored /\ unsynced' = unsynced /\ pend' = pend /\ new' = new
        /\ ret' = ret /\ old \in Trees
    BY <1>15 DEF CleanupRefs, pebble, TypeInv, Control
  <2>2. \A o \in dead' : o \in TreeObjects(old) /\ ~ NeededIn(tree, o)
    BY <2>1, DeletedUnneeded DEF TypeInv
  <2>3. Complete'
    BY <2>1 DEF DurableInv, Complete
  <2>4. IncomingIntact'
    BY <2>1 DEF DurableInv, IncomingIntact, Publishing
  <2>5. DeadUnneeded'
    BY <2>1, <2>2 DEF DurableInv, DeadUnneeded
  <2>6. PendUnneeded' /\ UnsyncedPending'
    BY <2>1 DEF DurableInv, PendUnneeded, UnsyncedPending
  <2> QED
    BY <2>3, <2>4, <2>5, <2>6 DEF DurableInv
<1>16. CASE CleanupObjs \/ CleanupError
  BY <1>16, DurableCleanup
<1>17. CASE RepairBlobRefs
  <2>1. /\ pc = "idle" /\ pc' = "objs" /\ tree' = tree
        /\ dead' = stored \ (ReachableBlobs \cup ReachableTrees)
        /\ stored' = stored /\ unsynced' = unsynced /\ pend' = pend /\ new' = new /\ ret' = ret
    BY <1>17 DEF RepairBlobRefs, pebble
  <2>2. ret = "idle"
    BY <2>1 DEF TypeInv, TypeOK, Control
  <2>3. \A o : NeededIn(tree, o) => o \in ReachableBlobs \cup ReachableTrees
    BY DEF NeededIn, TreeObjects, ReachableBlobs, ReachableTrees
  <2>4. \A o \in dead' : ~ NeededIn(tree, o)
    BY <2>1, <2>3
  <2> QED
    BY <2>1, <2>2, <2>4
       DEF DurableInv, Complete, IncomingIntact, Publishing, DeadUnneeded, PendUnneeded,
           UnsyncedPending
<1>18. CASE GCRead \/ GCAbort
  BY <1>1, <1>18 DEF GCRead, GCReadBlobs, GCReadTrees, GCSnapshot, GCAbort, index, pebble
<1>19. ASSUME NEW batch \in SUBSET gcSet, GCBatch(batch)
       PROVE  DurableInv'
  <2>1. /\ pc = "idle" /\ tree' = tree /\ UNCHANGED writer
        /\ stored' = stored \ GCConfirmed(batch)
        /\ unsynced' = SyncedBy(GCConfirmed(batch))
    BY <1>19 DEF GCBatch, index
  <2>2. ret = "idle"
    BY <2>1 DEF TypeInv, TypeOK, Control
  <2>3. \A o \in GCConfirmed(batch) : ~ NeededIn(tree, o)
    BY <1>19, ReferencedNeeded DEF GCConfirmed, TypeInv, TypeOK
  <2>4. \A o \in Objects : NeededIn(tree', o) => o \in stored'
    BY <2>1, <2>3, DurableObjects
  <2>5. Crashes => unsynced' = {}
    BY <2>1 DEF SyncedBy, DurableInv, UnsyncedPending
  <2>6. Complete'
    BY <2>4 DEF Complete
  <2> QED
    BY <2>1, <2>2, <2>5, <2>6
       DEF writer, DurableInv, IncomingIntact, Publishing, DeadUnneeded, PendUnneeded,
           UnsyncedPending
<1>20. CASE Crash
  <2>1. /\ Unlock /\ tree' = tree /\ unsynced' = {} /\ Crashes
        /\ \E lost \in SUBSET unsynced : stored' = stored \ lost
    BY <1>20 DEF Crash, index
  <2>2. \A o \in unsynced : ~ NeededIn(tree, o)
    BY <2>1 DEF DurableInv, UnsyncedPending, PendUnneeded
  <2>3. \A o \in Objects : NeededIn(tree', o) => o \in stored'
    BY <2>1, <2>2, DurableObjects
  <2> QED
    BY <2>1, <2>3, DurableUnlock
<1> QED
  BY <1>2, <1>3, <1>4, <1>5, <1>6, <1>7, <1>8, <1>9, <1>10, <1>11, <1>12, <1>13, <1>14,
     <1>15, <1>16, <1>17, <1>18, <1>19, <1>20
     DEF Next, WriterStep, GCSweep

\* Every version in the index is complete in Pebble, unless both the cleanup
\* of a failed publish fails and a crash follows: eviction, the collector
\* with its stale candidates, repair, failed operations and crashes never
\* take an object a version needs.
THEOREM NoDanglingCorrect ==
    ASSUME ~ (Crashes /\ CleanupFails)
    PROVE  Spec => []NoDangling
<1>1. TypeInv /\ DurableInv => NoDangling
  BY CompleteNoDangling DEF TypeInv, DurableInv
<1>2. Init => TypeInv /\ RefsExact /\ DurableInv
  BY TypeInvInit, RefsExactInit, DurableInit
<1>3. TypeInv /\ RefsExact /\ DurableInv /\ [Next]_vars => (TypeInv /\ RefsExact /\ DurableInv)'
  BY TypeInvNext, RefsExactNext, DurableNext
<1> QED
  BY <1>1, <1>2, <1>3, PTL DEF Spec

\* While PublishStaged makes room and writes, every object of the incoming
\* tree is stored or still to be written: eviction does not undo the check
\* verifyStagedReferences made.
THEOREM IncomingIntactCorrect ==
    ASSUME ~ (Crashes /\ CleanupFails)
    PROVE  Spec => []IncomingIntact
<1>1. DurableInv => IncomingIntact
  BY DEF DurableInv
<1>2. Init => TypeInv /\ RefsExact /\ DurableInv
  BY TypeInvInit, RefsExactInit, DurableInit
<1>3. TypeInv /\ RefsExact /\ DurableInv /\ [Next]_vars => (TypeInv /\ RefsExact /\ DurableInv)'
  BY TypeInvNext, RefsExactNext, DurableNext
<1> QED
  BY <1>1, <1>2, <1>3, PTL DEF Spec
-----------------------------------------------------------------------------
(* The history the store keeps and what it promises its readers: no         *)
(* revision is lost by a publish, historical tags are issued once, and the  *)
(* store implements the catalogue of complete versions (VersionCatalog).    *)

\* The row being published is one an upstream can name.
RowPublished ==
    pc \in {"budget", "write", "commit", "fail"} \/ ret = "budget" =>
        row \in Keys \X (Names \cup BrotherTags)

\* A publish keeps the row it was started for.
LEMMA RowPublishedNext == TypeInv /\ RowPublished /\ [Next]_vars => RowPublished'
<1> SUFFICES ASSUME TypeInv, RowPublished, [Next]_vars
             PROVE  RowPublished'
  OBVIOUS
<1>1. ASSUME NEW k \in Keys, PublishBegin(k)
      PROVE  RowPublished'
  <2>1. jobs[k] \in Jobs /\ row' = <<k, jobs[k].tag>>
    BY <1>1 DEF PublishBegin, TypeInv, TypeOK
  <2> QED
    BY <2>1 DEF Jobs, RowPublished
<1>2. ASSUME NEW r \in RowIds, EvictVersion(r) \/ DeleteKeyNext(r) \/ DeleteVersion(r)
      PROVE  RowPublished'
  BY <1>2 DEF EvictVersion, DeleteKeyNext, DeleteVersion, DeleteVersionTx, RowPublished
<1>3. CASE UNCHANGED writer
  BY <1>3 DEF writer, RowPublished
<1>4. CASE Unlock
  BY <1>4 DEF Unlock, RowPublished
<1>5. CASE UNCHANGED vars
  BY <1>3, <1>5 DEF vars, writer
<1>6. ASSUME NEW k \in Keys, NEW tag, NEW t, Stage(k, tag, t)
      PROVE  RowPublished'
  BY <1>3, <1>6 DEF Stage
<1>7. ASSUME NEW k \in Keys, Abandon(k) \/ PublishReject(k)
      PROVE  RowPublished'
  BY <1>3, <1>7 DEF Abandon, PublishReject
<1>8. ASSUME NEW r \in RowIds, DeleteKeyBegin(r)
      PROVE  RowPublished'
  BY <1>8 DEF DeleteKeyBegin, RowPublished, TypeInv, TypeOK, Control
<1>9. ASSUME NEW batch, WriteBatch(batch)
      PROVE  RowPublished'
  BY <1>9 DEF WriteBatch, RowPublished
<1>10. CASE BudgetAdmit \/ WriteLast \/ WriteError \/ CommitError \/ CommitOverwrite
  BY <1>10 DEF BudgetAdmit, WriteLast, WriteError, CommitError, CommitOverwrite, RowPublished,
               TypeInv, TypeOK, Control
<1>11. CASE BudgetReject \/ CommitSkip \/ CommitFirst \/ CommitHistory \/ CleanupPublishFailure
              \/ CleanupPublishFailureError \/ CleanupError \/ DeleteKeyEnd \/ Crash
  BY <1>4, <1>11
     DEF BudgetReject, CommitSkip, CommitFirst, CommitHistory, CleanupPublishFailure,
         CleanupPublishFailureError, CleanupError, DeleteKeyEnd, Crash
<1>12. CASE CleanupRefs \/ RepairBlobRefs
  BY <1>12 DEF CleanupRefs, RepairBlobRefs, RowPublished, TypeInv, TypeOK, Control
<1>13. CASE CleanupObjs
  BY <1>4, <1>13 DEF CleanupObjs, Resume, RowPublished, TypeInv, TypeOK
<1>14. ASSUME NEW batch, GCBatch(batch)
       PROVE  RowPublished'
  BY <1>3, <1>14 DEF GCBatch
<1>15. CASE GCRead \/ GCAbort
  BY <1>3, <1>15 DEF GCRead, GCReadBlobs, GCReadTrees, GCSnapshot, GCAbort
<1> QED
  BY <1>1, <1>2, <1>5, <1>6, <1>7, <1>8, <1>9, <1>10, <1>11, <1>12, <1>13, <1>14, <1>15
     DEF Next, WriterStep, GCSweep

\* The only steps that change the version table.
TableStep ==
    \/ UNCHANGED <<tree, histNext>>
    \/ \E r \in RowIds, resume \in {"idle", "budget", "key"} :
          DeleteVersionTx(r, resume) /\ pc \in {"idle", "budget", "key"}
    \/ CommitFirst
    \/ CommitHistory
    \/ CommitOverwrite

\* Deletes and commits are the only steps that change the table.
LEMMA NextTableStep == [Next]_vars => TableStep
<1> SUFFICES ASSUME [Next]_vars PROVE TableStep
  OBVIOUS
<1>1. CASE UNCHANGED vars
  BY <1>1 DEF vars, TableStep
<1>2. ASSUME NEW r \in RowIds, EvictVersion(r) \/ DeleteKeyNext(r) \/ DeleteVersion(r)
      PROVE  TableStep
  BY <1>2 DEF EvictVersion, DeleteKeyNext, DeleteVersion, TableStep
<1>3. CASE CommitFirst \/ CommitHistory \/ CommitOverwrite
  BY <1>3 DEF TableStep
<1>4. ASSUME NEW k \in Keys, NEW tag, NEW t, Stage(k, tag, t)
      PROVE  TableStep
  BY <1>4 DEF Stage, index, TableStep
<1>5. ASSUME NEW k \in Keys, Abandon(k) \/ PublishBegin(k) \/ PublishReject(k)
      PROVE  TableStep
  BY <1>5 DEF Abandon, PublishBegin, PublishReject, index, TableStep
<1>6. ASSUME NEW r \in RowIds, DeleteKeyBegin(r)
      PROVE  TableStep
  BY <1>6 DEF DeleteKeyBegin, index, TableStep
<1>7. ASSUME NEW batch, WriteBatch(batch) \/ GCBatch(batch)
      PROVE  TableStep
  BY <1>7 DEF WriteBatch, GCBatch, index, TableStep
<1>8. CASE BudgetReject \/ BudgetAdmit \/ WriteLast \/ WriteError \/ CommitError \/ CommitSkip
  BY <1>8 DEF BudgetReject, BudgetAdmit, WriteLast, WriteError, CommitError, CommitSkip, index,
              TableStep
<1>9. CASE CleanupPublishFailure \/ CleanupPublishFailureError \/ CleanupRefs \/ CleanupObjs
             \/ CleanupError \/ DeleteKeyEnd \/ RepairBlobRefs
  BY <1>9 DEF CleanupPublishFailure, CleanupPublishFailureError, CleanupRefs, CleanupObjs,
              CleanupError, DeleteKeyEnd, RepairBlobRefs, index, TableStep
<1>10. CASE GCRead \/ GCAbort \/ Crash
  BY <1>10 DEF GCRead, GCReadBlobs, GCReadTrees, GCSnapshot, GCAbort, Crash, index, TableStep
<1> QED
  BY <1>1, <1>2, <1>3, <1>4, <1>5, <1>6, <1>7, <1>8, <1>9, <1>10 DEF Next, WriterStep, GCSweep

-----------------------------------------------------------------------------
(* History.                                                                *)

CatalogInv == TypeInv /\ RowPublished

\* The empty store satisfies the invariant.
LEMMA CatalogInvInit == Init => CatalogInv
BY TypeInvInit DEF Init, CatalogInv, RowPublished

\* Every step keeps it.
LEMMA CatalogInvNext == CatalogInv /\ [Next]_vars => CatalogInv'
BY TypeInvNext, RowPublishedNext DEF CatalogInv

\* What a commit in history mode does to the table.
LEMMA HistoryCommit ==
    ASSUME CatalogInv, CommitHistory
    PROVE  /\ row \in RowIds /\ row \in Keys \X (Names \cup BrotherTags)
           /\ new \in Trees /\ tree[row] \notin {NoTree, new}
           /\ HistoricalRow = <<row[1], NextHistoricalVersion>> /\ HistoricalRow \in RowIds
           /\ NextHistoricalVersion \in HistTags
           /\ HistoricalRow # row /\ tree[HistoricalRow] = NoTree
           /\ tree' = [tree EXCEPT ![HistoricalRow] = tree[row], ![row] = new]
           /\ histNext' = NextHistoricalVersion + 1
<1>1. row \in RowIds /\ new \in Trees /\ row \in Keys \X (Names \cup BrotherTags)
  BY DEF CatalogInv, TypeInv, Control, RowPublished, CommitHistory
<1>2. HistoricalRow \in RowIds
  BY <1>1 DEF CommitHistory, HistoricalRow, RowIds, Tags
<1> QED
  BY <1>1, <1>2 DEF CommitHistory, HistoricalRow

\* In history mode a publish keeps every tree a key had, under some row.
THEOREM HistoryPreservedCorrect == Spec => HistoryPreserved
<1> DEFINE Kept == HistoryMode /\ pc = "commit" =>
              \A r \in RowIds : tree[r] # NoTree =>
                 \E q \in RowIds : q[1] = r[1] /\ tree'[q] = tree[r]
<1>1. CatalogInv /\ [Next]_vars => [Kept]_vars
  <2> SUFFICES ASSUME CatalogInv, [Next]_vars, HistoryMode, pc = "commit",
                      NEW r \in RowIds, tree[r] # NoTree
               PROVE  \E q \in RowIds : q[1] = r[1] /\ tree'[q] = tree[r]
    OBVIOUS
  <2>1. TableStep
    BY NextTableStep
  <2>2. tree \in TableType
    BY DEF CatalogInv, TypeInv, TypeOK, TableType
  <2>3. CASE UNCHANGED <<tree, histNext>>
    BY <2>3
  <2>4. CASE CommitFirst
    <3>1. r # row /\ tree' = [tree EXCEPT ![row] = new]
      BY <2>4 DEF CommitFirst
    <3> QED
      BY <2>2, <3>1 DEF TableType
  <2>5. CASE CommitHistory
    <3>1. CASE r = row
      <4>1. HistoricalRow \in RowIds /\ HistoricalRow[1] = r[1] /\ tree'[HistoricalRow] = tree[r]
        BY <2>2, <2>5, <3>1, HistoryCommit DEF TableType
      <4> QED
        BY <4>1
    <3>2. CASE r # row
      <4>1. r # HistoricalRow
        BY <2>5, HistoryCommit
      <4>2. tree'[r] = tree[r]
        BY <2>2, <2>5, <3>2, <4>1, HistoryCommit DEF TableType
      <4> QED
        BY <4>2
    <3> QED
      BY <3>1, <3>2
  <2>6. ~ CommitOverwrite
    BY DEF CommitOverwrite
  <2> QED
    BY <2>1, <2>3, <2>4, <2>5, <2>6 DEF TableStep
<1> QED
  BY <1>1, CatalogInvInit, CatalogInvNext, PTL DEF Spec, HistoryPreserved

\* A historical tag that no upstream lists is issued once.
THEOREM TagsIssuedOnceCorrect == Spec => TagsIssuedOnce
<1> DEFINE Once == \A k \in Keys, n \in HistTags \ BrotherTags :
              tree'[<<k, n>>] \notin {NoTree, tree[<<k, n>>]} =>
                 tree[<<k, n>>] = NoTree /\ n >= histNext /\ histNext' > n
<1>1. CatalogInv /\ [Next]_vars => [Once]_vars
  <2> SUFFICES ASSUME CatalogInv, [Next]_vars,
                      NEW k \in Keys, NEW n \in HistTags \ BrotherTags,
                      tree'[<<k, n>>] \notin {NoTree, tree[<<k, n>>]}
               PROVE  tree[<<k, n>>] = NoTree /\ n >= histNext /\ histNext' > n
    OBVIOUS
  <2>1. TableStep
    BY NextTableStep
  <2>2. tree \in TableType /\ <<k, n>> \in RowIds /\ n \in Nat \ {0} /\ histNext \in Nat
    BY ConstantsAssumption DEF CatalogInv, TypeInv, TypeOK, TableType, RowIds, Tags, HistTags
  <2>3. n \notin Names \cup BrotherTags
    BY ConstantsAssumption
  <2>4. CASE UNCHANGED <<tree, histNext>>
    BY <2>4
  <2>5. ASSUME NEW r \in RowIds, NEW resume, DeleteVersionTx(r, resume)
        PROVE  FALSE
    BY <2>2, <2>5 DEF DeleteVersionTx, TableType
  <2>6. CASE CommitFirst \/ CommitOverwrite
    <3>1. row \in Keys \X (Names \cup BrotherTags) /\ tree' = [tree EXCEPT ![row] = new]
      BY <2>6 DEF CommitFirst, CommitOverwrite, CatalogInv, RowPublished
    <3>2. row # <<k, n>>
      BY <2>3, <3>1
    <3> QED
      BY <2>2, <3>1, <3>2 DEF TableType
  <2>7. CASE CommitHistory
    <3>1. row # <<k, n>>
      BY <2>3, <2>7, HistoryCommit
    <3>2. HistoricalRow = <<k, n>>
      BY <2>2, <2>7, <3>1, HistoryCommit DEF TableType
    <3>3. n = NextHistoricalVersion /\ tree[<<k, n>>] = NoTree /\ histNext' = n + 1
      BY <2>7, <3>2, HistoryCommit
    <3>4. histNext # 0 => n = histNext
      BY <3>3 DEF NextHistoricalVersion
    <3> QED
      BY <2>2, <3>3, <3>4
  <2> QED
    BY <2>1, <2>4, <2>5, <2>6, <2>7 DEF TableStep
<1> QED
  BY <1>1, CatalogInvInit, CatalogInvNext, PTL DEF Spec, TagsIssuedOnce

\* While no upstream lists historical tags, the rows filed under them are
\* below the counter.
HistBelowCounter ==
    \A k \in Keys, n \in HistTags : tree[<<k, n>>] # NoTree => n < histNext

\* No commit files a revision at or above the counter it leaves behind.
LEMMA HistBelowCounterNext ==
    ASSUME BrotherTags = {}
    PROVE  CatalogInv /\ HistBelowCounter /\ [Next]_vars => HistBelowCounter'
<1> SUFFICES ASSUME CatalogInv, HistBelowCounter, [Next]_vars,
                    NEW k \in Keys, NEW n \in HistTags, tree'[<<k, n>>] # NoTree
             PROVE  n < histNext'
  BY DEF HistBelowCounter
<1>1. TableStep
  BY NextTableStep
<1>2. /\ tree \in TableType /\ <<k, n>> \in RowIds /\ n \notin Names \cup BrotherTags
      /\ n \in Nat /\ histNext \in Nat
  BY ConstantsAssumption DEF CatalogInv, TypeInv, TypeOK, TableType, RowIds, Tags, HistTags
<1>3. CASE UNCHANGED <<tree, histNext>>
  BY <1>3 DEF HistBelowCounter
<1>4. ASSUME NEW r \in RowIds, NEW resume, DeleteVersionTx(r, resume)
      PROVE  n < histNext'
  BY <1>2, <1>4 DEF DeleteVersionTx, TableType, HistBelowCounter
<1>5. CASE CommitFirst \/ CommitOverwrite
  <2>1. /\ row \in Keys \X (Names \cup BrotherTags) /\ tree' = [tree EXCEPT ![row] = new]
        /\ histNext' = histNext
    BY <1>5 DEF CommitFirst, CommitOverwrite, CatalogInv, RowPublished
  <2>2. row # <<k, n>>
    BY <1>2, <2>1
  <2> QED
    BY <1>2, <2>1, <2>2 DEF TableType, HistBelowCounter
<1>6. CASE CommitHistory
  <2>1. row # <<k, n>> /\ histNext' = NextHistoricalVersion + 1
    BY <1>2, <1>6, HistoryCommit
  <2>2. NextHistoricalVersion \in Nat /\ (histNext # 0 => NextHistoricalVersion = histNext)
    BY <1>6, HistoryCommit, ConstantsAssumption DEF NextHistoricalVersion, HistTags
  <2>3. CASE HistoricalRow = <<k, n>>
    <3>1. n = NextHistoricalVersion
      BY <1>6, <2>3, HistoryCommit
    <3> QED
      BY <1>2, <2>1, <3>1
  <2>4. CASE HistoricalRow # <<k, n>>
    <3>1. tree[<<k, n>>] # NoTree
      BY <1>2, <1>6, <2>1, <2>4, HistoryCommit DEF TableType
    <3>2. n < histNext
      BY <3>1 DEF HistBelowCounter
    <3> QED
      BY <1>2, <2>1, <2>2, <3>2
  <2> QED
    BY <2>3, <2>4
<1> QED
  BY <1>1, <1>3, <1>4, <1>5, <1>6 DEF TableStep

\* When only this instance issues historical tags, the next one is free for
\* every key: filing a superseded revision cannot collide.
THEOREM HistTagFreeCorrect ==
    ASSUME BrotherTags = {}
    PROVE  Spec => []HistTagFree
<1>1. Init => CatalogInv /\ HistBelowCounter
  <2>1. Init => HistBelowCounter
    BY DEF Init, HistBelowCounter, RowIds, Tags
  <2> QED
    BY <2>1, CatalogInvInit
<1>2. CatalogInv /\ HistBelowCounter /\ [Next]_vars => (CatalogInv /\ HistBelowCounter)'
  BY CatalogInvNext, HistBelowCounterNext
<1>3. CatalogInv /\ HistBelowCounter => HistTagFree
  <2> SUFFICES ASSUME CatalogInv, HistBelowCounter, NEW k \in Keys,
                      NextHistoricalVersion \in HistTags,
                      tree[<<k, NextHistoricalVersion>>] # NoTree
               PROVE  FALSE
    BY DEF HistTagFree
  <2>1. NextHistoricalVersion < histNext
    BY DEF HistBelowCounter
  <2>2. NextHistoricalVersion \in Nat \ {0} /\ histNext \in Nat
    BY ConstantsAssumption DEF HistTags, CatalogInv, TypeInv, TypeOK
  <2> QED
    BY <2>1, <2>2 DEF NextHistoricalVersion
<1> QED
  BY <1>1, <1>2, <1>3, PTL DEF Spec

-----------------------------------------------------------------------------
(* Refinement.                                                             *)

StoreInv == CatalogInv /\ RefsExact /\ DurableInv

\* The empty store satisfies the invariant.
LEMMA StoreInvInit == Init => StoreInv
BY CatalogInvInit, RefsExactInit, DurableInit DEF StoreInv

\* Every step keeps it.
LEMMA StoreInvNext ==
    ASSUME ~ (Crashes /\ CleanupFails)
    PROVE  StoreInv /\ [Next]_vars => StoreInv'
BY CatalogInvNext, RefsExactNext, DurableNext DEF StoreInv, CatalogInv

\* Every indexed version is readable, so readers see the version table.
LEMMA ReadableIsTable == StoreInv => ReadableCat = tree
<1> SUFFICES ASSUME StoreInv PROVE ReadableCat = tree
  OBVIOUS
<1>1. NoDangling /\ tree \in TableType
  BY CompleteNoDangling DEF StoreInv, CatalogInv, TypeInv, DurableInv, TypeOK, TableType
<1> QED
  BY <1>1 DEF ReadableCat, NoDangling, TableType

\* The store implements the catalogue of complete versions: a publish, a
\* replacement or a delete is one step of it, everything else is invisible.
THEOREM CatalogRefinement ==
    ASSUME ~ (Crashes /\ CleanupFails)
    PROVE  Spec => ImplementsCatalog
<1>1. Init => Catalog!Init
  <2> SUFFICES ASSUME Init PROVE Catalog!Init
    OBVIOUS
  <2>1. ReadableCat = tree
    BY StoreInvInit, ReadableIsTable
  <2> QED
    BY <2>1 DEF Init, Catalog!Init, Catalog!Rows, RowIds, Tags
<1>2. StoreInv /\ StoreInv' /\ [Next]_vars
        => [Catalog!Next]_<<ReadableCat, IF histNext = 0 THEN 0 ELSE histNext - 1>>
  <2> SUFFICES ASSUME StoreInv, StoreInv', [Next]_vars
               PROVE  [Catalog!Next]_<<ReadableCat, IF histNext = 0 THEN 0 ELSE histNext - 1>>
    OBVIOUS
  <2>1. ReadableCat = tree /\ ReadableCat' = tree'
    <3>1. (ReadableCat = tree)'
      BY ReadableIsTable, PTL
    <3> QED
      BY <3>1, ReadableIsTable
  <2>2. TableStep
    BY NextTableStep
  <2>3. /\ CatalogInv /\ tree \in TableType /\ RowIds = Catalog!Rows
        /\ histNext \in Nat
    BY ConstantsAssumption
       DEF StoreInv, CatalogInv, TypeInv, TypeOK, TableType, RowIds, Tags, Catalog!Rows
  <2>4. CASE UNCHANGED <<tree, histNext>>
    BY <2>1, <2>4
  <2>5. ASSUME NEW r \in RowIds, NEW resume, DeleteVersionTx(r, resume)
        PROVE  Catalog!Next
    <3>1. Catalog!Delete(r)
      BY <2>1, <2>5 DEF DeleteVersionTx, Catalog!Delete
    <3> QED
      BY <2>3, <3>1 DEF Catalog!Next
  <2>6. CASE CommitFirst \/ CommitOverwrite
    <3>1. /\ row \in Keys \X (Names \cup BrotherTags) /\ new \in Trees
          /\ tree' = [tree EXCEPT ![row] = new] /\ histNext' = histNext
      BY <2>3, <2>6 DEF CommitFirst, CommitOverwrite, CatalogInv, RowPublished, TypeInv, Control
    <3>2. Catalog!Publish(row, new) \/ Catalog!Replace(row, new)
      BY <2>1, <2>6, <3>1 DEF CommitFirst, CommitOverwrite, Catalog!Publish, Catalog!Replace
    <3> QED
      BY <3>1, <3>2 DEF Catalog!Next
  <2>7. CASE CommitHistory
    <3> DEFINE n == NextHistoricalVersion
    <3>1. /\ row \in Keys \X (Names \cup BrotherTags) /\ new \in Trees /\ n \in HistTags
          /\ tree[row] \notin {NoTree, new} /\ tree[<<row[1], n>>] = NoTree
          /\ tree' = [tree EXCEPT ![<<row[1], n>>] = tree[row], ![row] = new]
          /\ histNext' = n + 1 /\ HistoryMode
      BY <2>3, <2>7, HistoryCommit DEF CommitHistory
    <3>2. n \in Nat \ {0} /\ (histNext # 0 => n = histNext)
      BY <3>1, ConstantsAssumption DEF HistTags, NextHistoricalVersion
    <3> HIDE DEF n
    <3>3. n > (IF histNext = 0 THEN 0 ELSE histNext - 1)
      BY <2>3, <3>2
    <3>4. (IF histNext' = 0 THEN 0 ELSE histNext' - 1) = n
      BY <3>1, <3>2
    <3>5. Catalog!Supersede(row, new, n)
      BY <2>1, <3>1, <3>3, <3>4 DEF Catalog!Supersede
    <3> QED
      BY <3>1, <3>5 DEF Catalog!Next
  <2> QED
    BY <2>2, <2>4, <2>5, <2>6, <2>7 DEF TableStep
<1> QED
  BY <1>1, <1>2, StoreInvInit, StoreInvNext, PTL DEF Spec, ImplementsCatalog, Catalog!Spec
=============================================================================
