---------------------------- MODULE DurableStore ----------------------------
(***************************************************************************)
(* The durable layer of yggvault (mod/storage): content-addressed blobs    *)
(* and trees in Pebble, the version rows, blob reference counts and        *)
(* historical-tag counter in SQLite, and every operation that moves data   *)
(* between the two: PublishStaged with quota eviction, DeleteVersion,      *)
(* DeleteKey, RepairBlobRefs, the background garbage collector, and a      *)
(* crash at any point.                                                     *)
(*                                                                         *)
(* writeMu serialises the writers, so one program counter stands for its   *)
(* holder; the collector computes its candidates without the lock and      *)
(* takes it once per batch, and staging (the rescan workers) runs without  *)
(* it.  A SQLite transaction and a Pebble batch are one step each, because *)
(* each is atomic; everything between two of them is where a crash, an     *)
(* error or another goroutine can come in.                                 *)
(*                                                                         *)
(* Abstracted: sizes and the order of eviction (any unprotected version    *)
(* may be evicted, module-level quota arithmetic is not here), metadata    *)
(* columns other than the tree hash, hot artifact files, and the content   *)
(* checks made before the lock is taken (a failed check is Abandon).       *)
(***************************************************************************)
EXTENDS Integers, FiniteSets

CONSTANTS
    Keys,         \* repository keys
    Names,        \* version names an upstream publishes
    MaxHist,      \* bound: historical tags v0.0.0-<prefix>1 .. MaxHist
    BrotherTags,  \* historical tags a mirrored instance lists among its versions
    Trees,        \* tree objects
    Blobs,        \* blob objects
    Paths,        \* file paths inside a tree
    NoTree,       \* no version row
    NoBlob,       \* no file at a path
    NoJob,        \* no staged publish
    TreeAt,       \* the content of each tree: [Trees -> [Paths -> Blobs or NoBlob]]
    HistoryMode,  \* history_policy.mutation is "history" (else "overwrite")
    Crashes,      \* the process or the machine may crash
    CleanupFails  \* the cleanup of a failed publish may itself fail

HistTags == 1..MaxHist
Tags == Names \cup HistTags
RowIds == Keys \X Tags
Objects == Blobs \cup Trees

ASSUME ConstantsAssumption ==
    /\ MaxHist \in Nat
    /\ BrotherTags \subseteq HistTags
    /\ Names \cap HistTags = {}
    /\ NoTree \notin Trees
    /\ NoBlob \notin Blobs
    /\ Trees \cap Blobs = {}
    /\ TreeAt \in [Trees -> [Paths -> Blobs \cup {NoBlob}]]
    /\ HistoryMode \in BOOLEAN
    /\ Crashes \in BOOLEAN
    /\ CleanupFails \in BOOLEAN

ASSUME FiniteAssumption ==
    /\ IsFiniteSet(Keys)
    /\ IsFiniteSet(Names)
    /\ IsFiniteSet(Paths)

VARIABLES
    tree,      \* SQLite versions: the tree hash of each row, NoTree if absent
    refs,      \* SQLite blob_refs.refcount, 0 when the row is absent
    refRows,   \* SQLite blob_refs: the blobs that have a row
    histNext,  \* SQLite globals: the next historical tag, 0 if never used
    stored,    \* Pebble: the objects present
    unsynced,  \* objects of batches committed NoSync and not synced since
    jobs,      \* the publish each rescan worker has staged in temp/
    pc,        \* where the holder of writeMu is ("idle": nobody holds it)
    row,       \* the version row being published, or of the key being deleted
    new,       \* the tree being published
    pend,      \* pendingObj: objects the publish found missing in Pebble
    left,      \* those of pend not written yet
    old,       \* the tree whose row was deleted and whose objects are cleaned up
    dead,      \* objects about to be deleted from Pebble
    ret,       \* what the writer resumes once the cleanup is done
    gcPc,      \* where the background collector is
    gcSet      \* its reachable set, then its remaining candidates

index == <<tree, refs, refRows, histNext>>
pebble == <<stored, unsynced>>
writer == <<pc, row, new, pend, left, old, dead, ret>>
gc == <<gcPc, gcSet>>
vars == <<tree, refs, refRows, histNext, stored, unsynced, jobs,
          pc, row, new, pend, left, old, dead, ret, gcPc, gcSet>>

NoRow == <<>>
Jobs == [tag : Names \cup BrotherTags, tree : Trees, staged : SUBSET Blobs]

-----------------------------------------------------------------------------
(* The content of trees and what the index references.                     *)

TreeBlobs(t) == {TreeAt[t][p] : p \in Paths} \ {NoBlob}
TreeObjects(t) == TreeBlobs(t) \cup {t}

\* CountBlobRefs: a tree references a blob once per path.
CountBlobRefs(t, b) ==
    IF t = NoTree THEN 0 ELSE Cardinality({p \in Paths : TreeAt[t][p] = b})

\* The (row, path) pairs under which the version table f names the blob b.
RefSet(f, b) ==
    {x \in RowIds \X Paths : f[x[1]] # NoTree /\ TreeAt[f[x[1]]][x[2]] = b}

TreeReferenced(t) == \E r \in RowIds : tree[r] = t
BlobReferenced(b) == b \in refRows /\ refs[b] > 0
pendingObjectReferenced(o) ==
    IF o \in Blobs THEN BlobReferenced(o) ELSE TreeReferenced(o)

\* Mutant: one reference per blob of the tree, not one per path.
AddBlobRefsOncePerTree(f, t) ==
    [b \in Blobs |-> f[b] + IF b \in TreeBlobs(t) THEN 1 ELSE 0]
AddBlobRefs(f, t) == [b \in Blobs |-> f[b] + CountBlobRefs(t, b)]
\* Mutant: one reference per blob of the tree, not one per path.
SubtractBlobRefsOncePerTree(f, t) ==
    [b \in Blobs |-> f[b] - IF b \in TreeBlobs(t) THEN 1 ELSE 0]
\* Mutant: every blob loses as many references as the tree has files.
SubtractBlobRefsOfTree(f, t) ==
    [b \in Blobs |-> f[b] - IF b \in TreeBlobs(t)
                            THEN Cardinality({p \in Paths : TreeAt[t][p] # NoBlob})
                            ELSE 0]
SubtractBlobRefs(f, t) == [b \in Blobs |-> f[b] - CountBlobRefs(t, b)]
\* The UPDATE of SubtractBlobRefs must touch every blob of the tree.
NoUnderflow(t) ==
    \A b \in TreeBlobs(t) : b \in refRows /\ refs[b] >= CountBlobRefs(t, b)

\* The tags of the historical rows of all keys.
HistoricalTags == {n \in HistTags : \E k \in Keys : tree[<<k, n>>] # NoTree}
\* Mutant: the tag after the highest one still in the index (no counter).
NextHistoricalVersionByRows ==
    IF HistoricalTags = {} THEN 1
    ELSE 1 + CHOOSE m \in HistoricalTags : \A n \in HistoricalTags : n <= m
\* Mutant: the counter holds the last tag issued and is not incremented first.
NextHistoricalVersionLast == IF histNext > 1 THEN histNext - 1 ELSE 1
\* The tag the next superseded revision is filed under.
NextHistoricalVersion ==
    IF histNext # 0 THEN histNext
    ELSE IF HistoricalTags = {} THEN 1
    ELSE 1 + CHOOSE m \in HistoricalTags : \A n \in HistoricalTags : n <= m

\* Pebble syncs its log with a batch; an empty batch is not committed.
SyncedBy(batch) == IF batch = {} THEN unsynced ELSE {}

-----------------------------------------------------------------------------
Init ==
    /\ tree = [r \in RowIds |-> NoTree]
    /\ refs = [b \in Blobs |-> 0]
    /\ refRows = {}
    /\ histNext = 0
    /\ stored = {}
    /\ unsynced = {}
    /\ jobs = [k \in Keys |-> NoJob]
    /\ pc = "idle"
    /\ row = NoRow
    /\ new = NoTree
    /\ pend = {}
    /\ left = {}
    /\ old = NoTree
    /\ dead = {}
    /\ ret = "idle"
    /\ gcPc = "idle"
    /\ gcSet = {}

\* The writer returns and releases writeMu.
Unlock ==
    /\ pc' = "idle"
    /\ row' = NoRow
    /\ new' = NoTree
    /\ pend' = {}
    /\ left' = {}
    /\ old' = NoTree
    /\ dead' = {}
    /\ ret' = "idle"

-----------------------------------------------------------------------------
(* Staging.  A worker has fetched tree t of version tag of key k: from a   *)
(* git forge it stages every blob, from a brother only those               *)
(* FilterMissingBlobs did not find in Pebble at that moment.  A key has    *)
(* one worker, which publishes what it staged before it goes on.           *)

FilterMissingBlobs(t) == TreeBlobs(t) \ stored

Stage(k, tag, t) ==
    /\ jobs[k] = NoJob
    /\ new # NoTree => row[1] # k
    /\ \E staged \in {TreeBlobs(t), FilterMissingBlobs(t)} :
          jobs' = [jobs EXCEPT ![k] = [tag |-> tag, tree |-> t, staged |-> staged]]
    /\ UNCHANGED <<index, pebble, writer, gc>>

\* The worker gives up, or a content check of PublishStaged fails before the
\* lock: the spool is removed.
Abandon(k) ==
    /\ jobs[k] # NoJob
    /\ jobs' = [jobs EXCEPT ![k] = NoJob]
    /\ UNCHANGED <<index, pebble, writer, gc>>

-----------------------------------------------------------------------------
(* PublishStaged, from the moment it holds writeMu.                        *)

\* Mutant: the references were checked before the lock and are trusted.
ReferencesPresentTrusted(j) == TRUE
\* verifyStagedReferences: every blob of the tree is staged or stored.
ReferencesPresent(j) == TreeBlobs(j.tree) \subseteq j.staged \cup stored
PendingObjects(j) == (j.staged \cup {j.tree}) \ stored

PublishBegin(k) ==
    /\ pc = "idle"
    /\ jobs[k] # NoJob
    /\ ReferencesPresent(jobs[k])
    /\ pc' = "budget"
    /\ row' = <<k, jobs[k].tag>>
    /\ new' = jobs[k].tree
    /\ pend' = PendingObjects(jobs[k])
    /\ jobs' = [jobs EXCEPT ![k] = NoJob]
    /\ UNCHANGED <<index, pebble, left, old, dead, ret, gc>>

PublishReject(k) ==
    /\ pc = "idle"
    /\ jobs[k] # NoJob
    /\ ~ ReferencesPresent(jobs[k])
    /\ jobs' = [jobs EXCEPT ![k] = NoJob]
    /\ UNCHANGED <<index, pebble, writer, gc>>

\* deleteVersionLocked up to the commit of its transaction.
DeleteVersionTx(r, resume) ==
    /\ tree[r] # NoTree
    /\ tree[r] \in stored
    /\ NoUnderflow(tree[r])
    /\ refs' = SubtractBlobRefs(refs, tree[r])
    /\ tree' = [tree EXCEPT ![r] = NoTree]
    /\ old' = tree[r]
    /\ pc' = "refs"
    /\ ret' = resume
    /\ UNCHANGED <<refRows, histNext, pebble, jobs, row, new, pend, left, dead, gc>>

\* Mutant: eviction spares only the versions that have the same tree.
versionProtectedByTree(t) == t = new
\* Eviction spares a version that shares an object with the tree being
\* published.
versionProtected(t) == TreeObjects(t) \cap TreeObjects(new) # {}

EvictVersion(r) ==
    /\ pc = "budget"
    /\ tree[r] # NoTree
    /\ ~ versionProtected(tree[r])
    /\ DeleteVersionTx(r, "budget")

BudgetReject ==
    /\ pc = "budget"
    /\ Unlock
    /\ UNCHANGED <<index, pebble, jobs, gc>>

BudgetAdmit ==
    /\ pc = "budget"
    /\ pc' = "write"
    /\ left' = pend
    /\ UNCHANGED <<index, pebble, jobs, row, new, pend, old, dead, ret, gc>>

\* A full batch is committed NoSync and more is to come; the tree is last.
WriteBatch(batch) ==
    /\ pc = "write"
    /\ batch # {}
    /\ batch # left
    /\ batch \subseteq left \ {new}
    /\ stored' = stored \cup batch
    /\ unsynced' = unsynced \cup batch
    /\ left' = left \ batch
    /\ UNCHANGED <<index, jobs, pc, row, new, pend, old, dead, ret, gc>>

\* The last batch is committed with Sync; nothing pending, nothing committed.
WriteLast ==
    /\ pc = "write"
    /\ stored' = stored \cup left
    /\ unsynced' = SyncedBy(left)
    /\ left' = {}
    /\ pc' = "commit"
    /\ UNCHANGED <<index, jobs, row, new, pend, old, dead, ret, gc>>

WriteError ==
    /\ pc = "write"
    /\ left # {}
    /\ pc' = "fail"
    /\ UNCHANGED <<index, pebble, jobs, row, new, pend, left, old, dead, ret, gc>>

\* The hard limit, the read of the existing row or its tree, or the
\* transaction failed (its statements roll back together).
CommitError ==
    /\ pc = "commit"
    /\ pc' = "fail"
    /\ UNCHANGED <<index, pebble, jobs, row, new, pend, left, old, dead, ret, gc>>

CommitSkip ==
    /\ pc = "commit"
    /\ tree[row] = new
    /\ Unlock
    /\ UNCHANGED <<index, pebble, jobs, gc>>

\* Mutant: the commit does not look for a superseded revision.
CommitFirstUnchecked ==
    /\ pc = "commit"
    /\ tree' = [tree EXCEPT ![row] = new]
    /\ refs' = AddBlobRefs(refs, new)
    /\ refRows' = refRows \cup TreeBlobs(new)
    /\ Unlock
    /\ UNCHANGED <<histNext, pebble, jobs, gc>>
CommitFirst ==
    /\ pc = "commit"
    /\ tree[row] = NoTree
    /\ tree' = [tree EXCEPT ![row] = new]
    /\ refs' = AddBlobRefs(refs, new)
    /\ refRows' = refRows \cup TreeBlobs(new)
    /\ Unlock
    /\ UNCHANGED <<histNext, pebble, jobs, gc>>

\* History mode: the superseded revision moves, with its references, to the
\* next historical tag of the key.  Its detection row is a plain INSERT: a
\* row already filed under that tag fails the transaction (CommitError).
HistoricalRow == <<row[1], NextHistoricalVersion>>

CommitHistory ==
    /\ pc = "commit"
    /\ HistoryMode
    /\ tree[row] \notin {NoTree, new}
    /\ tree[row] \in stored
    /\ NextHistoricalVersion \in HistTags
    /\ tree[HistoricalRow] = NoTree
    /\ tree' = [tree EXCEPT ![HistoricalRow] = tree[row], ![row] = new]
    /\ refs' = AddBlobRefs(refs, new)
    /\ refRows' = refRows \cup TreeBlobs(new)
    /\ histNext' = NextHistoricalVersion + 1
    /\ Unlock
    /\ UNCHANGED <<pebble, jobs, gc>>

\* Overwrite mode: the superseded revision is dropped in the same
\* transaction and its objects are cleaned up after the commit.
CommitOverwrite ==
    /\ pc = "commit"
    /\ ~ HistoryMode
    /\ tree[row] \notin {NoTree, new}
    /\ tree[row] \in stored
    /\ NoUnderflow(tree[row])
    /\ tree' = [tree EXCEPT ![row] = new]
    /\ refs' = AddBlobRefs(SubtractBlobRefs(refs, tree[row]), new)
    /\ refRows' = refRows \cup TreeBlobs(new)
    /\ old' = tree[row]
    /\ pc' = "refs"
    /\ UNCHANGED <<histNext, pebble, jobs, row, new, pend, left, dead, ret, gc>>

\* cleanupPublishFailure: pending objects the index does not reference are
\* deleted again.
UnreferencedPending == {o \in pend : ~ pendingObjectReferenced(o)}

CleanupPublishFailure ==
    /\ pc = "fail"
    /\ stored' = stored \ UnreferencedPending
    /\ unsynced' = SyncedBy(UnreferencedPending)
    /\ Unlock
    /\ UNCHANGED <<index, jobs, gc>>

\* It can fail before or between its delete batches.
CleanupPublishFailureError ==
    /\ CleanupFails
    /\ pc = "fail"
    /\ UnreferencedPending # {}
    /\ \E done \in SUBSET UnreferencedPending :
          /\ stored' = stored \ done
          /\ unsynced' = SyncedBy(done)
    /\ Unlock
    /\ UNCHANGED <<index, jobs, gc>>

-----------------------------------------------------------------------------
(* cleanupDeletedObjectsLocked, shared by every deletion.                  *)

\* Mutant: the refcounts are not consulted.
UnreferencedBlobsAll(t) == TreeBlobs(t) \cap refRows
UnreferencedBlobs(t) == {b \in TreeBlobs(t) : b \in refRows /\ refs[b] = 0}
\* Mutant: the tree object is deleted although another version has it.
DeletedObjectsWithTree(t) == UnreferencedBlobs(t) \cup {t}
DeletedObjects(t) ==
    UnreferencedBlobs(t) \cup (IF TreeReferenced(t) THEN {} ELSE {t})

Resume ==
    IF ret = "idle" THEN Unlock
    ELSE /\ pc' = ret
         /\ old' = NoTree
         /\ dead' = {}
         /\ ret' = "idle"
         /\ UNCHANGED <<row, new, pend, left>>

\* The refcount=0 rows go first (DeleteUnreferencedBlobRefs) ...
CleanupRefs ==
    /\ pc = "refs"
    /\ dead' = DeletedObjects(old)
    /\ refRows' = refRows \ DeletedObjects(old)
    /\ pc' = "objs"
    /\ UNCHANGED <<tree, refs, histNext, pebble, jobs, row, new, pend, left, old, ret, gc>>

\* ... then the objects, deleted with Sync.
CleanupObjs ==
    /\ pc = "objs"
    /\ stored' = stored \ dead
    /\ unsynced' = SyncedBy(dead)
    /\ Resume
    /\ UNCHANGED <<index, jobs, gc>>

\* An error ends the operation, with any part of the objects deleted.
CleanupError ==
    /\ pc \in {"refs", "objs"}
    /\ \E done \in SUBSET dead :
          /\ stored' = stored \ done
          /\ unsynced' = SyncedBy(done)
    /\ Unlock
    /\ UNCHANGED <<index, jobs, gc>>

-----------------------------------------------------------------------------
(* The other writers.                                                      *)

DeleteVersion(r) ==
    /\ pc = "idle"
    /\ DeleteVersionTx(r, "idle")

\* DeleteKey holds writeMu over the deletion of all versions of a key; a
\* cancelled context ends it early.
DeleteKeyBegin(r) ==
    /\ pc = "idle"
    /\ tree[r] # NoTree
    /\ pc' = "key"
    /\ row' = r
    /\ UNCHANGED <<index, pebble, jobs, new, pend, left, old, dead, ret, gc>>

DeleteKeyNext(r) ==
    /\ pc = "key"
    /\ r[1] = row[1]
    /\ DeleteVersionTx(r, "key")

DeleteKeyEnd ==
    /\ pc = "key"
    /\ Unlock
    /\ UNCHANGED <<index, pebble, jobs, gc>>

\* RepairBlobRefs rebuilds blob_refs from the trees of all rows, then sweeps
\* Pebble; an unreadable tree makes it fail before it changes anything.
ReachableBlobs == UNION {TreeBlobs(tree[r]) : r \in {q \in RowIds : tree[q] # NoTree}}
ReachableTrees == {tree[r] : r \in RowIds} \ {NoTree}

RepairBlobRefs ==
    /\ pc = "idle"
    /\ ReachableTrees \subseteq stored
    /\ refs' = [b \in Blobs |-> Cardinality(RefSet(tree, b))]
    /\ refRows' = ReachableBlobs
    /\ dead' = stored \ (ReachableBlobs \cup ReachableTrees)
    /\ pc' = "objs"
    /\ UNCHANGED <<tree, histNext, pebble, jobs, row, new, pend, left, old, ret, gc>>

-----------------------------------------------------------------------------
(* The background collector.  It reads the live blob rows, then the tree   *)
(* hashes, then a Pebble snapshot, all without writeMu, and takes the lock *)
(* for each batch of candidates, which it checks again.                    *)

\* Mutant: refcount=0 rows count as live.
GCReadBlobsAnyRow ==
    /\ gcPc = "idle"
    /\ gcPc' = "trees"
    /\ gcSet' = refRows
    /\ UNCHANGED <<index, pebble, jobs, writer>>
GCReadBlobs ==
    /\ gcPc = "idle"
    /\ gcPc' = "trees"
    /\ gcSet' = {b \in Blobs : BlobReferenced(b)}
    /\ UNCHANGED <<index, pebble, jobs, writer>>

GCReadTrees ==
    /\ gcPc = "trees"
    /\ gcPc' = "scan"
    /\ gcSet' = gcSet \cup ReachableTrees
    /\ UNCHANGED <<index, pebble, jobs, writer>>

GCSnapshot ==
    /\ gcPc = "scan"
    /\ gcSet' = stored \ gcSet
    /\ gcPc' = IF stored \ gcSet = {} THEN "idle" ELSE "sweep"
    /\ UNCHANGED <<index, pebble, jobs, writer>>

\* Mutant: the candidates are not checked again under the lock.
GCConfirmedUnchecked(batch) == batch
\* deleteOrphanBatchChecked; blobs are offered before trees.
GCConfirmed(batch) == {o \in batch : ~ pendingObjectReferenced(o)}

GCBatch(batch) ==
    /\ gcPc = "sweep"
    /\ pc = "idle"
    /\ batch # {}
    /\ batch \cap Trees = {} \/ gcSet \cap Blobs \subseteq batch
    /\ stored' = stored \ GCConfirmed(batch)
    /\ unsynced' = SyncedBy(GCConfirmed(batch))
    /\ gcSet' = gcSet \ batch
    /\ gcPc' = IF gcSet = batch THEN "idle" ELSE "sweep"
    /\ UNCHANGED <<index, jobs, writer>>

\* The cycle ends with an error; the loop starts over at the next tick.
GCAbort ==
    /\ gcPc # "idle"
    /\ gcPc' = "idle"
    /\ gcSet' = {}
    /\ UNCHANGED <<index, pebble, jobs, writer>>

-----------------------------------------------------------------------------
(* A crash loses what Pebble had not synced (any part of it: a superset of *)
(* the log suffixes it can lose), the spools and every goroutine.  SQLite  *)
(* keeps the transactions it committed.  New and Recover only empty temp/. *)

Crash ==
    /\ Crashes
    /\ \E lost \in SUBSET unsynced : stored' = stored \ lost
    /\ unsynced' = {}
    /\ jobs' = [k \in Keys |-> NoJob]
    /\ Unlock
    /\ gcPc' = "idle"
    /\ gcSet' = {}
    /\ UNCHANGED index

-----------------------------------------------------------------------------
WriterStep ==
    \/ \E r \in RowIds : EvictVersion(r) \/ DeleteKeyNext(r)
    \/ BudgetReject
    \/ BudgetAdmit
    \/ \E batch \in SUBSET left : WriteBatch(batch)
    \/ WriteLast
    \/ WriteError
    \/ CommitError
    \/ CommitSkip
    \/ CommitFirst
    \/ CommitHistory
    \/ CommitOverwrite
    \/ CleanupPublishFailure
    \/ CleanupPublishFailureError
    \/ CleanupRefs
    \/ CleanupObjs
    \/ CleanupError
    \/ DeleteKeyEnd

GCRead == GCReadBlobs \/ GCReadTrees \/ GCSnapshot
GCSweep == \E batch \in SUBSET gcSet : GCBatch(batch)

Next ==
    \/ \E k \in Keys, tag \in Names \cup BrotherTags, t \in Trees : Stage(k, tag, t)
    \/ \E k \in Keys : Abandon(k) \/ PublishBegin(k) \/ PublishReject(k)
    \/ \E r \in RowIds : DeleteVersion(r) \/ DeleteKeyBegin(r)
    \/ RepairBlobRefs
    \/ WriterStep
    \/ GCRead
    \/ GCSweep
    \/ GCAbort
    \/ Crash

Spec == Init /\ [][Next]_vars

\* The holder of writeMu goes on, the collector's loop goes on, and a waiting
\* collector gets writeMu (sync.Mutex hands it over after a millisecond of
\* waiting); errors of the collector and crashes come to an end.
Fairness ==
    /\ WF_vars(WriterStep)
    /\ WF_vars(GCRead)
    /\ SF_vars(GCSweep)
    /\ <>[][~ (GCAbort \/ Crash)]_vars

FairSpec == Spec /\ Fairness

-----------------------------------------------------------------------------
(* Properties.                                                             *)

\* Every variable keeps its type: in particular refcounts never go below
\* zero (SubtractBlobRefs), and the collector and the writer only ever hold
\* object hashes.
TypeOK ==
    /\ tree \in [RowIds -> Trees \cup {NoTree}]
    /\ refs \in [Blobs -> Nat]
    /\ refRows \subseteq Blobs
    /\ histNext \in 0..(MaxHist + 1)
    /\ stored \subseteq Objects
    /\ unsynced \subseteq stored
    /\ jobs \in [Keys -> Jobs \cup {NoJob}]
    /\ pc \in {"idle", "budget", "write", "commit", "fail", "refs", "objs", "key"}
    /\ row \in RowIds \cup {NoRow}
    /\ new \in Trees \cup {NoTree}
    /\ pend \subseteq Objects
    /\ left \subseteq pend
    /\ old \in Trees \cup {NoTree}
    /\ dead \subseteq Objects
    /\ ret \in {"idle", "budget", "key"}
    /\ gcPc \in {"idle", "trees", "scan", "sweep"}
    /\ gcSet \subseteq Objects

\* The version at row r can be read in full.
Readable(r) == tree[r] # NoTree => TreeObjects(tree[r]) \subseteq stored

\* A version in the index is complete: its tree and every blob of it are in
\* Pebble, whatever was evicted, collected, repaired, failed or lost in a
\* crash ("PublishStaged is the visibility boundary. Partial staged data must
\* not become public", mod/storage/README.md).
NoDangling == \A r \in RowIds : Readable(r)

\* blob_refs is what the trees of the version rows say it is, at every step
\* outside a transaction: VerifyIntegrity reports a mismatch or a missing row.
RefsExact ==
    \A b \in Blobs : /\ refs[b] = Cardinality(RefSet(tree, b))
                     /\ refs[b] > 0 => b \in refRows

\* PublishStaged is between its checks and its commit.
Publishing == pc \in {"budget", "write", "commit"} \/ ret = "budget"

\* While PublishStaged makes room and writes, each object of the incoming
\* tree is in Pebble or still pending: eviction never takes away a stored
\* object that verifyStagedReferences relied on.
IncomingIntact ==
    Publishing => TreeObjects(new) \subseteq
                  stored \cup (IF pc \in {"write", "commit"} THEN left ELSE pend)

\* In history mode the commit of a publish never drops content: every tree a
\* key had in the index before is still under some row of that key.
HistoryPreserved ==
    [][HistoryMode /\ pc = "commit" =>
         \A r \in RowIds : tree[r] # NoTree =>
            \E q \in RowIds : q[1] = r[1] /\ tree'[q] = tree[r]]_vars

\* A historical tag is issued once: a row appears under it only at or above
\* the counter, over no other row, and the counter passes it in that commit,
\* even after the row has been evicted (tags that upstreams list aside).
TagsIssuedOnce ==
    [][\A k \in Keys, n \in HistTags \ BrotherTags :
         tree'[<<k, n>>] \notin {NoTree, tree[<<k, n>>]} =>
            tree[<<k, n>>] = NoTree /\ n >= histNext /\ histNext' > n]_vars

\* The tag the next superseded revision of a key is filed under is free, so
\* that filing it does not fail ("NextHistoricalVersion returns the next
\* monotonic historical tag", sqliteindex/metadata.go).
HistTagFree == \A k \in Keys : NextHistoricalVersion \in HistTags =>
                                  tree[<<k, NextHistoricalVersion>>] = NoTree

\* An object that is in Pebble and that no version references.
Orphan(o) == o \in stored /\ ~ pendingObjectReferenced(o)

\* An object no version references does not stay in Pebble: the collector
\* deletes it, unless a version references it again.
OrphansReclaimed == \A o \in Objects : Orphan(o) ~> ~ Orphan(o)

-----------------------------------------------------------------------------
(* What a reader can fetch: the tree of each version row, if the tree and  *)
(* its blobs are all in Pebble; the catalogue knows no lost version.       *)

Lost == "lost"
ReadableCat == [r \in RowIds |-> IF Readable(r) THEN tree[r] ELSE Lost]

Catalog == INSTANCE VersionCatalog
    WITH cat <- ReadableCat, top <- IF histNext = 0 THEN 0 ELSE histNext - 1

\* The store implements the catalogue of complete versions: evictions,
\* deletes and commits are its atomic steps, and the writes, the collector,
\* the repair, failed publishes and crashes change nothing a reader can see.
ImplementsCatalog == Catalog!Spec
=============================================================================
