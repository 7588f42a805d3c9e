------------------------------- MODULE Quota -------------------------------
(* The durable budget of mod/storage (quota.go, and the publish and deletion   *)
(* around it): what a publish counts as incoming, which versions are evicted   *)
(* for it, when the eviction ends, and what is admitted.  DurableStore lets    *)
(* the budget evict any version; here are the sizes.  All of it happens under  *)
(* writeMu, so that one publish is under way; the physical size and its hard   *)
(* limit are left to WriteFails.                                               *)
EXTENDS Naturals, FiniteSets, FiniteSetsExt, Sequences

CONSTANTS
    Requests,       \* what may be published: [key, version, tree], versions in their upstream order
    BlobsOf,        \* the blobs of a tree
    BytesOf,        \* the bytes of an object, a blob or a tree
    PageSize,       \* cQuotaEvictPageSize
    FirstHistorical,\* where the numbers of historical versions begin, above all of upstream's
    MaxCommits,     \* bound on commits
    NoRequest,
    QuotaSettings   \* MaxTotalSize (0: none), EvictToSize, RetainLatestPerKey, MaxVersionsPerKey (0: no
                    \* limit), whether a replaced version is kept as history, and the requests that
                    \* were published before, one after the other

\* Trees and blobs are stored apart; every object has a size.
ASSUME ObjectsAssumption ==
    \A t \in DOMAIN BlobsOf :
        /\ IsFiniteSet(BlobsOf[t]) /\ \A u \in DOMAIN BlobsOf : u \notin BlobsOf[t]
        /\ \A o \in BlobsOf[t] \cup {t} : BytesOf[o] \in Nat
ASSUME RequestsAssumption ==
    /\ FirstHistorical \in Nat /\ PageSize \in Nat \ {0}
    /\ \A q \in Requests : q.version \in 1 .. FirstHistorical - 1 /\ q.tree \in DOMAIN BlobsOf
\* What was published before are versions of their own, within the budget.
ASSUME QuotaSettingsAssumption ==
    \A s \in QuotaSettings :
        /\ s \in [max : Nat, evictTo : Nat, retain : Nat, perKey : Nat, history : BOOLEAN, before : Seq(Requests)]
        /\ \A i, k \in 1 .. Len(s.before) :
               s.before[i].key = s.before[k].key /\ s.before[i].version = s.before[k].version => i = k
        /\ LET blobs == UNION {BlobsOf[s.before[i].tree] : i \in 1 .. Len(s.before)}
           IN  s.max > 0 => MapThenSumSet(LAMBDA o : BytesOf[o], blobs) < s.max

VARIABLES
    rows,          \* versions: [key, version, seq, ingest, tree]
    objects,       \* the blobs and trees in Pebble
    commits,       \* commits so far: the time of the next ingest, and of the next historical tag
    admission,     \* the publish under way
    adopted,       \* bytes of unreferenced blobs that the last commit found in Pebble
    quotaSetting

quotaVars == <<rows, objects, commits, admission, adopted, quotaSetting>>

Blobs(R) == UNION {BlobsOf[r.tree] : r \in R}
ObjectsOf(t) == BlobsOf[t] \cup {t}
Bytes(S) == MapThenSumSet(LAMBDA o : BytesOf[o], S)
\* The bytes of the blobs with references, trees apart.
ReferencedBytes(R) == Bytes(Blobs(R))

Idle == [at |-> "idle", request |-> NoRequest, pending |-> {}, limit |-> 0, target |-> 0,
         prune |-> {}, retained |-> {}, after |-> 0, page |-> <<>>, measured |-> 0, estimate |-> 0]
In(where) == admission.at = where
request == admission.request
Reject == admission' = Idle

RowOf(q, ingest) ==
    [key |-> q.key, version |-> q.version, seq |-> q.version, ingest |-> ingest, tree |-> q.tree]
QuotaInit ==
    /\ quotaSetting \in QuotaSettings
    /\ rows = {RowOf(quotaSetting.before[i], i - 1) : i \in 1 .. Len(quotaSetting.before)}
    /\ objects = UNION {ObjectsOf(r.tree) : r \in rows}
    /\ commits = Len(quotaSetting.before) /\ admission = Idle /\ adopted = 0

------------------------------------------------------------------------------
(* Which versions.                                                            *)

\* sortVersions: historical rows have no place upstream and come last.
Newer(r, s) == r.seq > s.seq \/ (r.seq = s.seq /\ r.version > s.version)
RowsOf(k) == {r \in rows : r.key = k}
\* The place of a row in the list of its key, newest first.
Rank(r) == Cardinality({s \in RowsOf(r.key) : Newer(s, r)}) + 1
Retained == {r \in rows : Rank(r) <= quotaSetting.retain}
keepCount == IF quotaSetting.perKey < quotaSetting.retain THEN quotaSetting.retain ELSE quotaSetting.perKey
versionProtected(r, t) == r.tree = t \/ BlobsOf[r.tree] \cap BlobsOf[t] # {}
Prunable(t) ==
    IF quotaSetting.perKey = 0 THEN {} ELSE {r \in rows : Rank(r) > keepCount /\ ~ versionProtected(r, t)}

\* deleteVersionLocked: the row, then the objects nothing references any more;
\* when that fails the objects stay, and the publish ends.
Without(r) == rows \ {r}
Unreferenced(r) == ObjectsOf(r.tree) \ (Blobs(Without(r)) \cup {s.tree : s \in Without(r)})
deleteVersionLocked(r) ==
    /\ rows' = Without(r)
    /\ objects' = objects \ Unreferenced(r)
CleanupFails(r) ==
    /\ rows' = Without(r)
    /\ objects' \in {objects, objects \ {r.tree}} \* nothing, or the tree, is gone
    /\ Reject

------------------------------------------------------------------------------
(* Admission.                                                                 *)

\* Objects that are in Pebble are not incoming, whether referenced or not.
PendingObjects(t) == ObjectsOf(t) \ objects
WithinLimit == ReferencedBytes(rows) < admission.limit

Target(limit) ==
    IF quotaSetting.evictTo = 0 \/ quotaSetting.evictTo >= limit THEN limit - 1 ELSE quotaSetting.evictTo
\* A publish too large for the budget as a whole changes nothing.
Publish(q) ==
    /\ In("idle") /\ commits < MaxCommits
    /\ LET pending == PendingObjects(q.tree)
           begun == [Idle EXCEPT !.request = q, !.pending = pending]
           limit == quotaSetting.max - Bytes(pending)
       IN  \/ quotaSetting.max = 0 /\ admission' = [begun EXCEPT !.at = "write"]
           \/ /\ Bytes(pending) < quotaSetting.max
              /\ admission' = [begun EXCEPT !.at = IF ReferencedBytes(rows) < limit THEN "write" ELSE "prune",
                                            !.limit = limit, !.target = Target(limit),
                                            !.prune = Prunable(q.tree), !.retained = Retained]
    /\ UNCHANGED <<rows, objects, commits, adopted, quotaSetting>>

------------------------------------------------------------------------------
(* Eviction.                                                                  *)

\* prunePerKeyLocked: key by key, newest first.
NextPruned(r) == \A s \in admission.prune \ {r} : r.key < s.key \/ (r.key = s.key /\ Newer(r, s))
Prune ==
    /\ In("prune")
    /\ \E r \in admission.prune :
           /\ NextPruned(r)
           /\ \/ deleteVersionLocked(r) /\ admission' = [admission EXCEPT !.prune = @ \ {r}]
              \/ CleanupFails(r)
    /\ UNCHANGED <<commits, adopted, quotaSetting>>
\* The end of the pruning, and the first measurement.
Pruned ==
    /\ In("prune") /\ admission.prune = {}
    /\ admission' = [admission EXCEPT
                        !.measured = ReferencedBytes(rows),
                        !.at = IF admission.target = 0 \/ ReferencedBytes(rows) < admission.target
                               THEN "admit" ELSE "page"]
    /\ UNCHANGED <<rows, objects, commits, adopted, quotaSetting>>

\* The rows are read by time of ingest, a page at a time, until there are
\* candidates for a page of them or a page is not full.
Unread == {r \in rows : r.ingest >= admission.after}
Candidates == {r \in Unread \ admission.retained : ~ versionProtected(r, request.tree)}
Older(r, S) == {s \in S : s.ingest < r.ingest}
\* When all pages were full the next query finds nothing: that ends the
\* eviction, and the candidates that were found stay.
EndsWithFullPage == Cardinality(Candidates) < PageSize /\ Cardinality(Unread) % PageSize = 0
Page ==
    /\ In("page")
    /\ LET C == Candidates
           P == {r \in C : Cardinality(Older(r, C)) < PageSize}
           page == [i \in 1 .. Cardinality(P) |-> CHOOSE r \in P : Cardinality(Older(r, P)) = i - 1]
       IN  admission' = [admission EXCEPT
                            !.at = IF C = {} \/ EndsWithFullPage THEN "admit" ELSE "evict",
                            !.page = page,
                            !.after = IF Cardinality(C) < PageSize THEN commits ELSE page[Len(page)].ingest + 1]
    /\ UNCHANGED <<rows, objects, commits, adopted, quotaSetting>>

\* Mutant of Measures: sizes are looked at once a page.
MeasuresLate(estimate) == Len(admission.page) = 1
\* treePayloadEstimate counts shared blobs too, so that it is never too small.
Measures(estimate) == admission.measured <= admission.target + estimate \/ Len(admission.page) = 1
EvictVersion ==
    /\ In("evict")
    /\ LET r == Head(admission.page)
           rest == Tail(admission.page)
           estimate == admission.estimate + Bytes(BlobsOf[r.tree])
           measured == IF Measures(estimate) THEN ReferencedBytes(Without(r)) ELSE admission.measured
       IN  \/ /\ deleteVersionLocked(r)
              /\ admission' = [admission EXCEPT
                                  !.page = rest,
                                  !.measured = measured,
                                  !.estimate = IF Measures(estimate) THEN 0 ELSE estimate,
                                  !.at = IF measured < admission.target THEN "admit"
                                         ELSE IF rest = <<>> THEN "page" ELSE "evict"]
           \/ CleanupFails(r)
    /\ UNCHANGED <<commits, adopted, quotaSetting>>
\* The context ends, or a read or a transaction fails.
EvictionFails ==
    /\ admission.at \in {"prune", "page", "evict", "admit"}
    /\ Reject
    /\ UNCHANGED <<rows, objects, commits, adopted, quotaSetting>>
Admit ==
    /\ In("admit")
    /\ IF WithinLimit THEN admission' = [admission EXCEPT !.at = "write"] ELSE Reject
    /\ UNCHANGED <<rows, objects, commits, adopted, quotaSetting>>

------------------------------------------------------------------------------
(* What is published, and what a failure leaves.                              *)

\* The write, the hard limit or the transaction; the cleanup of what was
\* written may fail too and leave orphans.
PublishFails ==
    /\ In("write")
    /\ \E left \in SUBSET admission.pending : objects' = objects \cup left
    /\ Reject
    /\ UNCHANGED <<rows, commits, adopted, quotaSetting>>

Existing == {r \in rows : r.key = request.key /\ r.version = request.version}
\* The replaced row under a historical tag.
Historical(r) == [r EXCEPT !.version = FirstHistorical + commits, !.seq = 0]
Inserted == RowOf(request, commits)
Superseded == (rows \ Existing) \cup (IF quotaSetting.history THEN {Historical(r) : r \in Existing} ELSE {})
\* Blobs in Pebble that were neither referenced nor written by this publish.
Adopted == (BlobsOf[request.tree] \cap objects) \ (Blobs(rows) \cup admission.pending)
\* What nothing references after an overwrite; a failed cleanup is only logged.
Overwritten == UNION {ObjectsOf(r.tree) : r \in Existing} \ (Blobs(rows') \cup {r.tree : r \in rows'})
written == objects \cup admission.pending
\* The objects are written, then the row.
Commit ==
    /\ In("write")
    /\ IF \E r \in Existing : r.tree = request.tree
       THEN objects' = written /\ UNCHANGED <<rows, commits, adopted>>
       ELSE /\ rows' = Superseded \cup {Inserted}
            /\ objects' \in {written, written \ Overwritten}
            /\ adopted' = Bytes(Adopted)
            /\ commits' = commits + 1
    /\ admission' = Idle
    /\ UNCHANGED quotaSetting

\* A sweep of what nothing references.
Sweep ==
    /\ In("idle")
    /\ objects' = objects \cap (Blobs(rows) \cup {r.tree : r \in rows})
    /\ UNCHANGED <<rows, commits, admission, adopted, quotaSetting>>

QuotaNext ==
    \/ \E q \in Requests : Publish(q)
    \/ Prune \/ Pruned \/ Page \/ EvictVersion \/ EvictionFails \/ Admit
    \/ PublishFails \/ Commit \/ Sweep
QuotaSpec == QuotaInit /\ [][QuotaNext]_quotaVars

------------------------------------------------------------------------------
\* Whatever was evicted, failed or left behind, the referenced bytes stay below
\* MaxTotalSize, apart from the orphans the last commit took up: a publish is
\* admitted for what it writes, and the eviction takes nothing it relies on.
WithinBudget ==
    quotaSetting.max > 0 => ReferencedBytes(rows) < quotaSetting.max + adopted

\* No version is deleted by a publish but one it replaces, or for the sake of
\* the budget: then never one of the newest RetainLatestPerKey of its key nor
\* one that shares with the incoming tree, and only while its key has more than
\* MaxVersionsPerKey, or while the store is above its target and no other that
\* may go was ingested before ("protected from quota eviction even when oldest
\* by ingest", mod/storage/storage_test.go:1491).
EvictionEarned ==
    \A r \in rows :
        \/ r \in rows'
        \/ In("write") /\ r \in Existing
        \/ /\ Rank(r) > quotaSetting.retain
           /\ BlobsOf[r.tree] \cap BlobsOf[request.tree] = {}
           /\ \/ quotaSetting.perKey > 0 /\ Cardinality(RowsOf(r.key)) > quotaSetting.perKey
              \/ /\ ReferencedBytes(rows) >= admission.target
                 /\ \A s \in rows :
                        s.ingest < r.ingest => versionProtected(s, request.tree) \/ Rank(s) <= quotaSetting.retain

\* The durable budget is kept, and nothing is evicted that need not be
\* (ensureDurableBudgetProtectedLocked, evictUnderDurableLocked).
BudgetKept == []WithinBudget /\ [][EvictionEarned]_quotaVars
==============================================================================
