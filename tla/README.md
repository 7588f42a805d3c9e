# yggvault in TLA+

yggvault mirrors releases of source repositories: it fetches them from git
forges or from other yggvault instances ("brothers"), keeps them by content in
Pebble and SQLite, and serves them as Go modules, Composer packages, archives
and pages. This directory holds TLA+ models of the parts of it where state,
concurrency and failures meet, their TLC configurations, and TLAPS proofs.
Paths below are relative to the repository; `mod/` is `src/mod/`.

1. [The system](#1-the-system)
2. [The modules](#2-the-modules)
3. [What is checked](#3-what-is-checked)
4. [What is proved](#4-what-is-proved)
5. [Where the code and its documentation disagree](#5-where-the-code-and-its-documentation-disagree)
6. [Not modelled](#6-not-modelled)
7. [Plan](#7-plan)

## 1. The system

`runtime.go` builds the parts (telemetry, storage, overlay, state, cache, mesh,
source, archive, rescan, server), starts telemetry, server and rescan, and on
shutdown closes server, rescan, mesh, telemetry, storage and logger in this
order, within two budgets.

    upstreams                              clients
       |                                      |
    mod/source --> mod/rescan           mod/server <-- mod/mesh
                     |     |              |   |   |
        mod/archive  |     +--> mod/state-+   |   +--> mod/cache
                     v                        v
                  mod/storage  <--------------+
                     |
            Pebble, SQLite, cache/hot

| Component | State it keeps | Operations | What is hard | What makes it correct | Module |
|---|---|---|---|---|---|
| durable store (`mod/storage`, `pebblestore`, `sqliteindex`) | Pebble objects; SQLite rows `versions`, `blob_refs`, `globals`; spools in `temp/`; `writeMu` | `PublishStaged`, `DeleteVersion`, `DeleteKey`, quota eviction, `RepairBlobRefs`, `CollectGarbage`, `Recover`, `FilterMissingBlobs` | two stores and no common transaction; a collector and workers that read without the lock; crashes with unsynced batches; cleanups that fail half-way | a listed version is complete; refcounts are exact; history is kept; orphans go away; the budget is kept without needless evictions | `DurableStore`, `Quota` |
| hot artifacts (`artifact.go`, `artifact_flight.go`, `hot_path.go`, `hot_build.go`) | rows of `materialized_artifacts`; files in `cache/hot`; `flightMap`; `hotActiveObj`, `hotDeleteObj`; `hotSharedFileObj.refs` | `EnsureArtifactFile`, `Close` of its result, budget eviction, `DeleteArtifact` | shared builds that are cancelled; deletion deferred to the last reader; files nobody retains | one build at a time; no file removed under a reader; no file left behind; every waiter answered | `HotArtifacts` |
| storage lifecycle (`init.go`) | `closedFlag`, root context, operation wait group, `gcLoopDone`, `closeDoneChan` | `New`, `Close`, `runDurableGCLoop` | Close returns at its deadline while operations and the collector still run | nothing uses a closed database | `Lifecycle` |
| rescan (`mod/rescan`) | supervisor's cycle and trigger; per-key miss counts, permanent failures, listing mode | `Start`, `Trigger`, `runCycle`, `ingestGit`, `ingestBrother`, `applyDeletionGrace`, `finishCycle`, `Close` | an upstream that changes within a cycle; versions that fail and come back; deletion after a grace; state that is in memory, in the database, or in both | nothing deleted before its grace; rejected content not downloaded again; in the end all that upstream lists is mirrored | `RescanKey`, `Lifecycle`, `MirrorLink` |
| state (`mod/state`) | diagnostics (active and inactive list), availability of keys, incremental snapshot, checksum | `RaiseDiagnostic`, `ClearDiagnostic` and its relatives, `ApplyAvailabilityBatch`, `SetClassification`, `SetMirrorStatsBatch` | a registry at its limit; a snapshot replaced part by part; scan results that come late or twice | the snapshot is a full rebuild's; no active diagnostic is forgotten; outages are counted once | `StateRegistry` |
| cache and server (`mod/cache`, `mod/server`, `mod/view`, `mod/route`) | cached documents, each under an ETag; the answers clients hold | `GetOrBuild`, `Expire`, conditional requests | an ETag made of state that a cycle updates after the rows it stands for; a build that answers after a change | an ETag that still matches stands for the present document; the cache refreshes in the end | `Documents` |
| brother protocol (`mod/brotherwire`, `mod/server/brother`, client in `mod/source`) | session with its limits, page cursor | `Hello`, `Index`, `Version`, `BlobsFetch` | lists that change between pages; limits that change between sessions; calls that fail in between | a page walk loses nothing that stays; a batch is within the limits; a cycle without failures mirrors all | `MirrorLink` |
| source (`mod/source`) | download slots, partial files, resume validators | discovery, archive download with retry and resume | resume after the upstream changed; slots over failures | a resumed file is one content; slots come back | `Download` |
| archive (`mod/archive`, `mod/overlay/universal.go`, `mod/storage/staged.go`) | spool files of one extraction | extraction, staging, universal archive | the same checks in different places and orders; a tree that a mirror extracts again | what one accepts the next accepts; a mirror gets the same tree | `ArchiveTree` |
| overlay (`mod/overlay`) | cache of rewritten texts | detection and zip of a Go module | sizes declared before files are opened, counted in a walk of their own | the zip is as declared, and exactly the mentions are renamed | `ModuleZip` |
| mesh, telemetry, logger, runtime | a node (external), metrics readers, the parts started so far | start, stop | failure half-way through start; a shutdown with budgets | the process ends, with nothing under way if it kept to its budgets | `Lifecycle` |
| maintenance | none of its own | offline inspect, prune, vacuum, rebuild | exclusive access | same as the storage operations it calls | - |
| cli, config, core, internal | none | parsing, value types, path rules | - | - | path rules in `ArchiveTree` |

What can go wrong and is hard to test, each at its line, is under "hazards" in
`PROJECT.json`, with the properties that cover it, or the reason why none does.

## 2. The modules

| Module | What it is |
|---|---|
| `DurableStore` | the durable store, one action per atomic step |
| `VersionCatalog` | what the durable store promises a reader: a table of complete versions |
| `Quota` | the durable budget: incoming bytes, eviction, admission |
| `DurableStoreProofs` | types, refcounts, completeness; history, historical tags, refinement of `VersionCatalog` (TLAPS) |
| `HotArtifacts`, `HotArtifactsProofs` | `EnsureArtifactFile` for one artifact, and its invariants (TLAPS) |
| `StateRegistry`, `StateRegistryProofs` | `mod/state`, and its invariants and action properties (TLAPS) |
| `RescanKey`, `RescanKeyProofs` | the cycles of one key, and what judges, deletes and downloads (TLAPS) |
| `Lifecycle` | the life of the process |
| `BudgetProofs` | the durable budget is kept and evictions are earned, and the shutdown of the process (TLAPS) |
| `Download` | downloads with retry and resume |
| `Documents` | the documents about a key, their ETags and caches |
| `MirrorLink` | a cycle of a key that mirrors another instance, with that instance |
| `Ordered` | sorting by a number, selection and sums, as functions one can reason about |
| `FiniteLemmas` | lemmas on finite sets, sums, orders and sequences for the proofs |
| `ServicesProofs` | what downloads, documents and the link deliver (TLAPS) |
| `ArchiveTree` | extraction, publication, universal archive, and extraction by a mirror |
| `ModuleZip` | the zip of a Go module |
| `ArchiveProofs` | what these two deliver (TLAPS) |
| `MCDurableStore`, `MCHotArtifacts`, `MCRescanKey`, `MCServices`, `MCProcess` | the data TLC runs on |

The components below the store meet it in few places, and those are in the
modules on both sides: what `RescanKey` calls a row being published is
`PublishStaged` of `DurableStore`; `Documents` has the rows and the statistics
the cycle leaves in `StateRegistry`; `MirrorLink` has the two ends of a session
in one module; `ArchiveTree` has the extraction, the store's checks and the
mirror's extraction in one; `Lifecycle` has all loops against the shutdown.

### DurableStore

State. `tree`, `refs`, `refRows`, `histNext` are the SQLite tables (`versions`
with the tree hash of a row, `blob_refs.refcount`, the presence of a
`blob_refs` row, the `globals` counter of historical tags). `stored` is what
Pebble answers, `unsynced` what it could still lose: `writeMissingObjectsFromLoader`
commits all batches but the last with `NoSync`, and a synced commit syncs the
log before it. `jobs` is the spool of each rescan worker. `pc`, `row`, `new`,
`pend`, `left`, `old`, `dead`, `ret` are the locals of the operation that holds
`writeMu`: the mutex admits one at a time, so one set of locals is enough.
`gcPc`, `gcSet` are those of the background collector.

Steps. A step ends where the code commits a SQLite transaction or a Pebble
batch, or takes or releases `writeMu`, because that is where another goroutine,
an error or a crash can come between.

| Code | Actions |
|---|---|
| `ingestBrotherVersion`, `ingestGitVersion`, `FilterMissingBlobs` | `Stage`, `Abandon` |
| `PublishStaged`: checks under the lock | `PublishBegin`, `PublishReject` |
| `ensureDurableBudgetProtectedLocked` and its evictions | `EvictVersion`, `BudgetAdmit`, `BudgetReject` |
| `writeMissingObjectsFromLoader` | `WriteBatch`, `WriteLast`, `WriteError` |
| `commitPublish`, `publishTx` | `CommitSkip`, `CommitFirst`, `CommitHistory`, `CommitOverwrite`, `CommitError` |
| `cleanupPublishFailure` | `CleanupPublishFailure`, `CleanupPublishFailureError` |
| `deleteVersionLocked`, `cleanupDeletedObjectsLocked` | `DeleteVersionTx`, `CleanupRefs`, `CleanupObjs`, `CleanupError` |
| `DeleteVersion`, `DeleteKey`, `RepairBlobRefs` | `DeleteVersion`; `DeleteKeyBegin`, `DeleteKeyNext`, `DeleteKeyEnd`; `RepairBlobRefs` |
| `collectGarbage`: `reachableForGC`, candidates, `deleteOrphanBatchChecked` | `GCReadBlobs`, `GCReadTrees`, `GCSnapshot`, `GCBatch`, `GCAbort` |
| the process or the machine stops; `New`, `Recover` | `Crash` |

Abstractions. Hashes are model values. A tree is a function from paths to
blobs, with paths that name the same blob: `CountBlobRefs` counts paths. Sizes
are not here (`Quota` has them), so the budget may evict any version it does not
protect, in any order, or refuse the publish: every order the quota code can
choose is one of these. Row columns other than the tree hash are left out, and so are the hot
files that deletions remove (`HotArtifacts` has them). A crash loses any subset
of `unsynced`; Pebble loses a suffix of its log, which is one of those subsets.
SQLite keeps what it committed: true of a process crash, and of a power loss
only as far as `synchronous=NORMAL` keeps it. The error paths of calls that
change nothing are represented where they change what happens next.

### Quota

State. `rows` are the rows of `versions` with their `upstream_seq` and the time
of their ingest, `objects` what Pebble holds, `admission` the publish that holds
`writeMu` with the locals of `ensureDurableBudgetProtectedLocked` and of the
eviction: the pending objects, the limit, the target, the pages of candidates,
the last measurement and the estimate since. `adopted` is history.

Steps. `Publish` is the admission (`PendingObjects`, the budget); an eviction is
`Prune` version by version (`evictPrunableVersionsLocked`), `Pruned`, then `Page`
and `EvictVersion` (`evictUntilTargetLocked` and its batches), `Admit`. `Page`
is the inner loop of the queries: the rows behind the cursor (`after`) are read a
page at a time until there are candidates for a whole page, or a page is not
full. When every page was full and the next one is empty, the code returns
(`quota.go:538`), and the candidates it had found are not evicted
(`EndsWithFullPage`); the publish may then be refused although something may go.
`Commit` or `PublishFails` follow. An eviction may end at any step, with its
last version deleted and the objects of it left (`CleanupFails`,
`EvictionFails`); what failures leave are the orphans that a later publish
takes up, unless `Sweep` comes first.

Abstractions. Each object has a small size. The steps between Pebble and SQLite
are those of `DurableStore`, here in one. The hard limit on the physical size is
one of the causes of `PublishFails`.

### HotArtifacts

State. `row` is the row of `materialized_artifacts`, `hot` the file at the
canonical path (named by the flight that built it), `bad` the damaged ones,
`transient` the unretained files of flights. `active` and `pending` are
`hotActiveObj` and `hotDeleteObj` of the path, `flight` the entry of
`flightMap`, `waiters`, `cancelled`, `result`, `refs` the fields of
`artifactFlightObj` and `hotSharedFileObj`. `pc`, `then`, `at`, `seen` are the
locals of each reader and of each flight's goroutine.

Steps. One critical section of `flightMu` or `hotActiveMu`, or one system call
on the hot directory. `openValidHotFile` is `Lstat`, `Retain`, `Open`,
`Verify`, `OpenError`, `Release`, `Unlink`, used by readers and flights alike.
`EnsureArtifactFile` is `EnsureBegin`, then `JoinFlight` or `StartFlight`, a
wait (`WaitDone`, `WaitFailed`, `WaitCancelled`, `JoinCancelled`), the opening
of the shared file (`SharedRetain`, `SharedOpenKept`, `SharedOpenTemp`,
`LeaveOpen`, `LeaveFailed`, `Check`) and its closing (`CloseHot`, `CloseTemp`,
`Cleanup`). The goroutine of a flight is `RunFlight`, `BuildKept`, `BuildTemp`,
`BuildFailed`, `AttachKept`, `AttachTemp`, `AttachFailed`, `FinishFlight`. The
rest of the program appears as `DeleteArtifact`, `Republish`, `EvictHot`,
`EvictTransient`, and the disk as `Damage`.

Abstractions. One artifact: others meet it only in the budget, which may choose
its files at any moment. Content and digests: the path names hash and size, so
a file there is right unless damaged. Build slots, access times and byte counts
are left out. A flight that nothing refers to is reused.

### StateRegistry

State. `keyMap` holds the `keyMutObj` of each key (`class` is "none" until
`classified`); `diag` the records of `diagnosticMap` by identity, `active` the
active ones, `inactive` the list between `inactiveHead` and `inactiveTail`;
`dropped`, `content` and `lastRescan` the fields of those names; `snap` what
`snapObj` points to.

Steps. `lockObj` covers every mutation, so a step is a call: one action per
exported method, and four for `RaiseDiagnostic` (`RaiseKnown`, `RaiseNew`,
`RaiseEvicting`, `RaiseDropped`). What is delicate is the publication:
`publishChanged` rebuilds the snapshot, while `publishMetaChanged`,
`publishKeyViewsChanged` and `publishHealthChanged` copy the last one and
replace a part. Clearing walks a Go map, so the order in which records join the
inactive list is arbitrary (`Orders`).

Abstractions. Texts, and the times and counts of a diagnostic, are left out
(they are copied along); the list of reasons is not cut at `cMaxHealthReasons`.
Scan times are small numbers; a call that is refused by validation changes
nothing and is left out.

### RescanKey

State. `up`, `content`, `released` are the upstream: its tags, latest published
first, what each points to, and which are releases too. `row`, `failsDb` and
`mode` are the key's rows of `versions`, of `ingest_failures` and the listing
mode in `sources`; `fails`, `loadMiss`, `miss` and `count` what the supervisor
keeps in memory (`permFailMap`, `permFailLoadMissObj`, `missMap`, `cycleCount`).
`pc`, `route`, `listing`, `judge`, `refs`, `local`, `todo` are the locals of the
cycle. `whole`, `gone`, `kinds`, `tried` are history: what a perfect observer of
upstream and cycles would have counted.

Steps. A cycle is `Begin`, one of the listings, `ReadState` for git sources, one
step per listed version, `Judge`, `End`. A step reads what one request or one
query reads, so the upstream may change between any two of them.

| Code | Actions |
|---|---|
| `listGit`, sticky listing mode | `ListUndecided`, `ListDecided`, `ListConflict`, `ListFails` |
| `ingestBrother`: the index, the preferred origin, the fallback to the origin, the public pages | `ListBrother`, `ListFirst`, `ListOrigin`, `ListPublic` |
| `fetchRefs`, `localGitState` | `ReadState` |
| `ingestGitVersion`, `ingestBrotherVersion`: nothing to do, quarantined | `Keep`, `SkipQuarantined` |
| download, verification, `publishVersion`, `TouchVersionVerified`, `recordPermanentFailure` | `DownloadFails`, `DownloadRejected`, `DownloadPublished`, `HealFails` |
| `applyDeletionGrace` | `Judge` |
| `raiseQuarantineSummary` | `End` |
| eviction by other keys; the process restarts | `Evict`, `Restart` |
| the upstream | `Tag`, `Untag`, `Retag`, `ToggleRelease`, `Calm` |

Abstractions. A ref and the tree it points to are one value: a moved tag has
another tree. Which versions are verified again depends on times and ranks: any
choice. A publish is one step (its own steps are in `DurableStore`), and a
mirrored instance is its list (its pages and sessions are in `MirrorLink`). Each
of `Settings` says which kinds of failure may happen, so that a property can
name the failures it does not survive. `cMaxReleases` and `initial_depth` are
`cap` and `Depth`.

### Documents

State. `row`, `events`, `clock` are the rows of a key and its publish events;
`stats`, `down`, `checksum`, `named` what `mod/state` and the name table know of
it; `cached` the entry of one document in the metadata cache, `client` an answer
some client or proxy keeps, `pending` the request being answered.

Steps. `BeginCycle`, publishes and deletions, `ReconcileKeyStats`,
`ResolveNames`, `EndCycle` are the parts of a rescan cycle in their
order; `Request`, `NotModified`, `CacheHit`, `BuildBegin`, `BuildEnd` those of a
request: a document is built from what is there when it is built, under the
ETag that was computed before. Every document of `mod/server` about a key or all
keys is one value of `doc`, with what it is made of (`BuildList` and so on) and
what its ETag is made of (`Etag`).

Abstractions. A document is the data it is rendered from. Times are a counter of
publishes. `v - 1` is the historical row of `v`. The cache has one entry: others
only evict it (`Expire`).

### MirrorLink

State. `remote` and `limit` are the other instance: its rows with their
`upstream_seq`, and the limits it announces. `mirrored` and `refused` are the
rows and recorded failures here. `session`, `walk`, `todo`, `pull`, `redials`
are the locals of `ingestBrother`: the session and the limits agreed on, the
page and the cursor, the entries left, the blobs needed and got.

Steps. One RPC, or one request of a public page. `RemotePublish`,
`RemoteDelete`, `RemoteRestart` change the other side between any two. `IndexAnswer`
has both of its implementations, by keyset and by page number; `Batch` chooses
what is asked for, `FetchBatch` sends it and is refused if the other side allows
less.

Abstractions. A blob is a number with a size. Redials and faults are bounded by
the setting, as `cMaxRedials` does for the code.

### ArchiveTree and ModuleZip

`ArchiveTree` reads an archive header by header (`Refuse`, `SkipHeader`,
`TakeEntry`, `WriteFails`), strips the common top directory and drops unsafe
links (`Result`), publishes or refuses (`PublishStaged`, `PublishRefused`, with the
checks storage makes of its own), writes the universal archive (`WriteUniversal`), and lets a mirror
extract that one. Paths are sequences of segments, contents are texts that can
be read as such, because a symlink's target is a content that is a path. Sizes
are lengths, in which a segment counts as one byte; the top directory of a
universal archive may count as more (`longer`), wherever in a path it occurs,
since a tree may have a directory of that name itself.

The limits of the configuration hold for the extraction and the writer. Storage
has `caps` of its own besides: `maxBlobBytes` is never above 256 MiB or the
memory there is (`validate.go:123`), a path of a tree object has at most 4096
bytes, and the object itself has a maximum (`treecodec/codec.go:24`, `:117`). An
extraction also refuses a tar of which more is read than `tarStreamMaxBytes`
(`StreamCut`) and a file of a zip that is packed beyond a ratio (`TooDense`); the
writer of the universal archive checks neither. The bytes of a tar stream are
counted by blocks: a block for each header, the content and its padding, the
extended headers (PAX) that a long name or target needs, and the two blocks of
the end.

Abstractions. A file either is dense or is not, and the packed bytes that decide
it are not modelled; padding counts as soon as the content it belongs to, one
block earlier than it may be read; a segment of a name is one byte, so PAX is for
length only; an upstream header comes with any number of extended bytes before
it; `MaxArchiveSize`, the limit on the archive itself, is not here. The mirror
has the limits and caps of the instance that wrote the archive: with smaller
ones it refuses more, which is no disagreement in the code.

`ModuleZip` is `Detect`, `Lstat` of all files, then `Open` of all files, as
`x/mod/zip` calls them, with the rewrite scanner as functions that walk the text
as the code does (`rewriteContent`, `rewrittenSize`, `containsModulePath`) and,
as reference, the definition of a mention of a module path (`Mentions`,
`Renamed`).

### Lifecycle

State. `place` is where the goroutine of `main` is, from opening the storage to
the exit; `has` the parts that are built, `told` those that were told to stop,
`over` the budgets that are used up; `work` the requests, sessions, cycle and
reconcile, each off, on, or in an operation of the storage; `loop`, `collector`,
`closer`, `meshCloser`, `reader` the other goroutines; `open` the databases and
the node.

Steps. Each wait of the shutdown has two ways on: what it waits for, or the end
of its budget. Work that `life.hangs` may never end. `closer` is the goroutine
that `Close` leaves behind when its deadline passes.

Abstractions. One request, one session stand for all; what an operation does is
in the other modules.

### Download

State. `fetch` says for each version where its download is, its attempt, the
content it receives and from where; `spoolFile` its file as units of contents;
`validator` is `resumeStateObj.validator`; `downloadSem` the slots in use;
`upstream` the content the upstream has.

Steps. `Acquire`, the answer (`Full`, `Partial`, `Unanswered`, `Refused`),
`Receive` unit by unit, the end of the body (`Received`, `Breaks`,
`SpoolFails`), `BackoffEnds`, `Cancel`, and `Replace` by the upstream.

Abstractions. A validator is the content it was sent with: an upstream that
gives two contents one `Last-Modified`, or answers a range it was not asked
for, is outside the model.

## 3. What is checked

`tlc -workers 2 -config <run>.cfg <module>`, each run within two to three minutes
on two workers.

| Run, module | Bounds | What it shows | Distinct states |
|---|---|---|---|
| `store_history`, `MCDurableStore` | 1 key, 2 trees over 2 blobs and 2 paths, 1 historical tag, crashes | `TypeOK`, `NoDangling` (a listed version is complete), `RefsExact`, `IncomingIntact` (making room never takes what the publish relies on), `HistTagFree`, `HistoryPreserved`, `TagsIssuedOnce`, `ImplementsCatalog`, `OrphansReclaimed` | 116,236 |
| `store_overwrite`, `MCDurableStore` | 2 keys, 2 trees, failing cleanups | `ImplementsCatalog` in the other mutation policy, with two workers and shared objects | 490,707 |
| `store_brother_tags`, `MCDurableStore` | 1 key, 2 trees, 1 tag listed by a brother | violation of `HistTagFree` | |
| `store_unsynced`, `MCDurableStore` | 1 key, 3 trees, crashes and failing cleanups | violation of `NoDangling` | |
| `hot_budget`, `MCHotArtifacts` | 2 readers, 2 flights, budget, damage, both retain modes | `TypeOK`, `PendingHeld`, `TransientOwned`, `OneBuild` | 424,011 |
| `hot_live`, `MCHotArtifacts` | 2 readers, 2 flights, both retain modes | `TransientKept`, `FlightsAnswer` | 223,194 |
| `hot_ensure`, `MCHotArtifacts` | the same with the budget | violation of `EnsureServes` | |
| `rescan_key`, `MCRescanKey` | 2 versions, 2 refs (one with bad content), grace of 2 cycles, 12 settings of source, window and failures | `TypeOK`, `OneListingKind`, `DeletionEarnedByRow`, `QuarantineHolds`, `Converges` | 286,050 |
| `rescan_deletion`, `MCRescanKey` | 3 versions, `initial_depth` 2, no failures | violation of `DeletionEarned` | |
| `services`, `MCServices` | see below | `SnapshotCurrent`, `InactiveListed`, `DownCounted`, `ActiveKept`, `ReclassEarned`, `ScanCountedOnce` (registry); `EtagNotices` (documents); `WalkComplete`, `LinkDelivers` (link); `ExtractionSound`, `MirrorExact` (archive); `ZipExact` (module zip); `DownloadExact` (download); `BudgetKept` (quota) | 661,568 |
| `process_live`, `MCProcess` | see below | `OpenInUse`, `OrderlyExit`, `SignalEnds`, `TriggersServed` (process); `CacheRefreshes` (documents) | 68,084 |
| `documents_etag`, `MCServices` | 3 publishes, versions moved by the policy | violation of `EtagIsCurrent` | |

`MCServices` and `MCProcess` put several components that share no variable into
one state machine, one of them in each behaviour (`subject`); the state of the
others does not move, so this is the union of their state spaces and not the
product. `MCServices` extends its components, so that TLC also evaluates the
assumptions the proofs make about their constants.

The deadlock check is off in `services`, `process_live` and `documents_etag`
only: a process that has exited, a zip that is written, a download that is
done and a link whose cycle has ended have no next step.

### Why these bounds

- *Store.* `t1` has one blob at two paths (a reference count above one from one
  version), `t2` shares that blob with `t1`, `t3` shares none with `t1` and one
  with `t2`: all the ways a deletion can meet a shared object. Keys are
  independent except through shared objects and the historical counter, so one
  key with its historical rows already has two versions that share objects, and
  two keys give two workers staging at once. `MaxHist` bounds the historical
  tags: with the bound reached the commit of a superseded revision is disabled,
  and the publish fails or is the last. With one key there are few versions that
  the budget may evict, so in `store_history` evictions are rare; they do happen,
  and a mutant shows that the run sees them, but what `IncomingIntact` says of
  evictions in general is its theorem.
- *Quota.* Trees of 3, 3, 3 and 2 bytes, two of which share a blob of one byte,
  on two keys: all of them together are above the budgets of 9 and 10, and the
  eviction of one can be enough or not. Two versions are published before and
  two more commits follow, under four settings of the limits and one without a
  budget; pages of two rows make an eviction end within a page, at its end, on a
  later one, and with the candidates of a full page dropped, after which a
  publish is refused. `BudgetKept` has two parts. `WithinBudget`: the referenced
  bytes stay below `MaxTotalSize`, apart from orphans the last commit took up
  (without this term it fails: such a publish exceeds the budget until the next
  one). `EvictionEarned`: what is evicted is none of the newest of its key,
  shares nothing with the incoming tree, and either its key has too many
  versions, or the store is above its target and it is the oldest that may go;
  that is why estimates may be too large but never too small.
- *Hot artifacts.* Two flights allow a cancelled flight and its successor; two
  readers allow one that stays and one that leaves.
- *Registry.* Keys do not interact, so one is enough; with two outages to a
  permanent one, three scan times are the fewest that reach a recovery and the
  change of class it allows; three diagnostics in a registry of two reach
  eviction, dropping and reactivation.
- *RescanKey.* A grace of two is the smallest that differs from deleting at
  once; two versions give one that goes missing while the other keeps the
  listing non-empty, and a listing cut by `cap` 1; two changes of the upstream
  are a tag that goes and comes back, or is moved twice; one kind of failure at
  a time (and a restart with a quarantine that could not be written) keeps each
  counterexample readable. With a window, the third version is the one that
  leaves it.
- *Documents.* Two releases, each with a historical row; a Go tree and a
  Composer tree, because documents of either kind see only theirs; up to three
  publishes, so that a change can be undone while an old answer is still kept.
- *MirrorLink.* Three versions on pages of one, so that a change falls before,
  at and behind the cursor; two blobs that two trees share; limits of the other
  side below and above those here, in bytes and in count; one fault and one
  redial, two changes.
- *ArchiveTree.* All archives of up to four headers out of eight (files, links, a
  path that is a parent of another, duplicates, links safe at one depth only), of
  up to three out of twelve (bad names, sizes at and above each limit, other
  entry types), and of up to three out of seven that differ in what a stream has
  of them (padding, extended headers, a dense file). The settings include each of storage's
  caps below the limit it belongs to, so that publication refuses a file, a path
  or an object that was extracted; limits on the count of 1 and 3, at which
  a tar that was written is refused by the mirror, and others at which it is taken;
  extended headers, with which that happens below the limit too; and zips, from
  upstream and for the mirror, that are packed too well. The top directory may be
  longer than that of upstream.
- *ModuleZip.* All texts of up to four characters of `m`, `/` and a blank, with
  `m/m` the module's own path: mentions that touch, overlap or end at a
  boundary; three new paths (longer, shorter, the same); a cache with and
  without room.
- *Process.* Each kind of work with and without work that hangs; one request,
  session, cycle and reconcile stand for any number, because the shutdown waits
  for all of a kind together; metrics with and without a mesh node.
- *Download.* Two fetches and one slot; contents of two and three units, the
  longer above the limit; two attempts; with and without announced lengths and
  validators.

The proofs of section 4 remove these bounds from the safety properties they
cover. Symmetry is used for keys, readers and flights, in safety runs only.

### Fairness

- *`store_history`*: the holder of `writeMu` goes on (weak fairness of
  `WriterStep`), the collector's loop reads on (weak fairness of `GCRead`), and
  the collector that waits for `writeMu` gets it (strong fairness of `GCSweep`:
  `sync.Mutex` hands the lock to a waiter that has waited a millisecond, so it
  cannot be passed over for ever). Nothing forces a worker to stage or a client
  to delete. Errors of the collector and crashes come to an end: with an error
  in every cycle nothing is ever collected.
- *`hot_live`*: weak fairness of every goroutine; the handler closes the file it
  was given, and a `select` on a closed `doneChan` fires. Cancellation by a
  client is never forced.
- *`rescan_key`*: the supervisor runs cycle after cycle (weak fairness of
  `runKey`). That the upstream and the failures come to rest (`Calm`) is not
  forced: `Converges` says what follows when they do.
- *`process_live`*: goroutines run and budgets end (weak fairness); a `select`
  whose trigger is ready again and again takes it in the end (strong fairness
  of the two triggers: Go chooses at random among what is ready); an operation
  ends, and a cycle is left, unless the work hangs (`life.hangs`). For
  documents: a cycle goes on to its end, a request that has begun is answered,
  and an entry of the cache expires, because every entry has a lifetime.

`services` states no liveness and assumes no fairness.

### Mutants

The definitions marked "Mutant" in the modules are plausible mistakes in the
code - a check that is left out, a count that is taken by tree and not by path,
a retry with the old limits. With the mutant in the place of the definition,
TLC finds the property violated in the same run: each property of a passing run
is about something the code could have got wrong.

## 4. What is proved

For any constants that satisfy the modules' assumptions (any number of keys,
names, trees, blobs, paths, readers, flights, versions, refs, fetches, pages and
limits; only what is counted or summed up - keys, names, paths, diagnostics,
fetches, releases, the objects of a tree - need be finite, so that the result is
a number):

| Theorem | Statement | Extra assumption |
|---|---|---|
| `DurableStoreProofs!TypeCorrect` | `Spec => []TypeOK` | |
| `DurableStoreProofs!RefsExactCorrect` | `Spec => []RefsExact` | |
| `DurableStoreProofs!NoDanglingCorrect` | `Spec => []NoDangling` | not both `Crashes` and `CleanupFails` |
| `DurableStoreProofs!IncomingIntactCorrect` | `Spec => []IncomingIntact` | the same |
| `DurableStoreProofs!HistoryPreservedCorrect` | `Spec => HistoryPreserved` | |
| `DurableStoreProofs!TagsIssuedOnceCorrect` | `Spec => TagsIssuedOnce` | |
| `DurableStoreProofs!HistTagFreeCorrect` | `Spec => []HistTagFree` | `BrotherTags = {}` |
| `DurableStoreProofs!CatalogRefinement` | `Spec => ImplementsCatalog` | not both `Crashes` and `CleanupFails` |
| `StateRegistryProofs!TypeCorrect`, `SnapshotCorrect`, `InactiveCorrect`, `DownCorrect` | `Spec => []...` | |
| `StateRegistryProofs!ActiveCorrect`, `ScanCorrect`, `ReclassCorrect` | `Spec => ActiveKept`, `ScanCountedOnce`, `ReclassEarned` | |
| `HotArtifactsProofs!TypeCorrect`, `PendingHeldCorrect`, `OneBuildCorrect`, `TransientKeptCorrect`, `TransientOwnedCorrect` | `Spec => []...` | |
| `BudgetProofs!BudgetKeptCorrect` | `QuotaSpec => BudgetKept` | |
| `RescanKeyProofs!TypeCorrect` | `Spec => []TypeOK` | |
| `RescanKeyProofs!OneListingKindCorrect` | `Spec => []OneListingKind` | |
| `RescanKeyProofs!QuarantineHoldsCorrect` | `Spec => QuarantineHolds` | |
| `RescanKeyProofs!DeletionEarnedByRowCorrect` | `Spec => DeletionEarnedByRow` | `Depth = 0` |
| `BudgetProofs!OpenInUseCorrect`, `OrderlyExitCorrect` | `Spec => []OpenInUse`, `Spec => []OrderlyExit` | |
| `ServicesProofs!DownloadExactCorrect` | `DownloadSpec => []DownloadExact` | |
| `ServicesProofs!WalkCompleteCorrect`, `LinkDeliversCorrect` | `LinkSpec => []WalkComplete`, `LinkSpec => []LinkDelivers` | |
| `ServicesProofs!EtagNoticesCorrect` | `DocSpec => []EtagNotices` | |
| `ArchiveProofs!ExtractionSoundCorrect`, `MirrorExactCorrect` | `ArchiveSpec => []ExtractionSound`, `ArchiveSpec => []MirrorExact` | |
| `ArchiveProofs!ZipExactCorrect` | `ZipSpec => []ZipExact` | `ModulePathsAreWords` |

The extra assumptions are what the violation runs `store_unsynced`,
`store_brother_tags` and `rescan_deletion` show to be needed.

The argument for `DurableStore`:

- *Refcounts.* `RefsExact` says that a refcount is the number of (row, path)
  pairs that name the blob. Each transaction changes one or two rows, so the
  lemmas count how `RefSet` changes when a row is set or cleared. With exact
  counts, "refcount 0" means "no row needs it", which is the fact the cleanups
  and the collector act on. It is inductive together with `TypeInv` (`TypeOK`
  and what each `pc` implies about the locals).
- *Completeness.* `NoDangling` is not inductive: the state must also say what
  the writer is about to do. `DurableInv` adds that the incoming tree is stored
  or pending (`IncomingIntact`), that what is about to be deleted is needed by
  no row, and what a publish has written so far is needed by none (or is
  still pending), and that an unsynced object belongs to the publish that is
  writing - the part that fails when a failed cleanup leaves unsynced objects
  behind and a crash follows.
- *History and refinement.* `HistBelowCounter` says that every historical row
  that is not a brother's lies below the counter; with it a commit never writes
  over a historical row. The refinement mapping
  shows a row whose objects are not all in Pebble as lost, a value no action of
  `VersionCatalog` produces; by `NoDangling` it never appears, so the catalogue
  is the `versions` table: deletions and commits are one step of
  `VersionCatalog` each, everything else is a stutter.

The argument for `HotArtifacts`: `HotInv` is the conjunction of `Control` (what
each `pc` implies about the locals and the flight), `Exact` (`active`,
`waiters` and `refs` are the numbers of processes in the states that hold them),
`PendingHeld`, `Owned` and `Kept`. The counters cannot be bounded by
themselves: it is the count of holders that keeps a decrement above zero, and
it is the last holder's exit that must find the deferred deletion.

The argument for `StateRegistry`: `RegistryInv` is `TypeOK`, `SnapshotCurrent`,
`InactiveListed` and `KeysInv`, which says of each key that its availability,
its count of outages and its last scan agree and that only an available key may
be reclassified. Three groups of lemmas carry it. Every operation moves every
key by a `KeyStep`, from which the action properties follow; the list lemmas
say what taking a record off the list, evicting its head and appending a walk
over a map do to its contents; and a snapshot that was current and has a part
replaced is current when nothing else it is built from has changed.

The argument for `RescanKey` has an invariant for each property.

- *Kinds of listing* (`KindInv`): as long as the mode can be read and stored,
  nothing has been judged by any other kind of listing than the stored mode,
  and by none before there is one.
- *Quarantine* (`QuarantineInv`): what an observer saw rejected is in memory;
  and in the database too, where a restart reads it back, unless access to the
  quarantine fails (then a restart may forget, and so does the observer). The
  property follows because the decision to download reads exactly that memory.
- *Grace* (`MissInv`): a version without a live row has no misses, the count of
  a live one is at most the number of judged cycles in a row an observer did
  not see it in, and a listing that is going to be judged is the whole of what
  upstream listed at that moment. Where eviction breaks the first part the
  property says nothing, which is why it is "by row". The third part is what a
  window breaks.

The argument for `Lifecycle`: `LifeInv` says where the closing goroutine can be
(`Databases`: the databases are open, or it has passed the wait for operations
and for the collector), the same for the node and its lock (`Node`), and, as
long as no budget is used up, what is off at each place of the shutdown
(`Drain`). A reader, an operation or a collection in use is one that the
closing goroutine is still waiting for.

The argument for `Download`: `DownloadInv` says that a file is a prefix of one
content and the validator, if there is one, that content's; and that the slots
in use are as many as the fetches at a request or a body. An answer to a range
request is of the validator's content, so appending to the file keeps it a
prefix.

The argument for `Quota` is about sums of bytes, and about an eviction that goes
on with an estimate in hand. `Total` (in `Ordered`, its lemmas in `FiniteLemmas`)
has the laws of sums over finite sets; a set for which one fails would have a smallest such subset,
which is how induction over sets is done here. `RowsInv` says that no two rows
have the same version or the same time; `AdmissionInv` that what the publish
relies on is stored or pending, and that a publish that writes has room;
`RetainInv` that the rows that are kept are the newest of their key, although
evictions go on in between; `PruneInv` that every row that is pruned has
`keepCount` newer rows of its key; and `PageInv` that the store is still above
its target, that the measurement less the estimate is never above what is
stored, that every row that may go is behind the cursor or left in the page, and
that what is left of the page is in order and not newer than anything else that
may go. A pass that ends with a full page evicts nothing more and needs none of
this: it cannot exceed the budget or evict wrongly, it can only refuse. The last
one is why an
eviction below the target cannot happen: an estimate that is too large only
makes the store be measured again earlier than needed.

The argument for a walk over the pages of another instance (`WalkInv` of
`ServicesProofs`): the rows have an order, and the cursor is the last row of a
page. With a cursor, the versions that were there all the time are listed
exactly up to the cursor (`ListedSoFar`) and none of them twice (`ListedOnce`).
Rows that come and go move the others between pages, but not over the cursor. By
page number, a version not yet listed has at least as many rows before it as
the pages so far held, as long as no row was deleted. At the end nothing is
behind the cursor (`ListedAll`).

The argument for the rest of a cycle with another instance (`LinkInv`): a
session that is up has the limits agreed upon with the other side as it is now
(`AgreedUpon`), and a batch is a first part of what is needed that fits them, or
one blob that does not fit alone. As long as nothing has changed or failed
(`Quiet`), every version there is still to do, mirrored, or has a blob that is
too big (`QuietTodo`), and the blobs of the version in hand are stored, got or
needed (`QuietPull`). A cycle that is done has nothing left to do.

The argument for `Documents` (`DocInv`): as long as only changes happen that the
ETag notices, versions are only added, one at a time, so that the number of
versions, or the names in a checksum, say which versions an ETag stands for
(`Valid`, `UpToDate`). An answer under an ETag that is up to date is the document
made of the rows alone (`FreshBody`); an ETag the document has now is up to date
only if the statistics it is built from are those of the rows (`StateFresh`);
and a request that is building keeps this promise for the ETag it started with
(`PendingOK`). `CycleOK` says how far the cycle has come: the checksum comes
after the statistics and the names, so a checksum that is right implies that
they are. Every step either adds a version, after which no old ETag is
up to date, or leaves the documents as they are (`Follows`). The archive of one
version is apart: its ETag is its content, which moves once at most because the
history has a place for one old row.

The argument for `ArchiveTree` (`ArchiveInv`) begins with `path.Clean`: what it
returns goes up only at its beginning (`Relative`), is no longer than the path
it was given, and, when it does not go up, is returned as it is when it is
cleaned again. So every entry
the loop over the headers takes is canonical and within the limits
(`EntriesFit`), there is one file for each content (`OneFileEach`), and taking
off the common top directory makes paths shorter and keeps them different.
What is returned has been checked for parents and for links after that
(`Returned`), hence publication finds nothing to refuse but what its own caps
forbid: `Accepted` is exactly `Storable`, in both directions. For the mirror,
`MirrorFollows` says that the archive is the tree with the top directory in
front of every path, in some order, within the same limits, and that the entries
so far are the headers read so far: no header is refused for itself, the top directory is
what all of them have in common, and a link that was safe in the tree is not
dropped. That the sum of the sizes does not depend on the order, or on what
became of the paths, is `TotalReindex` of `FiniteLemmas`. The tree was published
within the caps (`Storable(tree)`), so the mirror's storage has room for it too.
That the mirror refuses only what is `Unreadable` needs a bound on the stream: a
header without extended ones is a block and its padded content, which is at most
`unpacked` in all and less than a block of padding each, so that with fewer entries than
`count` the blocks of the next one pay for the end of the archive
(`ShortIsRead`).

The argument for `ModuleZip` (`ZipInv`) is that the texts to rewrite are decided
before the first size is declared: what is declared of a file is the length of
what it gives (`Given`, `ZipGiven`), whether the cache had room or not
(`ZipCache`). The three walks over a text are recursive functions; that each is
defined follows from the places they go on to being later (`DefinedAlong`), and
what they compute is shown from the last place where it would be wrong
(`NoLast`). So the walk that counts gives the length of what the other one
writes (`SizeIsLength`), the scan finds a text exactly if it has a mention
(`ContainsIs`), and the text is written with its mentions renamed
(`RenamesExactly`): an occurrence that is no mention is written as it is, and
the walk goes on behind it without missing a mention (`NoOverlap`). This last
step needs `ModulePathsAreWords`: every module path in `ZipSettings` consists of
path characters (`isModulePathByte`). The module paths Go accepts do; the code
takes whatever `modfile.ModulePath` reads from the `go.mod` and does not check
it. With a blank in a module path a mention could begin inside an occurrence
that is none, which the scan skips as a whole.

The type of `RescanKey` is proved with the same lemmas on selections and orders
as the walk: a listing is cut, sorted and filtered, and stays a sequence of
different versions.

Only model-checked: the liveness properties (`OrphansReclaimed`,
`FlightsAnswer`, `Converges`, `SignalEnds`, `TriggersServed`,
`CacheRefreshes`), which are out of reach of TLAPS; and the violations. `TypeOK`
of `StateRegistry` is the other way round: it is proved for every value of the
constants, and no run repeats it.

## 5. Where the code and its documentation disagree

Each has a run that shows it, and an entry under "findings" in `PROJECT.json`
that quotes the text.

- `store_brother_tags`. `NextHistoricalVersion` trusts the counter and does not
  look at the rows. A brother lists its historical rows too, and they are
  published here under the same tags; the next superseded revision then
  collides with such a row and its publish fails at every attempt.
- `store_unsynced`. A publish with nothing to write commits no Pebble batch and
  so syncs nothing. If an earlier failed publish left unsynced objects (its
  cleanup failed too) the new version relies on objects a crash can lose.
- `hot_ensure`. A flight cancelled by its last waiter stays in `flightMap` until
  its goroutine ends; a reader that joins it in between gets the cancellation
  as its own error. And between the end of a flight and the open of its waiter
  nobody retains the file; the budget can remove it, and the waiter fails
  instead of building again.
- `rescan_deletion`. With `initial_depth` the window of the newest releases
  moves when a lower version is published late; versions that have left it
  count as missing and are deleted after the grace although upstream has them.
- `documents_etag`. The freshness of a key in its ETags is the time of its
  latest version and the number of versions; a version that the policy
  overwrites and that is not the latest changes neither, and its old document
  is served from caches until it expires.

Met on the way, without a run of their own:

- `SubtractBlobRefs` leaves rows with refcount 0 "for later GC"; the background
  collector sweeps Pebble only. When the process stops, or the cleanup fails,
  between the two, the rows stay until `RepairBlobRefs` is run.
- An error of `CountVersions` in the reconciliation of statistics leaves a
  count of 0 in the statistics, and so in the ETags.
- The ETag and the cache key of a Go `.info` and `.mod` lack the major version
  of the path they are asked under.
- A conditional request is answered "not modified" before it is looked up
  whether the document still exists.
- An evicted version keeps its count of misses (`mod/rescan/deletion.go:33`),
  so that it may be deleted early after it is published again.
- A tree with a path close to `MaxArchivePathBytes` is published, and its
  universal archive, whose paths have the top directory in front, is not written
  (`mod/archive/write.go:137`; `WriteRefused`), so that a mirror of the public
  pages has nothing to take.
- A universal archive that was written may be refused by a mirror with the same
  limits (`MirrorExact` says which, `Unreadable`): the cap on what is read of a tar
  stream (`mod/archive/tar.go:37`) has no place for the end of the archive, for a
  block per entry with short `path_bytes` at the full count of files, or for extended
  headers, and the ratio of a zip (`mod/archive/zip.go:123`) none for a file that
  packs well. The writer checks neither.
- A file above 256 MiB is extracted when `per_file` allows it, and is then refused
  by storage at every attempt (`mod/storage/validate.go:123`); so is a path above
  4096 bytes (`mod/storage/treecodec/codec.go:24`). `mod/internal/README.md` asks
  for identical checks on both sides. `ExtractionSound` says that there is
  nothing else of the kind.
- An eviction that reads only full pages ends at the empty query behind them and
  drops the candidates it had collected (`mod/storage/quota.go:538`), so a publish
  can be refused although versions may go; `yml/config/config.yml:655` promises a
  target size after an eviction cycle.
- `Last-Modified` alone is used as an `If-Range` validator, which is a weak one.
- In a module zip the rewrite is by blob: a file that is no Go source and has
  the same content as a rewritten one is rewritten too.
- Orphans that a publish takes up are not among its incoming bytes
  (`mod/storage/quota.go:224`), so the referenced bytes can exceed
  `max_total_size` by them until the next publish.
- Overlapping readers can hold a hot file for ever, so that its deferred
  deletion never happens (`mod/storage/hot_path.go:33`).

## 6. Not modelled

- *Bytes of the hot files.* `HotArtifacts` lets the budget evict anything that
  is not protected, at any moment. Every order the arithmetic can choose is
  among these, so what holds here holds with it; that the hot budget is kept,
  and the drift of the cached count, are not covered.
- *The physical size* of the databases and its hard limit, which refuse a
  publish after it was written.
- *Columns of a row in `DurableStore`* other than its tree, and with them
  `MarkUpstreamDeleted` and `ResurrectVersion`: they move no object. `RescanKey`
  has the mark, and `Documents` its effect on what is served. Sequence numbers
  of several versions that are published in one cycle are not in `RescanKey`.
- *Power loss that rolls back SQLite* (`synchronous=NORMAL`): the crash of
  `DurableStore` keeps committed transactions.
- *`Publish` from memory*: the steps of `PublishStaged` without a spool.
- *Maintenance commands*: they run alone, with the process stopped, and call
  storage operations that are modelled; there is nothing to interleave with.
- *Bytes and text*: the formats of archives, wire frames, Composer packages and
  Markdown, and the rendering of pages. They keep no state.
- *Configuration, command line, key generation and profiling*: run once, before
  anything else.
- *Discovery* of what is behind a URL, *rate limits* of hosts, the *handshake*
  and the *gates* that bound sessions and builds: they delay or refuse a
  request, which the models allow at any time.
- *The cache's shards and bytes*, which decide only when an entry goes;
  `Documents` lets it go at any time.
- *The mesh* beyond start, metrics and teardown, and *telemetry's counters*: a
  wrapper around an external library, and output no behaviour depends on.

## 7. Plan

1. The crash of a power loss in `DurableStore`, with the transactions it may
   roll back, and what `Recover` and `RepairBlobRefs` restore of it.
2. `Quota` as a refinement of the free choice of `DurableStore`.
3. Sequence numbers of versions: the newest release is first in every listing,
   also after late publishes.
4. The comparison of version names as operators, against a reference order.
