------------------------------ MODULE Documents ------------------------------
(* The documents mod/server renders about a key, their ETags and the caches   *)
(* in front of them, while a rescan cycle publishes versions and then updates *)
(* the statistics the ETags are made of.                                      *)
EXTENDS Naturals, FiniteSets, Sequences

CONSTANTS
    Releases,       \* release names, numbered in semver order; v - 1 is the historical row of v
    Trees,          \* contents of a version
    GoTrees,        \* those that are a Go module
    ComposerTrees,  \* those that are a composer package
    NoRow,          \* no row, no version
    NotFound,       \* the answer that there is no such document
    Nothing,        \* nothing cached, held or pending
    FeedSize,       \* web.pages.feed_size
    DocSettings     \* the document asked for, the version it is about, the history mode, what may happen,
                    \* whether it may stop, and the bound on publishes

\* The versions, the documents, a row of the versions table, and an event of
\* the feed.
Names == Releases \cup {v - 1 : v \in Releases}
Docs == {"catalog", "catalog-page", "releases", "detail", "version-page", "key-page", "latest", "list", "list-full",
         "go-latest", "go-list", "go-info", "go-mod", "packages", "p2", "key-feed", "feed", "sitemap",
         "og-node", "og-key", "og-version", "archive"}
Row == [tree : Trees, ts : Nat, seq : Nat, gone : BOOLEAN, complete : BOOLEAN, verified : Nat]
Event == [version : Releases, tree : Trees, ts : Nat, first : BOOLEAN]
ASSUME ReleasesAssumption ==
    IsFiniteSet(Releases) /\ Releases \subseteq Nat \ {0} /\ \A v \in Releases : v - 1 \notin Releases
ASSUME NoneAssumption == NoRow \notin Names \cup Row /\ NotFound \notin Trees
ASSUME FeedSizeAssumption == FeedSize \in Nat
ASSUME DocSettingsAssumption ==
    \A s \in DocSettings : s.doc \in Docs /\ s.about \in Names /\ s.publishes \in Nat

VARIABLES
    row,        \* the key's rows in the versions table
    events,     \* its publish events, newest first
    clock,      \* time of the last publish
    stats,      \* the key's LatestVersion, VersionCount and LastPublishTS in mod/state
    down,       \* the key is not available
    checksum,   \* the content checksum in mod/state
    named,      \* the key has a composer name
    phase,      \* where the rescan cycle is
    synced,     \* history: the last cycle read all it needed, and the process has not restarted since
    cached,     \* the entry of the document in the metadata cache
    calm,       \* nothing changes or fails any more
    client,     \* the answer a client holds
    pending,    \* the request being answered
    docSetting  \* one of DocSettings

db == <<row, events, clock>>
state == <<stats, down, checksum, named>>
web == <<cached, client, pending>>
docVars == <<db, state, phase, synced, calm, web, docSetting>>

doc == docSetting.doc
about == docSetting.about
May(f) == f \in docSetting.faults /\ ~ calm

Highest(S) == CHOOSE v \in S : \A w \in S : w <= v
NoPublishes == [latest |-> NoRow, count |-> 0, ts |-> 0]

------------------------------------------------------------------------------
(* What the documents are made of.                                            *)

Exists(v) == row[v] # NoRow
Active == {v \in Names : Exists(v) /\ ~ row[v].gone}
LatestVersion == IF Active = {} THEN NoRow ELSE Highest(Active)
\* The fields f of the active versions, in the order of the listings.
Listed(Of(_)) == {<<row[v].seq, v, Of(v)>> : v \in Active}
Name(v) == v
Published(v) == row[v].ts
Tree(v) == row[v].tree
Ecosystems(v) ==
    IF v = NoRow \/ ~ Exists(v) THEN {}
    ELSE {e \in {"go", "composer"} : Tree(v) \in IF e = "go" THEN GoTrees ELSE ComposerTrees}
GoActive(v) == v \in Releases /\ Exists(v) /\ "go" \in Ecosystems(v)
InMajor == {v \in Active : GoActive(v)}
ContentChecksum == {<<v, Tree(v)>> : v \in Active}
ListPublishFeed ==
    [i \in 1 .. IF Len(events) < FeedSize THEN Len(events) ELSE FeedSize |->
        <<events[i], Exists(events[i].version)>>]

BuildCatalog == <<stats.latest, down>>
CatalogPage == <<stats.latest, Ecosystems(stats.latest), down>>
BuildReleaseList == <<Listed(Published), down>>
BuildReleaseDetail == IF Exists(about) THEN <<[row[about] EXCEPT !.verified = 0], down>> ELSE NotFound
VersionPage == IF Exists(about) THEN <<row[about], down>> ELSE NotFound
KeyPage == <<stats.latest, Ecosystems(stats.latest), Listed(LAMBDA v : <<Published(v), Ecosystems(v)>>), down>>
BuildLatest ==
    IF stats.latest # NoRow THEN stats.latest ELSE IF Active = {} THEN NotFound ELSE LatestVersion
BuildList == Listed(Name)
BuildListFull == Listed(Tree)
LatestInfo == IF InMajor = {} THEN NotFound ELSE <<Highest(InMajor), Published(Highest(InMajor))>>
BuildVersionList == IF InMajor = {} THEN NotFound ELSE {<<row[v].seq, v>> : v \in InMajor}
BuildInfo == IF GoActive(about) THEN Published(about) ELSE NotFound
BuildMod == IF GoActive(about) THEN Tree(about) ELSE NotFound
BuildPackages == named
BuildP2 == Listed(LAMBDA v : row[v])
BuildFeed == ListPublishFeed
BuildSitemap == <<stats.ts, IF stats.count = 0 THEN {} ELSE Listed(Published)>>
OGNode == <<stats.count, stats.ts>>
OGKey(seen) == <<seen, Ecosystems(seen.latest)>>
OGVersion == IF Exists(about) THEN <<Published(about), Ecosystems(about)>> ELSE NotFound
OpenArtifact == IF Exists(about) /\ row[about].complete THEN Tree(about) ELSE NotFound

\* The document as it would be built now, by a request that has read seen.
Body(seen) ==
    CASE doc = "catalog" -> BuildCatalog            [] doc = "catalog-page" -> CatalogPage
      [] doc = "releases" -> BuildReleaseList       [] doc = "detail" -> BuildReleaseDetail
      [] doc = "version-page" -> VersionPage        [] doc = "key-page" -> KeyPage
      [] doc = "latest" -> BuildLatest              [] doc = "list" -> BuildList
      [] doc = "list-full" -> BuildListFull         [] doc = "go-latest" -> LatestInfo
      [] doc = "go-list" -> BuildVersionList        [] doc = "go-info" -> BuildInfo
      [] doc = "go-mod" -> BuildMod                 [] doc = "packages" -> BuildPackages
      [] doc = "p2" -> BuildP2                      [] doc = "key-feed" -> BuildFeed
      [] doc = "feed" -> BuildFeed                  [] doc = "sitemap" -> BuildSitemap
      [] doc = "og-node" -> OGNode                  [] doc = "og-key" -> OGKey(seen)
      [] doc = "og-version" -> OGVersion            [] doc = "archive" -> OpenArtifact

\* Documents that are built for every request.
Uncached == {"detail", "version-page", "key-page", "catalog-page", "archive"}

\* Mutant of crossFreshness: the statistics of the keys.
crossFreshnessOfStats == stats
crossFreshness == checksum
\* Mutant of keyFreshness: the number of versions is left out.
keyFreshnessTime == stats.ts
keyFreshness == <<stats.ts, stats.count>>
\* The ETag the document has now.
Etag ==
    IF doc \in {"catalog", "catalog-page", "packages", "feed", "sitemap", "og-node"} THEN crossFreshness
    ELSE IF doc = "archive" THEN <<OpenArtifact>>
    ELSE keyFreshness

------------------------------------------------------------------------------
DocInit ==
    /\ row = [v \in Names |-> NoRow] /\ events = <<>> /\ clock = 0
    /\ stats = NoPublishes /\ down = FALSE /\ checksum = {} /\ named = FALSE
    /\ phase = "idle" /\ synced = FALSE /\ calm = FALSE
    /\ cached = Nothing /\ client = Nothing /\ pending = Nothing
    /\ docSetting \in DocSettings

------------------------------------------------------------------------------
(* The rescan cycle of the key.                                               *)

BeginCycle ==
    /\ phase = "idle"
    /\ phase' = "key" /\ synced' = TRUE
    /\ UNCHANGED <<db, state, web, calm, docSetting>>

NextSeq == 1 + Highest({0} \cup {row[v].seq : v \in {w \in Names : Exists(w)}})
\* The published row of version v: a new one is the latest of its listing.
Put(v, t, c) ==
    /\ clock < docSetting.publishes /\ ~ calm
    /\ clock' = clock + 1
    /\ events' = <<[version |-> v, tree |-> t, ts |-> clock', first |-> ~ Exists(v)]>> \o events
    /\ row' = [row EXCEPT
                  ![v] = [tree |-> t, ts |-> clock', seq |-> IF Exists(v) THEN row[v].seq ELSE NextSeq,
                          gone |-> FALSE, complete |-> c, verified |-> clock'],
                  ![v - 1] = IF Exists(v) /\ docSetting.history THEN row[v] ELSE @]

\* A version is mirrored for the first time, perhaps without all its artifacts.
PublishNew(v, t) ==
    /\ phase = "key" /\ ~ Exists(v)
    /\ \E c \in {TRUE} \cup (IF May("heal") THEN {FALSE} ELSE {}) : Put(v, t, c)
    /\ UNCHANGED <<state, phase, synced, web, calm, docSetting>>

\* A tag moved: the content is replaced, and kept as a historical version in
\* that mode.
PublishMoved(v, t) ==
    /\ phase = "key" /\ Exists(v) /\ Tree(v) # t
    /\ IF docSetting.history THEN ~ Exists(v - 1) ELSE May("overwrite")
    /\ Put(v, t, TRUE)
    /\ UNCHANGED <<state, phase, synced, web, calm, docSetting>>

\* Its missing artifacts are built, or it is verified again.
TouchVersion(v) ==
    /\ phase = "key" /\ v \in Releases /\ Exists(v)
    /\ \/ May("heal") /\ row' = [row EXCEPT ![v].complete = TRUE]
       \/ May("verify") /\ row' = [row EXCEPT ![v].verified = docSetting.publishes + 1]
    /\ UNCHANGED <<events, clock, state, phase, synced, web, calm, docSetting>>

\* It is marked as deleted upstream, or taken back.
MarkDeleted(v) ==
    /\ phase = "key" /\ Exists(v) /\ May("mark")
    /\ row' = [row EXCEPT ![v].gone = ~ @]
    /\ UNCHANGED <<events, clock, state, phase, synced, web, calm, docSetting>>

\* It is deleted, or evicted by a publish of any key.
RowDeleted(v) ==
    /\ Exists(v)
    /\ (phase = "key" /\ May("delete")) \/ May("evict")
    /\ row' = [row EXCEPT ![v] = NoRow]
    /\ UNCHANGED <<events, clock, state, phase, synced, web, calm, docSetting>>

\* The source of the key is away, or back.
MarkAvailability ==
    /\ phase = "key" /\ May("down")
    /\ down' = ~ down
    /\ UNCHANGED <<db, stats, checksum, named, phase, synced, web, calm, docSetting>>

\* The statistics of the key, at the end of its part of the cycle: those of
\* the version that is now the latest.
ReconcileKeyStats ==
    /\ phase = "key"
    /\ phase' = "names"
    /\ stats' = IF LatestVersion = NoRow THEN stats
                ELSE [latest |-> LatestVersion, count |-> Cardinality(Active), ts |-> Published(LatestVersion)]
    /\ UNCHANGED <<db, down, checksum, named, synced, web, calm, docSetting>>
\* A query fails: the statistics stay, or the number of versions is lost.
ReconcileFails ==
    /\ phase = "key" /\ May("error")
    /\ phase' = "names" /\ synced' = FALSE
    /\ stats' \in {stats} \cup
          IF LatestVersion = NoRow THEN {}
          ELSE {[latest |-> LatestVersion, count |-> 0, ts |-> Published(LatestVersion)]}
    /\ UNCHANGED <<db, down, checksum, named, web, calm, docSetting>>

\* The composer name of the latest version.
ResolveNames ==
    /\ phase = "names"
    /\ phase' = "checksum"
    /\ named' = ("composer" \in Ecosystems(stats.latest))
    /\ UNCHANGED <<db, stats, down, checksum, synced, web, calm, docSetting>>

\* The cycle ends with the checksum of all that is mirrored.
EndCycle ==
    /\ phase = "checksum"
    /\ phase' = "idle"
    /\ \/ checksum' = ContentChecksum /\ UNCHANGED synced
       \/ May("error") /\ checksum' = checksum /\ synced' = FALSE
    /\ UNCHANGED <<db, stats, down, named, web, calm, docSetting>>

\* The process restarts: mod/state and the caches begin anew, clients do not.
Restart ==
    /\ May("restart")
    /\ stats' = NoPublishes /\ down' = FALSE /\ checksum' = {} /\ named' = FALSE
    /\ phase' = "idle" /\ synced' = FALSE
    /\ cached' = Nothing /\ pending' = Nothing
    /\ UNCHANGED <<db, client, calm, docSetting>>

------------------------------------------------------------------------------
(* The requests.                                                              *)

\* A composer package is looked up by its name, and a key without versions has
\* no banner, before an ETag is thought of.
Resolved == (doc = "p2" => named) /\ (doc = "og-key" => stats.count > 0)

\* A request arrives.  The banner of a key reads its statistics at once.
Request ==
    /\ pending = Nothing
    /\ Resolved
    /\ pending' = [building |-> FALSE, etag |-> Nothing, seen |-> stats]
    /\ UNCHANGED <<db, state, phase, synced, cached, client, calm, docSetting>>

Answering == pending # Nothing /\ ~ pending.building
Matches(answer) == answer # Nothing /\ answer.etag = Etag

\* The validator of the client matches: it goes on with what it holds.
NotModified ==
    /\ Answering
    /\ Matches(client)
    /\ pending' = Nothing
    /\ UNCHANGED <<db, state, phase, synced, cached, client, calm, docSetting>>

\* The document is in the cache.
CacheHit ==
    /\ Answering
    /\ Matches(cached)
    /\ client' = cached
    /\ pending' = Nothing
    /\ UNCHANGED <<db, state, phase, synced, cached, calm, docSetting>>

\* Or it has to be built, under the ETag it has now.
BuildBegin ==
    /\ Answering
    /\ ~ Matches(cached)
    /\ pending' = IF doc = "archive" /\ OpenArtifact = NotFound THEN Nothing
                  ELSE [pending EXCEPT !.building = TRUE, !.etag = Etag]
    /\ UNCHANGED <<db, state, phase, synced, cached, client, calm, docSetting>>

\* It is built, kept for others if documents of its kind are, and answered.
\* That there is none is not kept.
BuildEnd ==
    /\ pending # Nothing /\ pending.building
    /\ LET answer == [etag |-> pending.etag, body |-> Body(pending.seen)]
       IN  IF answer.body = NotFound THEN UNCHANGED <<cached, client>>
           ELSE /\ client' = answer
                /\ cached' = IF doc \in Uncached THEN cached ELSE answer
    /\ pending' = Nothing
    /\ UNCHANGED <<db, state, phase, synced, calm, docSetting>>

\* Mutant of Expire: an entry stays as long as its ETag matches.
ExpireUnlessMatching ==
    /\ cached # Nothing /\ ~ Matches(cached)
    /\ cached' = Nothing
    /\ UNCHANGED <<db, state, phase, synced, client, pending, calm, docSetting>>
\* An entry of the cache expires, or is evicted.
Expire ==
    /\ cached # Nothing
    /\ cached' = Nothing
    /\ UNCHANGED <<db, state, phase, synced, client, pending, calm, docSetting>>

------------------------------------------------------------------------------
Cycle ==
    \/ BeginCycle
    \/ \E v \in Releases, t \in Trees : PublishNew(v, t) \/ PublishMoved(v, t)
    \/ \E v \in Names : TouchVersion(v) \/ MarkDeleted(v) \/ RowDeleted(v)
    \/ MarkAvailability
    \/ ReconcileKeyStats \/ ReconcileFails
    \/ ResolveNames \/ EndCycle

Serve == Request \/ NotModified \/ CacheHit \/ BuildBegin \/ BuildEnd

\* From here on nothing changes and nothing fails.
Calm ==
    /\ docSetting.calms /\ ~ calm
    /\ calm' = TRUE
    /\ UNCHANGED <<db, state, phase, synced, web, docSetting>>

DocNext == Cycle \/ Restart \/ Serve \/ Expire \/ Calm

DocSpec == DocInit /\ [][DocNext]_docVars

\* The supervisor runs its cycles to the end, requests are answered, and the
\* entries of the cache have a time to live.
DocFairness == WF_docVars(Cycle /\ phase' # phase) /\ WF_docVars(pending # Nothing /\ Serve) /\ WF_docVars(Expire)
DocFairSpec == DocSpec /\ DocFairness

------------------------------------------------------------------------------
\* An answer that has the present ETag of the document is the document.
Current(answer) == Resolved /\ Matches(answer) => answer.body = Body(stats)

\* While no cycle is running, and after one that read all it needed, an ETag
\* that still matches stands for a document that has not changed: neither
\* "not modified" nor an entry of the cache gives an old one ("Callers must
\* include all freshness inputs in the key or surrounding ETag logic",
\* mod/cache/README.md).
EtagIsCurrent == phase = "idle" /\ synced => Current(client) /\ Current(cached)

\* What the ETag of the document notices besides versions that are added, or
\* moved in the history mode.
Noticed ==
    CASE doc = "archive" -> {"restart", "heal", "verify", "down", "error", "mark"}
      [] doc \in {"latest", "list", "list-full", "go-latest", "go-list", "go-info", "go-mod",
                  "key-feed", "feed", "og-version"} -> {"restart", "heal", "verify", "down", "error"}
      [] doc \in {"packages", "sitemap", "og-node"} -> {"restart", "heal", "verify", "down"}
      [] OTHER -> {"restart"}
\* The same for the changes the ETag notices.  The banner of a key is left
\* out: it is built from statistics that are read before its ETag is
\* computed, and may be kept under the ETag of later ones.
EtagNotices == doc # "og-key" /\ docSetting.faults \subseteq Noticed => EtagIsCurrent

\* Whatever has happened: once nothing changes any more, what the cache gives
\* a client without a validator becomes the document as it is, and stays so
\* (a cached document lives until the next rescan is due, cacheTTL).
CacheRefreshes == calm ~> [](Resolved /\ cached # Nothing => cached.body = Body(stats))
==============================================================================
