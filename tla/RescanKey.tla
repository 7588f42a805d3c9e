------------------------------ MODULE RescanKey ------------------------------
(* The cycles of mod/rescan for one key: listing, refs, downloads, the       *)
(* quarantine of content that fails, and the deletion grace.  The upstream    *)
(* changes at any moment, requests fail, the process restarts, and publishes  *)
(* of other keys evict versions of this one.                                  *)
EXTENDS Naturals, Sequences, Ordered

CONSTANTS
    Versions,       \* release names, numbered in semver order
    Refs,           \* what a tag can point to: a commit, and its tree
    Bad,            \* the refs whose content is always rejected
    StartUp,        \* the tags upstream has at first, latest published first
    StartContent,   \* what each tag points to when it is made
    Pinned,         \* the tags upstream never changes
    NoRef,          \* no ref known ("" in the code)
    NoFail,         \* no entry in the quarantine
    NoRow,          \* no row in the versions table
    Settings,       \* source class, cMaxReleases, what may go wrong until the calm, and the bound on changes
    Grace,          \* history_policy.deletion.grace_cycles
    DeleteMode,     \* history_policy.deletion.mode is delete
    RefreshEvery,   \* cIndexSkipRefreshEvery
    Depth           \* rescan.initial_depth, 0 for all

ASSUME VersionsAssumption == Versions \subseteq Nat
ASSUME RefsAssumption == Bad \subseteq Refs /\ NoRef \notin Refs /\ NoFail \notin Refs \cup {NoRef}
ASSUME StartAssumption ==
    /\ StartUp \in Seq(Versions) /\ \A i, j \in DOMAIN StartUp : StartUp[i] = StartUp[j] => i = j
    /\ StartContent \in [Versions -> Refs] /\ Pinned \subseteq Versions
ASSUME FlagsAssumption == DeleteMode \in BOOLEAN
ASSUME GraceAssumption == Grace \in Nat \ {0}
ASSUME RefreshAssumption == RefreshEvery \in Nat \ {0}
ASSUME WindowAssumption == Depth \in Nat
ASSUME SettingsAssumption ==
    Settings \subseteq [class : {"git", "brother", "first"}, cap : Nat \ {0}, changes : Nat,
                        faults : SUBSET {"request", "quarantine", "mode", "apply", "heal", "evict", "restart"}]

VARIABLES
    up,         \* upstream: the tags, latest published first
    content,    \* upstream: what each tag points to
    released,   \* upstream: the tags that are also releases
    changes,    \* number of upstream changes so far
    calm,       \* nothing changes or fails any more
    setting,    \* one of Settings; class "first" is a brother whose origin is preferred
    mode,       \* listing_mode in the key's source row
    row,        \* the key's rows in the versions table
    failsDb,    \* ingest_failures rows: the ref that failed
    fails,      \* permFailMap
    loadMiss,   \* permFailLoadMissObj has the key
    miss,       \* missMap
    count,      \* cycleCount modulo RefreshEvery
    pc,         \* where the cycle of the key is
    route,      \* how the versions were listed: "git", "origin", "brother", "public"
    listing,    \* the names listed
    judge,      \* deletion is allowed in this cycle
    refs,       \* the refs, or the tree hashes, advertised with the listing
    local,      \* the rows read before the versions are processed
    todo,       \* the versions still to process
    whole,      \* history: all the versions the listing should have had
    gone,       \* history: judged cycles in a row in which the version was not upstream
    kinds,      \* history: the listings versions were judged by
    tried       \* history: the ref whose content was last rejected

upstream == <<up, content, released, changes, calm, setting>>
store == <<row, failsDb, mode>>
memory == <<fails, loadMiss, miss>>
cycle == <<count, pc, route, listing, judge, refs, local, todo>>
history == <<whole, gone, kinds, tried>>
vars == <<upstream, store, memory, cycle, history>>

class == setting.class
Cap == setting.cap
Row == [ref : Refs \cup {NoRef}, tree : Refs, deleted : BOOLEAN, heal : BOOLEAN]
ASSUME NoRowAssumption == NoRow \notin Row
Fail == Refs \cup {NoRef, NoFail}
Names(s) == {s[i] : i \in DOMAIN s}
NoRefs == [v \in Versions |-> NoRef]
NoFails == [v \in Versions |-> NoFail]
May(f) == f \in setting.faults /\ ~ calm

\* Mutant of forceRefresh: no cycle is forced.
forceRefreshNever == FALSE
\* A forced cycle trusts nothing it knows; the fallback to the origin of a
\* brother that is away is never forced.
forceRefresh == count = 0 /\ route # "origin"

------------------------------------------------------------------------------
Init ==
    /\ up = StartUp /\ released \in {{}, Names(StartUp)} /\ content = StartContent
    /\ changes = 0 /\ calm = FALSE /\ setting \in Settings
    /\ mode = "undecided"
    /\ row = [v \in Versions |-> NoRow]
    /\ failsDb = NoFails /\ fails = NoFails /\ loadMiss = FALSE
    /\ miss = [v \in Versions |-> 0]
    /\ count = 0 /\ pc = "idle" /\ route = "git" /\ listing = <<>> /\ judge = FALSE
    /\ refs = NoRefs /\ local = [v \in Versions |-> NoRow] /\ todo = <<>>
    /\ whole = {} /\ gone = [v \in Versions |-> 0] /\ kinds = {} /\ tried = NoFails

------------------------------------------------------------------------------
(* The upstream.                                                              *)

Change(newUp, newContent, newReleased) ==
    /\ ~ calm
    /\ changes < setting.changes
    /\ up' = newUp /\ content' = newContent /\ released' = newReleased
    /\ changes' = changes + 1
    /\ UNCHANGED <<calm, setting, store, memory, cycle, history>>

\* A version is tagged, and perhaps released; it need not be the highest.
Tag(v, asRelease) ==
    /\ v \notin Names(up)
    /\ Change(<<v>> \o up, content, IF asRelease THEN released \cup {v} ELSE released)
\* A tag is removed, and its release with it.
Untag(v) ==
    /\ v \in Names(up) \ Pinned
    /\ Change(Keeping(up, Versions \ {v}), content, released \ {v})
\* A tag is moved to another commit.
Retag(v, r) ==
    /\ v \in Names(up) \ Pinned
    /\ r # content[v]
    /\ Change(up, [content EXCEPT ![v] = r], released)
\* A release is made from a tag, or withdrawn while the tag stays.
ToggleRelease(v) ==
    /\ v \in Names(up) \ Pinned
    /\ Change(up, content, IF v \in released THEN released \ {v} ELSE released \cup {v})

\* From here on the upstream is stable and nothing fails; refs may still not
\* be advertised.
Calm ==
    /\ ~ calm
    /\ calm' = TRUE
    /\ UNCHANGED <<up, content, released, changes, setting, store, memory, cycle, history>>

------------------------------------------------------------------------------
(* The listing.                                                               *)

\* A cycle begins with the next value of the counter.
Begin ==
    /\ pc = "idle"
    /\ pc' = "list"
    /\ count' = (count + 1) % RefreshEvery
    /\ UNCHANGED <<upstream, store, memory, route, listing, judge, refs, local, todo, history>>

Releases == Keeping(up, released)
Prefix(s, n) == IF Len(s) > n THEN SubSeq(s, 1, n) ELSE s
\* Mutant of Truncated: the cap is not noticed.
TruncatedUnseen(s) == FALSE
\* What a provider is asked for, and what is kept of its answer.
Requested(s) == IF Depth = 0 THEN s ELSE Prefix(s, Depth)
Truncated(s) == Len(Requested(s)) > Cap
Collected(s) == Prefix(Requested(s), Cap)

\* The end of a cycle that could not list the key.
GiveUp ==
    /\ pc' = "end"
    /\ UNCHANGED <<upstream, store, memory, count, route, listing, judge, refs, local, todo, history>>


\* The kind of listing a key without a decision gets.
UndecidedKind == IF Releases # <<>> THEN "releases" ELSE IF up # <<>> THEN "tags" ELSE "undecided"
ListOf(kind) == IF kind = "releases" THEN Releases ELSE up

\* A listing of a kind, by route r.
Accept(r, kind, allowDeletion) ==
    /\ pc' = "refs"
    /\ route' = r
    /\ listing' = Collected(ListOf(kind))
    /\ judge' = (allowDeletion /\ ~ Truncated(ListOf(kind)))
    /\ whole' = Names(ListOf(kind))
    /\ kinds' = IF judge' /\ listing' # <<>> THEN kinds \cup {kind} ELSE kinds

\* A decision that cannot be read counts as none.
Undecided == mode = "undecided" \/ May("mode")
\* Mutant of ListUndecided: only a decision for releases is stored.
ListUndecidedReleases ==
    /\ pc = "list" /\ class = "git" /\ Undecided
    /\ Accept("git", UndecidedKind, TRUE)
    /\ mode' = IF UndecidedKind = "releases" THEN UndecidedKind ELSE mode
    /\ UNCHANGED <<upstream, row, failsDb, memory, count, refs, local, todo, gone, tried>>
\* Neither releases nor tags decided yet: releases if there are any, else
\* tags, and the decision is stored.
ListUndecided ==
    /\ pc = "list" /\ class = "git" /\ Undecided
    /\ Accept("git", UndecidedKind, TRUE)
    /\ mode' \in {IF UndecidedKind = "undecided" THEN mode ELSE UndecidedKind} \cup (IF May("mode") THEN {mode} ELSE {})
    /\ UNCHANGED <<upstream, row, failsDb, memory, count, refs, local, todo, gone, tried>>

\* The decided kind is listed.
ListDecided ==
    /\ pc = "list" /\ class = "git" /\ mode # "undecided"
    /\ mode = "tags" => released = {} \/ May("request")
    /\ Accept("git", mode, TRUE)
    /\ UNCHANGED <<upstream, store, memory, count, refs, local, todo, gone, tried>>

\* A key listed by its tags is frozen once its upstream makes releases.
ListConflict ==
    /\ pc = "list" /\ class = "git" /\ mode = "tags" /\ released # {}
    /\ GiveUp

\* A request fails.
ListFails ==
    /\ pc = "list"
    /\ May("request")
    /\ GiveUp

\* The index of a brother: names and tree hashes, and an origin that may be
\* preferred to it.
ListBrother ==
    /\ pc = "list" /\ (class = "brother" \/ (class = "first" /\ May("request")))
    /\ pc' = "versions"
    /\ route' = "brother" /\ listing' = up /\ todo' = up /\ judge' = TRUE /\ whole' = Names(up)
    /\ refs' = content
    /\ UNCHANGED <<upstream, store, memory, count, local, gone, kinds, tried>>

\* The origin is listed like an undecided git source, decides nothing and
\* deletes nothing: it is preferred, or the brother is away.
ListFirst ==
    /\ pc = "list" /\ class = "first"
    /\ Accept("git", UndecidedKind, FALSE)
    /\ UNCHANGED <<upstream, store, memory, count, refs, local, todo, gone, tried>>
ListOrigin ==
    /\ pc = "list" /\ class # "git" /\ May("request")
    /\ Accept("origin", UndecidedKind, FALSE)
    /\ UNCHANGED <<upstream, store, memory, count, refs, local, todo, gone, tried>>

ClearedDb(v) == IF fails[v] # NoFail \/ loadMiss THEN NoFail ELSE failsDb[v]

\* The public pages of a brother whose session cannot be dialled: the names,
\* and the details, with or without a hash, of those that are not known here;
\* details that cannot be resolved are left for the next cycle.
Known(v) == row[v] # NoRow /\ ~ row[v].deleted /\ ~ row[v].heal
ListPublic ==
    /\ pc = "list" /\ class # "git" /\ May("request")
    /\ pc' = "versions"
    /\ route' = "public"
    /\ LET names == Prefix(up, Cap)
           skipped == {v \in Names(names) : count # 0 /\ Known(v)}
       IN  /\ listing' = names
           /\ judge' = (names # <<>> /\ ~ Len(up) > Cap)
           /\ \E unresolved \in SUBSET (Names(names) \ skipped) :
                  todo' = Keeping(names, Names(names) \ (skipped \cup unresolved))
           /\ fails' = [v \in Versions |-> IF v \in skipped THEN NoFail ELSE fails[v]]
           /\ failsDb' = [v \in Versions |-> IF v \in skipped THEN ClearedDb(v) ELSE failsDb[v]]
           /\ tried' = [v \in Versions |-> IF v \in skipped THEN NoFail ELSE tried[v]]
    /\ refs' \in {content, NoRefs}
    /\ whole' = Names(up)
    /\ UNCHANGED <<upstream, row, mode, loadMiss, miss, count, local, gone, kinds>>

\* The refs of all tags, in one answer.
Advertised == [v \in Versions |-> IF v \in Names(up) THEN content[v] ELSE NoRef]
\* fetchRefs and localGitState: the tags' refs, or none when the request
\* fails, and the rows of the key.
ReadState ==
    /\ pc = "refs"
    /\ pc' = "versions"
    /\ refs' \in {Advertised, NoRefs}
    /\ local' = row
    /\ todo' = listing
    /\ tried' = IF refs' = NoRefs THEN NoFails ELSE tried
    /\ UNCHANGED <<upstream, store, memory, count, route, listing, judge, whole, gone, kinds>>

------------------------------------------------------------------------------
(* One version of the listing.                                                *)

cur == Head(todo)     \* the version being processed
Git == route \in {"git", "origin"}
Working == pc = "versions" /\ todo # <<>>
Advance == todo' = Tail(todo) /\ UNCHANGED <<pc, count, route, listing, judge, refs, local>>

\* A git version with a row is downloaded again in a forced cycle, after an
\* upstream deletion, when its ref has moved, or to complete its artifacts.
RefMoved == refs[cur] # NoRef /\ local[cur].ref # NoRef /\ local[cur].ref # refs[cur]
Refetch == forceRefresh \/ local[cur].deleted \/ RefMoved \/ local[cur].heal
\* A version of a mirrored instance is known by its tree.
KnownTree == Known(cur) /\ row[cur].tree = refs[cur]
\* No download is needed, and none is wanted: a git version that is up to date
\* may still have to be verified (verifyDue and cMaxDeepVerifiesPerKey look at
\* times and ranks: any choice).
UpToDate == IF Git THEN local[cur] # NoRow /\ ~ Refetch ELSE ~ forceRefresh /\ KnownTree
Wanted == Git \/ ~ UpToDate
\* Content that was rejected under the same ref is not downloaded again.  A
\* mirrored version without a hash is not remembered.
Quarantined == ~ forceRefresh /\ fails[cur] = refs[cur] /\ (Git \/ refs[cur] # NoRef)

\* A write to the quarantine in the database, which may fail.
DbBecomes(new) == failsDb' \in {new} \cup (IF May("quarantine") THEN {failsDb} ELSE {})
\* Nothing to do: the quarantine of the version is cleared, and a ref that
\* was not known when the row was written is adopted.
Keep ==
    /\ Working
    /\ UpToDate
    /\ fails' = [fails EXCEPT ![cur] = NoFail]
    /\ DbBecomes([failsDb EXCEPT ![cur] = ClearedDb(cur)])
    /\ row' = IF Git /\ refs[cur] # NoRef /\ local[cur].ref = NoRef /\ row[cur] # NoRow
              THEN [row EXCEPT ![cur].ref = refs[cur]] ELSE row
    /\ tried' = [tried EXCEPT ![cur] = NoFail]
    /\ Advance
    /\ UNCHANGED <<upstream, mode, loadMiss, miss, whole, gone, kinds>>

SkipQuarantined ==
    /\ Working
    /\ Wanted
    /\ Quarantined
    /\ Advance
    /\ UNCHANGED <<upstream, store, memory, history>>

\* What the quarantine is once the download has begun, and after a download
\* that says nothing about the content.
Forgotten(f) == IF forceRefresh THEN [f EXCEPT ![cur] = NoFail] ELSE f
NoVerdict == fails' = Forgotten(fails) /\ DbBecomes(Forgotten(failsDb)) /\ tried' = Forgotten(tried)

Download ==
    /\ Working
    /\ Wanted
    /\ ~ Quarantined

\* The download fails in a way that may pass: a request fails, or the version
\* is no longer there.  A session that breaks and cannot be dialled again ends
\* the work on the listing.
DownloadFails ==
    /\ Download
    /\ May("request") \/ cur \notin Names(up)
    /\ NoVerdict
    /\ todo' \in {Tail(todo)} \cup (IF route = "brother" /\ May("request") THEN {<<>>} ELSE {})
    /\ UNCHANGED <<upstream, row, mode, loadMiss, miss, pc, count, route, listing, judge, refs, local,
                   whole, gone, kinds>>

\* Mutant of Record: the database is not written.
RecordInMemory ==
    /\ fails' = [fails EXCEPT ![cur] = refs[cur]]
    /\ failsDb' = Forgotten(failsDb)
    /\ tried' = [tried EXCEPT ![cur] = IF refs[cur] = NoRef THEN NoFail ELSE refs[cur]]
\* recordPermanentFailure, in memory and, unless that fails or the key's
\* quarantine is full, in the database.
Record ==
    /\ fails' = [fails EXCEPT ![cur] = refs[cur]]
    /\ \/ DbBecomes([failsDb EXCEPT ![cur] = refs[cur]])
       \/ May("quarantine") /\ failsDb' = Forgotten(failsDb)
    /\ tried' = [tried EXCEPT ![cur] = IF refs[cur] = NoRef THEN NoFail ELSE refs[cur]]

\* The content is not acceptable: it is always rejected, or is not what the
\* mirrored instance announced.
Rejected == \/ content[cur] \in Bad
            \/ ~ Git /\ refs[cur] # NoRef /\ content[cur] # refs[cur]
DownloadRejected ==
    /\ Download
    /\ cur \in Names(up)
    /\ Rejected
    /\ IF Git \/ refs[cur] # NoRef THEN Record
       ELSE NoVerdict
    /\ Advance
    /\ UNCHANGED <<upstream, row, mode, loadMiss, miss, whole, gone, kinds>>

\* The row after publishVersion: the same tree is resurrected, or its
\* artifacts are completed, or only verified; another tree is published, with
\* incomplete artifacts if one of them cannot be built.
KeepsTree == row[cur] # NoRow /\ row[cur].tree = content[cur]
Published ==
    IF KeepsTree /\ row[cur].deleted THEN {[row[cur] EXCEPT !.deleted = FALSE]}
    ELSE IF KeepsTree THEN {[row[cur] EXCEPT !.heal = FALSE]}
    ELSE {[ref |-> IF Git THEN refs[cur] ELSE NoRef, tree |-> content[cur], deleted |-> FALSE, heal |-> h] :
              h \in {FALSE} \cup (IF May("heal") THEN {TRUE} ELSE {})}
\* TouchVersionVerified, for a git version that had a row: a known ref is stored.
Touched(r) == IF Git /\ local[cur] # NoRow /\ refs[cur] # NoRef THEN [r EXCEPT !.ref = refs[cur]] ELSE r

DownloadPublished ==
    /\ Download
    /\ cur \in Names(up)
    /\ ~ Rejected
    /\ \E r \in Published : row' = [row EXCEPT ![cur] = Touched(r)]
    /\ fails' = [fails EXCEPT ![cur] = NoFail]
    /\ DbBecomes([failsDb EXCEPT ![cur] = IF forceRefresh THEN NoFail ELSE ClearedDb(cur)])
    /\ tried' = [tried EXCEPT ![cur] = NoFail]
    /\ Advance
    /\ UNCHANGED <<upstream, mode, loadMiss, miss, whole, gone, kinds>>

\* The missing artifacts of a row cannot be built: the row stays as it is,
\* and a failure that would repeat is quarantined.
HealFails ==
    /\ Download
    /\ cur \in Names(up)
    /\ ~ Rejected
    /\ May("heal")
    /\ KeepsTree /\ ~ row[cur].deleted /\ row[cur].heal
    /\ \/ Record
       \/ NoVerdict
    /\ Advance
    /\ UNCHANGED <<upstream, row, mode, loadMiss, miss, whole, gone, kinds>>

------------------------------------------------------------------------------
(* The end of the cycle.                                                      *)

Live(w) == row[w] # NoRow /\ ~ row[w].deleted
Judged == judge /\ (listing # <<>> \/ route = "brother")
\* A version lower than all that was listed: the listing may just not reach it.
BelowListed(w) == \A x \in Names(listing) : w < x
\* applyDeletionGrace: a live version that was not listed counts as missing,
\* unless it lies below all that was listed.
Missing(w) ==
    /\ Live(w)
    /\ w \notin Names(listing)
    /\ ~ (Git /\ BelowListed(w))
Expired(w) == Missing(w) /\ miss[w] + 1 >= Grace
\* Mutant of CountMisses: the count is not reset after the deletion.
CountMissesOn(failed) ==
    [w \in Versions |->
        IF Live(w) /\ w \in Names(listing) THEN 0
        ELSE IF ~ Missing(w) THEN miss[w]
        ELSE IF Expired(w) THEN Grace ELSE miss[w] + 1]
CountMisses(failed) ==
    [w \in Versions |->
        IF Live(w) /\ w \in Names(listing) THEN 0
        ELSE IF ~ Missing(w) THEN miss[w]
        ELSE IF w \in failed THEN Grace
        ELSE IF Expired(w) THEN 0 ELSE miss[w] + 1]
Judge ==
    /\ pc = "versions" /\ todo = <<>>
    /\ pc' = "end"
    /\ IF Judged
       THEN \E failed \in IF May("apply") THEN SUBSET {w \in Versions : Expired(w)} ELSE {{}} :
                /\ miss' = CountMisses(failed)
                /\ row' = [w \in Versions |->
                              IF ~ Expired(w) \/ w \in failed THEN row[w]
                              ELSE IF DeleteMode THEN NoRow ELSE [row[w] EXCEPT !.deleted = TRUE]]
                /\ gone' = [w \in Versions |->
                              IF w \in whole THEN 0 ELSE IF gone[w] < Grace THEN gone[w] + 1 ELSE Grace]
       ELSE UNCHANGED <<miss, row, gone>>
    /\ UNCHANGED <<upstream, failsDb, mode, fails, loadMiss, count, route, listing, judge, refs, local, todo,
                   whole, kinds, tried>>

\* The locals of a cycle end with it.
Forget ==
    /\ pc' = "idle" /\ route' = "git" /\ listing' = <<>> /\ judge' = FALSE /\ whole' = {}
    /\ refs' = NoRefs /\ local' = [w \in Versions |-> NoRow] /\ todo' = <<>>

\* raiseQuarantineSummary: rows of the database that are not in memory are
\* taken over.
End ==
    /\ pc = "end"
    /\ \/ /\ fails' = [w \in Versions |-> IF fails[w] = NoFail THEN failsDb[w] ELSE fails[w]]
          /\ loadMiss' = FALSE
       \/ May("quarantine") /\ UNCHANGED <<fails, loadMiss>>
    /\ Forget
    /\ UNCHANGED <<upstream, store, miss, count, gone, kinds, tried>>

\* A publish of another key evicts a version.
Evict(w) ==
    /\ May("evict")
    /\ row[w] # NoRow
    /\ row' = [row EXCEPT ![w] = NoRow]
    /\ UNCHANGED <<upstream, failsDb, mode, memory, cycle, history>>

\* The process stops and starts again: the quarantine is loaded, or marked as
\* not loaded; the misses and the number of the cycle are lost.
Restart ==
    /\ May("restart")
    /\ \/ fails' = failsDb /\ loadMiss' = FALSE
       \/ May("quarantine") /\ fails' = NoFails /\ loadMiss' = TRUE
    /\ miss' = [w \in Versions |-> 0]
    /\ count' = 0
    /\ Forget
    /\ tried' = IF "quarantine" \in setting.faults THEN NoFails ELSE tried
    /\ UNCHANGED <<upstream, store, gone, kinds>>

------------------------------------------------------------------------------
Upstream ==
    \/ \E w \in Versions : \/ \E asRelease \in BOOLEAN : Tag(w, asRelease)
                           \/ Untag(w)
                           \/ \E r \in Refs : Retag(w, r)
                           \/ ToggleRelease(w)
    \/ Calm

Listing ==
    \/ ListUndecided \/ ListDecided \/ ListConflict \/ ListFails
    \/ ListBrother \/ ListFirst \/ ListOrigin \/ ListPublic

Process ==
    \/ Keep \/ SkipQuarantined
    \/ DownloadFails \/ DownloadRejected \/ DownloadPublished \/ HealFails

runKey == Begin \/ Listing \/ ReadState \/ Process \/ Judge \/ End

Next == Upstream \/ runKey \/ Restart \/ \E w \in Versions : Evict(w)

Spec == Init /\ [][Next]_vars

\* The supervisor runs cycle after cycle.
FairSpec == Spec /\ WF_vars(runKey)

------------------------------------------------------------------------------
TypeOK ==
    /\ up \in Seq(Versions) /\ \A i, j \in DOMAIN up : up[i] = up[j] => i = j
    /\ content \in [Versions -> Refs]
    /\ released \subseteq Names(up)
    /\ setting \in Settings /\ changes \in 0 .. setting.changes /\ calm \in BOOLEAN
    /\ mode \in {"undecided", "releases", "tags"}
    /\ row \in [Versions -> Row \cup {NoRow}] /\ local \in [Versions -> Row \cup {NoRow}]
    /\ failsDb \in [Versions -> Fail] /\ fails \in [Versions -> Fail] /\ loadMiss \in BOOLEAN
    /\ miss \in [Versions -> 0 .. Grace]
    /\ count \in 0 .. RefreshEvery - 1
    /\ pc \in {"idle", "list", "refs", "versions", "end"}
    /\ route \in {"git", "origin", "brother", "public"}
    /\ listing \in Seq(Versions) /\ todo \in Seq(Versions)
    /\ judge \in BOOLEAN
    /\ refs \in [Versions -> Refs \cup {NoRef}]
    /\ \A w \in Versions : row[w] # NoRow /\ row[w].deleted => miss[w] = 0
    /\ whole \subseteq Versions /\ gone \in [Versions -> 0 .. Grace]
    /\ kinds \subseteq {"releases", "tags"} /\ tried \in [Versions -> Refs \cup {NoFail}]

\* Nothing is deleted, or marked as deleted, unless it was missing upstream in
\* that many judged cycles in a row ("Number of consecutive cycles where a
\* version must be missing upstream before deletion mode can delete it",
\* history_policy.deletion.grace_cycles).
DeletionEarned ==
    [][\A w \in Versions : Judge /\ Live(w) /\ ~ Live(w)' => gone'[w] = Grace]_vars

\* The same where a version is not evicted in between: the misses of an
\* evicted version are kept while it has no row, however often it is listed.
DeletionEarnedByRow ==
    [][\A w \in Versions :
           Judge /\ Live(w) /\ ~ Live(w)' /\ "evict" \notin setting.faults => gone'[w] = Grace]_vars

\* The versions of a key are judged by one kind of listing, so that a first
\* release does not make all plain tags look missing ("Persist sticky git
\* listing mode", mod/rescan/README.md).
OneListingKind == "mode" \notin setting.faults => kinds \in {{}, {"releases"}, {"tags"}}

\* Content that was rejected is not downloaded again under the same ref, also
\* after a restart, unless the cycle is forced or refs were not advertised in
\* between ("Permanent content failures are remembered by upstream reference
\* or advertised tree hash to avoid repeated downloads", mod/rescan/README.md).
QuarantineHolds ==
    [][\A v \in Versions :
           Download /\ cur = v /\ todo' # todo /\ ~ forceRefresh => tried[v] # refs[v]]_vars

\* What a complete listing of the key gives.
Listable ==
    IF class = "brother" THEN Names(up)
    ELSE IF class = "first" THEN Names(Collected(ListOf(UndecidedKind)))
    ELSE IF mode = "tags" /\ released # {} THEN {}
    ELSE Names(Collected(ListOf(IF mode = "undecided" THEN UndecidedKind ELSE mode)))
Mirrored(w) ==
    /\ Live(w) /\ row[w].tree = content[w] /\ ~ row[w].heal
    /\ fails[w] = NoFail /\ failsDb[w] = NoFail
\* Once upstream is stable and nothing fails, every version it lists with
\* acceptable content is mirrored as it is there and out of the quarantine,
\* whatever was missed, adopted or quarantined before.
Converges ==
    \A w \in Versions : (calm /\ w \in Listable /\ content[w] \notin Bad) ~> Mirrored(w)
==============================================================================
