------------------------------ MODULE MirrorLink ------------------------------
(* One cycle of a key that mirrors another instance (mod/rescan/brother.go,   *)
(* mod/source/brother.go, mod/source/public_mirror.go against                  *)
(* mod/server/brother): the session and its limits, the walk over the pages of *)
(* the other's versions, and the transfer of each, while the other instance    *)
(* publishes, replaces and deletes versions, restarts, or cannot be reached.   *)
EXTENDS Naturals, FiniteSets, Sequences, SequencesExt, FiniteSetsExt, Ordered

CONSTANTS
    Tags,          \* version names, numbered in their order as text
    TreeContents,  \* for each tree its blobs, in the order of its entries
    SizeOf,        \* the size of a blob
    Gone,          \* no row
    LinkSettings   \* the page size, the limits of both sides, the rows each begins with, whether the
                   \* other pages by keyset, and the bounds on changes, faults and redials

TreeNames == DOMAIN TreeContents
TheirRow == [tree : TreeNames, seq : Nat]
ASSUME TagsAssumption == IsFiniteSet(Tags) /\ Tags \subseteq Nat
ASSUME ContentsAssumption ==
    /\ \A t \in TreeNames : TreeContents[t] \in Seq(DOMAIN SizeOf)
    /\ \A b \in DOMAIN SizeOf : SizeOf[b] \in Nat
ASSUME GoneAssumption == Gone \notin TreeNames \cup TheirRow \cup [tag : Tags, tree : TreeNames, seq : Nat]
ASSUME LinkSettingsAssumption ==
    \A s \in LinkSettings :
        /\ s \in [pageSize : Nat \ {0}, own : [bytes : Nat, count : Nat], limits : SUBSET [bytes : Nat, count : Nat],
                  remote : [Tags -> TheirRow \cup {Gone}], mirrored : [Tags -> TreeNames \cup {Gone}],
                  keyset : BOOLEAN, changes : Nat, faults : Nat, redials : Nat, seqs : Nat]

VARIABLES
    remote,     \* the rows of the other instance: tree and upstream_seq
    limit,      \* its limits on an answer: bytes and blobs
    mirrored,   \* the trees of the rows here
    refused,    \* the revisions whose failure is recorded as permanent
    at,         \* where the cycle is
    via,        \* "rpc" or "public"
    session,    \* "up", "dead" but not noticed, or "failed", and the limits agreed on
    walk,       \* the page asked for, the cursor, and the entries listed so far
    todo,       \* the entries that are still to be looked at
    pull,       \* the blobs the present version needs, and those it has got
    changes, faults, redials,
    throughout, \* history: the tags that have been there since the walk began
    deleted,    \* history: a row was deleted since then
    overruled,  \* history: the other instance refused a batch for its size
    linkSetting

them == <<remote, limit, changes, throughout, deleted>>
us == <<mirrored, refused>>
linkVars == <<them, us, at, via, session, walk, todo, pull, faults, redials, overruled, linkSetting>>

FirstPage == [page |-> 1, after |-> Gone, listed |-> <<>>]
Present == {t \in Tags : remote[t] # Gone}
Least(m, n) == IF m < n THEN m ELSE n
Agreed(other) == [bytes |-> Least(linkSetting.own.bytes, other.bytes), count |-> Least(linkSetting.own.count, other.count)]

LinkInit ==
    /\ linkSetting \in LinkSettings
    /\ remote = linkSetting.remote /\ mirrored = linkSetting.mirrored
    /\ limit \in linkSetting.limits
    /\ refused = {} /\ at = "dial" /\ via = "rpc"
    /\ session = [state |-> "failed", limit |-> linkSetting.own]
    /\ walk = FirstPage /\ todo = <<>> /\ pull = [need |-> <<>>, got |-> {}]
    /\ changes = 0 /\ faults = 0 /\ redials = 0
    /\ throughout = Present /\ deleted = FALSE /\ overruled = FALSE

------------------------------------------------------------------------------
(* The other instance.                                                        *)

Changes == changes < linkSetting.changes /\ at # "done" /\ changes' = changes + 1
\* It mirrors a version, at any place of its order; a row that is there keeps its place.
RemotePublish(t, tree, seq) ==
    /\ Changes
    /\ remote[t] # Gone => tree # remote[t].tree /\ seq = remote[t].seq
    /\ remote' = [remote EXCEPT ![t] = [tree |-> tree, seq |-> seq]]
    /\ UNCHANGED <<limit, throughout, deleted, us, at, via, session, walk, todo, pull, faults, redials, overruled, linkSetting>>
RemoteDelete(t) ==
    /\ Changes
    /\ remote[t] # Gone
    /\ remote' = [remote EXCEPT ![t] = Gone]
    /\ throughout' = throughout \ {t} /\ deleted' = TRUE
    /\ UNCHANGED <<limit, us, at, via, session, walk, todo, pull, faults, redials, overruled, linkSetting>>
\* It restarts with another configuration.
RemoteRestart ==
    /\ Changes
    /\ limit' \in linkSetting.limits \ {limit}
    /\ session' = [session EXCEPT !.state = IF @ = "up" THEN "dead" ELSE @]
    /\ UNCHANGED <<remote, throughout, deleted, us, at, via, walk, todo, pull, faults, redials, overruled, linkSetting>>

ListedBefore(a, b) == a.seq > b.seq \/ (a.seq = b.seq /\ a.tag > b.tag)
\* ListVersionsKeyset and ListVersionsPage.
RowOfTag(t) == [tag |-> t, tree |-> remote[t].tree, seq |-> remote[t].seq]
TheirRows == {RowOfTag(t) : t \in Present}
Sorted(S) == InOrder(S, {p \in S \X S : ListedBefore(p[1], p[2])})
Rows == Sorted(TheirRows)
\* Mutant of RowsAfter: the cursor is the place in the order alone.
RowsAfterSeq(cursor) == Sorted({r \in TheirRows : cursor = Gone \/ cursor.seq > r.seq})
RowsAfter(cursor) == Sorted({r \in TheirRows : cursor = Gone \/ ListedBefore(cursor, r)})
RowsFrom(page) == SubSeq(Rows, (page - 1) * linkSetting.pageSize + 1, Len(Rows))
\* One page more than fits says that there is another one.
IndexAnswer(page, cursor) ==
    LET rows == IF linkSetting.keyset \/ page = 1 \/ via = "public" THEN RowsAfter(cursor) ELSE RowsFrom(page)
    IN  [entries |-> SubSeq(rows, 1, Least(Len(rows), linkSetting.pageSize)),
         next |-> IF Len(rows) > linkSetting.pageSize THEN page + 1 ELSE 0]

------------------------------------------------------------------------------
(* The session.                                                               *)

Fault == faults < linkSetting.faults /\ faults' = faults + 1
Works == session.state = "up"

\* Dial and Hello, with one of the addresses; the limits are agreed on.
Connected == session' = [state |-> "up", limit |-> Agreed(limit)]
Dial ==
    /\ at = "dial"
    /\ at' = "index" /\ Connected
    /\ UNCHANGED <<them, us, via, walk, todo, pull, faults, redials, overruled, linkSetting>>
\* None answers, or it refuses another session: the public pages are read.
DialFails ==
    /\ at = "dial" /\ Fault
    /\ at' = "index" /\ via' = "public"
    /\ UNCHANGED <<them, us, session, walk, todo, pull, redials, overruled, linkSetting>>

\* Mutant of Redial: the limits of the old session are kept.
RedialAsBefore ==
    /\ at = "redial"
    /\ at' = "next" /\ redials' = redials + 1 /\ session' = [session EXCEPT !.state = "up"]
    /\ UNCHANGED <<them, us, via, walk, todo, pull, faults, overruled, linkSetting>>
Redial ==
    /\ at = "redial"
    /\ at' = "next" /\ redials' = redials + 1 /\ Connected
    /\ UNCHANGED <<them, us, via, walk, todo, pull, faults, overruled, linkSetting>>
\* The rest of the versions waits for the next cycle.
RedialFails ==
    /\ at = "redial" /\ Fault
    /\ at' = "done" /\ redials' = redials + 1
    /\ UNCHANGED <<them, us, via, session, walk, todo, pull, overruled, linkSetting>>

\* A call that finds no session ends it.
Broken == session' = [session EXCEPT !.state = "failed"]
\* What follows a version, mirrored or not: healthy sessions go on, others are
\* dialled again a few times, and without one the rest fails at once.
AfterVersion(state) == IF via = "rpc" /\ state # "up" /\ redials < linkSetting.redials THEN "redial" ELSE "next"

------------------------------------------------------------------------------
(* The walk over the pages.                                                   *)

\* The public list has names only.
Named(entry) == IF via = "rpc" THEN entry ELSE [entry EXCEPT !.tree = Gone]
Walked(page) ==
    walk' = [page |-> page.next,
             after |-> IF page.next = 0 \/ page.entries = <<>> THEN Gone ELSE Last(page.entries),
             listed |-> walk.listed \o page.entries]
IndexPage ==
    /\ at = "index" /\ (via = "rpc" => Works)
    /\ LET page == IndexAnswer(walk.page, walk.after)
       IN  /\ Walked(page)
           /\ todo' = todo \o [i \in DOMAIN page.entries |-> Named(page.entries[i])]
           /\ at' = IF via = "public" THEN "details" ELSE IF page.next = 0 THEN "next" ELSE "index"
    /\ UNCHANGED <<them, us, via, session, pull, faults, redials, overruled, linkSetting>>
\* The listing fails as a whole, or is too large: the key is unavailable, and
\* no version counts as missing.
IndexFails ==
    /\ at = "index"
    /\ IF via = "rpc" /\ ~ Works THEN UNCHANGED faults ELSE Fault
    /\ at' = "unavailable" /\ Broken
    /\ UNCHANGED <<them, us, via, walk, todo, pull, redials, overruled, linkSetting>>

\* A listed name that is not here is looked up, and left out of this cycle if
\* that fails.
Unresolved == {i \in DOMAIN todo : todo[i].tree = Gone /\ mirrored[todo[i].tag] = Gone}
Resolve ==
    /\ at = "details" /\ Unresolved # {}
    /\ LET i == CHOOSE n \in Unresolved : \A k \in Unresolved : n <= k
           row == remote[todo[i].tag]
       IN  \/ row # Gone /\ todo' = [todo EXCEPT ![i].tree = row.tree] /\ UNCHANGED faults
           \/ row = Gone /\ todo' = RemoveAt(todo, i) /\ UNCHANGED faults
           \/ row # Gone /\ todo' = RemoveAt(todo, i) /\ Fault
    /\ UNCHANGED <<them, us, at, via, session, walk, pull, redials, overruled, linkSetting>>
ResolvedAll ==
    /\ at = "details" /\ Unresolved = {}
    /\ todo' = Keeping(todo, {e \in ToSet(todo) : e.tree # Gone})
    /\ at' = IF walk.page = 0 THEN "next" ELSE "index"
    /\ UNCHANGED <<them, us, via, session, walk, pull, faults, redials, overruled, linkSetting>>

------------------------------------------------------------------------------
(* The versions, one after the other.                                         *)

Entry == Head(todo)
Known == mirrored[Entry.tag] = Entry.tree \/ <<Entry.tag, Entry.tree>> \in refused
\* A name that is listed twice is looked at once.
Rest == Keeping(todo, {e \in ToSet(todo) : e.tag # Entry.tag})
Skip ==
    /\ at = "next" /\ todo # <<>> /\ Known
    /\ todo' = Rest
    /\ UNCHANGED <<them, us, at, via, session, walk, pull, faults, redials, overruled, linkSetting>>
EndOfList ==
    /\ at = "next" /\ todo = <<>>
    /\ at' = "done"
    /\ UNCHANGED <<them, us, via, session, walk, todo, pull, faults, redials, overruled, linkSetting>>

\* The version is given up for this cycle.
GiveUpVersion(state) == at' = AfterVersion(state) /\ todo' = Rest /\ pull' = [need |-> <<>>, got |-> {}]

\* The tree, or the archive of the public pages, as it is now.  One that is
\* not the announced revision is recorded as failing for good.
Stored == UNION {ToSet(TreeContents[mirrored[t]]) : t \in {u \in Tags : mirrored[u] # Gone}}
Missing == Keeping(TreeContents[Entry.tree], ToSet(TreeContents[Entry.tree]) \ Stored)
FetchVersion ==
    /\ at = "next" /\ todo # <<>> /\ ~ Known /\ (via = "rpc" => Works)
    /\ \/ /\ remote[Entry.tag] # Gone /\ remote[Entry.tag].tree = Entry.tree
          /\ pull' = [need |-> IF via = "rpc" THEN Missing ELSE <<>>,
                      got |-> {}]
          /\ at' = "blobs" /\ UNCHANGED <<refused, todo>>
       \/ /\ remote[Entry.tag] # Gone /\ remote[Entry.tag].tree # Entry.tree
          /\ refused' = refused \cup {<<Entry.tag, Entry.tree>>} /\ GiveUpVersion("up")
       \/ /\ remote[Entry.tag] = Gone
          /\ GiveUpVersion("up") /\ UNCHANGED refused
    /\ UNCHANGED <<them, mirrored, via, session, walk, faults, redials, overruled, linkSetting>>
\* The call fails: the connection is gone, or goes now.
CallFails ==
    /\ at \in {"next", "blobs"} /\ todo # <<>> /\ (at = "next" => ~ Known)
    /\ IF via = "rpc" /\ ~ Works THEN UNCHANGED faults ELSE Fault
    /\ Broken /\ GiveUpVersion("failed")
    /\ UNCHANGED <<them, us, via, walk, redials, overruled, linkSetting>>

TotalSize(blobs) ==
    LET size == [i \in DOMAIN blobs |-> SizeOf[blobs[i]]] IN MapThenSumSet(LAMBDA i : size[i], DOMAIN blobs)
Prefix(n) == SubSeq(pull.need, 1, n)
Fits(blobs, l) == TotalSize(blobs) <= l.bytes /\ Len(blobs) <= l.count
\* Mutant of Batch: the batch that is full takes one more.
BatchOneMore == Prefix(Least(Len(pull.need), session.limit.count + 1))
\* As many blobs as fit, and at least one.
Batch ==
    Prefix(CHOOSE n \in 1 .. Len(pull.need) :
        /\ n = 1 \/ Fits(Prefix(n), session.limit)
        /\ n < Len(pull.need) => ~ Fits(Prefix(n + 1), session.limit))
\* What the other instance has; blobs of trees it has replaced may be gone.
Held == UNION {ToSet(TreeContents[remote[t].tree]) : t \in Present}
FetchBatch ==
    /\ at = "blobs" /\ pull.need # <<>> /\ Works
    /\ Fits(Batch, session.limit)
    /\ IF Fits(Batch, limit)
       THEN /\ \E lost \in SUBSET (ToSet(Batch) \ Held) :
                  pull' = [need |-> SubSeq(pull.need, Len(Batch) + 1, Len(pull.need)),
                           got |-> pull.got \cup (ToSet(Batch) \ lost)]
            /\ UNCHANGED <<at, todo, overruled>>
       ELSE overruled' = TRUE /\ GiveUpVersion("up")
    /\ UNCHANGED <<them, us, via, session, walk, faults, redials, linkSetting>>
\* A blob that alone is more than may be asked for.
TooLarge ==
    /\ at = "blobs" /\ pull.need # <<>> /\ ~ Fits(Batch, session.limit)
    /\ GiveUpVersion(session.state)
    /\ UNCHANGED <<them, us, via, session, walk, faults, redials, overruled, linkSetting>>
\* publishVersion, if all the blobs of the tree are there.
PublishVersion ==
    /\ at = "blobs" /\ pull.need = <<>>
    /\ mirrored' = IF via = "public" \/ ToSet(TreeContents[Entry.tree]) \subseteq Stored \cup pull.got
                   THEN [mirrored EXCEPT ![Entry.tag] = Entry.tree] ELSE mirrored
    /\ GiveUpVersion(session.state)
    /\ UNCHANGED <<them, refused, via, session, walk, faults, redials, overruled, linkSetting>>

------------------------------------------------------------------------------
LinkNext ==
    \/ \E t \in Tags, tree \in TreeNames, seq \in 1 .. linkSetting.seqs : RemotePublish(t, tree, seq)
    \/ \E t \in Tags : RemoteDelete(t)
    \/ RemoteRestart
    \/ Dial \/ DialFails \/ Redial \/ RedialFails
    \/ IndexPage \/ IndexFails \/ Resolve \/ ResolvedAll
    \/ Skip \/ EndOfList \/ FetchVersion \/ CallFails \/ FetchBatch \/ TooLarge \/ PublishVersion

LinkSpec == LinkInit /\ [][LinkNext]_linkVars

------------------------------------------------------------------------------
\* The walk over a list that changes meanwhile names every version that was
\* there all the time, so that none of them counts as missing, and names none
\* twice.  An instance that pages by number gives less: a deletion moves the
\* rest of the list forward, over the end of a page ("Brother index pagination
\* uses the remote keyset cursor when Brother.Hello advertises support",
\* mod/source/README.md).
WalkComplete ==
    at \in {"next", "redial", "blobs", "done"} =>
        LET byCursor == linkSetting.keyset \/ via = "public"
        IN  /\ byCursor \/ ~ deleted => throughout \subseteq {walk.listed[i].tag : i \in DOMAIN walk.listed}
            /\ byCursor => \A i, k \in DOMAIN walk.listed :
                               i # k /\ walk.listed[i].tag = walk.listed[k].tag => walk.listed[i].tag \notin throughout

\* Every batch is within what the other instance allows, also after it has
\* restarted with less; and a cycle in which it did not change, and no call
\* failed, mirrors every version whose blobs can be asked for one by one, and
\* records no failure.
LinkDelivers ==
    /\ ~ overruled
    /\ at = "done" /\ changes = 0 /\ faults = 0 =>
           /\ refused = {}
           /\ \A t \in Present :
                  \/ mirrored[t] = remote[t].tree
                  \/ \E b \in ToSet(TreeContents[remote[t].tree]) : ~ Fits(<<b>>, session.limit)
==============================================================================
