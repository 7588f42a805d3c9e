--------------------------- MODULE RescanKeyProofs ---------------------------
(* The cycles of a key, for any versions, refs, settings, changes and faults:  *)
(* what judges versions, what is deleted, and what is downloaded again.        *)
EXTENDS RescanKey, FiniteLemmas

\* The types of what the three arguments read; none of them needs to know that
\* a listing names versions of the key.
KeyType ==
    /\ setting \in Settings
    /\ content \in [Versions -> Refs]
    /\ refs \in [Versions -> Refs \cup {NoRef}]
    /\ row \in [Versions -> Row \cup {NoRow}]
    /\ failsDb \in [Versions -> Fail] /\ fails \in [Versions -> Fail]
    /\ tried \in [Versions -> Refs \cup {NoFail}]
    /\ miss \in [Versions -> 0 .. Grace] /\ gone \in [Versions -> 0 .. Grace]

\* A key that is not decided was judged by nothing, a decided one by what it
\* is decided for.
KindInv ==
    /\ setting \in Settings
    /\ "mode" \notin setting.faults =>
           kinds \subseteq (IF mode = "undecided" THEN {} ELSE {mode}) \cap {"releases", "tags"}

\* What is remembered of a rejection is in memory, and in the database.
QuarantineInv ==
    \A v \in Versions : tried[v] # NoFail =>
        /\ fails[v] = tried[v]
        /\ "quarantine" \notin setting.faults => failsDb[v] = tried[v]

\* No version has more misses than cycles in which it was gone, one without a
\* live row has none, and a listing that judges is whole.
MissInv ==
    /\ judge => whole \subseteq Names(listing)
    /\ "evict" \notin setting.faults =>
           \A w \in Versions : miss[w] <= gone[w] /\ (~ Live(w) => miss[w] = 0)

------------------------------------------------------------------------------
(* The constants.                                                             *)

\* The cap of a setting is a length.
LEMMA CapType == ASSUME setting \in Settings PROVE Cap \in Nat \ {0}
BY SettingsAssumption DEF Cap
\* Nothing is collected from nothing.
LEMMA NothingCollected == ASSUME setting \in Settings PROVE Collected(<<>>) = <<>>
<1>1. Cap \in Nat /\ Depth \in Nat /\ Len(<<>>) = 0
  BY CapType, WindowAssumption
<1>2. Requested(<<>>) = <<>>
  BY <1>1 DEF Requested, Prefix
<1> QED
  BY <1>1, <1>2 DEF Collected, Prefix
\* Without a window a listing that is not truncated is all there is.
LEMMA WholeCollected == ASSUME Depth = 0, NEW s, ~ Truncated(s) PROVE Collected(s) = s
BY DEF Truncated, Collected, Requested, Prefix

------------------------------------------------------------------------------
(* One kind of listing.                                                       *)

\* The decision for a kind is stored with the listing that is judged by it.
LEMMA KindUndecided == ASSUME KindInv, ListUndecided PROVE KindInv'
<1>1. setting' = setting /\ setting \in Settings
  BY DEF KindInv, ListUndecided, upstream
<1>2. SUFFICES ASSUME "mode" \notin setting.faults
               PROVE  kinds' \subseteq (IF mode' = "undecided" THEN {} ELSE {mode'}) \cap {"releases", "tags"}
  BY <1>1 DEF KindInv
<1>3. ~ May("mode")
  BY <1>2 DEF May
<1>4. mode = "undecided" /\ kinds = {}
  BY <1>2, <1>3 DEF ListUndecided, Undecided, KindInv
<1>5. mode' = UndecidedKind
  BY <1>3, <1>4 DEF ListUndecided
<1>6. listing' = Collected(ListOf(UndecidedKind))
      /\ kinds' = IF judge' /\ listing' # <<>> THEN kinds \cup {UndecidedKind} ELSE kinds
  BY DEF ListUndecided, Accept
<1>7. CASE UndecidedKind = "undecided"
  <2>1. up = <<>>
    BY <1>7 DEF UndecidedKind
  <2>2. listing' = <<>>
    BY <1>1, <1>6, <1>7, <2>1, NothingCollected DEF ListOf
  <2> QED
    BY <1>4, <1>6, <2>2
<1>8. CASE UndecidedKind \in {"releases", "tags"}
  BY <1>4, <1>5, <1>6, <1>8
<1> QED
  BY <1>7, <1>8 DEF UndecidedKind

\* A decided key is listed as it was decided.
LEMMA KindDecided == ASSUME KindInv, mode \in {"undecided", "releases", "tags"}, ListDecided PROVE KindInv'
<1>1. setting' = setting /\ mode' = mode /\ mode # "undecided"
      /\ kinds' \in {kinds, kinds \cup {mode}}
  BY DEF ListDecided, Accept, upstream, store
<1> QED
  BY <1>1 DEF KindInv

\* An origin that is listed for a brother judges nothing.
LEMMA KindOrigin == ASSUME KindInv, ListFirst \/ ListOrigin PROVE KindInv'
<1>1. setting' = setting /\ mode' = mode /\ kinds' = kinds
  BY DEF ListFirst, ListOrigin, Accept, upstream, store
<1> QED
  BY <1>1 DEF KindInv

\* The other steps decide nothing and judge by nothing.
LEMMA KindKept ==
    ASSUME [Next]_vars, ~ ListUndecided, ~ ListDecided, ~ ListFirst, ~ ListOrigin
    PROVE  UNCHANGED <<setting, mode, kinds>>
<1>1. CASE UNCHANGED vars
  BY <1>1 DEF vars, upstream, store, history
<1>2. CASE Upstream
  BY <1>2 DEF Upstream, Tag, Untag, Retag, ToggleRelease, Change, Calm, store, history
<1>3. CASE Begin \/ ListConflict \/ ListFails \/ ListBrother \/ ListPublic \/ ReadState
  BY <1>3 DEF Begin, ListConflict, ListFails, GiveUp, ListBrother, ListPublic, ReadState, upstream, store, history
<1>4. CASE Process
  BY <1>4 DEF Process, Keep, SkipQuarantined, DownloadFails, DownloadRejected, DownloadPublished, HealFails,
              upstream, store, history
<1>5. CASE Judge \/ End \/ Restart
  BY <1>5 DEF Judge, End, Restart, upstream, store
<1>6. CASE \E w \in Versions : Evict(w)
  BY <1>6 DEF Evict, upstream, history
<1> QED
  BY <1>1, <1>2, <1>3, <1>4, <1>5, <1>6 DEF Next, runKey, Listing

\* A mode is one of three.
ModeType == mode \in {"undecided", "releases", "tags"}
LEMMA ModeNext == ASSUME ModeType, [Next]_vars PROVE ModeType'
<1>1. CASE ListUndecided
  BY <1>1 DEF ListUndecided, UndecidedKind, ModeType
<1>2. CASE ListDecided \/ ListFirst \/ ListOrigin
  BY <1>2 DEF ListDecided, ListFirst, ListOrigin, store, ModeType
<1> QED
  BY <1>1, <1>2, KindKept DEF ModeType
LEMMA KindNext == ASSUME ModeType, KindInv, [Next]_vars PROVE KindInv'
<1>1. CASE UNCHANGED <<setting, mode, kinds>>
  BY <1>1 DEF KindInv
<1> QED
  BY <1>1, KindKept, KindUndecided, KindDecided, KindOrigin DEF ModeType

\* The versions of a key are judged by one kind of listing, as long as the
\* decision can be read and stored (listGit and the listing mode of the source
\* row).
THEOREM OneListingKindCorrect == Spec => []OneListingKind
<1>1. Init => ModeType /\ KindInv
  BY DEF Init, ModeType, KindInv
<1>2. ModeType /\ KindInv /\ [Next]_vars => (ModeType /\ KindInv)'
  BY ModeNext, KindNext
<1>3. KindInv => OneListingKind
  BY DEF KindInv, OneListingKind
<1> QED
  BY <1>1, <1>2, <1>3, PTL DEF Spec

------------------------------------------------------------------------------
(* The types.                                                                 *)

\* Nothing is mirrored at first.
LEMMA KeyTypeInit == ASSUME Init PROVE KeyType
<1>1. 0 \in 0 .. Grace
  BY GraceAssumption
<1> QED
  BY <1>1, StartAssumption DEF Init, KeyType, NoRefs, NoFails, Fail

\* A row is one.
LEMMA RowExists == ASSUME NEW r \in Row PROVE r # NoRow
BY NoRowAssumption

\* A version that is published, resurrected or completed is live.
LEMMA PublishedLive ==
    ASSUME KeyType, cur \in Versions, NEW r \in Published
    PROVE  Touched(r) \in Row /\ Touched(r).deleted = FALSE
<1>1. refs[cur] \in Refs \cup {NoRef} /\ content[cur] \in Refs /\ NoRef \in Refs \cup {NoRef}
  BY DEF KeyType
<1>2. KeepsTree => row[cur] \in Row
  BY DEF KeyType, KeepsTree
<1>3. r \in Row /\ r.deleted = FALSE
  <2>1. CASE KeepsTree /\ row[cur].deleted
    <3>1. /\ [row[cur] EXCEPT !.deleted = FALSE] \in Row
          /\ [row[cur] EXCEPT !.deleted = FALSE].deleted = FALSE
      BY <1>2, <2>1 DEF Row
    <3>2. r = [row[cur] EXCEPT !.deleted = FALSE]
      BY <2>1 DEF Published
    <3> QED
      BY <3>1, <3>2
  <2>2. CASE KeepsTree /\ ~ row[cur].deleted
    <3>1. row[cur].deleted = FALSE
      BY <1>2, <2>2 DEF Row
    <3>2. /\ [row[cur] EXCEPT !.heal = FALSE] \in Row
          /\ [row[cur] EXCEPT !.heal = FALSE].deleted = row[cur].deleted
      BY <1>2, <2>2 DEF Row
    <3>3. r = [row[cur] EXCEPT !.heal = FALSE]
      BY <2>2 DEF Published
    <3> QED
      BY <3>1, <3>2, <3>3
  <2>3. CASE ~ KeepsTree
    <3>1. PICK h \in BOOLEAN :
              r = [ref |-> IF Git THEN refs[cur] ELSE NoRef, tree |-> content[cur], deleted |-> FALSE, heal |-> h]
      BY <2>3 DEF Published, May
    <3> QED
      BY <1>1, <3>1 DEF Row
  <2> QED
    BY <2>1, <2>2, <2>3
<1> QED
  <2>1. /\ [r EXCEPT !.ref = refs[cur]] \in Row
        /\ [r EXCEPT !.ref = refs[cur]].deleted = r.deleted
    BY <1>1, <1>3 DEF Row
  <2> QED
    BY <1>3, <2>1 DEF Touched

\* A row that is rewritten because a version is processed: the others stay.
LEMMA RowsPublished ==
    ASSUME KeyType, DownloadPublished
    PROVE  /\ row' \in [Versions -> Row \cup {NoRow}]
           /\ \A w \in Versions : Live(w) => Live(w)'
<1>1. PICK r \in Published : row' = [row EXCEPT ![cur] = Touched(r)]
  BY DEF DownloadPublished
<1>2. cur \in Versions => Touched(r) \in Row /\ Touched(r).deleted = FALSE /\ Touched(r) # NoRow
  BY PublishedLive, RowExists
<1> QED
  BY <1>1, <1>2 DEF KeyType, Live
LEMMA RowsKept ==
    ASSUME KeyType, Keep
    PROVE  /\ row' \in [Versions -> Row \cup {NoRow}]
           /\ \A w \in Versions : Live(w) => Live(w)'
<1>1. CASE row' = row
  BY <1>1 DEF KeyType, Live
<1>2. CASE row' = [row EXCEPT ![cur].ref = refs[cur]] /\ row[cur] # NoRow
  <2> DEFINE r == [row[cur] EXCEPT !.ref = refs[cur]]
  <2>1. row' = [row EXCEPT ![cur] = r]
    BY <1>2
  <2>2. cur \in Versions => r \in Row /\ r.deleted = row[cur].deleted /\ r # NoRow
    <3> HAVE cur \in Versions
    <3>1. row[cur] \in Row /\ refs[cur] \in Refs \cup {NoRef}
      BY <1>2 DEF KeyType
    <3>2. r \in Row /\ r.deleted = row[cur].deleted
      BY <3>1 DEF Row
    <3> QED
      BY <3>2, RowExists
  <2> HIDE DEF r
  <2> QED
    BY <2>1, <2>2 DEF KeyType, Live
<1> QED
  BY <1>1, <1>2 DEF Keep

\* Steps of the upstream move contents only.
LEMMA ChangeTypes == ASSUME KeyType, Upstream PROVE KeyType'
<1>1. UNCHANGED <<setting, refs, row, failsDb, fails, tried, miss, gone>>
  BY DEF Upstream, Tag, Untag, Retag, ToggleRelease, Change, Calm, store, memory, cycle, history
<1>2. content' \in [Versions -> Refs]
  BY DEF Upstream, Tag, Untag, Retag, ToggleRelease, Change, Calm, KeyType
<1> QED
  BY <1>1, <1>2 DEF KeyType

\* Listings.
LEMMA ListingTypes == ASSUME KeyType, Begin \/ Listing \/ ReadState PROVE KeyType'
<1>1. CASE Begin \/ ListUndecided \/ ListDecided \/ ListConflict \/ ListFails \/ ListFirst \/ ListOrigin
  BY <1>1 DEF Begin, ListUndecided, ListDecided, ListConflict, ListFails, ListFirst, ListOrigin, Accept, GiveUp,
              KeyType, upstream, store, memory, cycle, history
<1>2. CASE ListBrother
  BY <1>2 DEF ListBrother, KeyType, upstream, store, memory
<1>3. CASE ListPublic
  <2>1. NoFail \in Fail /\ \A v \in Versions : ClearedDb(v) \in Fail
    BY DEF ClearedDb, Fail, KeyType
  <2>2. /\ UNCHANGED <<setting, content, row, miss, gone>> /\ refs' \in {content, NoRefs}
        /\ \E s : /\ fails' = [v \in Versions |-> IF v \in s THEN NoFail ELSE fails[v]]
                  /\ failsDb' = [v \in Versions |-> IF v \in s THEN ClearedDb(v) ELSE failsDb[v]]
                  /\ tried' = [v \in Versions |-> IF v \in s THEN NoFail ELSE tried[v]]
    BY <1>3 DEF ListPublic, upstream
  <2>3. refs' \in [Versions -> Refs \cup {NoRef}]
    BY <2>2 DEF KeyType, NoRefs
  <2> QED
    BY <2>1, <2>2, <2>3 DEF KeyType
<1>4. CASE ReadState
  BY <1>4 DEF ReadState, Advertised, KeyType, NoRefs, NoFails, upstream, store, memory
<1> QED
  BY <1>1, <1>2, <1>3, <1>4 DEF Listing

\* A write to the quarantine is one of two.
LEMMA DbTypes ==
    ASSUME failsDb \in [Versions -> Fail], NEW new \in [Versions -> Fail], DbBecomes(new)
    PROVE  failsDb' \in [Versions -> Fail] /\ ("quarantine" \notin setting.faults => failsDb' = new)
BY DEF DbBecomes, May
LEMMA ForgottenType ==
    /\ NoFail \in Fail
    /\ \A f \in [Versions -> Fail] : Forgotten(f) \in [Versions -> Fail]
    /\ \A f \in [Versions -> Refs \cup {NoFail}] : Forgotten(f) \in [Versions -> Refs \cup {NoFail}]
BY DEF Forgotten, Fail
LEMMA NoVerdictType ==
    ASSUME KeyType, NoVerdict
    PROVE  /\ failsDb' \in [Versions -> Fail] /\ fails' \in [Versions -> Fail]
           /\ tried' \in [Versions -> Refs \cup {NoFail}]
           /\ fails' = Forgotten(fails) /\ tried' = Forgotten(tried)
           /\ "quarantine" \notin setting.faults => failsDb' = Forgotten(failsDb)
BY ForgottenType, DbTypes DEF NoVerdict, KeyType
LEMMA RecordType ==
    ASSUME KeyType, Record
    PROVE  /\ failsDb' \in [Versions -> Fail] /\ fails' \in [Versions -> Fail]
           /\ tried' \in [Versions -> Refs \cup {NoFail}]
           /\ "quarantine" \notin setting.faults => failsDb' = [failsDb EXCEPT ![cur] = refs[cur]]
<1>1. cur \in Versions => refs[cur] \in Refs \cup {NoRef} /\ refs[cur] \in Fail
  BY DEF KeyType, Fail
<1>2. [failsDb EXCEPT ![cur] = refs[cur]] \in [Versions -> Fail] /\ fails' \in [Versions -> Fail]
      /\ tried' \in [Versions -> Refs \cup {NoFail}]
  BY <1>1 DEF Record, KeyType
<1>3. CASE DbBecomes([failsDb EXCEPT ![cur] = refs[cur]])
  BY <1>2, <1>3, DbTypes DEF KeyType
<1>4. CASE May("quarantine") /\ failsDb' = Forgotten(failsDb)
  BY <1>2, <1>4, ForgottenType DEF KeyType, May
<1> QED
  BY <1>3, <1>4 DEF Record
\* Where a version is done with, its quarantine is empty.
LEMMA ClearedType ==
    ASSUME KeyType, NEW new \in Fail,
           \/ Keep /\ new = ClearedDb(cur)
           \/ DownloadPublished /\ new = (IF forceRefresh THEN NoFail ELSE ClearedDb(cur))
    PROVE  /\ failsDb' \in [Versions -> Fail] /\ fails' \in [Versions -> Fail]
           /\ tried' \in [Versions -> Refs \cup {NoFail}]
           /\ fails' = [fails EXCEPT ![cur] = NoFail] /\ tried' = [tried EXCEPT ![cur] = NoFail]
           /\ "quarantine" \notin setting.faults => failsDb' = [failsDb EXCEPT ![cur] = new]
<1>1. DbBecomes([failsDb EXCEPT ![cur] = new])
      /\ fails' = [fails EXCEPT ![cur] = NoFail] /\ tried' = [tried EXCEPT ![cur] = NoFail]
  BY DEF Keep, DownloadPublished
<1>2. [failsDb EXCEPT ![cur] = new] \in [Versions -> Fail] /\ NoFail \in Fail
  BY DEF KeyType, Fail
<1> QED
  BY <1>1, <1>2, DbTypes DEF KeyType

\* The version that is processed.
LEMMA ProcessTypes == ASSUME KeyType, Process PROVE KeyType'
<1>1. CASE SkipQuarantined
  BY <1>1 DEF SkipQuarantined, Advance, KeyType, upstream, store, memory, history
<1>2. CASE Keep
  <2> DEFINE new == ClearedDb(cur)
  <2>1. CASE new \in Fail
    BY <1>2, <2>1, ClearedType, RowsKept DEF Keep, Advance, KeyType, upstream
  <2>2. CASE new \notin Fail
    <3>1. cur \notin Versions
      BY <2>2 DEF KeyType, ClearedDb, Fail
    <3>2. [failsDb EXCEPT ![cur] = new] = failsDb
      BY <3>1 DEF KeyType
    <3>3. failsDb' = failsDb /\ fails' = fails /\ tried' = tried
      BY <1>2, <3>1, <3>2 DEF Keep, DbBecomes, KeyType
    <3> QED
      BY <1>2, <3>3, RowsKept DEF Keep, Advance, KeyType, upstream
  <2> QED
    BY <2>1, <2>2
<1>3. CASE DownloadFails
  BY <1>3, NoVerdictType DEF DownloadFails, KeyType, upstream
<1>4. CASE DownloadRejected
  BY <1>4, NoVerdictType, RecordType DEF DownloadRejected, Advance, KeyType, upstream
<1>5. CASE DownloadPublished
  <2> DEFINE new == IF forceRefresh THEN NoFail ELSE ClearedDb(cur)
  <2>1. CASE new \in Fail
    BY <1>5, <2>1, ClearedType, RowsPublished DEF DownloadPublished, Advance, KeyType, upstream
  <2>2. CASE new \notin Fail
    <3>1. cur \notin Versions
      BY <2>2 DEF KeyType, ClearedDb, Fail
    <3>2. [failsDb EXCEPT ![cur] = new] = failsDb
      BY <3>1 DEF KeyType
    <3>3. failsDb' = failsDb /\ fails' = fails /\ tried' = tried
      BY <1>5, <3>1, <3>2 DEF DownloadPublished, DbBecomes, KeyType
    <3> QED
      BY <1>5, <3>3, RowsPublished DEF DownloadPublished, Advance, KeyType, upstream
  <2> QED
    BY <2>1, <2>2
<1>6. CASE HealFails
  BY <1>6, NoVerdictType, RecordType DEF HealFails, Advance, KeyType, upstream
<1> QED
  BY <1>1, <1>2, <1>3, <1>4, <1>5, <1>6 DEF Process

\* The end of a cycle, an eviction, a restart.
LEMMA CountMissesType ==
    ASSUME KeyType, NEW failed PROVE CountMisses(failed) \in [Versions -> 0 .. Grace]
<1>1. ASSUME NEW w \in Versions, ~ Expired(w), Missing(w) PROVE miss[w] + 1 \in 0 .. Grace
  BY <1>1, GraceAssumption DEF Expired, KeyType
<1>2. 0 \in 0 .. Grace /\ Grace \in 0 .. Grace
  BY GraceAssumption
<1> QED
  BY <1>1, <1>2 DEF CountMisses, KeyType
LEMMA JudgeTypes == ASSUME KeyType, Judge PROVE KeyType'
<1>1. UNCHANGED <<setting, content, refs, failsDb, fails, tried>>
  BY DEF Judge, upstream
<1>2. CASE UNCHANGED <<miss, row, gone>>
  BY <1>1, <1>2 DEF KeyType
<1>3. CASE Judged
  <2>1. PICK failed :
            /\ miss' = CountMisses(failed)
            /\ row' = [w \in Versions |->
                          IF ~ Expired(w) \/ w \in failed THEN row[w]
                          ELSE IF DeleteMode THEN NoRow ELSE [row[w] EXCEPT !.deleted = TRUE]]
            /\ gone' = [w \in Versions |->
                          IF w \in whole THEN 0 ELSE IF gone[w] < Grace THEN gone[w] + 1 ELSE Grace]
    BY <1>3 DEF Judge
  <2>2. \A w \in Versions : Expired(w) => [row[w] EXCEPT !.deleted = TRUE] \in Row
    <3> TAKE w \in Versions
    <3> HAVE Expired(w)
    <3>1. row[w] \in Row
      BY DEF Expired, Missing, Live, KeyType
    <3> QED
      BY <3>1 DEF Row
  <2>3. row' \in [Versions -> Row \cup {NoRow}]
    BY <2>1, <2>2 DEF KeyType
  <2>4. gone' \in [Versions -> 0 .. Grace]
    BY <2>1, GraceAssumption DEF KeyType
  <2> QED
    BY <1>1, <2>1, <2>3, <2>4, CountMissesType DEF KeyType
<1> QED
  BY <1>2, <1>3 DEF Judge
LEMMA OtherTypes ==
    ASSUME KeyType, End \/ Restart \/ (\E w \in Versions : Evict(w)) PROVE KeyType'
<1>1. 0 \in 0 .. Grace /\ NoRefs \in [Versions -> Refs \cup {NoRef}]
  BY GraceAssumption DEF NoRefs
<1>2. NoFails \in [Versions -> Fail] /\ NoFails \in [Versions -> Refs \cup {NoFail}]
  BY DEF NoFails, Fail
<1>3. CASE End
  BY <1>1, <1>3 DEF End, Forget, KeyType, upstream, store
<1>4. CASE Restart
  BY <1>1, <1>2, <1>4 DEF Restart, Forget, KeyType, upstream, store
<1>5. CASE \E w \in Versions : Evict(w)
  BY <1>5 DEF Evict, KeyType, upstream, memory, cycle, history
<1> QED
  BY <1>3, <1>4, <1>5

LEMMA KeyTypeNext == ASSUME KeyType, [Next]_vars PROVE KeyType'
<1>1. CASE UNCHANGED vars
  BY <1>1 DEF vars, KeyType, upstream, store, memory, cycle, history
<1> QED
  BY <1>1, ChangeTypes, ListingTypes, ProcessTypes, JudgeTypes, OtherTypes DEF Next, runKey

------------------------------------------------------------------------------
(* All the types: the listings, and the count of a version that is deleted.   *)

Distinct(s) == \A i, j \in DOMAIN s : s[i] = s[j] => i = j
ListsType ==
    /\ up \in Seq(Versions) /\ Distinct(up) /\ released \subseteq Names(up)
    /\ listing \in Seq(Versions) /\ todo \in Seq(Versions) /\ whole \subseteq Versions
FlagsType ==
    /\ changes \in 0 .. setting.changes /\ calm \in BOOLEAN /\ mode \in {"undecided", "releases", "tags"}
    /\ local \in [Versions -> Row \cup {NoRow}] /\ loadMiss \in BOOLEAN
    /\ count \in 0 .. RefreshEvery - 1 /\ pc \in {"idle", "list", "refs", "versions", "end"}
    /\ route \in {"git", "origin", "brother", "public"} /\ judge \in BOOLEAN /\ kinds \subseteq {"releases", "tags"}
DeletedInv == \A w \in Versions : row[w] # NoRow /\ row[w].deleted => miss[w] = 0

\* What is listed of the tags are tags.
LEMMA PrefixType ==
    ASSUME NEW s \in Seq(Versions), NEW n \in Nat
    PROVE  Prefix(s, n) \in Seq(Versions) /\ Names(Prefix(s, n)) \subseteq Versions
<1>1. Prefix(s, n) \in Seq(Versions)
  BY DEF Prefix
<1> QED
  BY <1>1 DEF Names
LEMMA HeadAndTail == \A s \in Seq(Versions) : s # <<>> => Head(s) \in Versions /\ Tail(s) \in Seq(Versions)
OBVIOUS
LEMMA ListOfType ==
    ASSUME KeyType, ListsType, NEW kind
    PROVE  /\ ListOf(kind) \in Seq(Versions) /\ Collected(ListOf(kind)) \in Seq(Versions)
           /\ Names(ListOf(kind)) \subseteq Versions
<1>1. Releases \in Seq(Versions \cap released)
  BY KeepingType DEF Releases, ListsType
<1>2. Releases \in Seq(Versions)
  BY <1>1
<1>3. ListOf(kind) \in Seq(Versions)
  BY <1>2 DEF ListOf, ListsType
<1>4. Requested(ListOf(kind)) \in Seq(Versions)
  BY <1>3, PrefixType, WindowAssumption DEF Requested
<1>5. Collected(ListOf(kind)) \in Seq(Versions)
  BY <1>4, PrefixType, CapType DEF Collected, KeyType
<1>6. Names(ListOf(kind)) \subseteq Versions
  BY <1>3 DEF Names
<1> QED
  BY <1>3, <1>5, <1>6

\* The tags of the upstream stay distinct, and releases are tags.
LEMMA UpstreamLists == ASSUME KeyType, ListsType, Upstream PROVE ListsType'
<1>1. UNCHANGED <<listing, todo, whole>>
  BY DEF Upstream, Tag, Untag, Retag, ToggleRelease, Change, Calm, cycle, history
<1>2. ASSUME NEW v \in Versions, NEW asRelease \in BOOLEAN, Tag(v, asRelease)
      PROVE  up' \in Seq(Versions) /\ Distinct(up') /\ released' \subseteq Names(up')
  <2>1. up' = <<v>> \o up /\ v \notin Names(up) /\ released' \subseteq released \cup {v}
    BY <1>2 DEF Tag, Change
  <2>2. /\ up' \in Seq(Versions) /\ Len(up') = Len(up) + 1 /\ Len(up) \in Nat /\ up'[1] = v
        /\ \A i \in 1 .. Len(up) : up'[i + 1] = up[i]
        /\ DOMAIN up = 1 .. Len(up) /\ DOMAIN up' = 1 .. Len(up')
    BY <2>1 DEF ListsType
  <2>3. \A i \in DOMAIN up' : i # 1 => i - 1 \in 1 .. Len(up) /\ up'[i] = up[i - 1]
    BY <2>2
  <2>4. \A i \in DOMAIN up : up[i] # v
    BY <2>1 DEF Names
  <2>5. Distinct(up')
    BY <2>2, <2>3, <2>4 DEF Distinct, ListsType
  <2>6. Names(up) \subseteq Names(up') /\ v \in Names(up')
    <3>1. \A i \in DOMAIN up : i + 1 \in DOMAIN up' /\ up'[i + 1] = up[i]
      BY <2>2
    <3>2. 1 \in DOMAIN up'
      BY <2>2
    <3> QED
      BY <2>2, <3>1, <3>2 DEF Names
  <2> QED
    BY <2>1, <2>2, <2>5, <2>6 DEF ListsType
<1>3. ASSUME NEW v \in Versions, Untag(v)
      PROVE  up' \in Seq(Versions) /\ Distinct(up') /\ released' \subseteq Names(up')
  <2> DEFINE k == Keeping(up, Versions \ {v})
  <2>1. up' = k /\ released' = released \ {v}
    BY <1>3 DEF Untag, Change
  <2>2. k \in Seq(Versions \cap (Versions \ {v})) /\ Names(k) = Names(up) \cap (Versions \ {v})
    <3>1. up \in Seq(Versions)
      BY DEF ListsType
    <3>2. k \in Seq(Versions \cap (Versions \ {v})) /\ Elements(k) = Elements(up) \cap (Versions \ {v})
      BY <3>1, KeepingType
    <3> HIDE DEF k
    <3> QED
      BY <3>2 DEF Names, Elements
  <2>3. Distinct(k)
    BY KeepingDistinct DEF ListsType, Distinct
  <2>4. k \in Seq(Versions)
    <3> HIDE DEF k
    <3> QED
      BY <2>2
  <2>5. Names(up) \subseteq Versions
    BY DEF Names, ListsType
  <2> HIDE DEF k
  <2> QED
    BY <2>1, <2>2, <2>3, <2>4, <2>5 DEF ListsType
<1>4. CASE up' = up /\ released' \subseteq Names(up)
  BY <1>1, <1>4 DEF ListsType, Names, Distinct
<1>5. ASSUME NEW v \in Versions, (\E r \in Refs : Retag(v, r)) \/ ToggleRelease(v)
      PROVE  up' = up /\ released' \subseteq Names(up)
  BY <1>5 DEF Retag, ToggleRelease, Change, ListsType
<1>6. Calm => up' = up /\ released' \subseteq Names(up)
  BY DEF Calm, ListsType
<1>7. ListsType' <=> /\ up' \in Seq(Versions) /\ Distinct(up') /\ released' \subseteq Names(up')
                     /\ listing' \in Seq(Versions) /\ todo' \in Seq(Versions) /\ whole' \subseteq Versions
  BY DEF ListsType, Distinct, Names
<1> QED
  BY <1>1, <1>2, <1>3, <1>4, <1>5, <1>6, <1>7 DEF Upstream, ListsType

\* A step that leaves the upstream alone.
LEMMA ListsAlone ==
    ASSUME ListsType, UNCHANGED upstream,
           listing' \in Seq(Versions), todo' \in Seq(Versions), whole' \subseteq Versions
    PROVE  ListsType'
BY DEF ListsType, upstream, Names, Distinct

LEMMA RunLists == ASSUME KeyType, ListsType, runKey PROVE ListsType'
<1>1. CASE Begin \/ ListConflict \/ ListFails
  BY <1>1, ListsAlone DEF Begin, ListConflict, ListFails, GiveUp, ListsType, history
<1>2. ASSUME NEW r, NEW kind, NEW allow, Accept(r, kind, allow), UNCHANGED <<upstream, todo>> PROVE ListsType'
  BY <1>2, ListOfType, ListsAlone DEF Accept, ListsType
<1>3. CASE ListUndecided \/ ListDecided \/ ListFirst \/ ListOrigin
  BY <1>2, <1>3 DEF ListUndecided, ListDecided, ListFirst, ListOrigin
<1>4. CASE ListBrother
  <2>1. Names(up) \subseteq Versions
    BY DEF Names, ListsType
  <2> QED
    BY <1>4, <2>1, ListsAlone DEF ListBrother, ListsType
<1>5. CASE ListPublic
  <2> DEFINE names == Prefix(up, Cap)
  <2>1. UNCHANGED upstream /\ listing' = names /\ whole' = Names(up) /\ \E S : todo' = Keeping(names, S)
    BY <1>5 DEF ListPublic
  <2>2. names \in Seq(Versions) /\ Names(up) \subseteq Versions
    BY PrefixType, CapType DEF KeyType, ListsType, Names
  <2> HIDE DEF names
  <2>3. \A S : Keeping(names, S) \in Seq(Versions)
    <3> TAKE S
    <3>1. Keeping(names, S) \in Seq(Versions \cap S)
      BY <2>2, KeepingType
    <3> QED
      BY <3>1
  <2> QED
    BY <2>1, <2>2, <2>3, ListsAlone
<1>6. CASE ReadState
  BY <1>6, ListsAlone DEF ReadState, ListsType
<1>7. CASE Process
  <2>1. UNCHANGED <<upstream, listing, whole>> /\ todo' \in {Tail(todo), <<>>} /\ todo # <<>>
    BY <1>7 DEF Process, Keep, SkipQuarantined, DownloadFails, DownloadRejected, DownloadPublished, HealFails,
                Download, Working, Advance, history
  <2>2. todo' \in Seq(Versions)
    <3>1. <<>> \in Seq(Versions) /\ todo \in Seq(Versions) /\ Tail(todo) \in Seq(Versions)
      BY <2>1, HeadAndTail DEF ListsType
    <3> QED
      BY <2>1, <3>1
  <2> QED
    BY <2>1, <2>2, ListsAlone DEF ListsType
<1>8. CASE Judge
  BY <1>8, ListsAlone DEF Judge, ListsType
<1>9. CASE End
  BY <1>9, ListsAlone DEF End, Forget
<1> QED
  BY <1>1, <1>3, <1>4, <1>5, <1>6, <1>7, <1>8, <1>9 DEF runKey, Listing
LEMMA ListsNext == ASSUME KeyType, ListsType, [Next]_vars PROVE ListsType'
<1>1. CASE UNCHANGED vars
  BY <1>1, ListsAlone DEF vars, cycle, history, ListsType
<1>2. CASE Restart
  BY <1>2, ListsAlone DEF Restart, Forget
<1>3. CASE \E w \in Versions : Evict(w)
  BY <1>3, ListsAlone DEF Evict, cycle, history, ListsType
<1> QED
  BY <1>1, <1>2, <1>3, UpstreamLists, RunLists DEF Next

LEMMA FlagsNext == ASSUME KeyType, FlagsType, KindInv, [Next]_vars PROVE FlagsType'
<1>1. setting \in Settings /\ setting.changes \in Nat /\ changes \in 0 .. setting.changes
  BY SettingsAssumption DEF KeyType, FlagsType
<1>2. ModeType'
  BY ModeNext DEF ModeType, FlagsType
<1>3. CASE UNCHANGED vars
  BY <1>3 DEF vars, upstream, store, memory, cycle, history, FlagsType
<1>4. CASE Upstream
  <2>1. UNCHANGED <<setting, mode, local, loadMiss, count, pc, route, judge, kinds>>
    BY <1>4 DEF Upstream, Tag, Untag, Retag, ToggleRelease, Change, Calm, store, memory, cycle, history
  <2>2. calm' \in BOOLEAN
    BY <1>4 DEF Upstream, Tag, Untag, Retag, ToggleRelease, Change, Calm, FlagsType
  <2>3. changes' = changes \/ (changes < setting.changes /\ changes' = changes + 1)
    <3>1. ASSUME NEW a, NEW b, NEW c, Change(a, b, c) PROVE changes < setting.changes /\ changes' = changes + 1
      BY <3>1 DEF Change
    <3>2. Calm => changes' = changes
      BY DEF Calm
    <3> QED
      BY <1>4, <3>1, <3>2 DEF Upstream, Tag, Untag, Retag, ToggleRelease
  <2>4. changes' \in 0 .. setting'.changes
    BY <1>1, <2>1, <2>3
  <2> QED
    BY <2>1, <2>2, <2>4 DEF FlagsType
<1>5. CASE ~ Upstream /\ Next
  <2>0. Begin \/ Listing \/ ReadState \/ Process \/ Judge \/ End \/ Restart \/ \E w \in Versions : Evict(w)
    BY <1>5 DEF Next, runKey
  <2>1. UNCHANGED <<changes, calm, setting>>
    BY <2>0 DEF Begin, Listing, ListUndecided, ListDecided, ListConflict, ListFails, ListBrother, ListFirst, ListOrigin,
                ListPublic, GiveUp, ReadState, Process, Keep, SkipQuarantined, DownloadFails, DownloadRejected,
                DownloadPublished, HealFails, Judge, End, Restart, Evict, upstream
  <2>2. local' \in [Versions -> Row \cup {NoRow}]
    BY <2>0 DEF Begin, Listing, ListUndecided, ListDecided, ListConflict, ListFails, ListBrother, ListFirst, ListOrigin,
                ListPublic, GiveUp, ReadState, Process, Keep, SkipQuarantined, DownloadFails, DownloadRejected,
                DownloadPublished, HealFails, Judge, End, Restart, Evict, Advance, Forget, cycle, FlagsType, KeyType
  <2>3. loadMiss' \in BOOLEAN /\ route' \in {"git", "origin", "brother", "public"}
        /\ pc' \in {"idle", "list", "refs", "versions", "end"}
    BY <2>0 DEF Begin, Listing, ListUndecided, ListDecided, ListConflict, ListFails, ListBrother, ListFirst, ListOrigin,
                ListPublic, GiveUp, Accept, ReadState, Process, Keep, SkipQuarantined, DownloadFails, DownloadRejected,
                DownloadPublished, HealFails, Judge, End, Restart, Evict, Advance, Forget, memory, cycle, FlagsType
  <2>4. judge' \in BOOLEAN
    BY <2>0 DEF Begin, Listing, ListUndecided, ListDecided, ListConflict, ListFails, ListBrother, ListFirst, ListOrigin,
                ListPublic, GiveUp, Accept, ReadState, Process, Keep, SkipQuarantined, DownloadFails, DownloadRejected,
                DownloadPublished, HealFails, Judge, End, Restart, Evict, Advance, Forget, cycle, FlagsType
  <2>5. count' \in 0 .. RefreshEvery - 1
    <3>1. CASE Begin
      BY <3>1, RefreshAssumption DEF Begin, FlagsType
    <3>2. CASE Restart
      BY <3>2, RefreshAssumption DEF Restart
    <3>3. CASE ~ Begin /\ ~ Restart
      BY <2>0, <3>3 DEF Listing, ListUndecided, ListDecided, ListConflict, ListFails, ListBrother, ListFirst, ListOrigin,
                ListPublic, GiveUp, ReadState, Process, Keep, SkipQuarantined, DownloadFails, DownloadRejected,
                DownloadPublished, HealFails, Judge, End, Evict, Advance, cycle, FlagsType
    <3> QED
      BY <3>1, <3>2, <3>3
  <2>6. kinds' \subseteq {"releases", "tags"}
    <3>1. CASE UNCHANGED kinds
      BY <3>1 DEF FlagsType
    <3>2. ASSUME NEW r, NEW kind, NEW allow, Accept(r, kind, allow),
                 kind = UndecidedKind \/ (kind = mode /\ mode # "undecided")
          PROVE  kinds' \subseteq {"releases", "tags"}
      <4>1. kind # "undecided" => kind \in {"releases", "tags"}
        BY <3>2 DEF FlagsType, UndecidedKind
      <4>2. CASE kind # "undecided" \/ ~ (judge' /\ listing' # <<>>)
        BY <3>2, <4>1, <4>2 DEF Accept, FlagsType
      <4>3. CASE kind = "undecided" /\ listing' # <<>>
        <5>1. kind = UndecidedKind => ListOf(kind) = <<>>
          BY <4>3 DEF UndecidedKind, ListOf
        <5>2. kind = UndecidedKind => listing' = Collected(ListOf(kind)) /\ ListOf(kind) = <<>>
          BY <3>2, <5>1 DEF Accept
        <5>3. ListOf(kind) = <<>> => Collected(ListOf(kind)) = Collected(<<>>)
          BY ONLY Zenon
        <5> QED
          BY <3>2, <4>3, <5>2, <5>3, NothingCollected DEF KeyType
      <4> QED
        BY <4>2, <4>3
    <3>3. CASE ListUndecided \/ ListFirst \/ ListOrigin
      <4>1. Accept("git", UndecidedKind, TRUE) \/ Accept("git", UndecidedKind, FALSE)
                \/ Accept("origin", UndecidedKind, FALSE)
        BY <3>3 DEF ListUndecided, ListFirst, ListOrigin
      <4> QED
        BY <3>2, <4>1
    <3>4. CASE ListDecided
      BY <3>2, <3>4 DEF ListDecided
    <3> QED
      BY <1>5, <3>1, <3>3, <3>4, KindKept
  <2> QED
    BY <1>2, <2>1, <2>2, <2>3, <2>4, <2>5, <2>6 DEF FlagsType, ModeType
<1> QED
  BY <1>3, <1>4, <1>5

\* A version that is marked as deleted is not counted, until it is live again.
LEMMA DeletedNext == ASSUME KeyType, ListsType, DeletedInv, [Next]_vars PROVE DeletedInv'
<1>1. ASSUME miss' = miss, \A w \in Versions : row'[w] # NoRow /\ row'[w].deleted => row[w] # NoRow /\ row[w].deleted
      PROVE  DeletedInv'
  BY <1>1 DEF DeletedInv
<1>2. CASE UNCHANGED <<row, miss>>
  BY <1>1, <1>2
<1>3. CASE DownloadPublished
  <2>1. cur \in Versions /\ miss' = miss
    BY <1>3, HeadAndTail DEF DownloadPublished, Download, Working, ListsType, cur
  <2>2. \A w \in Versions : w # cur => row'[w] = row[w]
    BY <1>3 DEF DownloadPublished, KeyType
  <2>3. row'[cur].deleted = FALSE
    <3>1. PICK r \in Published : row' = [row EXCEPT ![cur] = Touched(r)]
      BY <1>3 DEF DownloadPublished
    <3> QED
      BY <2>1, <3>1, PublishedLive DEF KeyType
  <2> QED
    BY <1>1, <2>1, <2>2, <2>3
<1>4. CASE Keep
  <2>1. miss' = miss /\ cur \in Versions
    BY <1>4, HeadAndTail DEF Keep, Working, ListsType, cur
  <2>2. CASE row' = row
    BY <1>1, <2>1, <2>2
  <2>3. CASE row' = [row EXCEPT ![cur].ref = refs[cur]] /\ row[cur] # NoRow
    <3>1. row[cur] \in Row
      BY <2>1, <2>3 DEF KeyType
    <3>2. [row[cur] EXCEPT !.ref = refs[cur]].deleted = row[cur].deleted
      BY <3>1 DEF Row
    <3>3. row'[cur] = [row[cur] EXCEPT !.ref = refs[cur]] /\ \A w \in Versions : w # cur => row'[w] = row[w]
      BY <2>1, <2>3 DEF KeyType
    <3> QED
      BY <1>1, <2>1, <2>3, <3>2, <3>3
  <2> QED
    BY <1>4, <2>2, <2>3 DEF Keep
<1>5. CASE Judge
  <2>1. CASE Judged
    <3>1. PICK failed \in SUBSET {v \in Versions : Expired(v)} :
              /\ miss' = CountMisses(failed)
              /\ row' = [w \in Versions |->
                            IF ~ Expired(w) \/ w \in failed THEN row[w]
                            ELSE IF DeleteMode THEN NoRow ELSE [row[w] EXCEPT !.deleted = TRUE]]
      BY <1>5, <2>1 DEF Judge
    <3>2. ASSUME NEW w \in Versions, row'[w] # NoRow /\ row'[w].deleted PROVE miss'[w] = 0
      <4>1. CASE Expired(w) /\ w \notin failed
        BY <3>1, <4>1 DEF CountMisses, Expired, Missing
      <4>2. CASE ~ (Expired(w) /\ w \notin failed)
        <5>1. row'[w] = row[w] /\ miss[w] = 0 /\ ~ Live(w)
          BY <3>1, <3>2, <4>2 DEF DeletedInv, Live
        <5> QED
          BY <3>1, <5>1 DEF CountMisses, Missing
      <4> QED
        BY <4>1, <4>2
    <3> QED
      BY <3>2 DEF DeletedInv
  <2> QED
    BY <1>2, <1>5, <2>1 DEF Judge
<1>6. CASE Restart
  BY <1>6 DEF Restart, DeletedInv
<1>7. CASE \E w \in Versions : Evict(w)
  BY <1>1, <1>7 DEF Evict, KeyType, memory
<1>8. CASE UNCHANGED vars
  BY <1>2, <1>8 DEF vars, store, memory
<1>9. CASE Upstream \/ Begin \/ Listing \/ ReadState \/ End
  BY <1>2, <1>9 DEF Upstream, Tag, Untag, Retag, ToggleRelease, Change, Calm, Begin, Listing, ListUndecided,
                    ListDecided, ListConflict, ListFails, ListBrother, ListFirst, ListOrigin, ListPublic, GiveUp,
                    ReadState, End, store, memory
<1>10. CASE SkipQuarantined \/ DownloadFails \/ DownloadRejected \/ HealFails
  BY <1>2, <1>10 DEF SkipQuarantined, DownloadFails, DownloadRejected, HealFails, store, memory
<1> QED
  BY <1>3, <1>4, <1>5, <1>6, <1>7, <1>8, <1>9, <1>10 DEF Next, runKey, Process

\* Every variable has its type, the tags of the upstream are distinct, its
\* releases are tags, and a version marked as deleted is not counted as missing
\* (applyDeletionGrace skips it).
THEOREM TypeCorrect == Spec => []TypeOK
<1>1. Init => KeyType /\ ModeType /\ KindInv /\ ListsType /\ FlagsType /\ DeletedInv
  <2> SUFFICES ASSUME Init PROVE KeyType /\ ModeType /\ KindInv /\ ListsType /\ FlagsType /\ DeletedInv
    OBVIOUS
  <2>1. setting \in Settings /\ setting.changes \in Nat
    BY SettingsAssumption DEF Init
  <2>2. ListsType
    BY StartAssumption DEF Init, ListsType, Distinct, Names
  <2>3. FlagsType
    <3>1. changes \in 0 .. setting.changes /\ count \in 0 .. RefreshEvery - 1
      BY <2>1, RefreshAssumption DEF Init
    <3>2. local \in [Versions -> Row \cup {NoRow}]
      BY DEF Init
    <3> QED
      BY <3>1, <3>2 DEF Init, FlagsType
  <2> QED
    BY <2>2, <2>3, KeyTypeInit DEF Init, ModeType, KindInv, DeletedInv
<1>2. KeyType /\ ModeType /\ KindInv /\ ListsType /\ FlagsType /\ DeletedInv /\ [Next]_vars
          => (KeyType /\ ModeType /\ KindInv /\ ListsType /\ FlagsType /\ DeletedInv)'
  BY KeyTypeNext, ModeNext, KindNext, ListsNext, FlagsNext, DeletedNext
<1>3. KeyType /\ ListsType /\ FlagsType /\ DeletedInv => TypeOK
  BY DEF KeyType, ListsType, FlagsType, DeletedInv, Distinct, TypeOK
<1> QED
  BY <1>1, <1>2, <1>3, PTL DEF Spec

------------------------------------------------------------------------------
(* The quarantine.                                                            *)

\* A version that is processed is forgotten, or remembered as it is rejected;
\* the others keep what is remembered of them.
LEMMA QuarantineForgotten ==
    ASSUME KeyType, QuarantineInv, NoVerdict, setting' = setting PROVE QuarantineInv'
<1>1. /\ fails' = Forgotten(fails) /\ tried' = Forgotten(tried)
      /\ "quarantine" \notin setting.faults => failsDb' = Forgotten(failsDb)
  BY NoVerdictType
<1> QED
  BY <1>1 DEF Forgotten, QuarantineInv, KeyType
LEMMA QuarantineRecorded ==
    ASSUME KeyType, QuarantineInv, Record, setting' = setting PROVE QuarantineInv'
<1>1. /\ fails' = [fails EXCEPT ![cur] = refs[cur]]
      /\ tried' = [tried EXCEPT ![cur] = IF refs[cur] = NoRef THEN NoFail ELSE refs[cur]]
      /\ "quarantine" \notin setting.faults => failsDb' = [failsDb EXCEPT ![cur] = refs[cur]]
  BY RecordType DEF Record
<1> QED
  BY <1>1 DEF QuarantineInv, KeyType
LEMMA QuarantineCleared ==
    ASSUME KeyType, QuarantineInv, Keep \/ DownloadPublished, setting' = setting PROVE QuarantineInv'
<1>1. fails' = [fails EXCEPT ![cur] = NoFail] /\ tried' = [tried EXCEPT ![cur] = NoFail]
  BY DEF Keep, DownloadPublished
<1>2. PICK new : DbBecomes([failsDb EXCEPT ![cur] = new])
  BY DEF Keep, DownloadPublished
<1>3. "quarantine" \notin setting.faults => failsDb' = [failsDb EXCEPT ![cur] = new]
  BY <1>2 DEF DbBecomes, May
<1> QED
  BY <1>1, <1>3 DEF QuarantineInv, KeyType

\* What is not in memory is taken from the database; what is stays.
LEMMA QuarantineTaken == ASSUME KeyType, QuarantineInv, End \/ Restart PROVE QuarantineInv'
<1>1. setting' = setting /\ failsDb' = failsDb
  BY DEF End, Restart, upstream, store
<1>2. CASE End
  <2>1. tried' = tried
    BY <1>2 DEF End
  <2>2. \A v \in Versions : fails[v] # NoFail => fails'[v] = fails[v]
    BY <1>2 DEF End
  <2> QED
    BY <1>1, <2>1, <2>2 DEF QuarantineInv
<1>3. CASE Restart
  <2>1. CASE "quarantine" \in setting.faults
    BY <1>3, <2>1 DEF Restart, QuarantineInv, NoFails
  <2>2. CASE "quarantine" \notin setting.faults
    BY <1>1, <1>3, <2>2 DEF Restart, QuarantineInv, May
  <2> QED
    BY <2>1, <2>2
<1> QED
  BY <1>2, <1>3

\* Versions that are skipped are cleared; without refs nothing is remembered.
LEMMA QuarantineListing == ASSUME KeyType, QuarantineInv, ListPublic \/ ReadState PROVE QuarantineInv'
<1>1. setting' = setting
  BY DEF ListPublic, ReadState, upstream
<1>2. CASE ListPublic
  <2>1. PICK s :
           /\ fails' = [v \in Versions |-> IF v \in s THEN NoFail ELSE fails[v]]
           /\ failsDb' = [v \in Versions |-> IF v \in s THEN ClearedDb(v) ELSE failsDb[v]]
           /\ tried' = [v \in Versions |-> IF v \in s THEN NoFail ELSE tried[v]]
    BY <1>2 DEF ListPublic
  <2> QED
    BY <1>1, <2>1 DEF QuarantineInv
<1>3. CASE ReadState
  BY <1>1, <1>3 DEF ReadState, QuarantineInv, NoFails, store, memory
<1> QED
  BY <1>2, <1>3

LEMMA QuarantineNext == ASSUME KeyType, QuarantineInv, [Next]_vars PROVE QuarantineInv'
<1>1. CASE UNCHANGED <<setting, fails, failsDb, tried>>
  BY <1>1 DEF QuarantineInv
<1>2. CASE UNCHANGED vars
  BY <1>1, <1>2 DEF vars, upstream, store, memory, history
<1>3. CASE Upstream
  BY <1>1, <1>3 DEF Upstream, Tag, Untag, Retag, ToggleRelease, Change, Calm, store, memory, history
<1>4. CASE Begin \/ Listing \/ ReadState
  <2>1. CASE Begin \/ ListUndecided \/ ListDecided \/ ListConflict \/ ListFails \/ ListBrother \/ ListFirst \/ ListOrigin
    BY <1>1, <2>1 DEF Begin, ListUndecided, ListDecided, ListConflict, ListFails, ListBrother, ListFirst, ListOrigin,
                      GiveUp, Accept, upstream, store, memory, history
  <2> QED
    BY <1>4, <2>1, QuarantineListing DEF Listing
<1>5. CASE Process
  <2>1. setting' = setting
    BY <1>5 DEF Process, Keep, SkipQuarantined, DownloadFails, DownloadRejected, DownloadPublished, HealFails, upstream
  <2>2. CASE SkipQuarantined
    BY <1>1, <2>2 DEF SkipQuarantined, upstream, store, memory, history
  <2>3. CASE Record
    BY <2>1, <2>3, QuarantineRecorded
  <2>4. CASE NoVerdict
    BY <2>1, <2>4, QuarantineForgotten
  <2>5. CASE Keep \/ DownloadPublished
    BY <2>1, <2>5, QuarantineCleared
  <2> QED
    BY <1>5, <2>2, <2>3, <2>4, <2>5 DEF Process, DownloadFails, DownloadRejected, HealFails
<1>6. CASE Judge \/ \E w \in Versions : Evict(w)
  BY <1>1, <1>6 DEF Judge, Evict, upstream, memory, history
<1> QED
  BY <1>2, <1>3, <1>4, <1>5, <1>6, QuarantineTaken DEF Next, runKey

\* Content that was rejected is not downloaded again under the same ref unless
\* the cycle is forced (the quarantine of ingest and its table ingest_failures).
THEOREM QuarantineHoldsCorrect == Spec => QuarantineHolds
<1>1. Init => KeyType /\ QuarantineInv
  BY KeyTypeInit DEF Init, QuarantineInv, NoFails
<1>2. KeyType /\ QuarantineInv /\ [Next]_vars => (KeyType /\ QuarantineInv)'
  BY KeyTypeNext, QuarantineNext
<1>3. KeyType /\ QuarantineInv =>
          \A v \in Versions : Download /\ cur = v /\ todo' # todo /\ ~ forceRefresh => tried[v] # refs[v]
  <2> SUFFICES ASSUME KeyType, QuarantineInv, NEW v \in Versions, Download, cur = v, ~ forceRefresh,
                      tried[v] = refs[v]
               PROVE  FALSE
    OBVIOUS
  <2>1. refs[v] # NoFail /\ refs[v] # NoRef
    BY RefsAssumption DEF KeyType
  <2>2. fails[v] = refs[v]
    BY <2>1 DEF QuarantineInv
  <2>3. Quarantined
    BY <2>1, <2>2 DEF Quarantined
  <2> QED
    BY <2>3 DEF Download
<1> QED
  BY <1>1, <1>2, <1>3, PTL DEF Spec, QuarantineHolds

------------------------------------------------------------------------------
(* Deletions, without a window and without evictions.                         *)

\* Nothing is counted at first.
LEMMA MissInit == ASSUME Init PROVE MissInv
BY DEF Init, MissInv, Live

\* The listing a version is judged by is all that upstream has.
LEMMA WholeNext ==
    ASSUME Depth = 0, judge => whole \subseteq Names(listing), [Next]_vars
    PROVE  judge' => whole' \subseteq Names(listing)'
<1>1. CASE UNCHANGED <<judge, whole, listing>>
  BY <1>1 DEF Names
<1>2. CASE UNCHANGED vars
  BY <1>1, <1>2 DEF vars, cycle, history
<1>3. CASE Upstream
  BY <1>1, <1>3 DEF Upstream, Tag, Untag, Retag, ToggleRelease, Change, Calm, cycle, history
<1>4. ASSUME NEW r, NEW kind, NEW allow, Accept(r, kind, allow)
      PROVE  judge' => whole' \subseteq Names(listing)'
  BY <1>4, WholeCollected DEF Accept, Names
<1>5. CASE ListUndecided \/ ListDecided \/ ListFirst \/ ListOrigin
  BY <1>4, <1>5 DEF ListUndecided, ListDecided, ListFirst, ListOrigin
<1>6. CASE ListBrother
  BY <1>6 DEF ListBrother, Names
<1>7. CASE ListPublic
  BY <1>7 DEF ListPublic, Prefix, Names
<1>8. CASE Begin \/ ListConflict \/ ListFails \/ ReadState
  BY <1>1, <1>8 DEF Begin, ListConflict, ListFails, GiveUp, ReadState, history
<1>9. CASE Process
  BY <1>1, <1>9 DEF Process, Keep, SkipQuarantined, DownloadFails, DownloadRejected, DownloadPublished, HealFails,
                    Advance, history
<1>10. CASE Judge
  BY <1>1, <1>10 DEF Judge
<1>11. CASE End \/ Restart
  BY <1>11 DEF End, Restart, Forget
<1>12. CASE \E w \in Versions : Evict(w)
  BY <1>1, <1>12 DEF Evict, cycle, history
<1> QED
  BY <1>2, <1>3, <1>5, <1>6, <1>7, <1>8, <1>9, <1>10, <1>11, <1>12 DEF Next, runKey, Listing

\* The counts of a cycle that judges, and what is deleted by them.
LEMMA JudgeCounts ==
    ASSUME KeyType, MissInv, "evict" \notin setting.faults, Judge, NEW w \in Versions
    PROVE  /\ miss'[w] <= gone'[w] /\ (~ Live(w)' => miss'[w] = 0)
           /\ Live(w) /\ ~ Live(w)' => gone'[w] = Grace
<1>1. miss[w] \in 0 .. Grace /\ gone[w] \in 0 .. Grace /\ miss[w] <= gone[w] /\ (~ Live(w) => miss[w] = 0)
      /\ Grace \in Nat \ {0}
  BY GraceAssumption DEF KeyType, MissInv
<1>2. CASE UNCHANGED <<miss, row, gone>>
  BY <1>1, <1>2 DEF Live
<1>3. CASE Judged
  <2>1. PICK failed \in SUBSET {v \in Versions : Expired(v)} :
            /\ miss' = CountMisses(failed)
            /\ row' = [v \in Versions |->
                          IF ~ Expired(v) \/ v \in failed THEN row[v]
                          ELSE IF DeleteMode THEN NoRow ELSE [row[v] EXCEPT !.deleted = TRUE]]
            /\ gone' = [v \in Versions |->
                          IF v \in whole THEN 0 ELSE IF gone[v] < Grace THEN gone[v] + 1 ELSE Grace]
    BY <1>3 DEF Judge
  <2>2. /\ miss'[w] = IF Live(w) /\ w \in Names(listing) THEN 0
                      ELSE IF ~ Missing(w) THEN miss[w]
                      ELSE IF w \in failed THEN Grace
                      ELSE IF Expired(w) THEN 0 ELSE miss[w] + 1
        /\ gone'[w] = IF w \in whole THEN 0 ELSE IF gone[w] < Grace THEN gone[w] + 1 ELSE Grace
        /\ ~ Expired(w) \/ w \in failed => row'[w] = row[w]
    BY <2>1 DEF CountMisses
  <2>3. w \in whole => w \in Names(listing)
    BY <1>3 DEF Judged, MissInv
  <2>4. CASE ~ Live(w)
    <3>1. ~ Missing(w) /\ ~ Expired(w)
      BY <2>4 DEF Missing, Expired
    <3>2. miss'[w] = 0 /\ row'[w] = row[w]
      BY <1>1, <2>2, <2>4, <3>1
    <3>3. gone'[w] \in 0 .. Grace
      BY <1>1, <2>2
    <3> QED
      BY <1>1, <2>4, <3>2, <3>3
  <2>5. CASE Live(w) /\ w \in Names(listing)
    <3>1. ~ Expired(w)
      BY <2>5 DEF Missing, Expired
    <3>2. miss'[w] = 0 /\ row'[w] = row[w] /\ gone'[w] \in 0 .. Grace
      BY <1>1, <2>2, <2>5, <3>1
    <3> QED
      BY <1>1, <2>5, <3>2 DEF Live
  <2>6. CASE Live(w) /\ w \notin Names(listing)
    <3>1. gone'[w] = IF gone[w] < Grace THEN gone[w] + 1 ELSE Grace
      BY <2>2, <2>3, <2>6
    <3>2. CASE ~ Expired(w)
      <4>1. row'[w] = row[w] /\ w \notin failed
        BY <2>1, <2>2, <3>2
      <4>2. miss'[w] \in {miss[w], miss[w] + 1} /\ (Missing(w) => miss[w] + 1 < Grace)
        BY <1>1, <2>2, <2>6, <3>2, <4>1 DEF Expired
      <4>3. miss'[w] <= gone'[w]
        BY <1>1, <2>2, <2>6, <3>1, <3>2, <4>1, <4>2
      <4> QED
        BY <2>6, <4>1, <4>3 DEF Live
    <3>3. CASE Expired(w)
      <4>1. gone'[w] = Grace
        BY <1>1, <3>1, <3>3 DEF Expired
      <4>2. miss'[w] = IF w \in failed THEN Grace ELSE 0
        BY <2>2, <2>6, <3>3 DEF Expired
      <4>3. w \in failed => Live(w)'
        BY <2>2, <2>6 DEF Live
      <4> QED
        BY <1>1, <4>1, <4>2, <4>3
    <3> QED
      BY <3>2, <3>3
  <2> QED
    BY <2>4, <2>5, <2>6
<1> QED
  BY <1>2, <1>3 DEF Judge

\* Only a judgement takes a row, or its life.
LEMMA LiveKept ==
    ASSUME KeyType, "evict" \notin setting.faults, [Next]_vars, ~ Judge
    PROVE  /\ \A w \in Versions : Live(w) => Live(w)'
           /\ gone' = gone /\ (miss' = miss \/ miss' = [w \in Versions |-> 0])
<1>1. CASE UNCHANGED <<row, gone, miss>>
  BY <1>1 DEF Live
<1>2. CASE UNCHANGED vars
  BY <1>1, <1>2 DEF vars, store, memory, history
<1>3. CASE Upstream
  BY <1>1, <1>3 DEF Upstream, Tag, Untag, Retag, ToggleRelease, Change, Calm, store, memory, history
<1>4. CASE Begin \/ Listing \/ ReadState
  BY <1>1, <1>4 DEF Begin, Listing, ListUndecided, ListDecided, ListConflict, ListFails, ListBrother, ListFirst,
                    ListOrigin, ListPublic, GiveUp, Accept, ReadState, store, memory, history
<1>5. CASE Process
  <2>1. CASE SkipQuarantined \/ DownloadFails \/ DownloadRejected \/ HealFails
    BY <1>1, <2>1 DEF SkipQuarantined, DownloadFails, DownloadRejected, HealFails, store, memory, history
  <2>2. CASE Keep
    BY <2>2, RowsKept DEF Keep
  <2>3. CASE DownloadPublished
    BY <2>3, RowsPublished DEF DownloadPublished
  <2> QED
    BY <1>5, <2>1, <2>2, <2>3 DEF Process
<1>6. CASE End
  BY <1>1, <1>6 DEF End, store
<1>7. CASE Restart
  BY <1>7 DEF Restart, store, Live
<1>8. CASE \E w \in Versions : Evict(w)
  BY <1>8 DEF Evict, May
<1> QED
  BY <1>2, <1>3, <1>4, <1>5, <1>6, <1>7, <1>8 DEF Next, runKey

LEMMA MissNext == ASSUME Depth = 0, KeyType, MissInv, [Next]_vars PROVE MissInv'
<1>1. judge' => whole' \subseteq Names(listing)'
  BY WholeNext DEF MissInv
<1>2. setting' = setting
  BY KindKept DEF ListUndecided, ListDecided, ListFirst, ListOrigin, upstream
<1>3. ASSUME "evict" \notin setting.faults, NEW w \in Versions
      PROVE  miss'[w] <= gone'[w] /\ (~ Live(w)' => miss'[w] = 0)
  <2>1. CASE Judge
    BY <1>3, <2>1, JudgeCounts
  <2>2. CASE ~ Judge
    <3>1. (Live(w) => Live(w)') /\ gone' = gone /\ (miss' = miss \/ miss' = [v \in Versions |-> 0])
      BY <1>3, <2>2, LiveKept
    <3>2. miss[w] <= gone[w] /\ (~ Live(w) => miss[w] = 0) /\ gone[w] \in 0 .. Grace
      BY <1>3 DEF MissInv, KeyType
    <3>3. CASE miss' = miss
      BY <3>1, <3>2, <3>3
    <3>4. CASE miss' = [v \in Versions |-> 0]
      <4>1. miss'[w] = 0 /\ gone'[w] = gone[w] /\ 0 <= gone[w]
        BY <3>1, <3>2, <3>4, GraceAssumption
      <4> QED
        BY <4>1
    <3> QED
      BY <3>1, <3>3, <3>4
  <2> QED
    BY <2>1, <2>2
<1> QED
  BY <1>1, <1>2, <1>3 DEF MissInv

\* Where every version is looked at and nothing is evicted, a version is
\* deleted after so many judged cycles in a row without it (applyDeletionGrace).
THEOREM DeletionEarnedByRowCorrect == ASSUME Depth = 0 PROVE Spec => DeletionEarnedByRow
<1>1. Init => KeyType /\ MissInv
  BY KeyTypeInit, MissInit
<1>2. KeyType /\ MissInv /\ [Next]_vars => (KeyType /\ MissInv)'
  BY KeyTypeNext, MissNext
<1>3. KeyType /\ MissInv /\ [Next]_vars =>
          [\A w \in Versions :
              Judge /\ Live(w) /\ ~ Live(w)' /\ "evict" \notin setting.faults => gone'[w] = Grace]_vars
  BY JudgeCounts
<1> QED
  BY <1>1, <1>2, <1>3, PTL DEF Spec, DeletionEarnedByRow
==============================================================================
