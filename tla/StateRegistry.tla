--------------------------- MODULE StateRegistry ---------------------------
(***************************************************************************)
(* mod/state: what rescan reports about the mirrored keys (classification, *)
(* availability, statistics), the bounded registry of diagnostics, and the *)
(* snapshot the server reads.                                              *)
(*                                                                         *)
(* lockObj serialises the mutations, so a step is one call.  Readers load  *)
(* the last published snapshot.  A mutation of a key, of the checksum or   *)
(* of the drop counter copies that snapshot and replaces a part of it;     *)
(* only a change of the diagnostics builds it anew.                        *)
(*                                                                         *)
(* Abstracted: texts, and the times and counts of a diagnostic (they are   *)
(* copied with the record); the cut of a long list of reasons; the         *)
(* configured source URL, a second text with the same treatment as the     *)
(* brother URL; the generation, which moves with each snapshot; calls      *)
(* refused by validation, which change nothing.  Times are 1 .. MaxScan,   *)
(* 0 is the zero time.                                                     *)
(***************************************************************************)
EXTENDS Integers, Sequences, FiniteSets

CONSTANTS
    Keys,            \* release_mirrors
    Urls,            \* brother URLs
    NoUrl,           \* the empty URL
    RemoteKeys,      \* remote keys, the local one included
    NoRemoteKey,     \* none recorded yet
    Stats,           \* latest version, version count and last publish time
    NoStats,         \* none recorded yet
    Contents,        \* content checksums
    NoContent,       \* the zero checksum
    Diags,           \* diagnostic identities: code, scope, key, version
    KeyOf,           \* the key of each, or NoKey for a global one
    VersionOf,       \* the version of each, or NoVersion
    NoKey,
    NoVersion,
    Reasons,         \* log reasons
    NoRecord,        \* the identity has no record
    MaxDiagnostics,  \* maxDiagnostics
    permanentAt,     \* upstream_availability.permanent_after_cycles
    MaxScan,         \* bound: scan and rescan times
    MaxDropped       \* bound: dropped diagnostics

Versions == {VersionOf[d] : d \in Diags} \ {NoVersion}
Effects == [impact : {"degraded", "error"}, reason : Reasons]

ASSUME ConstantsAssumption ==
    /\ IsFiniteSet(Diags)
    /\ KeyOf \in [Diags -> Keys \cup {NoKey}]
    /\ NoKey \notin Keys
    /\ NoRecord \notin Effects
    /\ MaxDiagnostics \in Nat \ {0}
    /\ permanentAt \in Nat \ {0}
    /\ MaxScan \in Nat
    /\ MaxDropped \in Nat

VARIABLES
    keyMap,      \* keyMutObj of each key
    diag,        \* diagnosticMap: impact and reason of each record
    active,      \* the active records
    inactive,    \* the others, from the one deactivated first
    dropped,     \* droppedDiagnostics
    content,     \* checksums.Content
    lastRescan,
    snap         \* snapObj: the published snapshot

registry == <<diag, active, inactive>>
vars == <<keyMap, diag, active, inactive, dropped, content, lastRescan, snap>>

-----------------------------------------------------------------------------
(* The snapshot.                                                           *)

Records == {d \in Diags : diag[d] # NoRecord}
Impacts(D) == {diag[d].impact : d \in D}

\* maxStatus over a set of impacts.
MaxStatus(S) ==
    IF "error" \in S THEN "error" ELSE IF "degraded" \in S THEN "degraded" ELSE "ok"

\* keyViewFromMut: what a reader sees of a key, beside its status.
keyView(m) ==
    [class |-> m.class, brother |-> m.brother, remote |-> m.remote, stats |-> m.stats,
     avail |-> m.avail, down |-> m.down, present |-> m.present, lastScan |-> m.lastScan]

\* A global diagnostic shows in the status of every key.
statusForKey(k) == MaxStatus(Impacts({d \in active : KeyOf[d] \in {k, NoKey}}))

buildSnapshot ==
    [content |-> content,
     lastRescan |-> lastRescan,
     status |-> MaxStatus(Impacts(active)),
     reasons |-> {diag[d].reason : d \in active},
     dropped |-> dropped,
     keys |-> [k \in Keys |-> [view |-> keyView(keyMap[k]), status |-> statusForKey(k)]],
     diags |-> [d \in active |-> diag[d]]]

publishChanged == snap' = buildSnapshot'

publishMetaChanged ==
    snap' = [snap EXCEPT !.content = content', !.lastRescan = lastRescan']

\* Mutant: the key views are built without the status they had.
publishKeyViewsAfresh ==
    snap' = [snap EXCEPT !.content = content', !.lastRescan = lastRescan',
                         !.keys = [k \in Keys |-> [view |-> keyView(keyMap'[k]), status |-> "ok"]]]
publishKeyViewsChanged ==
    snap' = [snap EXCEPT !.content = content', !.lastRescan = lastRescan',
                         !.keys = [k \in Keys |-> [view |-> keyView(keyMap'[k]),
                                                   status |-> snap.keys[k].status]]]

publishHealthChanged == snap' = [snap EXCEPT !.dropped = dropped']

newKeyMut ==
    [class |-> "none", brother |-> NoUrl, remote |-> NoRemoteKey, stats |-> NoStats,
     avail |-> "unknown", down |-> 0, present |-> FALSE, lastScan |-> 0,
     reclass |-> FALSE]

Init ==
    /\ keyMap = [k \in Keys |-> newKeyMut]
    /\ diag = [d \in Diags |-> NoRecord]
    /\ active = {}
    /\ inactive = <<>>
    /\ dropped = 0
    /\ content = NoContent
    /\ lastRescan = 0
    /\ snap = buildSnapshot

-----------------------------------------------------------------------------
(* Availability.                                                           *)

\* Once a scan is recorded, times before it are stale.
staleScan(m, t) == m.lastScan # 0 /\ t < m.lastScan

\* A second report of the scan that found the key unavailable.
sameCycleReplay(m, t) == m.lastScan # 0 /\ t = m.lastScan /\ m.avail # "available"

\* Mutant: recovery from any outage allows another classification.
applyAvailableLenient(m, present, t) ==
    [m EXCEPT !.avail = "available",
              !.down = 0,
              !.present = present,
              !.lastScan = t,
              !.reclass = IF m.avail # "available" THEN TRUE ELSE @]
applyAvailable(m, present, t) ==
    [m EXCEPT !.avail = "available",
              !.down = 0,
              !.present = present,
              !.lastScan = t,
              !.reclass = IF m.avail = "permanent" THEN TRUE ELSE @]

\* Mutant: one cycle too many.
applyUnavailableLate(m, t) ==
    LET down == IF m.down < permanentAt THEN m.down + 1 ELSE m.down
    IN  [m EXCEPT !.avail = IF m.down >= permanentAt THEN "permanent" ELSE "temporary",
                  !.down = down,
                  !.present = FALSE,
                  !.reclass = FALSE,
                  !.lastScan = t]
applyUnavailable(m, t) ==
    LET down == IF m.down < permanentAt THEN m.down + 1 ELSE m.down
    IN  [m EXCEPT !.avail = IF down >= permanentAt THEN "permanent" ELSE "temporary",
                  !.down = down,
                  !.present = FALSE,
                  !.reclass = FALSE,
                  !.lastScan = t]

Updates == [available : BOOLEAN, present : BOOLEAN, scanAt : 1..MaxScan]

\* Mutant: a scan may be reported twice.
applyAvailabilityAgain(m, u) ==
    IF staleScan(m, u.scanAt) THEN m
    ELSE IF u.available THEN applyAvailable(m, u.present, u.scanAt)
    ELSE applyUnavailable(m, u.scanAt)
applyAvailability(m, u) ==
    IF staleScan(m, u.scanAt) \/ sameCycleReplay(m, u.scanAt) THEN m
    ELSE IF u.available THEN applyAvailable(m, u.present, u.scanAt)
    ELSE applyUnavailable(m, u.scanAt)

\* One update per key of the batch; nothing changed, nothing published.
ApplyAvailabilityBatch(batch) ==
    /\ keyMap' = [k \in Keys |-> IF k \in DOMAIN batch
                                 THEN applyAvailability(keyMap[k], batch[k])
                                 ELSE keyMap[k]]
    /\ UNCHANGED <<registry, dropped, content, lastRescan>>
    /\ IF keyMap' = keyMap THEN UNCHANGED snap ELSE publishKeyViewsChanged

-----------------------------------------------------------------------------
(* Classification, statistics, and what concerns the whole mirror.         *)

\* The class of a classified key changes only where reclassAllowed; else the
\* call fails and changes nothing.
SetClassification(k, class, url) ==
    /\ keyMap[k].class \notin {"none", class} => keyMap[k].reclass
    /\ keyMap' = [keyMap EXCEPT ![k].class = class,
                                ![k].reclass = IF keyMap[k].class = class THEN @ ELSE FALSE,
                                ![k].brother = IF class = "brother" THEN url ELSE NoUrl]
    /\ UNCHANGED <<registry, dropped, content, lastRescan>>
    /\ IF keyMap' = keyMap THEN UNCHANGED snap ELSE publishKeyViewsChanged

SetRemoteKey(k, remote) ==
    /\ keyMap[k].remote # remote
    /\ keyMap' = [keyMap EXCEPT ![k].remote = remote]
    /\ UNCHANGED <<registry, dropped, content, lastRescan>>
    /\ publishKeyViewsChanged

SetMirrorStatsBatch(batch) ==
    /\ keyMap' = [k \in Keys |-> IF k \in DOMAIN batch
                                 THEN [keyMap[k] EXCEPT !.stats = batch[k]]
                                 ELSE keyMap[k]]
    /\ UNCHANGED <<registry, dropped, content, lastRescan>>
    /\ IF keyMap' = keyMap THEN UNCHANGED snap ELSE publishKeyViewsChanged

SetContentChecksum(c) ==
    /\ content # c
    /\ content' = c
    /\ UNCHANGED <<keyMap, registry, dropped, lastRescan>>
    /\ publishMetaChanged

SetLastRescan(t) ==
    /\ lastRescan # t
    /\ lastRescan' = t
    /\ UNCHANGED <<keyMap, registry, dropped, content>>
    /\ publishMetaChanged

-----------------------------------------------------------------------------
(* Diagnostics.                                                            *)

Index(d) == CHOOSE i \in DOMAIN inactive : inactive[i] = d

\* unlinkInactiveLocked: the list without d.
Unlinked(d) ==
    [i \in 1..(Len(inactive) - 1) |-> inactive[IF i < Index(d) THEN i ELSE i + 1]]

\* Mutant: it stays on the list when it becomes active again.
RaiseKnownListed(d, e) ==
    /\ d \in Records
    /\ diag' = [diag EXCEPT ![d] = e]
    /\ active' = active \cup {d}
    /\ UNCHANGED <<keyMap, inactive, dropped, content, lastRescan>>
    /\ publishChanged
\* A known identity: updated, and taken off the inactive list.
RaiseKnown(d, e) ==
    /\ d \in Records
    /\ diag' = [diag EXCEPT ![d] = e]
    /\ active' = active \cup {d}
    /\ inactive' = IF d \in active THEN inactive ELSE Unlinked(d)
    /\ UNCHANGED <<keyMap, dropped, content, lastRescan>>
    /\ publishChanged

RaiseNew(d, e) ==
    /\ d \notin Records
    /\ Cardinality(Records) < MaxDiagnostics
    /\ diag' = [diag EXCEPT ![d] = e]
    /\ active' = active \cup {d}
    /\ UNCHANGED <<keyMap, inactive, dropped, content, lastRescan>>
    /\ publishChanged

\* Mutant: any record makes room.
RaiseEvictingAny(d, e) ==
    /\ d \notin Records
    /\ Cardinality(Records) >= MaxDiagnostics
    /\ \E o \in Records :
          /\ diag' = [diag EXCEPT ![o] = NoRecord, ![d] = e]
          /\ active' = (active \ {o}) \cup {d}
          /\ inactive' = IF o \in active THEN inactive ELSE Unlinked(o)
    /\ UNCHANGED <<keyMap, dropped, content, lastRescan>>
    /\ publishChanged
\* evictOldestInactiveLocked: a full registry forgets its oldest inactive
\* record.
RaiseEvicting(d, e) ==
    /\ d \notin Records
    /\ Cardinality(Records) >= MaxDiagnostics
    /\ inactive # <<>>
    /\ diag' = [diag EXCEPT ![Head(inactive)] = NoRecord, ![d] = e]
    /\ active' = active \cup {d}
    /\ inactive' = Tail(inactive)
    /\ UNCHANGED <<keyMap, dropped, content, lastRescan>>
    /\ publishChanged

\* Nothing to forget: the diagnostic is dropped, and counted.
RaiseDropped(d) ==
    /\ d \notin Records
    /\ Cardinality(Records) >= MaxDiagnostics
    /\ inactive = <<>>
    /\ dropped < MaxDropped
    /\ dropped' = dropped + 1
    /\ UNCHANGED <<keyMap, registry, content, lastRescan>>
    /\ publishHealthChanged

RaiseDiagnostic(d, e) ==
    RaiseKnown(d, e) \/ RaiseNew(d, e) \/ RaiseEvicting(d, e) \/ RaiseDropped(d)

\* The orders in which a walk over a Go map can meet the members of D.
Orders(D) == {s \in [1..Cardinality(D) -> D] : {s[i] : i \in DOMAIN s} = D}

\* The active ones of D become inactive, in the order of the walk.
Deactivate(D) ==
    /\ D \cap active # {}
    /\ active' = active \ D
    /\ \E order \in Orders(D \cap active) : inactive' = inactive \o order
    /\ UNCHANGED <<keyMap, diag, dropped, content, lastRescan>>
    /\ publishChanged

ClearDiagnostic(d) == Deactivate({d})
ClearKeyDiagnostics(k) == Deactivate({d \in Diags : KeyOf[d] = k})
ClearVersionDiagnostics(k, v) ==
    Deactivate({d \in Diags : KeyOf[d] = k /\ VersionOf[d] = v})
ClearAllDiagnostics == Deactivate(Diags)

-----------------------------------------------------------------------------
Next ==
    \/ \E K \in SUBSET Keys \ {{}} :
          \/ \E batch \in [K -> Updates] : ApplyAvailabilityBatch(batch)
          \/ \E batch \in [K -> Stats] : SetMirrorStatsBatch(batch)
    \/ \E k \in Keys :
          \/ \E class \in {"git", "brother"}, url \in Urls \cup {NoUrl} :
                SetClassification(k, class, url)
          \/ \E remote \in RemoteKeys : SetRemoteKey(k, remote)
          \/ ClearKeyDiagnostics(k)
          \/ \E v \in Versions : ClearVersionDiagnostics(k, v)
    \/ \E c \in Contents : SetContentChecksum(c)
    \/ \E t \in 1..MaxScan : SetLastRescan(t)
    \/ \E d \in Diags, e \in Effects : RaiseDiagnostic(d, e)
    \/ \E d \in Diags : ClearDiagnostic(d)
    \/ ClearAllDiagnostics

Spec == Init /\ [][Next]_vars

-----------------------------------------------------------------------------
(* Properties.                                                             *)

KeyMuts ==
    [class : {"none", "git", "brother"}, brother : Urls \cup {NoUrl},
     remote : RemoteKeys \cup {NoRemoteKey}, stats : Stats \cup {NoStats},
     avail : {"unknown", "available", "temporary", "permanent"}, down : 0..permanentAt,
     present : BOOLEAN, lastScan : 0..MaxScan, reclass : BOOLEAN]

\* Every variable keeps its type: a key is not down for longer than
\* permanentAt counts, the registry not larger than maxDiagnostics.
TypeOK ==
    /\ keyMap \in [Keys -> KeyMuts]
    /\ diag \in [Diags -> Effects \cup {NoRecord}]
    /\ active \subseteq Diags
    /\ inactive \in Seq(Diags)
    /\ dropped \in 0..MaxDropped
    /\ content \in Contents \cup {NoContent}
    /\ lastRescan \in 0..MaxScan
    /\ Cardinality(Records) <= MaxDiagnostics

\* The snapshot readers have is the one buildSnapshotLocked would build now,
\* although most mutations publish by replacing a part of the previous one.
SnapshotCurrent == snap = buildSnapshot

\* The inactive list holds the inactive records, each once ("an entry is in
\* the list iff !active", obj.go): eviction finds one whenever there is one.
InactiveListed ==
    /\ {inactive[i] : i \in DOMAIN inactive} = Records \ active
    /\ active \subseteq Records
    /\ \A i, j \in DOMAIN inactive : inactive[i] = inactive[j] => i = j

\* A diagnostic that is active is not forgotten, whatever the pressure on the
\* registry ("active diagnostics are never evicted", state/README.md), and a
\* record is forgotten only to make room for an active one.
ActiveKept ==
    [][/\ \A d \in active : diag'[d] # NoRecord
       /\ \A d \in Records : diag'[d] = NoRecord =>
             Cardinality(Records) = MaxDiagnostics /\ active \subseteq active']_vars

\* A classified key changes its class only after it recovered from a permanent
\* outage, once for each, and not when it has gone down again since
\* ("Reclassification is blocked until permanent-down recovery allows it",
\* method.go).
ReclassEarned ==
    [][\A k \in Keys :
         /\ keyMap[k].class \notin {"none", keyMap'[k].class} =>
               keyMap[k].reclass /\ keyMap[k].avail = "available" /\ ~ keyMap'[k].reclass
         /\ keyMap'[k].reclass /\ ~ keyMap[k].reclass =>
               keyMap[k].avail = "permanent"]_vars

\* A key is permanently down exactly when permanentAt outages were counted
\* since it was last available.
DownCounted ==
    \A k \in Keys :
       /\ keyMap[k].avail \in {"unknown", "available"} <=> keyMap[k].down = 0
       /\ keyMap[k].avail = "permanent" <=> keyMap[k].down = permanentAt

\* One scan counts once: the count of outages grows only with a later scan, or
\* when the same scan first found the key available; scans never go back.
ScanCountedOnce ==
    [][\A k \in Keys :
         /\ keyMap'[k].lastScan >= keyMap[k].lastScan
         /\ keyMap'[k].down > keyMap[k].down =>
               keyMap'[k].lastScan > keyMap[k].lastScan \/ keyMap[k].avail = "available"]_vars
=============================================================================
