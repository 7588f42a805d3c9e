----------------------------- MODULE ArchiveTree -----------------------------
(* The way of a tree through the archives: an upstream archive is extracted    *)
(* into a spool (mod/archive), its entries are staged and checked as the tree  *)
(* of a version (mod/storage/staged.go, treecodec), the universal archive of   *)
(* that tree is written (mod/overlay/universal.go), and a mirror that has only *)
(* the public pages extracts it again and compares the tree.                   *)
EXTENDS Naturals, FiniteSets, Sequences, SequencesExt, FiniteSetsExt, Ordered

CONSTANTS
    Top,             \* the top directory of a universal archive: <key>-<version>
    Unhygienic,      \* segments that no name may have: absolute, backslash, colon, control characters
    Reserved,        \* segments that an entry may not have: a final dot, a Windows name
    Headers,         \* named sets of headers
    ArchiveSettings  \* which of them and how many, whether a write may fail, by how much Top
                     \* is longer than other segments, the limits and what else bounds a tree

\* A header may need extended ones (PAX) before it, of so many bytes of the
\* stream; a file may be dense: packed in a zip, it is beyond the ratio that
\* extraction allows.
ArchiveHeader ==
    [name : Seq(STRING), type : {"file", "symlink", "dir", "global", "other"}, content : Seq(STRING),
     extended : Nat, dense : BOOLEAN]
ASSUME TopAssumption == Top \in STRING
ASSUME HeadersAssumption == \A h \in DOMAIN Headers : Headers[h] \subseteq ArchiveHeader
ASSUME ArchiveSettingsAssumption ==
    ArchiveSettings \subseteq
        [headers : DOMAIN Headers, length : Nat, fails : BOOLEAN, longer : Nat,
         \* The configured limits, which extraction and the writer have ...
         limits : [count : Nat, path : Nat, file : Nat, unpacked : Nat],
         \* ... and what storage adds: bytes of a blob (256 MiB, or the memory there
         \* is), of a path, of a tree object, and of an entry in it beside its path.
         caps : [file : Nat, path : Nat, object : Nat, entry : Nat],
         \* The format of upstream, and of the archive that a mirror takes.
         format : [{"ingest", "mirror"} -> {"tar", "zip"}],
         \* Bytes of a block, of the longest name in a header, and of a record of an
         \* extended header beside the name in it.
         tar : [block : Nat \ {0}, short : Nat, record : Nat],
         \* The contents that are dense when the writer packs them.
         dense : SUBSET Seq(STRING)]

VARIABLES
    archive,    \* the headers: name, type, and the content, a text
    party,      \* who extracts it: "ingest" or "mirror"
    stage,      \* where the pipeline is
    position,   \* the header that is read
    entries,    \* the entries so far
    blobs,      \* for each content the temporary file that has it
    spool,      \* the temporary files there are
    tree,       \* the tree that was published
    archiveSetting

archiveVars == <<archive, party, stage, position, entries, blobs, spool, tree, archiveSetting>>
limits == archiveSetting.limits
caps == archiveSetting.caps
tar == archiveSetting.tar
Format == archiveSetting.format[party]

------------------------------------------------------------------------------
(* Paths are sequences of segments, and so is a text that is read as one.     *)

\* path.Clean of a relative path, segment by segment.
CleanStep(done, s) ==
    IF s = "." THEN done
    ELSE IF s # ".." \/ done = <<>> \/ Last(done) = ".." THEN Append(done, s)
    ELSE Front(done)
PathClean(path) ==
    LET done[n \in 0 .. Len(path)] == IF n = 0 THEN <<>> ELSE CleanStep(done[n - 1], path[n])
    IN  done[Len(path)]
Above(path) == path # <<>> /\ Head(path) = ".."
Hygienic(path) == path # <<>> /\ ToSet(path) \cap Unhygienic = {}
\* CleanArchiveEntryPath: it gives the clean path, or an error.
Cleanable(path) ==
    LET p == PathClean(path)
    IN  Hygienic(path) /\ p # <<>> /\ ~ Above(p) /\ ToSet(p) \cap Reserved = {}
Canonical(path) == Cleanable(path) /\ PathClean(path) = path
\* What a symlink names, from its own directory.
WithinRoot(path, target) == Hygienic(target) /\ ~ Above(PathClean(Front(path) \o target))
\* In bytes, of which a segment has one, and the top directory of a universal
\* archive more: it may be longer than that of upstream.
PathLength(path) == Len(path) + archiveSetting.longer * Cardinality({i \in DOMAIN path : path[i] = Top})
Clash(paths) == \E p \in paths : \E n \in 1 .. Len(p) - 1 : SubSeq(p, 1, n) \in paths

------------------------------------------------------------------------------
(* Extraction.                                                                *)

Read(headers) ==
    /\ archive' = headers
    /\ position' = 1 /\ entries' = <<>> /\ blobs' = <<>> /\ spool' = {}
    /\ stage' = "extract"

ArchiveInit ==
    /\ archiveSetting \in ArchiveSettings
    /\ archive \in UNION {[1 .. n -> Headers[archiveSetting.headers]] : n \in 0 .. archiveSetting.length}
    /\ party = "ingest" /\ stage = "extract" /\ position = 1
    /\ entries = <<>> /\ blobs = <<>> /\ spool = {} /\ tree = {}

Header == archive[position]
Extracting == stage = "extract" /\ position <= Len(archive)
Unpacked(list) == Total([i \in DOMAIN list |-> Len(list[i].blob)], DOMAIN list)
OverLimit ==
    \/ position > limits.count
    \/ Header.type # "global" /\ PathLength(Header.name) > limits.path
    \/ Header.type = "symlink" /\ Len(Header.content) > limits.path
    \/ /\ Header.type \in {"file", "symlink"}
       /\ Len(Header.content) > limits.file \/ Unpacked(entries) + Len(Header.content) > limits.unpacked
TooDense == Format = "zip" /\ Header.type = "file" /\ Header.dense
Malformed == Header.type # "global" /\ (~ Cleanable(Header.name) \/ Header.type = "other")

\* The bytes of the stream of a tar: of each header, those before it and its
\* content (with the padding, which is read when the next header is).
Padded(n) == n + ((tar.block - (n % tar.block)) % tar.block)
HeaderBytes(h) == h.extended + tar.block + (IF h.type \in {"file", "global"} THEN Padded(Len(h.content)) ELSE 0)
StreamBytes(n) == Total([i \in DOMAIN archive |-> HeaderBytes(archive[i])], 1 .. n)
EndMarker == 2 * tar.block
StreamRead == IF position <= Len(archive) THEN StreamBytes(position) ELSE StreamBytes(Len(archive)) + EndMarker
tarStreamMaxBytes == limits.unpacked + limits.count * (limits.path + 2 * tar.block)
StreamCut == Format = "tar" /\ StreamRead > tarStreamMaxBytes

\* cleanupCreated.
Refuse ==
    /\ stage = "extract"
    /\ StreamCut \/ (Extracting /\ (OverLimit \/ TooDense \/ Malformed))
    /\ stage' = "refused" /\ spool' = {}
    /\ UNCHANGED <<archive, party, position, entries, blobs, tree, archiveSetting>>
\* The spool cannot be written, or the cycle is cancelled.
WriteFails ==
    /\ Extracting /\ archiveSetting.fails
    /\ stage' = "failed" /\ spool' = {}
    /\ UNCHANGED <<archive, party, position, entries, blobs, tree, archiveSetting>>
SkipHeader ==
    /\ Extracting /\ ~ StreamCut /\ ~ OverLimit /\ ~ TooDense /\ ~ Malformed
    /\ Header.type \in {"dir", "global"}
    /\ position' = position + 1
    /\ UNCHANGED <<archive, party, stage, entries, blobs, spool, tree, archiveSetting>>

\* Mutant of AddBlob: the second file with a content stays.
AddBlobKept(blob) ==
    /\ spool' = spool \cup {position}
    /\ blobs' = IF blob \in DOMAIN blobs THEN blobs ELSE [b \in DOMAIN blobs \cup {blob} |-> IF b = blob THEN position ELSE blobs[b]]
AddBlob(blob) ==
    IF blob \in DOMAIN blobs
    THEN UNCHANGED <<blobs, spool>>
    ELSE /\ blobs' = [b \in DOMAIN blobs \cup {blob} |-> IF b = blob THEN position ELSE blobs[b]]
         /\ spool' = spool \cup {position}
TakeEntry ==
    /\ Extracting /\ ~ StreamCut /\ ~ OverLimit /\ ~ TooDense /\ ~ Malformed
    /\ Header.type \in {"file", "symlink"}
    /\ entries' = Append(entries, [path |-> PathClean(Header.name), mode |-> Header.type, blob |-> Header.content])
    /\ AddBlob(Header.content)
    /\ position' = position + 1
    /\ UNCHANGED <<archive, party, stage, tree, archiveSetting>>

\* stripCommonTopDir.
CommonTop == entries # <<>> /\ \A i \in DOMAIN entries : Len(entries[i].path) > 1 /\ Head(entries[i].path) = Head(entries[1].path)
Stripped == IF CommonTop THEN [i \in DOMAIN entries |-> [entries[i] EXCEPT !.path = Tail(@)]] ELSE entries
Safe(e) == e.mode = "symlink" => WithinRoot(e.path, e.blob)
Filtered == Keeping(Stripped, {e \in ToSet(Stripped) : Safe(e)})
\* dropOrphanBlobs, only if a symlink was dropped.
Used(list) == {list[i].blob : i \in DOMAIN list}
Wellformed(list) ==
    LET paths == {list[i].path : i \in DOMAIN list}
    IN  list # <<>> /\ Cardinality(paths) = Len(list) /\ ~ Clash(paths)
Result ==
    /\ stage = "extract" /\ position > Len(archive) /\ ~ StreamCut
    /\ entries' = Filtered
    /\ blobs' = [b \in DOMAIN blobs \cap Used(Filtered) |-> blobs[b]]
    /\ IF Wellformed(Filtered)
       THEN stage' = "staged" /\ spool' = spool \ {blobs[b] : b \in DOMAIN blobs \ Used(Filtered)}
       ELSE stage' = "refused" /\ spool' = {}
    /\ UNCHANGED <<archive, party, position, tree, archiveSetting>>

------------------------------------------------------------------------------
(* Publication: what storage itself asks of the entries and of the files.     *)

maxBlobBytes == IF limits.file > caps.file THEN caps.file ELSE limits.file
Normal ==
    /\ Len(entries) \in 1 .. limits.count
    /\ \A i \in DOMAIN entries :
           LET e == entries[i]
           IN  Canonical(e.path) /\ PathLength(e.path) <= limits.path /\ Len(e.blob) <= maxBlobBytes
    /\ Unpacked(entries) <= limits.unpacked
\* The bytes of the tree object, beside its few first ones.
TreeBytes(S) == Total([e \in S |-> PathLength(e.path) + caps.entry], S)
Encodable ==
    /\ Wellformed(entries)
    /\ \A i \in DOMAIN entries : PathLength(entries[i].path) <= caps.path
    /\ TreeBytes(ToSet(entries)) <= caps.object
\* The file is in the spool, and still the one that was written.
Intact(blob) == blobs[blob] \in spool
BlobsStaged == DOMAIN blobs \subseteq Used(entries) /\ \A b \in DOMAIN blobs : Intact(b)
ReferencesStaged == Used(entries) \subseteq DOMAIN blobs
SymlinksStaged == \A i \in DOMAIN entries : Safe(entries[i]) /\ (entries[i].mode = "symlink" => Len(entries[i].blob) <= limits.path)
Accepted == Normal /\ Encodable /\ BlobsStaged /\ ReferencesStaged /\ SymlinksStaged

\* PublishStaged closes the spool.
PublishStaged ==
    /\ stage = "staged" /\ Accepted
    /\ stage' = IF party = "mirror" THEN "mirrored" ELSE "published"
    /\ tree' = ToSet(entries)
    /\ spool' = {}
    /\ UNCHANGED <<archive, party, position, entries, blobs, archiveSetting>>
PublishRefused ==
    /\ stage = "staged" /\ ~ Accepted
    /\ stage' = "refused" /\ spool' = {}
    /\ UNCHANGED <<archive, party, position, entries, blobs, tree, archiveSetting>>

------------------------------------------------------------------------------
(* The universal archive.                                                     *)

\* A name that is too long for a header has a record in an extended one.
Record(bytes) == IF bytes > tar.short THEN bytes + tar.record ELSE 0
Extended(name, target) ==
    LET records == Record(PathLength(name)) + Record(Len(target))
    IN  IF records = 0 THEN 0 ELSE tar.block + Padded(records)
HeaderOf(e, name) ==
    [name |-> name, type |-> e.mode, content |-> e.blob,
     extended |-> Extended(name, IF e.mode = "symlink" THEN e.blob ELSE <<>>),
     dense |-> e.mode = "file" /\ e.blob \in archiveSetting.dense]
\* Mutant of Prefixed: no top directory.
PrefixedNot(e) == HeaderOf(e, e.path)
Prefixed(e) == HeaderOf(e, <<Top>> \o e.path)
Writable ==
    \A e \in tree :
        /\ Canonical(Prefixed(e).name) /\ PathLength(Prefixed(e).name) <= limits.path
        /\ e.mode = "symlink" => WithinRoot(Prefixed(e).name, e.blob)
WriteUniversal ==
    /\ stage = "published" /\ Writable
    /\ Read(SetToSeq({Prefixed(e) : e \in tree}))
    /\ party' = "mirror"
    /\ UNCHANGED <<tree, archiveSetting>>
\* The version is published without it.
WriteRefused ==
    /\ stage = "published" /\ ~ Writable
    /\ stage' = "unwritten"
    /\ UNCHANGED <<archive, party, position, entries, blobs, spool, tree, archiveSetting>>

ArchiveNext ==
    \/ Refuse \/ WriteFails \/ SkipHeader \/ TakeEntry \/ Result
    \/ PublishStaged \/ PublishRefused \/ WriteUniversal \/ WriteRefused

ArchiveSpec == ArchiveInit /\ [][ArchiveNext]_archiveVars

------------------------------------------------------------------------------
\* What storage has no room for, whatever extraction allows.
Storable(S) ==
    /\ \A e \in S : Len(e.blob) <= caps.file /\ PathLength(e.path) <= caps.path
    /\ TreeBytes(S) <= caps.object

\* Of what an extraction returns, storage refuses nothing but what is beyond
\* its own caps on a blob, a path and a tree object: all the rest, the two check
\* in different orders and in different places ("Utility predicates used by
\* storage and rescan must have identical behavior across both packages.",
\* mod/internal/README.md), and a version they disagree about fails for good.
\* And the spool has exactly one file for every content that an entry uses,
\* and none when the extraction ended in an error.
ExtractionSound ==
    /\ stage = "staged" => (Accepted <=> Storable(ToSet(entries)))
    /\ stage \in {"extract", "staged"} =>
           /\ spool = {blobs[b] : b \in DOMAIN blobs}
           /\ Used(entries) = DOMAIN blobs
    /\ stage \in {"refused", "failed"} => spool = {}

\* What the writer has no counterpart of: an archive as a tar that is longer
\* than extraction reads, as it may be with as many entries as there may be or
\* with extended headers, and as a zip a file that packs too well.
StreamTooLong ==
    /\ Format = "tar" /\ StreamBytes(Len(archive)) + EndMarker > tarStreamMaxBytes
    /\ Len(archive) >= limits.count \/ \E i \in DOMAIN archive : archive[i].extended > 0
Unreadable == StreamTooLong \/ (Format = "zip" /\ \E i \in DOMAIN archive : archive[i].dense)

\* A universal archive that could be written is taken by every mirror with the
\* same limits, unless it is Unreadable, and gives it the same tree, whatever
\* the tree has at its top: otherwise the mirror records the version as failing
\* for good (public_mirror_hash_mismatch).
MirrorExact ==
    party = "mirror" => (stage = "refused" => Unreadable) /\ (stage = "staged" => ToSet(entries) = tree)
==============================================================================
