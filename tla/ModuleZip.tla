------------------------------ MODULE ModuleZip ------------------------------
(* The zip of a Go module (mod/overlay): detection of the module in a stored   *)
(* tree, the rewriting of its path to the path of this mirror, and the build,  *)
(* which asks every file for its size first and opens it later, with the       *)
(* rewritten texts in a cache of limited size.                                 *)
EXTENDS Naturals, FiniteSets, Sequences, SequencesExt, FiniteSetsExt

CONSTANTS
    PathBytes,   \* the characters of a module path, "/" among them; all others end one
    ZipTrees,    \* named sets of trees
    ZipSettings  \* which of them, the module path, the path of the mirror, whether rewriting
                 \* is enabled, and the limits of the cache

ZipFile == [path : Seq(STRING), mode : STRING, text : Seq(STRING)]
\* No two files of a tree have the same path.
ASSUME ZipTreesAssumption ==
    \A z \in DOMAIN ZipTrees : \A t \in ZipTrees[z] :
        IsFiniteSet(t) /\ t \subseteq ZipFile /\ \A f, g \in t : f.path = g.path => f = g
ASSUME ZipSettingsAssumption ==
    ZipSettings \subseteq
        [trees : DOMAIN ZipTrees, modulePath : Seq(STRING) \ {<<>>}, target : Seq(STRING), rewrite : BOOLEAN,
         maxCached : Nat, budget : Nat]

VARIABLES
    files,     \* the files of the tree: path, mode and text
    zipStage,  \* what the build does
    rewriteSet,\* the texts that mention the module path
    sizes,     \* the size each file has declared
    contents,  \* what each file has given
    cache,     \* the texts that are rewritten already
    zipSetting

zipVars == <<files, zipStage, rewriteSet, sizes, contents, cache, zipSetting>>
old == zipSetting.modulePath
new == zipSetting.target

------------------------------------------------------------------------------
(* The text of a file.                                                        *)

Occurs(text, start) == start + Len(old) - 1 <= Len(text) /\ SubSeq(text, start, start + Len(old) - 1) = old
Found(text, pos) == {s \in pos .. Len(text) : Occurs(text, s)}
First(S) == CHOOSE s \in S : \A t \in S : s <= t
\* Mutant of moduleBoundary: only what follows is looked at.
moduleBoundaryAfter(text, start) ==
    LET end == start + Len(old)
    IN  end <= Len(text) => text[end] = "/" \/ text[end] \notin PathBytes
moduleBoundary(text, start) ==
    LET end == start + Len(old)
    IN  /\ start > 1 => text[start - 1] \notin PathBytes
        /\ end <= Len(text) => text[end] = "/" \/ text[end] \notin PathBytes

\* rewriteScan: its text and its size are counted apart.
rewriteContent(text) ==
    LET from[pos \in 1 .. Len(text) + 1] ==
            LET found == Found(text, pos)
            IN  IF found = {} THEN SubSeq(text, pos, Len(text))
                ELSE SubSeq(text, pos, First(found) - 1)
                     \o (IF moduleBoundary(text, First(found)) THEN new ELSE old)
                     \o from[First(found) + Len(old)]
    IN  from[1]
rewrittenSize(text) ==
    LET from[pos \in 1 .. Len(text) + 1] ==
            LET found == Found(text, pos)
            IN  IF found = {} THEN Len(text) - pos + 1
                ELSE First(found) - pos
                     + (IF moduleBoundary(text, First(found)) THEN Len(new) ELSE Len(old))
                     + from[First(found) + Len(old)]
    IN  from[1]
containsModulePath(text) ==
    LET from[pos \in 1 .. Len(text) + 1] ==
            LET found == Found(text, pos)
            IN  found # {} /\ (moduleBoundary(text, First(found)) \/ from[First(found) + 1])
    IN  from[1]

------------------------------------------------------------------------------
(* Detection.                                                                 *)

IsFile(f) == f.mode = "file"
RootGoMod == {f \in files : f.path = <<"go.mod">> /\ IsFile(f)}
isGoSource(f) == Last(f.path) \in {"go.mod", "x.go"}
Composer == \E f \in files : Last(f.path) = "composer.json" /\ IsFile(f)
GoZipBlocked == \E f \in files : ~ IsFile(f)
GoPublishable ==
    /\ RootGoMod # {} /\ ~ Composer
    /\ ~ GoZipBlocked
    /\ new = old \/ zipSetting.rewrite
\* rewritePlan.
Rewriting == zipSetting.rewrite /\ new # old
scanRewriteBlobs == {f.text : f \in {g \in files : IsFile(g) /\ isGoSource(g) /\ containsModulePath(g.text)}}

ZipInit ==
    /\ zipSetting \in ZipSettings
    /\ files \in ZipTrees[zipSetting.trees]
    /\ zipStage = "detect" /\ rewriteSet = {} /\ sizes = <<>> /\ contents = <<>> /\ cache = {}

Detect ==
    /\ zipStage = "detect"
    /\ IF GoPublishable
       THEN zipStage' = "sizes" /\ rewriteSet' = IF Rewriting THEN scanRewriteBlobs ELSE {}
       ELSE zipStage' = "none" /\ UNCHANGED rewriteSet
    /\ UNCHANGED <<files, sizes, contents, cache, zipSetting>>

------------------------------------------------------------------------------
(* The build: x/mod/zip sizes all files before it opens the first.            *)

Files == SetToSeq(files)
SumOfLengths(length) == MapThenSumSet(LAMBDA c : length[c], DOMAIN length)
UsedBytes == SumOfLengths([c \in cache |-> Len(rewriteContent(c))])
FitsCache(text) == rewrittenSize(text) <= zipSetting.maxCached /\ UsedBytes + rewrittenSize(text) <= zipSetting.budget
\* Mutant of Lstat: a file that does not fit in the cache has its old size.
LstatUncached ==
    /\ zipStage = "sizes" /\ Len(sizes) < Len(Files)
    /\ LET text == Files[Len(sizes) + 1].text
           miss == text \in rewriteSet /\ text \notin cache
       IN  /\ cache' = IF miss /\ FitsCache(text) THEN cache \cup {text} ELSE cache
           /\ sizes' = Append(sizes, IF text \in cache' THEN rewrittenSize(text) ELSE Len(text))
    /\ UNCHANGED <<files, zipStage, rewriteSet, contents, zipSetting>>
Lstat ==
    /\ zipStage = "sizes" /\ Len(sizes) < Len(Files)
    /\ LET text == Files[Len(sizes) + 1].text
           miss == text \in rewriteSet /\ text \notin cache
       IN  /\ cache' = IF miss /\ FitsCache(text) THEN cache \cup {text} ELSE cache
           /\ sizes' = Append(sizes, IF text \in rewriteSet THEN rewrittenSize(text) ELSE Len(text))
    /\ UNCHANGED <<files, zipStage, rewriteSet, contents, zipSetting>>
Sized ==
    /\ zipStage = "sizes" /\ Len(sizes) = Len(Files)
    /\ zipStage' = "open"
    /\ UNCHANGED <<files, rewriteSet, sizes, contents, cache, zipSetting>>
Open ==
    /\ zipStage = "open" /\ Len(contents) < Len(Files)
    /\ LET text == Files[Len(contents) + 1].text
       IN  contents' = Append(contents, IF text \in rewriteSet THEN rewriteContent(text) ELSE text)
    /\ UNCHANGED <<files, zipStage, rewriteSet, sizes, cache, zipSetting>>

ZipNext == Detect \/ Lstat \/ Sized \/ Open
ZipSpec == ZipInit /\ [][ZipNext]_zipVars

------------------------------------------------------------------------------
\* What is served as the go.mod of the version (RenderGoMod).
RenderGoMod == LET f == CHOOSE g \in RootGoMod : TRUE IN IF Rewriting THEN rewriteContent(f.text) ELSE f.text

\* Where the text mentions the module: a word of path characters that is the
\* module path, or continues it with "/".
Mentions(text) ==
    {s \in 1 .. Len(text) :
        /\ s = 1 \/ text[s - 1] \notin PathBytes
        /\ Occurs(text, s)
        /\ s + Len(old) > Len(text) \/ text[s + Len(old)] \notin PathBytes \ {"/"}}
Renamed(text) ==
    FlattenSeq([i \in DOMAIN text |->
        IF i \in Mentions(text) THEN new
        ELSE IF \E s \in Mentions(text) : i \in s .. s + Len(old) - 1 THEN <<>> ELSE <<text[i]>>])

\* Every file of the zip is as long as it was declared (x/mod/zip fails
\* otherwise), also when the cache was full; it is the stored text with exactly
\* the mentions of the module renamed, if a Go source of the tree has that
\* text; and the go.mod in the zip is the one that is served beside it. The code
\* counts a size and writes a text in two separate walks over the text.
ZipExact ==
    /\ \A i \in DOMAIN contents :
           LET f == Files[i]
               source == \E g \in files : IsFile(g) /\ isGoSource(g) /\ g.text = f.text
           IN  /\ Len(contents[i]) = sizes[i]
               /\ contents[i] = IF Rewriting /\ source THEN Renamed(f.text) ELSE f.text
               /\ f \in RootGoMod => contents[i] = RenderGoMod
    /\ UsedBytes <= zipSetting.budget
==============================================================================
