----------------------------- MODULE MCServices -----------------------------
(* Instances of the components beside the store for TLC, one in each behaviour *)
(* ("subject"): the registry of mod/state, the documents that are served, the  *)
(* link to another instance, the archive of a version, the zip of a Go module, *)
(* the download of an archive, and the durable budget.  They share no variable; *)
(* those that are not the subject stay as they began, without what only their  *)
(* own steps read.                                                             *)
EXTENDS StateRegistry, Documents, MirrorLink, ArchiveTree, ModuleZip, Download, Quota

CONSTANTS Subjects, dGlobal, dKey, dVersion, k1, v1
VARIABLE subject
allVars == <<subject, vars, docVars, linkVars, archiveVars, zipVars, downloadVars, quotaVars>>

OneOf(S) == CHOOSE s \in S : TRUE
LinkIdle ==
    /\ linkSetting = Nothing /\ remote = Nothing /\ limit = Nothing /\ mirrored = Nothing /\ refused = Nothing
    /\ at = Nothing /\ via = Nothing /\ session = Nothing /\ walk = Nothing /\ todo = Nothing /\ pull = Nothing
    /\ changes = Nothing /\ faults = Nothing /\ redials = Nothing
    /\ throughout = Nothing /\ deleted = Nothing /\ overruled = FALSE
ArchiveIdle ==
    /\ archiveSetting = Nothing /\ archive = Nothing /\ party = Nothing /\ stage = Nothing /\ position = Nothing
    /\ entries = Nothing /\ blobs = Nothing /\ spool = Nothing /\ tree = Nothing
ZipIdle ==
    /\ zipSetting = OneOf(ZipSettings) /\ files = Nothing /\ zipStage = Nothing /\ rewriteSet = Nothing
    /\ sizes = <<>> /\ contents = <<>> /\ cache = {}
BudgetIdle ==
    /\ quotaSetting = OneOf(QuotaSettings) /\ rows = {} /\ objects = Nothing /\ commits = Nothing
    /\ admission = Nothing /\ adopted = 0
AllInit ==
    /\ subject \in Subjects /\ Init
    /\ DocInit /\ (subject # "documents" => docSetting = OneOf(DocSettings))
    /\ IF subject = "link" THEN LinkInit ELSE LinkIdle
    /\ IF subject = "archive" THEN ArchiveInit ELSE ArchiveIdle
    /\ IF subject = "zip" THEN ZipInit ELSE ZipIdle
    /\ IF subject = "budget" THEN QuotaInit ELSE BudgetIdle
    /\ DownloadInit /\ (subject # "download" => downloadSetting = OneOf(DownloadSettings))

Others(name) ==
    /\ UNCHANGED subject
    /\ name # "state" => UNCHANGED vars
    /\ name # "documents" => UNCHANGED docVars
    /\ name # "link" => UNCHANGED linkVars
    /\ name # "archive" => UNCHANGED archiveVars
    /\ name # "zip" => UNCHANGED zipVars
    /\ name # "download" => UNCHANGED downloadVars
    /\ name # "budget" => UNCHANGED quotaVars
AllNext ==
    \/ subject = "state" /\ Next /\ Others("state")
    \/ subject = "documents" /\ DocNext /\ Others("documents")
    \/ subject = "link" /\ LinkNext /\ Others("link")
    \/ subject = "archive" /\ ArchiveNext /\ Others("archive")
    \/ subject = "zip" /\ ZipNext /\ Others("zip")
    \/ subject = "download" /\ DownloadNext /\ Others("download")
    \/ subject = "budget" /\ QuotaNext /\ Others("budget")

AllSpec == AllInit /\ [][AllNext]_allVars

------------------------------------------------------------------------------
(* The registry: one diagnostic of each scope.                                *)
MCKeyOf == [d \in Diags |-> IF d = dGlobal THEN NoKey ELSE k1]
MCVersionOf == [d \in Diags |-> IF d = dVersion THEN v1 ELSE NoVersion]

(* Documents.                                                                 *)

Doc(docs, faultKinds, publishes) ==
    [doc : docs, about : {2}, history : {TRUE}, faults : {faultKinds}, calms : {FALSE}, publishes : {publishes}]
MCDocSettings ==
    Doc({"catalog", "releases", "detail", "version-page", "p2", "list-full", "feed", "packages"}, {"restart"}, 2)
    \cup Doc({"p2"}, {}, 3)
    \cup Doc({"go-mod"}, {"error"}, 2)
    \cup Doc({"sitemap"}, {"down"}, 2)
    \cup Doc({"go-list", "og-version"}, {"heal"}, 2)
    \cup Doc({"go-info", "key-feed"}, {"verify"}, 2)
    \cup Doc({"archive"}, {"mark"}, 2) \cup Doc({"catalog"}, {"delete", "evict"}, 1)

\* The documents whose ETag stands for their content when a version is
\* overwritten: the answer is the same as long as the ETag is.
MCEtagSettings ==
    [doc : {"detail", "list-full"}, about : {2}, history : {FALSE}, faults : {{"overwrite"}}, calms : {FALSE}, publishes : {3}]

(* The link: three versions on pages of one, two limits of the other side.    *)
MCContents == [x |-> <<1, 2, 3>>, y |-> <<3, 4>>]
MCSizeOf == <<2, 1, 1, 3>>
RemoteRow(t, seq) == [tree |-> t, seq |-> seq]
MCLinkSettings ==
    {[pageSize |-> 1, own |-> [bytes |-> 3, count |-> 2],
      limits |-> {[bytes |-> 2, count |-> 2], [bytes |-> 4, count |-> 1]},
      remote |-> <<RemoteRow("x", 1), RemoteRow("y", 2), RemoteRow("x", 2)>>, mirrored |-> <<Gone, m, "y">>,
      keyset |-> k, changes |-> 2, faults |-> 1, redials |-> 1, seqs |-> 2]
     : m \in {Gone, "x"}, k \in BOOLEAN}

(* Archives: duplicates, parents and links; names and limits, where storage    *)
(* has no room for all that fits them; archives that reach the end of what is  *)
(* read of a tar, and zips that are packed too well.                           *)
HeaderFor(name, type, text) == [name |-> name, type |-> type, content |-> text, extended |-> 0, dense |-> FALSE]
File(name, text) == HeaderFor(name, "file", text)
Symlink(name, text) == HeaderFor(name, "symlink", text)
MCHeaders ==
    [links |-> {File(<<"t", "a">>, <<"x">>), File(<<"t", "a", "b">>, <<"..", "..">>), File(<<"b">>, <<"x">>),
                File(<<"t", ".", "d", "..", "c">>, <<"y">>), Symlink(<<"t", "l">>, <<"a">>),
                Symlink(<<"t", "d", "l">>, <<"..", "..">>), Symlink(<<"t", "m">>, <<"..", "..">>),
                Symlink(<<"t", "l">>, <<"..", "x">>)},
     names |-> {File(<<"t", "a">>, <<"x">>), File(<<"k-1", "a">>, <<"x">>), File(<<"..", "a">>, <<"x">>), File(<<"con">>, <<"x">>),
                File(<<"/", "a">>, <<"x">>), File(<<"a", "b", "c", "d">>, <<"x">>),
                File(<<"a", "b", "c">>, <<"x", "x", "x">>), File(<<"t", "d">>, <<"x", "x", "x", "x">>),
                HeaderFor(<<"t">>, "dir", <<>>), HeaderFor(<<>>, "global", <<>>), HeaderFor(<<"t", "h">>, "other", <<>>),
                Symlink(<<"t", "l">>, <<"/", "x">>)},
     sizes |-> {File(<<"t", "a">>, <<"x">>), File(<<"t", "b">>, <<"x", "x", "x", "x">>), Symlink(<<"t", "l">>, <<"a", "..", "a">>),
                File(<<"t", "d", "c">>, <<"y">>), [File(<<"t", "e">>, <<"x", "x">>) EXCEPT !.dense = TRUE],
                [File(<<"t", "f">>, <<"y", "y">>) EXCEPT !.extended = 6], HeaderFor(<<>>, "global", <<"x">>)}]
MCArchiveSettings ==
    LET Archives(headers, length, fails, longer) ==
            [headers |-> headers, length |-> length, fails |-> fails, longer |-> longer,
             limits |-> [count |-> 4, path |-> 4, file |-> 3, unpacked |-> 6],
             caps |-> [file |-> 4, path |-> 5, object |-> 20, entry |-> 1],
             format |-> [ingest |-> "tar", mirror |-> "tar"],
             tar |-> [block |-> 2, short |-> 9, record |-> 1], dense |-> {}]
    IN  {Archives("links", 4, FALSE, 0), Archives("names", 3, TRUE, 1),
         \* Storage has room for less, in each way.
         [Archives("names", 2, FALSE, 0) EXCEPT !.caps = [file |-> 2, path |-> 5, object |-> 20, entry |-> 1]],
         [Archives("names", 2, FALSE, 0) EXCEPT !.caps = [file |-> 4, path |-> 3, object |-> 20, entry |-> 1]],
         [Archives("links", 3, FALSE, 0) EXCEPT !.caps = [file |-> 4, path |-> 5, object |-> 4, entry |-> 1]],
         \* An archive may be longer than what is read of a tar.
         [Archives("sizes", 2, FALSE, 0) EXCEPT !.limits = [count |-> 1, path |-> 3, file |-> 4, unpacked |-> 4],
             !.format = [ingest |-> "zip", mirror |-> "tar"], !.tar = [block |-> 4, short |-> 9, record |-> 1]],
         [Archives("sizes", 3, FALSE, 1) EXCEPT !.limits = [count |-> 3, path |-> 4, file |-> 4, unpacked |-> 8],
             !.format = [ingest |-> "tar", mirror |-> "tar"], !.tar = [block |-> 3, short |-> 2, record |-> 1]],
         \* A file may be packed too well.
         [Archives("sizes", 3, FALSE, 0) EXCEPT !.limits = [count |-> 3, path |-> 4, file |-> 4, unpacked |-> 8],
             !.format = [ingest |-> "tar", mirror |-> "zip"], !.dense = {<<"x">>}],
         [Archives("sizes", 3, FALSE, 0) EXCEPT !.limits = [count |-> 3, path |-> 4, file |-> 4, unpacked |-> 8],
             !.format = [ingest |-> "zip", mirror |-> "zip"]]}

(* Module zips: every text of up to four characters, three paths of the       *)
(* mirror, and a cache with and without room; trees that are no module.       *)
Texts == UNION {[1 .. n -> {"m", "/", " "}] : n \in 0 .. 4} \cup {<<"m", "/", "m", " ", "m", "/", "m">>}
Source(name, text) == [path |-> <<name>>, mode |-> "file", text |-> text]
GoMod == Source("go.mod", <<" ", "m", "/", "m", " ">>)
MCZipTrees ==
    [texts |-> {{GoMod, Source("x.go", t)} : t \in Texts}
               \cup {{GoMod, Source("x.go", <<"m", "/", "m">>), Source("x.txt", t)} : t \in Texts},
     kinds |-> {{GoMod}, {Source("x.go", <<"m">>)}, {GoMod, Source("composer.json", <<"m">>)},
                {GoMod, [path |-> <<"l">>, mode |-> "symlink", text |-> <<"m">>]}}]
ZipSetting(trees, target, rewrite, budget) ==
    [trees |-> trees, modulePath |-> <<"m", "/", "m">>, target |-> target, rewrite |-> rewrite,
     maxCached |-> 6, budget |-> budget]
MCZipSettings ==
    {ZipSetting("texts", n, TRUE, b) : n \in {<<"h", "/", "k", "k">>, <<"h">>, <<"m", "/", "m">>}, b \in {0, 12}}
    \cup {ZipSetting("kinds", <<"h">>, r, 12) : r \in BOOLEAN}

(* Downloads: two contents, the second above the limit, and one slot.         *)
MCDownloadSettings ==
    {[lengths |-> <<2, 3>>, announced |-> a, validators |-> v, max |-> m, slots |-> 1, attempts |-> 2]
     : a \in BOOLEAN, v \in BOOLEAN, m \in {0, 2}}

(* The budget: trees that share a blob, over two keys; a page of two.         *)
Req(k, v, t) == [key |-> k, version |-> v, tree |-> t]
MCRequests == {Req(1, 1, "a"), Req(1, 1, "b"), Req(1, 2, "c"), Req(1, 3, "d"), Req(2, 1, "b")}
MCBlobsOf == [a |-> {"p", "q"}, b |-> {"q", "s"}, c |-> {"t"}, d |-> {"u"}]
MCBytesOf == [a |-> 1, b |-> 1, c |-> 1, d |-> 1, p |-> 2, q |-> 1, s |-> 2, t |-> 3, u |-> 2]
MCQuotaSettings ==
    LET Budget(total, evictTo, retain, perKey, history) ==
            [max |-> total, evictTo |-> evictTo, retain |-> retain, perKey |-> perKey, history |-> history,
             before |-> <<Req(1, 1, "a"), Req(2, 1, "b")>>]
    IN  {Budget(9, 2, 0, 0, FALSE), Budget(9, 7, 2, 0, TRUE), Budget(10, 2, 1, 1, FALSE), Budget(9, 7, 0, 2, TRUE)}
        \cup {[Budget(0, 0, 0, 0, FALSE) EXCEPT !.before = <<>>]}
==============================================================================
