----------------------------- MODULE MCProcess -----------------------------
(* Instances for TLC of what must end, or come about: the life of the process, *)
(* and the cache in front of a document.  They share no variable; a behaviour  *)
(* is about one of them ("subject"), and the other stays as it began.          *)
EXTENDS Lifecycle

CONSTANTS Subjects, Releases, Trees, GoTrees, ComposerTrees, NoRow, NotFound, Nothing, FeedSize, DocSettings

VARIABLES
    subject,
    row, events, clock, stats, down, checksum, named, phase, synced, cached, calm, client, pending, docSetting

D == INSTANCE Documents

documents ==
    <<row, events, clock, stats, down, checksum, named, phase, synced, cached, calm, client, pending, docSetting>>
allVars == <<subject, vars, documents>>

ProcessInit ==
    /\ subject \in Subjects
    /\ Init /\ (subject # "life" => life = CHOOSE l \in Lives : TRUE)
    /\ D!DocInit /\ (subject # "documents" => docSetting = CHOOSE d \in DocSettings : TRUE)
Lived(action) == subject = "life" /\ action /\ UNCHANGED <<subject, documents>>
Documented(action) == subject = "documents" /\ action /\ UNCHANGED <<subject, vars>>
ProcessNext == Lived(Next) \/ Documented(D!DocNext)

\* The fairness of Lifecycle and of Documents, each where it is the subject.
ProcessFairness ==
    /\ WF_vars(Lived(Starting \/ Stopping)) /\ WF_vars(Lived(Budgets))
    /\ WF_vars(Lived(CollectorStep)) /\ SF_vars(Lived(CollectorTrigger)) /\ SF_vars(Lived(CycleTrigger))
    /\ \A w \in Workers : WF_vars(Lived(~ life.hangs /\ EndOperation(w)))
    /\ SF_vars(Lived(~ life.hangs /\ CycleEnds))
    /\ WF_documents(Documented(D!Cycle /\ phase' # phase))
    /\ WF_documents(Documented(pending # Nothing /\ D!Serve))
    /\ WF_documents(Documented(D!Expire))
ProcessSpec == ProcessInit /\ [][ProcessNext]_allVars /\ ProcessFairness

\* After the last change the cache comes to hold the present document.
CacheRefreshes == D!CacheRefreshes

(* Requests, cycles, reconciles, sessions; metrics with neither.              *)
MCLives ==
    [works : {{"request", "reconcile"}, {"session"}}, reads : {FALSE}, hangs : BOOLEAN]
    \cup [works : {{}}, reads : {TRUE}, hangs : {FALSE}]

(* Two documents whose ETag misses a change, until nothing changes any more.  *)
MCDocSettings ==
    [doc : {"og-key", "go-mod"}, about : {2}, history : {FALSE}, faults : {{"overwrite"}}, calms : {TRUE}, publishes : {2}]
============================================================================
