---------------------------- MODULE HotArtifacts ----------------------------
(***************************************************************************)
(* EnsureArtifactFile of mod/storage for one artifact: the hot file at its *)
(* canonical path, the builds ("flights") that concurrent readers share,   *)
(* the transient file of a build that is not retained, the reference       *)
(* counts that decide who removes it, and the deferred deletion of a hot   *)
(* file that is being read when the budget or a delete wants it gone.      *)
(*                                                                         *)
(* A process is a reader (one call of EnsureArtifactFile and the use of    *)
(* its result) or the goroutine of a flight.  A step is one critical       *)
(* section of flightMu or hotActiveMu, or one system call on the hot       *)
(* directory; readers and flights take no other lock, except that a flight *)
(* holds writeMu while it renames its file into place and attaches it.     *)
(*                                                                         *)
(* The canonical path names the body hash and the size, and only a body    *)
(* that matched them is renamed to it, so a file there is the right one    *)
(* unless the disk damaged it.  Abstracted: the content, the digests, the  *)
(* build slots and the access times.                                       *)
(***************************************************************************)
EXTENDS Integers, FiniteSets

CONSTANTS
    Readers,      \* concurrent calls of EnsureArtifactFile
    Flights,      \* flight objects; the collector recycles unused ones
    None,         \* no file, no flight
    RetainModes,  \* what shouldRetainArtifact can answer
    Budget,       \* builds of other artifacts enforce the hot budget
    Damages       \* the disk may damage the hot file

ASSUME ConstantsAssumption ==
    /\ Readers \cap Flights = {}
    /\ None \notin Readers \cup Flights
    /\ IsFiniteSet(Readers)
    /\ IsFiniteSet(Flights)
    /\ RetainModes \subseteq BOOLEAN
    /\ Budget \in BOOLEAN
    /\ Damages \in BOOLEAN

VARIABLES
    row,        \* materialized_artifacts: "absent", "nopath", or "path"
    hot,        \* the file at the canonical path: the flight that built it
    bad,        \* the builds whose file at the canonical path was damaged
    transient,  \* the flights whose own unretained file exists
    active,     \* hotActiveObj of the canonical path
    pending,    \* the canonical path is in hotDeleteObj
    flight,     \* flightMap: the flight of this artifact
    waiters,    \* flightObj.waiters
    cancelled,  \* the context of the flight is cancelled
    result,     \* flightObj.result and err: "none", "fail", "kept", "temp"
    refs,       \* hotSharedFileObj.refs of a transient file
    pc,         \* where each process is
    then,       \* where it goes on after releasing or removing a file
    at,         \* the flight a reader joined
    seen        \* the file it looked at, then reads

vars == <<row, hot, bad, transient, active, pending, flight, waiters,
          cancelled, result, refs, pc, then, at, seen>>
files == <<row, hot, bad, transient>>
locks == <<active, pending>>
group == <<flight, waiters, cancelled, result, refs>>

Procs == Readers \cup Flights

Init ==
    /\ row = "nopath"
    /\ hot = None
    /\ bad = {}
    /\ transient = {}
    /\ active = 0
    /\ pending = FALSE
    /\ flight = None
    /\ waiters = [f \in Flights |-> 0]
    /\ cancelled = [f \in Flights |-> FALSE]
    /\ result = [f \in Flights |-> "none"]
    /\ refs = [f \in Flights |-> 0]
    /\ pc = [p \in Procs |-> "idle"]
    /\ then = [p \in Procs |-> "idle"]
    /\ at = [p \in Procs |-> None]
    /\ seen = [p \in Procs |-> None]

\* Process p goes on at l.  A call that returns or turns to a flight forgets
\* its file, and one that returns or reads the canonical file its flight.
Goto(p, l) ==
    /\ pc' = [pc EXCEPT ![p] = l]
    /\ at' = IF l = "idle" \/ (l = "check" /\ result[at[p]] = "kept")
             THEN [at EXCEPT ![p] = None] ELSE at
    /\ seen' = IF l \in {"idle", "join", "build"}
               THEN [seen EXCEPT ![p] = None] ELSE seen

\* ... by way of the release or removal step via.
GotoVia(p, via, l) ==
    /\ pc' = [pc EXCEPT ![p] = via]
    /\ then' = [then EXCEPT ![p] = l]
    /\ UNCHANGED <<at, seen>>

\* ... and from there.
Resume(p) ==
    /\ Goto(p, then[p])
    /\ then' = [then EXCEPT ![p] = "idle"]

\* writeMu is held by a flight between its rename and its UPDATE.
Locked == \E f \in Flights : pc[f] \in {"attachKept", "attachTemp"}

-----------------------------------------------------------------------------
(* openValidHotFile, called by a reader and again by its flight.           *)

Miss(p) == IF p \in Readers THEN "join" ELSE "build"
Fail(p) == IF p \in Readers THEN "idle" ELSE "fail"

EnsureBegin(c) ==
    /\ pc[c] = "idle"
    /\ row # "absent"
    /\ Goto(c, IF row = "path" THEN "lstat" ELSE "join")
    /\ UNCHANGED <<files, locks, group, then>>

Lstat(p) ==
    /\ pc[p] = "lstat"
    /\ pc' = [pc EXCEPT ![p] = IF hot = None THEN Miss(p) ELSE "retain"]
    /\ seen' = [seen EXCEPT ![p] = hot]
    /\ UNCHANGED <<files, locks, group, then, at>>

Retain(p) ==
    /\ pc[p] = "retain"
    /\ active' = active + 1
    /\ Goto(p, "open")
    /\ UNCHANGED <<files, pending, group, then>>

\* The path may be gone, or be another file than the one Lstat saw.
Open(p) ==
    /\ pc[p] = "open"
    /\ IF hot = seen[p]
       THEN Goto(p, "verify") /\ UNCHANGED then
       ELSE GotoVia(p, "release", Miss(p))
    /\ UNCHANGED <<files, locks, group>>

\* A file of the wrong size or hash is discarded: its deletion is left
\* pending, because this process retains the path, and the release does it.
Verify(p) ==
    /\ pc[p] = "verify"
    /\ IF seen[p] \in bad
       THEN /\ GotoVia(p, "release", Miss(p))
            /\ pending' = TRUE
       ELSE /\ IF p \in Readers
               THEN Goto(p, "reading") /\ UNCHANGED then
               ELSE GotoVia(p, "release", "kept")
            /\ UNCHANGED pending
    /\ UNCHANGED <<files, active, group>>

\* An I/O error or the end of the context.
OpenError(p) ==
    /\ pc[p] \in {"open", "verify"}
    /\ GotoVia(p, "release", Fail(p))
    /\ UNCHANGED <<files, locks, group>>

\* The function retainHotPath returns.  The file is removed after hotActiveMu
\* is released, and without writeMu.
Release(p) ==
    /\ pc[p] = "release"
    /\ active' = active - 1
    /\ IF active <= 1 /\ pending
       THEN /\ pending' = FALSE
            /\ pc' = [pc EXCEPT ![p] = "unlink"]
            /\ UNCHANGED <<then, at, seen>>
       ELSE /\ Resume(p)
            /\ UNCHANGED pending
    /\ UNCHANGED <<files, group>>

Unlink(p) ==
    /\ pc[p] = "unlink"
    /\ hot' = None
    /\ Resume(p)
    /\ UNCHANGED <<row, bad, transient, locks, group>>

-----------------------------------------------------------------------------
(* A reader and its flight.                                                *)

\* A flight object nobody refers to, whose file nobody has: a new flight.
Unused(f) ==
    /\ pc[f] = "idle"
    /\ f \notin transient \cup {hot}
    /\ \A p \in Procs : f \notin {at[p], seen[p]}

JoinFlight(c) ==
    /\ pc[c] = "join"
    /\ flight # None
    /\ waiters' = [waiters EXCEPT ![flight] = @ + 1]
    /\ at' = [at EXCEPT ![c] = flight]
    /\ pc' = [pc EXCEPT ![c] = "wait"]
    /\ UNCHANGED <<files, locks, flight, cancelled, result, refs, then, seen>>

StartFlight(c, f) ==
    /\ pc[c] = "join"
    /\ flight = None
    /\ Unused(f)
    /\ flight' = f
    /\ waiters' = [waiters EXCEPT ![f] = 1]
    /\ cancelled' = [cancelled EXCEPT ![f] = FALSE]
    /\ result' = [result EXCEPT ![f] = "none"]
    /\ refs' = [refs EXCEPT ![f] = 0]
    /\ at' = [at EXCEPT ![c] = f]
    /\ pc' = [pc EXCEPT ![c] = "wait", ![f] = "run"]
    /\ UNCHANGED <<files, locks, then, seen>>

JoinCancelled(c) ==
    /\ pc[c] = "join"
    /\ Goto(c, "idle")
    /\ UNCHANGED <<files, locks, group, then>>

\* Mutant: the last waiter also forgets the flight it cancels.
LeaveForgets(c, l) ==
    LET f == at[c]
        last == result[f] = "temp" /\ refs[f] = 1
    IN  /\ waiters' = [waiters EXCEPT ![f] = @ - 1]
        /\ cancelled' = [cancelled EXCEPT ![f] = @ \/ (result[f] = "none" /\ waiters[f] = 1)]
        /\ refs' = IF result[f] = "temp" THEN [refs EXCEPT ![f] = @ - 1] ELSE refs
        /\ flight' = IF result[f] = "none" /\ waiters[f] = 1 THEN None ELSE flight
        /\ IF last THEN GotoVia(c, "cleanup", l) ELSE Goto(c, l) /\ UNCHANGED then
        /\ UNCHANGED <<files, locks, result>>

\* leaveArtifactFlight: the last waiter cancels an unfinished build; the last
\* reference to a finished transient file removes it.
Leave(c, l) ==
    LET f == at[c]
        last == result[f] = "temp" /\ refs[f] = 1
    IN  /\ waiters' = [waiters EXCEPT ![f] = @ - 1]
        /\ cancelled' = [cancelled EXCEPT ![f] = @ \/ (result[f] = "none" /\ waiters[f] = 1)]
        /\ refs' = IF result[f] = "temp" THEN [refs EXCEPT ![f] = @ - 1] ELSE refs
        /\ IF last THEN GotoVia(c, "cleanup", l) ELSE Goto(c, l) /\ UNCHANGED then
        /\ UNCHANGED <<files, locks, flight, result>>

\* The caller's context ends before or while the flight does.
WaitCancelled(c) ==
    /\ pc[c] = "wait"
    /\ Leave(c, "idle")

WaitFailed(c) ==
    /\ pc[c] = "wait"
    /\ result[at[c]] = "fail"
    /\ Leave(c, "idle")

WaitDone(c) ==
    /\ pc[c] = "wait"
    /\ result[at[c]] \in {"kept", "temp"}
    /\ Goto(c, IF result[at[c]] = "kept" THEN "sharedRetain" ELSE "sharedOpen")
    /\ UNCHANGED <<files, locks, group, then>>

\* Mutant: the reader opens the shared file without retaining it.
SharedRetainUncounted(c) ==
    /\ pc[c] = "sharedRetain"
    /\ Goto(c, "sharedOpen")
    /\ UNCHANGED <<files, locks, group, then>>

\* hotFileObj: a retained file is retained again by this reader ...
SharedRetain(c) ==
    /\ pc[c] = "sharedRetain"
    /\ active' = active + 1
    /\ Goto(c, "sharedOpen")
    /\ UNCHANGED <<files, pending, group, then>>

\* ... and opened; a transient one is opened and counted.
SharedOpenKept(c) ==
    /\ pc[c] = "sharedOpen"
    /\ result[at[c]] = "kept"
    /\ IF hot # None
       THEN /\ pc' = [pc EXCEPT ![c] = "leaveOpen"]
            /\ seen' = [seen EXCEPT ![c] = hot]
            /\ UNCHANGED <<then, at>>
       ELSE GotoVia(c, "release", "leaveFailed")
    /\ UNCHANGED <<files, locks, group>>

SharedOpenTemp(c) ==
    /\ pc[c] = "sharedOpen"
    /\ result[at[c]] = "temp"
    /\ IF at[c] \in transient
       THEN /\ Goto(c, "leaveOpen")
            /\ refs' = [refs EXCEPT ![at[c]] = @ + 1]
       ELSE /\ Goto(c, "leaveFailed")
            /\ UNCHANGED refs
    /\ UNCHANGED <<files, locks, flight, waiters, cancelled, result, then>>

LeaveOpen(c) == pc[c] = "leaveOpen" /\ Leave(c, "check")
LeaveFailed(c) == pc[c] = "leaveFailed" /\ Leave(c, "idle")

\* validateSharedHotFile.
Check(c) ==
    /\ pc[c] = "check"
    /\ IF at[c] = None /\ seen[c] \in bad
       THEN /\ pending' = TRUE
            /\ GotoVia(c, "release", "idle")
       ELSE /\ Goto(c, "reading")
            /\ UNCHANGED <<pending, then>>
    /\ UNCHANGED <<files, active, group>>

\* The reader is done with the file (or was cancelled just before it got it).
ReadsTemp(c) == at[c] # None

CloseHot(c) ==
    /\ pc[c] = "reading"
    /\ ~ ReadsTemp(c)
    /\ GotoVia(c, "release", "idle")
    /\ UNCHANGED <<files, locks, group>>

CloseTemp(c) ==
    /\ pc[c] = "reading"
    /\ ReadsTemp(c)
    /\ refs' = [refs EXCEPT ![at[c]] = @ - 1]
    /\ IF refs[at[c]] = 1
       THEN GotoVia(c, "cleanup", "idle")
       ELSE Goto(c, "idle") /\ UNCHANGED then
    /\ UNCHANGED <<files, locks, flight, waiters, cancelled, result>>

\* cleanupUnused: the transient file is removed.
Cleanup(p) ==
    /\ pc[p] = "cleanup"
    /\ transient' = transient \ {IF p \in Readers THEN at[p] ELSE p}
    /\ Resume(p)
    /\ UNCHANGED <<row, hot, bad, locks, group>>

-----------------------------------------------------------------------------
(* The goroutine of a flight: buildArtifactFlight and buildHotFile.        *)

RunFlight(f) ==
    /\ pc[f] = "run"
    /\ Goto(f, CASE row = "absent" -> "fail"
                 [] row = "nopath" -> "build"
                 [] row = "path"   -> "lstat")
    /\ UNCHANGED <<files, locks, group, then>>

\* Mutant: a failed build ends without finishing its flight.
BuildFailedSilently(f) ==
    /\ pc[f] \in {"run", "build"}
    /\ Goto(f, "idle")
    /\ UNCHANGED <<files, locks, group, then>>

\* Storage is closed, the builder fails or stalls, the hash differs, or the
\* flight was cancelled.
BuildFailed(f) ==
    /\ pc[f] \in {"run", "build"}
    /\ Goto(f, "fail")
    /\ UNCHANGED <<files, locks, group, then>>

\* Under writeMu the file is renamed into place ...
BuildKept(f) ==
    /\ pc[f] = "build"
    /\ TRUE \in RetainModes
    /\ ~ cancelled[f]
    /\ hot' = f
    /\ bad' = bad \ {f}
    /\ Goto(f, "attachKept")
    /\ UNCHANGED <<row, transient, locks, group, then>>

BuildTemp(f) ==
    /\ pc[f] = "build"
    /\ FALSE \in RetainModes
    /\ ~ cancelled[f]
    /\ transient' = transient \cup {f}
    /\ Goto(f, "attachTemp")
    /\ UNCHANGED <<row, hot, bad, locks, group, then>>

\* ... the budget is enforced around it, and the row is updated; a failure
\* removes the file again.
AttachKept(f) ==
    /\ pc[f] = "attachKept"
    /\ row # "absent"
    /\ row' = "path"
    /\ Goto(f, "kept")
    /\ UNCHANGED <<hot, bad, transient, locks, group, then>>

AttachTemp(f) ==
    /\ pc[f] = "attachTemp"
    /\ row # "absent"
    /\ row' = "nopath"
    /\ Goto(f, "temp")
    /\ UNCHANGED <<hot, bad, transient, locks, group, then>>

AttachFailed(f) ==
    /\ pc[f] \in {"attachKept", "attachTemp"}
    /\ hot' = IF pc[f] = "attachKept" THEN None ELSE hot
    /\ transient' = transient \ {f}
    /\ Goto(f, "fail")
    /\ UNCHANGED <<row, bad, locks, group, then>>

\* Mutant: the file of a build nobody waits for any more is left alone.
FinishFlightLeaks(f) ==
    /\ pc[f] \in {"kept", "temp", "fail"}
    /\ result' = [result EXCEPT ![f] = pc[f]]
    /\ flight' = IF flight = f THEN None ELSE flight
    /\ refs' = IF pc[f] = "temp" THEN [refs EXCEPT ![f] = @ + waiters[f]] ELSE refs
    /\ Goto(f, "idle")
    /\ UNCHANGED <<files, locks, waiters, cancelled, then>>

\* Mutant: the waiters are not counted, only the readers that opened the file.
FinishFlightUncounted(f) ==
    /\ pc[f] \in {"kept", "temp", "fail"}
    /\ result' = [result EXCEPT ![f] = pc[f]]
    /\ flight' = IF flight = f THEN None ELSE flight
    /\ IF pc[f] = "temp" /\ waiters[f] = 0
       THEN GotoVia(f, "cleanup", "idle")
       ELSE Goto(f, "idle") /\ UNCHANGED then
    /\ UNCHANGED <<files, locks, waiters, cancelled, refs>>

\* finishArtifactFlight: every waiter counts as a reference to a transient
\* file; without any, the file is removed at once.
FinishFlight(f) ==
    /\ pc[f] \in {"kept", "temp", "fail"}
    /\ result' = [result EXCEPT ![f] = pc[f]]
    /\ flight' = IF flight = f THEN None ELSE flight
    /\ refs' = IF pc[f] = "temp" THEN [refs EXCEPT ![f] = @ + waiters[f]] ELSE refs
    /\ IF pc[f] = "temp" /\ waiters[f] = 0
       THEN GotoVia(f, "cleanup", "idle")
       ELSE Goto(f, "idle") /\ UNCHANGED then
    /\ UNCHANGED <<files, locks, waiters, cancelled>>

-----------------------------------------------------------------------------
(* Others under writeMu, and the disk.                                     *)

\* Mutant: the deletion is deferred whether or not the file is in use.
RemoveHotAlwaysDeferred ==
    /\ pending' = TRUE
    /\ UNCHANGED hot

\* markHotDeletePending, or the removal if nobody reads the file.
RemoveHot ==
    /\ pending' = (pending \/ active > 0)
    /\ hot' = IF active > 0 THEN hot ELSE None

\* DeleteVersion or DeleteArtifact: the row goes, then its file.
DeleteArtifact ==
    /\ ~ Locked
    /\ row # "absent"
    /\ row' = "absent"
    /\ IF row = "path" THEN RemoveHot ELSE UNCHANGED <<pending, hot>>
    /\ UNCHANGED <<bad, transient, active, group, pc, then, at, seen>>

\* The version is published again with the same content.
Republish ==
    /\ ~ Locked
    /\ row = "absent"
    /\ row' = "nopath"
    /\ UNCHANGED <<hot, bad, transient, locks, group, pc, then, at, seen>>

\* Another artifact's build makes room: enforceHotBudgetProtectedLocked walks
\* the whole hot directory, transient files included.
EvictHot ==
    /\ Budget
    /\ ~ Locked
    /\ hot # None
    /\ RemoveHot
    /\ UNCHANGED <<row, bad, transient, active, group, pc, then, at, seen>>

EvictTransient(f) ==
    /\ Budget
    /\ ~ Locked
    /\ f \in transient
    /\ transient' = transient \ {f}
    /\ UNCHANGED <<row, hot, bad, locks, group, pc, then, at, seen>>

Damage ==
    /\ Damages
    /\ hot \notin bad \cup {None}
    /\ bad' = bad \cup {hot}
    /\ UNCHANGED <<row, hot, transient, locks, group, pc, then, at, seen>>

-----------------------------------------------------------------------------
OpenStep(p) ==
    Lstat(p) \/ Retain(p) \/ Open(p) \/ Verify(p) \/ OpenError(p)
    \/ Release(p) \/ Unlink(p) \/ Cleanup(p)

ReaderStep(c) ==
    \/ OpenStep(c)
    \/ JoinFlight(c)
    \/ \E f \in Flights : StartFlight(c, f)
    \/ WaitFailed(c)
    \/ WaitDone(c)
    \/ SharedRetain(c)
    \/ SharedOpenKept(c)
    \/ SharedOpenTemp(c)
    \/ LeaveOpen(c)
    \/ LeaveFailed(c)
    \/ Check(c)
    \/ CloseHot(c)
    \/ CloseTemp(c)

ClientCancels(c) == JoinCancelled(c) \/ WaitCancelled(c)

FlightStep(f) ==
    \/ OpenStep(f)
    \/ RunFlight(f)
    \/ BuildFailed(f)
    \/ BuildKept(f)
    \/ BuildTemp(f)
    \/ AttachKept(f)
    \/ AttachTemp(f)
    \/ AttachFailed(f)
    \/ FinishFlight(f)

Next ==
    \/ \E c \in Readers : EnsureBegin(c) \/ ReaderStep(c) \/ ClientCancels(c)
    \/ \E f \in Flights : FlightStep(f) \/ EvictTransient(f)
    \/ DeleteArtifact
    \/ Republish
    \/ EvictHot
    \/ Damage

Spec == Init /\ [][Next]_vars

\* Goroutines run, the handler closes the file it was given, and a select on
\* doneChan fires; nothing obliges a client to cancel.
Fairness ==
    /\ \A c \in Readers : WF_vars(ReaderStep(c))
    /\ \A f \in Flights : WF_vars(FlightStep(f))

FairSpec == Spec /\ Fairness

-----------------------------------------------------------------------------
(* Properties.                                                             *)

Labels == {"idle", "lstat", "retain", "open", "verify", "release", "unlink",
           "cleanup", "join", "wait", "sharedRetain", "sharedOpen", "leaveOpen",
           "leaveFailed", "check", "reading", "run", "build", "attachKept",
           "attachTemp", "kept", "temp", "fail"}

\* Every variable keeps its type: the counts of hotActiveObj, waiters and
\* refs never go below zero.
TypeOK ==
    /\ row \in {"absent", "nopath", "path"}
    /\ hot \in Flights \cup {None}
    /\ bad \subseteq Flights
    /\ transient \subseteq Flights
    /\ active \in Nat
    /\ pending \in BOOLEAN
    /\ flight \in Flights \cup {None}
    /\ waiters \in [Flights -> Nat]
    /\ cancelled \in [Flights -> BOOLEAN]
    /\ result \in [Flights -> {"none", "fail", "kept", "temp"}]
    /\ refs \in [Flights -> Nat]
    /\ pc \in [Procs -> Labels]
    /\ then \in [Procs -> Labels]
    /\ at \in [Procs -> Flights \cup {None}]
    /\ seen \in [Procs -> Flights \cup {None}]

\* A deletion deferred by markHotDeletePending is carried out by whoever still
\* retains the path: hotDeleteObj never keeps a path that nobody will release.
PendingHeld == pending => active > 0

\* The waiters of a flight: the readers that joined it and have not left.
Waits(c, f) ==
    /\ at[c] = f
    /\ pc[c] \in {"wait", "sharedRetain", "sharedOpen", "leaveOpen", "leaveFailed",
                 "release", "unlink"}

\* The transient file of a finished flight is there as long as a waiter may
\* still open it: no reader that comes first and closes it, no waiter that
\* gives up, removes it under the others (hotSharedFileObj.refs).
TransientKept ==
    ~ Budget => \A c \in Readers, f \in Flights :
        Waits(c, f) /\ result[f] = "temp" => f \in transient

\* A transient file never outlives its use: whoever is last removes it.
TransientOwned ==
    \A f \in transient :
        \/ pc[f] \in {"attachTemp", "temp", "cleanup"}
        \/ \E c \in Readers : at[c] = f

\* The flight is looking for the file or building it.
Running(f) == pc[f] \notin {"idle", "cleanup"}

\* Concurrent readers share one build ("Singleflight shares builds by identity
\* so concurrent readers do not rebuild the same artifact", artifact.go).
OneBuild == \A f, g \in Flights : Running(f) /\ Running(g) => f = g

\* A reader that joined a flight gets its answer whatever the flight, the
\* other readers and the budget do, and lets go of its transient file.
FlightsAnswer == \A c \in Readers : at[c] # None ~> at[c] = None

\* A reader is failed neither by the clients that gave up before it came nor by
\* whoever removes the file just built ("EnsureArtifactFile returns a valid
\* materialized hot file or builds it", artifact.go): the flight it waits for is
\* not a cancelled one, and a result is still there when its waiter opens it.
EnsureServes ==
    \A c \in Readers : /\ pc[c] = "wait" /\ result[at[c]] = "none" => ~ cancelled[at[c]]
                       /\ pc[c] # "leaveFailed"
=============================================================================
