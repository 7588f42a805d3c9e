------------------------- MODULE HotArtifactsProofs -------------------------
(***************************************************************************)
(* Proofs about HotArtifacts, for any number of readers and flights: the   *)
(* three counters are exact (hotActiveObj, waiters, refs), and from this   *)
(* that a deferred deletion always has somebody to carry it out, that a    *)
(* transient file is there while a waiter may open it and gone when nobody *)
(* can, and that at most one flight runs.                                  *)
(***************************************************************************)
EXTENDS HotArtifacts, FiniteSetTheorems, TLAPS

-----------------------------------------------------------------------------
(* The inductive invariant.                                                *)

ReaderLabels == {"idle", "lstat", "retain", "open", "verify", "release", "unlink",
                 "cleanup", "join", "wait", "sharedRetain", "sharedOpen",
                 "leaveOpen", "leaveFailed", "check", "reading"}
FlightLabels == {"idle", "lstat", "retain", "open", "verify", "release", "unlink",
                 "cleanup", "run", "build", "attachKept", "attachTemp", "kept",
                 "temp", "fail"}

\* TypeOK, but the counters may be any integers.
Shape ==
    /\ row \in {"absent", "nopath", "path"}
    /\ hot \in Flights \cup {None}
    /\ bad \subseteq Flights
    /\ transient \subseteq Flights
    /\ active \in Int
    /\ pending \in BOOLEAN
    /\ flight \in Flights \cup {None}
    /\ waiters \in [Flights -> Int]
    /\ cancelled \in [Flights -> BOOLEAN]
    /\ result \in [Flights -> {"none", "fail", "kept", "temp"}]
    /\ refs \in [Flights -> Int]
    /\ pc \in [Procs -> Labels]
    /\ then \in [Procs -> Labels]
    /\ at \in [Procs -> Flights \cup {None}]
    /\ seen \in [Procs -> Flights \cup {None}]

\* Where a reader can be with the flight it joined, and how that ended.
ReaderCtl(c) ==
    /\ pc[c] \in ReaderLabels
    /\ pc[c] \in {"idle", "lstat", "retain", "open", "verify", "join"} => at[c] = None
    /\ pc[c] = "wait" => at[c] # None
    /\ pc[c] = "sharedRetain" => at[c] # None /\ result[at[c]] = "kept"
    /\ pc[c] \in {"sharedOpen", "leaveOpen", "leaveFailed"} =>
          at[c] # None /\ result[at[c]] \in {"kept", "temp"}
    /\ pc[c] = "cleanup" =>
          at[c] # None /\ result[at[c]] = "temp" /\ then[c] \in {"idle", "check"}
    /\ pc[c] \in {"check", "reading"} /\ at[c] # None => result[at[c]] = "temp"
    /\ pc[c] \in {"release", "unlink"} =>
          IF at[c] = None THEN then[c] \in {"join", "idle"}
          ELSE then[c] = "leaveFailed" /\ result[at[c]] = "kept"

\* A running flight is the one in flightMap, and has no result yet.
FlightCtl(f) ==
    /\ pc[f] \in FlightLabels
    /\ at[f] = None
    /\ pc[f] \in {"release", "unlink"} => then[f] \in {"build", "fail", "kept"}
    /\ pc[f] = "cleanup" => then[f] = "idle" /\ result[f] = "temp"
    /\ Running(f) => flight = f /\ result[f] = "none"
    /\ flight = f => Running(f)

Control ==
    /\ Shape
    /\ \A c \in Readers : ReaderCtl(c)
    /\ \A f \in Flights : FlightCtl(f)

\* The processes that retain the canonical path.
Holds(p) ==
    \/ pc[p] \in {"open", "verify", "release"}
    \/ pc[p] \in {"sharedOpen", "leaveOpen"} /\ result[at[p]] = "kept"
    \/ pc[p] \in {"check", "reading"} /\ at[p] = None

\* The readers that have the transient file of flight f open.
Reads(c, f) ==
    at[c] = f /\ result[f] = "temp" /\ pc[c] \in {"leaveOpen", "check", "reading"}

Holders == {p \in Procs : Holds(p)}
Waiters(f) == {c \in Readers : Waits(c, f)}
Openers(f) == {c \in Readers : Reads(c, f)}

\* hotActiveObj counts the processes that retain the path, waiters the
\* readers that joined and did not leave, refs the waiters and the readers of
\* a transient file; whoever is about to remove the file was the last.
Exact ==
    /\ active = Cardinality(Holders)
    /\ \A f \in Flights : waiters[f] = Cardinality(Waiters(f))
    /\ \A f \in Flights :
          refs[f] = IF result[f] = "temp" THEN waiters[f] + Cardinality(Openers(f)) ELSE 0
    /\ \A c \in Readers : pc[c] = "cleanup" => refs[at[c]] = 0 /\ then[c] = "idle"
    /\ \A f \in Flights : pc[f] = "cleanup" => refs[f] = 0

\* A transient file belongs to its flight or to a reader of its result ...
Owned ==
    \A f \in transient :
        \/ pc[f] \in {"attachTemp", "temp", "cleanup"}
        \/ result[f] = "temp" /\ \E c \in Readers : at[c] = f

\* ... and is there until the last of them removes it.
Kept ==
    ~ Budget => \A f \in Flights :
        /\ pc[f] \in {"attachTemp", "temp"} => f \in transient
        /\ result[f] = "temp" /\ refs[f] > 0 => f \in transient

HotInv == Control /\ Exact /\ PendingHeld /\ Owned /\ Kept

-----------------------------------------------------------------------------
(* Steps are local: they move one process.                                 *)

\* The other processes stay where they are.
Local(p) ==
    \A q \in Procs \ {p} : pc'[q] = pc[q] /\ then'[q] = then[q] /\ at'[q] = at[q]

\* What Goto does.
LEMMA GotoStep ==
    ASSUME Shape, NEW p \in Procs, NEW l \in Labels, Goto(p, l)
    PROVE  /\ pc' \in [Procs -> Labels]
           /\ at' \in [Procs -> Flights \cup {None}]
           /\ seen' \in [Procs -> Flights \cup {None}]
           /\ pc'[p] = l
           /\ at'[p] = IF l = "idle" \/ (l = "check" /\ result[at[p]] = "kept")
                       THEN None ELSE at[p]
           /\ \A q \in Procs \ {p} : pc'[q] = pc[q] /\ at'[q] = at[q]
BY DEF Shape, Goto

\* What GotoVia does.
LEMMA GotoViaStep ==
    ASSUME Shape, NEW p \in Procs, NEW via \in Labels, NEW l \in Labels, GotoVia(p, via, l)
    PROVE  /\ pc' \in [Procs -> Labels] /\ then' \in [Procs -> Labels]
           /\ at' = at /\ seen' = seen
           /\ pc'[p] = via /\ then'[p] = l
           /\ Local(p)
BY DEF Shape, GotoVia, Local

\* What Resume does.
LEMMA ResumeStep ==
    ASSUME Shape, NEW p \in Procs, Resume(p)
    PROVE  /\ pc' \in [Procs -> Labels] /\ then' \in [Procs -> Labels]
           /\ at' \in [Procs -> Flights \cup {None}]
           /\ seen' \in [Procs -> Flights \cup {None}]
           /\ pc'[p] = then[p] /\ then'[p] = "idle"
           /\ at'[p] = IF then[p] = "idle" \/ (then[p] = "check" /\ result[at[p]] = "kept")
                       THEN None ELSE at[p]
           /\ Local(p)
<1>1. then[p] \in Labels /\ Goto(p, then[p])
  BY DEF Shape, Resume
<1>2. then' = [then EXCEPT ![p] = "idle"] /\ "idle" \in Labels
  BY DEF Resume, Labels
<1> HIDE DEF Goto
<1> QED
  BY <1>1, <1>2, GotoStep DEF Local, Shape

\* A step of reader c that changes no result and no flight.
LEMMA ReaderControl ==
    ASSUME Control, NEW c \in Readers, Shape', Local(c), ReaderCtl(c)',
           result' = result, flight' = flight
    PROVE  Control'
<1>1. ASSUME NEW d \in Readers
      PROVE  ReaderCtl(d)'
  BY <1>1 DEF Control, ReaderCtl, Local, Procs
<1>2. ASSUME NEW f \in Flights
      PROVE  FlightCtl(f)'
  BY <1>2, ConstantsAssumption DEF Control, FlightCtl, Running, Local, Procs
<1> QED
  BY <1>1, <1>2 DEF Control

\* A step of flight g that changes no result and no flight.
LEMMA FlightControl ==
    ASSUME Control, NEW g \in Flights, Shape', Local(g), FlightCtl(g)',
           result' = result, flight' = flight
    PROVE  Control'
<1>1. ASSUME NEW d \in Readers
      PROVE  ReaderCtl(d)'
  BY <1>1, ConstantsAssumption DEF Control, ReaderCtl, Local, Procs
<1>2. ASSUME NEW f \in Flights
      PROVE  FlightCtl(f)'
  BY <1>2 DEF Control, FlightCtl, Running, Local, Procs
<1> QED
  BY <1>1, <1>2 DEF Control

\* A step of openValidHotFile or of the removal of a file.
LEMMA OpenStepControl ==
    ASSUME Control, NEW p \in Procs, OpenStep(p)
    PROVE  /\ Control'
           /\ Local(p)
           /\ UNCHANGED group
<1> DEFINE Ctl == /\ p \in Readers => ReaderCtl(p)'
                  /\ p \in Flights => FlightCtl(p)'
<1> USE DEF Miss, Fail
<1>0. /\ Shape
      /\ p \in Readers => ReaderCtl(p) /\ p \notin Flights
      /\ p \in Flights => FlightCtl(p) /\ p \notin Readers
      /\ p \in Readers \/ p \in Flights
  BY ConstantsAssumption DEF Control, Procs
<1>1. CASE Lstat(p)
  <2>1. Shape' /\ Local(p) /\ UNCHANGED group
    BY <1>0, <1>1 DEF Lstat, Shape, Local, Labels, files, locks, group
  <2>2. Ctl
    BY <1>0, <1>1 DEF Lstat, Shape, ReaderCtl, FlightCtl, Running, ReaderLabels, FlightLabels,
                      group
  <2> QED
    BY <1>0, <2>1, <2>2, ReaderControl, FlightControl DEF group
<1>2. CASE Retain(p)
  <2>1. pc[p] = "retain" /\ "open" \in Labels /\ Goto(p, "open")
    BY <1>2 DEF Retain, Labels
  <2>2. Shape' /\ Local(p) /\ UNCHANGED group /\ pc'[p] = "open" /\ at'[p] = at[p]
    BY <1>0, <1>2, <2>1, GotoStep DEF Retain, Shape, Local, files, group
  <2>3. Ctl
    BY <1>0, <2>1, <2>2 DEF ReaderCtl, FlightCtl, Running, ReaderLabels, FlightLabels, group
  <2> QED
    BY <1>0, <2>2, <2>3, ReaderControl, FlightControl DEF group
<1>3. CASE Open(p) /\ hot = seen[p]
  <2>1. pc[p] = "open" /\ "verify" \in Labels /\ Goto(p, "verify")
    BY <1>3 DEF Open, Labels
  <2>2. Shape' /\ Local(p) /\ UNCHANGED group /\ pc'[p] = "verify" /\ at'[p] = at[p]
    BY <1>0, <1>3, <2>1, GotoStep DEF Open, Shape, Local, files, locks, group
  <2>3. Ctl
    BY <1>0, <2>1, <2>2 DEF ReaderCtl, FlightCtl, Running, ReaderLabels, FlightLabels, group
  <2> QED
    BY <1>0, <2>2, <2>3, ReaderControl, FlightControl DEF group
<1>4. ASSUME NEW l \in {"join", "build", "idle", "fail", "kept"}, GotoVia(p, "release", l),
             pc[p] \in {"open", "verify"},
             l \in (IF p \in Readers THEN {"join", "idle"} ELSE {"build", "fail", "kept"}),
             pending' \in BOOLEAN, UNCHANGED <<files, active, group>>
      PROVE  Control' /\ Local(p) /\ UNCHANGED group
  <2>1. "release" \in Labels /\ l \in Labels
    BY <1>4 DEF Labels
  <2>2. /\ pc' \in [Procs -> Labels] /\ then' \in [Procs -> Labels]
        /\ at' = at /\ seen' = seen /\ pc'[p] = "release" /\ then'[p] = l /\ Local(p)
    BY <1>0, <1>4, <2>1, GotoViaStep
  <2>3. Shape'
    BY <1>0, <1>4, <2>2 DEF Shape, files, group
  <2>4. Ctl
    BY <1>0, <1>4, <2>2 DEF ReaderCtl, FlightCtl, Running, ReaderLabels, FlightLabels, group
  <2> QED
    BY <1>0, <1>4, <2>2, <2>3, <2>4, ReaderControl, FlightControl DEF group
<1>5. CASE Open(p) /\ hot # seen[p]
  BY <1>0, <1>4, <1>5 DEF Open, locks, Shape
<1>6. CASE Verify(p) /\ (seen[p] \in bad \/ p \in Flights)
  BY <1>0, <1>4, <1>6 DEF Verify, Shape
<1>7. CASE Verify(p) /\ seen[p] \notin bad /\ p \in Readers
  <2>1. pc[p] = "verify" /\ "reading" \in Labels /\ Goto(p, "reading")
    BY <1>7 DEF Verify, Labels
  <2>2. Shape' /\ Local(p) /\ UNCHANGED group /\ pc'[p] = "reading" /\ at'[p] = at[p]
    BY <1>0, <1>7, <2>1, GotoStep DEF Verify, Shape, Local, files, group
  <2>3. Ctl
    BY <1>0, <1>7, <2>1, <2>2 DEF ReaderCtl, ReaderLabels, group
  <2> QED
    BY <1>0, <1>7, <2>2, <2>3, ReaderControl DEF group
<1>8. CASE OpenError(p)
  BY <1>0, <1>4, <1>8 DEF OpenError, locks, Shape
<1>9. CASE Release(p) /\ active <= 1 /\ pending
  <2>0. /\ pc' = [pc EXCEPT ![p] = "unlink"] /\ active' = active - 1 /\ pending' = FALSE
        /\ pc[p] = "release" /\ UNCHANGED <<files, group, then, at, seen>>
    BY <1>9 DEF Release
  <2>1. Local(p) /\ pc'[p] = "unlink" /\ pc' \in [Procs -> Labels] /\ active' \in Int
    BY <1>0, <2>0 DEF Shape, Local, Labels
  <2>3. pending' \in BOOLEAN
    BY <2>0
  <2>4. Shape'
    BY <1>0, <2>0, <2>1, <2>3 DEF Shape, files, group
  <2>2. Ctl
    BY <1>0, <2>0, <2>1 DEF ReaderCtl, FlightCtl, Running, ReaderLabels, FlightLabels, group
  <2> QED
    BY <1>0, <2>0, <2>1, <2>2, <2>4, ReaderControl, FlightControl DEF group
<1>10. ASSUME Resume(p), pc[p] \in {"release", "unlink", "cleanup"}, UNCHANGED group,
              row' \in {"absent", "nopath", "path"}, hot' \in Flights \cup {None},
              bad' \subseteq Flights, transient' \subseteq Flights, active' \in Int,
              pending' \in BOOLEAN
       PROVE  Control' /\ Local(p) /\ UNCHANGED group
  <2>1. /\ pc' \in [Procs -> Labels] /\ then' \in [Procs -> Labels]
        /\ at' \in [Procs -> Flights \cup {None}]
        /\ seen' \in [Procs -> Flights \cup {None}]
        /\ pc'[p] = then[p] /\ then'[p] = "idle"
        /\ at'[p] = IF then[p] = "idle" \/ (then[p] = "check" /\ result[at[p]] = "kept")
                    THEN None ELSE at[p]
        /\ Local(p)
    BY <1>0, <1>10, ResumeStep
  <2>2. Shape'
    BY <1>0, <1>10, <2>1 DEF Shape, group
  <2>3. Ctl
    BY <1>0, <1>10, <2>1 DEF ReaderCtl, FlightCtl, Running, ReaderLabels, FlightLabels, group
  <2> QED
    BY <1>0, <1>10, <2>1, <2>2, <2>3, ReaderControl, FlightControl DEF group
<1>11. CASE Release(p) /\ ~ (active <= 1 /\ pending)
  BY <1>0, <1>10, <1>11 DEF Release, Shape, files
<1>12. CASE Unlink(p)
  BY <1>0, <1>10, <1>12 DEF Unlink, Shape, locks
<1>13. CASE Cleanup(p)
  BY <1>0, <1>10, <1>13 DEF Cleanup, Shape, locks
<1> QED
  BY <1>0, <1>1, <1>2, <1>3, <1>5, <1>6, <1>7, <1>8, <1>9, <1>11, <1>12, <1>13 DEF OpenStep

\* leaveArtifactFlight, whatever comes after it.
LEMMA LeaveControl ==
    ASSUME Control, NEW c \in Readers, NEW l \in {"idle", "check"}, Leave(c, l),
           pc[c] \in {"wait", "leaveOpen", "leaveFailed"},
           l = "check" => pc[c] = "leaveOpen"
    PROVE  /\ Control'
           /\ Local(c)
           /\ UNCHANGED <<flight, result>>
           /\ pc'[c] = IF result[at[c]] = "temp" /\ refs[at[c]] = 1 THEN "cleanup" ELSE l
           /\ at'[c] = IF pc'[c] = "cleanup" \/ (l = "check" /\ result[at[c]] = "temp")
                       THEN at[c] ELSE None
           /\ pc'[c] = "cleanup" => then'[c] = l
<1>0. Shape /\ ReaderCtl(c) /\ c \in Procs /\ at[c] \in Flights
  BY DEF Control, Procs, ReaderCtl, Shape
<1>1. /\ waiters' \in [Flights -> Int] /\ refs' \in [Flights -> Int]
      /\ cancelled' \in [Flights -> BOOLEAN]
  BY <1>0 DEF Leave, Shape
<1>2. UNCHANGED <<files, locks, flight, result>>
  BY DEF Leave
<1>3. "cleanup" \in Labels /\ l \in Labels
  BY DEF Labels
<1>4. CASE result[at[c]] = "temp" /\ refs[at[c]] = 1
  <2>1. GotoVia(c, "cleanup", l)
    BY <1>4 DEF Leave
  <2>2. /\ pc' \in [Procs -> Labels] /\ then' \in [Procs -> Labels]
        /\ at' = at /\ seen' = seen /\ pc'[c] = "cleanup" /\ then'[c] = l /\ Local(c)
    BY <1>0, <1>3, <2>1, GotoViaStep
  <2>3. Shape'
    BY <1>0, <1>1, <1>2, <2>2 DEF Shape, files, locks
  <2>4. ReaderCtl(c)'
    BY <1>0, <1>2, <1>4, <2>2, ConstantsAssumption DEF ReaderCtl, ReaderLabels
  <2> QED
    BY <1>2, <1>4, <2>2, <2>3, <2>4, ReaderControl
<1>5. CASE ~ (result[at[c]] = "temp" /\ refs[at[c]] = 1)
  <2>1. Goto(c, l) /\ UNCHANGED then
    BY <1>5 DEF Leave
  <2>2. /\ pc' \in [Procs -> Labels] /\ at' \in [Procs -> Flights \cup {None}]
        /\ seen' \in [Procs -> Flights \cup {None}] /\ pc'[c] = l
        /\ at'[c] = IF l = "idle" \/ (l = "check" /\ result[at[c]] = "kept")
                    THEN None ELSE at[c]
        /\ Local(c)
    BY <1>0, <1>3, <2>1, GotoStep DEF Local
  <2>3. Shape'
    BY <1>0, <1>1, <1>2, <2>1, <2>2 DEF Shape, files, locks
  <2>4. ReaderCtl(c)'
    BY <1>0, <1>2, <2>2 DEF ReaderCtl, ReaderLabels
  <2>5. at'[c] = IF pc'[c] = "cleanup" \/ (l = "check" /\ result[at[c]] = "temp")
                 THEN at[c] ELSE None
    BY <1>0, <2>2 DEF ReaderCtl
  <2> QED
    BY <1>2, <1>5, <2>2, <2>3, <2>4, <2>5, ReaderControl
<1> QED
  BY <1>4, <1>5

\* A reader on its own: the steps that touch neither the results nor flightMap.
LEMMA ReaderStepControl ==
    ASSUME Control, NEW c \in Readers,
           \/ EnsureBegin(c) \/ JoinCancelled(c) \/ WaitDone(c) \/ JoinFlight(c)
           \/ SharedRetain(c) \/ SharedOpenKept(c) \/ SharedOpenTemp(c) \/ Check(c)
           \/ CloseHot(c) \/ CloseTemp(c)
    PROVE  Control' /\ Local(c) /\ UNCHANGED <<flight, result>>
<1>0. Shape /\ ReaderCtl(c) /\ c \in Procs
  BY DEF Control, Procs
<1>1. CASE EnsureBegin(c)
  <2>1. pc[c] = "idle" /\ (IF row = "path" THEN "lstat" ELSE "join") \in Labels /\ Goto(c, (IF row = "path" THEN "lstat" ELSE "join"))
    BY <1>1 DEF EnsureBegin, Labels
  <2>2. Shape' /\ Local(c) /\ UNCHANGED <<flight, result>> /\ pc'[c] = (IF row = "path" THEN "lstat" ELSE "join") /\ at'[c] = at[c]
    BY <1>0, <1>1, <2>1, GotoStep DEF EnsureBegin, Shape, Local, files, locks, group
  <2>3. ReaderCtl(c)'
    BY <1>0, <1>1, <2>1, <2>2 DEF EnsureBegin, ReaderCtl, ReaderLabels
  <2> QED
    BY <2>2, <2>3, ReaderControl
<1>2. CASE JoinCancelled(c)
  <2>1. pc[c] = "join" /\ "idle" \in Labels /\ Goto(c, "idle")
    BY <1>2 DEF JoinCancelled, Labels
  <2>2. Shape' /\ Local(c) /\ UNCHANGED <<flight, result>> /\ pc'[c] = "idle" /\ at'[c] = None
    BY <1>0, <1>2, <2>1, GotoStep DEF JoinCancelled, Shape, Local, files, locks, group
  <2>3. ReaderCtl(c)'
    BY <1>0, <1>2, <2>1, <2>2 DEF JoinCancelled, ReaderCtl, ReaderLabels
  <2> QED
    BY <2>2, <2>3, ReaderControl
<1>3. CASE WaitDone(c)
  <2>1. pc[c] = "wait" /\ (IF result[at[c]] = "kept" THEN "sharedRetain" ELSE "sharedOpen") \in Labels /\ Goto(c, (IF result[at[c]] = "kept" THEN "sharedRetain" ELSE "sharedOpen"))
    BY <1>3 DEF WaitDone, Labels
  <2>2. Shape' /\ Local(c) /\ UNCHANGED <<flight, result>> /\ pc'[c] = (IF result[at[c]] = "kept" THEN "sharedRetain" ELSE "sharedOpen") /\ at'[c] = at[c]
    BY <1>0, <1>3, <2>1, GotoStep DEF WaitDone, Shape, Local, files, locks, group
  <2>3. ReaderCtl(c)'
    BY <1>0, <1>3, <2>1, <2>2 DEF WaitDone, ReaderCtl, ReaderLabels
  <2> QED
    BY <2>2, <2>3, ReaderControl
<1>4. CASE SharedRetain(c)
  <2>1. pc[c] = "sharedRetain" /\ "sharedOpen" \in Labels /\ Goto(c, "sharedOpen")
    BY <1>4 DEF SharedRetain, Labels
  <2>2. Shape' /\ Local(c) /\ UNCHANGED <<flight, result>> /\ pc'[c] = "sharedOpen" /\ at'[c] = at[c]
    BY <1>0, <1>4, <2>1, GotoStep DEF SharedRetain, Shape, Local, files, locks, group
  <2>3. ReaderCtl(c)'
    BY <1>0, <1>4, <2>1, <2>2 DEF SharedRetain, ReaderCtl, ReaderLabels
  <2> QED
    BY <2>2, <2>3, ReaderControl
<1>5. CASE JoinFlight(c)
  <2>1. flight \in Flights
    BY <1>0, <1>5 DEF JoinFlight, Shape
  <2>2. Shape' /\ Local(c) /\ UNCHANGED <<flight, result>> /\ pc'[c] = "wait" /\ at'[c] = flight
    BY <1>0, <1>5, <2>1 DEF JoinFlight, Shape, Local, Labels, files, locks
  <2>3. ReaderCtl(c)'
    BY <2>1, <2>2, ConstantsAssumption DEF ReaderCtl, ReaderLabels
  <2> QED
    BY <2>2, <2>3, ReaderControl
<1>6. CASE SharedOpenKept(c) /\ hot # None
  <2>1. Shape' /\ Local(c) /\ UNCHANGED <<flight, result>> /\ pc'[c] = "leaveOpen"
        /\ at'[c] = at[c]
    BY <1>0, <1>6 DEF SharedOpenKept, Shape, Local, Labels, files, locks, group
  <2>2. ReaderCtl(c)'
    BY <1>0, <1>6, <2>1 DEF SharedOpenKept, ReaderCtl, ReaderLabels
  <2> QED
    BY <2>1, <2>2, ReaderControl
<1>7. CASE SharedOpenKept(c) /\ hot = None
  <2>1. "release" \in Labels /\ "leaveFailed" \in Labels /\ GotoVia(c, "release", "leaveFailed")
    BY <1>7 DEF SharedOpenKept, Labels
  <2>2. Shape' /\ Local(c) /\ UNCHANGED <<flight, result>> /\ pc'[c] = "release"
        /\ at'[c] = at[c] /\ then'[c] = "leaveFailed"
    BY <1>0, <1>7, <2>1, GotoViaStep DEF SharedOpenKept, Shape, files, locks, group
  <2>3. ReaderCtl(c)'
    BY <1>0, <1>7, <2>2 DEF SharedOpenKept, ReaderCtl, ReaderLabels
  <2> QED
    BY <2>2, <2>3, ReaderControl
<1>8. CASE SharedOpenTemp(c)
  <2> DEFINE l == IF at[c] \in transient THEN "leaveOpen" ELSE "leaveFailed"
  <2>1. l \in Labels /\ Goto(c, l) /\ at[c] \in Flights /\ UNCHANGED then
    BY <1>0, <1>8, ConstantsAssumption DEF SharedOpenTemp, ReaderCtl, Labels, Shape
  <2>2. refs' \in [Flights -> Int]
    BY <1>0, <1>8, <2>1 DEF SharedOpenTemp, Shape
  <2>3. Shape' /\ Local(c) /\ UNCHANGED <<flight, result>> /\ pc'[c] = l /\ at'[c] = at[c]
    BY <1>0, <1>8, <2>1, <2>2, GotoStep DEF SharedOpenTemp, Shape, Local, files, locks
  <2>4. ReaderCtl(c)'
    BY <1>0, <1>8, <2>1, <2>3, ConstantsAssumption DEF SharedOpenTemp, ReaderCtl, ReaderLabels
  <2> QED
    BY <2>3, <2>4, ReaderControl
<1>9. CASE Check(c) /\ at[c] = None /\ seen[c] \in bad
  <2>1. "release" \in Labels /\ "idle" \in Labels /\ GotoVia(c, "release", "idle")
    BY <1>9 DEF Check, Labels
  <2>2. /\ pc' \in [Procs -> Labels] /\ then' \in [Procs -> Labels]
        /\ at' = at /\ seen' = seen /\ pc'[c] = "release" /\ then'[c] = "idle" /\ Local(c)
    BY <1>0, <2>1, GotoViaStep
  <2>3. pending' \in BOOLEAN /\ UNCHANGED <<files, active, group>>
    BY <1>9 DEF Check
  <2>4. Shape'
    BY <1>0, <2>2, <2>3 DEF Shape, files, group
  <2>5. ReaderCtl(c)'
    BY <1>9, <2>2 DEF ReaderCtl, ReaderLabels
  <2> QED
    BY <2>2, <2>3, <2>4, <2>5, ReaderControl DEF group
<1>10. CASE Check(c) /\ ~ (at[c] = None /\ seen[c] \in bad)
  <2>1. pc[c] = "check" /\ "reading" \in Labels /\ Goto(c, "reading")
    BY <1>10 DEF Check, Labels
  <2>2. Shape' /\ Local(c) /\ UNCHANGED <<flight, result>> /\ pc'[c] = "reading" /\ at'[c] = at[c]
    BY <1>0, <1>10, <2>1, GotoStep DEF Check, Shape, Local, files, locks, group
  <2>3. ReaderCtl(c)'
    BY <1>0, <1>10, <2>1, <2>2 DEF Check, ReaderCtl, ReaderLabels
  <2> QED
    BY <2>2, <2>3, ReaderControl
<1>11. CASE CloseHot(c)
  <2>1. "release" \in Labels /\ "idle" \in Labels /\ GotoVia(c, "release", "idle")
    BY <1>11 DEF CloseHot, Labels
  <2>2. Shape' /\ Local(c) /\ UNCHANGED <<flight, result>> /\ pc'[c] = "release"
        /\ at'[c] = at[c] /\ then'[c] = "idle"
    BY <1>0, <1>11, <2>1, GotoViaStep DEF CloseHot, Shape, files, locks, group
  <2>3. ReaderCtl(c)'
    BY <1>11, <2>2 DEF CloseHot, ReadsTemp, ReaderCtl, ReaderLabels
  <2> QED
    BY <2>2, <2>3, ReaderControl
<1>12. CASE CloseTemp(c) /\ refs[at[c]] = 1
  <2>0. refs' \in [Flights -> Int]
    BY <1>0, <1>12 DEF CloseTemp, ReadsTemp, Shape
  <2>1. "cleanup" \in Labels /\ "idle" \in Labels /\ GotoVia(c, "cleanup", "idle")
    BY <1>12 DEF CloseTemp, Labels
  <2>2. Shape' /\ Local(c) /\ UNCHANGED <<flight, result>> /\ pc'[c] = "cleanup"
        /\ at'[c] = at[c] /\ then'[c] = "idle"
    BY <1>0, <1>12, <2>0, <2>1, GotoViaStep DEF CloseTemp, Shape, files, locks
  <2>3. ReaderCtl(c)'
    BY <1>0, <1>12, <2>2 DEF CloseTemp, ReadsTemp, ReaderCtl, ReaderLabels
  <2> QED
    BY <2>2, <2>3, ReaderControl
<1>13. CASE CloseTemp(c) /\ refs[at[c]] # 1
  <2>0. refs' \in [Flights -> Int]
    BY <1>0, <1>13 DEF CloseTemp, ReadsTemp, Shape
  <2>1. "idle" \in Labels /\ Goto(c, "idle") /\ UNCHANGED then
    BY <1>13 DEF CloseTemp, Labels
  <2>2. Shape' /\ Local(c) /\ UNCHANGED <<flight, result>> /\ pc'[c] = "idle" /\ at'[c] = None
    BY <1>0, <1>13, <2>0, <2>1, GotoStep DEF CloseTemp, Shape, Local, files, locks
  <2>3. ReaderCtl(c)'
    BY <2>2 DEF ReaderCtl, ReaderLabels
  <2> QED
    BY <2>2, <2>3, ReaderControl
<1> QED
  BY <1>1, <1>2, <1>3, <1>4, <1>5, <1>6, <1>7, <1>8, <1>9, <1>10, <1>11, <1>12, <1>13

\* A flight on its own, until it finishes.
LEMMA FlightStepControl ==
    ASSUME Control, NEW f \in Flights,
           \/ RunFlight(f) \/ BuildFailed(f) \/ BuildKept(f) \/ BuildTemp(f)
           \/ AttachKept(f) \/ AttachTemp(f) \/ AttachFailed(f)
    PROVE  Control' /\ Local(f) /\ UNCHANGED group
<1>0. Shape /\ FlightCtl(f) /\ f \in Procs
  BY DEF Control, Procs
<1>1. CASE RunFlight(f)
  <2>1. PICK l \in {"fail", "build", "lstat"} : Goto(f, l)
    BY <1>0, <1>1 DEF RunFlight, Shape
  <2>2. l \in Labels /\ pc[f] = "run"
    BY <1>1 DEF RunFlight, Labels
  <2>3. Shape' /\ Local(f) /\ UNCHANGED group /\ pc'[f] = l /\ at'[f] = at[f]
    BY <1>0, <1>1, <2>1, <2>2, GotoStep DEF RunFlight, Shape, Local, files, locks, group
  <2>4. FlightCtl(f)'
    BY <1>0, <2>2, <2>3 DEF FlightCtl, FlightLabels, Running, group
  <2> QED
    BY <2>3, <2>4, FlightControl DEF group
<1>2. CASE BuildFailed(f)
  <2>1. pc[f] \in {"run", "build"} /\ "fail" \in Labels /\ Goto(f, "fail")
    BY <1>0, <1>2 DEF BuildFailed, Labels, Shape
  <2>2. Shape' /\ Local(f) /\ UNCHANGED group /\ pc'[f] = "fail" /\ at'[f] = at[f]
    BY <1>0, <1>2, <2>1, GotoStep DEF BuildFailed, Shape, Local, files, locks, group
  <2>3. FlightCtl(f)'
    BY <1>0, <2>1, <2>2 DEF FlightCtl, FlightLabels, Running, group
  <2> QED
    BY <2>2, <2>3, FlightControl DEF group
<1>3. CASE BuildKept(f)
  <2>1. pc[f] = "build" /\ "attachKept" \in Labels /\ Goto(f, "attachKept")
    BY <1>0, <1>3 DEF BuildKept, Labels, Shape
  <2>2. Shape' /\ Local(f) /\ UNCHANGED group /\ pc'[f] = "attachKept" /\ at'[f] = at[f]
    BY <1>0, <1>3, <2>1, GotoStep DEF BuildKept, Shape, Local, files, locks, group
  <2>3. FlightCtl(f)'
    BY <1>0, <2>1, <2>2 DEF FlightCtl, FlightLabels, Running, group
  <2> QED
    BY <2>2, <2>3, FlightControl DEF group
<1>4. CASE BuildTemp(f)
  <2>1. pc[f] = "build" /\ "attachTemp" \in Labels /\ Goto(f, "attachTemp")
    BY <1>0, <1>4 DEF BuildTemp, Labels, Shape
  <2>2. Shape' /\ Local(f) /\ UNCHANGED group /\ pc'[f] = "attachTemp" /\ at'[f] = at[f]
    BY <1>0, <1>4, <2>1, GotoStep DEF BuildTemp, Shape, Local, files, locks, group
  <2>3. FlightCtl(f)'
    BY <1>0, <2>1, <2>2 DEF FlightCtl, FlightLabels, Running, group
  <2> QED
    BY <2>2, <2>3, FlightControl DEF group
<1>5. CASE AttachKept(f)
  <2>1. pc[f] = "attachKept" /\ "kept" \in Labels /\ Goto(f, "kept")
    BY <1>0, <1>5 DEF AttachKept, Labels, Shape
  <2>2. Shape' /\ Local(f) /\ UNCHANGED group /\ pc'[f] = "kept" /\ at'[f] = at[f]
    BY <1>0, <1>5, <2>1, GotoStep DEF AttachKept, Shape, Local, files, locks, group
  <2>3. FlightCtl(f)'
    BY <1>0, <2>1, <2>2 DEF FlightCtl, FlightLabels, Running, group
  <2> QED
    BY <2>2, <2>3, FlightControl DEF group
<1>6. CASE AttachTemp(f)
  <2>1. pc[f] = "attachTemp" /\ "temp" \in Labels /\ Goto(f, "temp")
    BY <1>0, <1>6 DEF AttachTemp, Labels, Shape
  <2>2. Shape' /\ Local(f) /\ UNCHANGED group /\ pc'[f] = "temp" /\ at'[f] = at[f]
    BY <1>0, <1>6, <2>1, GotoStep DEF AttachTemp, Shape, Local, files, locks, group
  <2>3. FlightCtl(f)'
    BY <1>0, <2>1, <2>2 DEF FlightCtl, FlightLabels, Running, group
  <2> QED
    BY <2>2, <2>3, FlightControl DEF group
<1>7. CASE AttachFailed(f)
  <2>1. pc[f] \in {"attachKept", "attachTemp"} /\ "fail" \in Labels /\ Goto(f, "fail")
    BY <1>0, <1>7 DEF AttachFailed, Labels, Shape
  <2>2. Shape' /\ Local(f) /\ UNCHANGED group /\ pc'[f] = "fail" /\ at'[f] = at[f]
    BY <1>0, <1>7, <2>1, GotoStep DEF AttachFailed, Shape, Local, files, locks, group
  <2>3. FlightCtl(f)'
    BY <1>0, <2>1, <2>2 DEF FlightCtl, FlightLabels, Running, group
  <2> QED
    BY <2>2, <2>3, FlightControl DEF group
<1> QED
  BY <1>1, <1>2, <1>3, <1>4, <1>5, <1>6, <1>7

\* The end of a flight: it leaves flightMap, and its result is the first.
LEMMA FinishControl ==
    ASSUME Control, NEW f \in Flights, FinishFlight(f)
    PROVE  /\ Control' /\ Local(f)
           /\ flight' = None /\ result' = [result EXCEPT ![f] = pc[f]] /\ result[f] = "none"
           /\ pc'[f] = IF pc[f] = "temp" /\ waiters[f] = 0 THEN "cleanup" ELSE "idle"
<1>0. Shape /\ FlightCtl(f) /\ f \in Procs /\ Running(f)
  BY DEF Control, Procs, FinishFlight, Running
<1>1. /\ pc[f] \in {"kept", "temp", "fail"} /\ flight = f /\ flight' = None
      /\ result[f] = "none" /\ result' = [result EXCEPT ![f] = pc[f]]
      /\ UNCHANGED <<files, locks, waiters, cancelled>>
      /\ refs' \in [Flights -> Int]
  BY <1>0 DEF FinishFlight, FlightCtl, Shape
<1>2. "cleanup" \in Labels /\ "idle" \in Labels
  BY DEF Labels
<1>3. /\ pc' \in [Procs -> Labels] /\ then' \in [Procs -> Labels]
      /\ at' \in [Procs -> Flights \cup {None}] /\ seen' \in [Procs -> Flights \cup {None}]
      /\ pc'[f] = IF pc[f] = "temp" /\ waiters[f] = 0 THEN "cleanup" ELSE "idle"
      /\ pc'[f] = "cleanup" => then'[f] = "idle"
      /\ at'[f] = None
      /\ Local(f)
  <2>1. CASE pc[f] = "temp" /\ waiters[f] = 0
    <3>1. GotoVia(f, "cleanup", "idle")
      BY <2>1 DEF FinishFlight
    <3> QED
      BY <1>0, <1>2, <2>1, <3>1, GotoViaStep DEF FlightCtl, Shape
  <2>2. CASE ~ (pc[f] = "temp" /\ waiters[f] = 0)
    <3>1. Goto(f, "idle") /\ UNCHANGED then
      BY <2>2 DEF FinishFlight
    <3> QED
      BY <1>0, <1>2, <2>2, <3>1, GotoStep DEF Local, Shape
  <2> QED
    BY <2>1, <2>2
<1>4. Shape'
  BY <1>0, <1>1, <1>3 DEF Shape, files, locks
<1>5. ASSUME NEW c \in Readers
      PROVE  ReaderCtl(c)'
  <2>1. ReaderCtl(c) /\ c # f /\ c \in Procs
    BY ConstantsAssumption DEF Control, Procs
  <2>2. pc'[c] = pc[c] /\ at'[c] = at[c] /\ then'[c] = then[c]
    BY <1>3, <2>1 DEF Local
  <2>3. at[c] \in Flights \ {f} => result'[at[c]] = result[at[c]]
    BY <1>0, <1>1 DEF Shape
  <2>4. at[c] \in Flights \cup {None}
    BY <1>0, <2>1 DEF Shape
  <2> QED
    BY <1>1, <2>1, <2>2, <2>3, <2>4 DEF ReaderCtl
<1>6. ASSUME NEW g \in Flights
      PROVE  FlightCtl(g)'
  <2>1. FlightCtl(g) /\ g # None
    BY ConstantsAssumption DEF Control
  <2>2. CASE g = f
    BY <1>0, <1>1, <1>3, <2>1, <2>2 DEF FlightCtl, Running, FlightLabels, Shape
  <2>3. CASE g # f
    BY <1>0, <1>1, <1>3, <2>1, <2>3 DEF FlightCtl, Running, Local, Procs, Shape
  <2> QED
    BY <2>2, <2>3
<1> QED
  BY <1>1, <1>3, <1>4, <1>5, <1>6 DEF Control

\* The start of a flight: the object is new, so nobody refers to it.
LEMMA StartControl ==
    ASSUME Control, NEW c \in Readers, NEW f \in Flights, StartFlight(c, f)
    PROVE  Control'
<1>0. /\ Shape /\ ReaderCtl(c) /\ c \in Procs /\ f \in Procs /\ c # f /\ f # None
      /\ flight = None /\ \A p \in Procs : at[p] # f
      /\ UNCHANGED <<files, locks, then, seen>> /\ flight' = f
      /\ result' = [result EXCEPT ![f] = "none"] /\ at' = [at EXCEPT ![c] = f]
      /\ pc' = [pc EXCEPT ![c] = "wait", ![f] = "run"]
  BY ConstantsAssumption DEF Control, Procs, StartFlight, Unused
<1>1. Shape'
  BY <1>0 DEF StartFlight, Shape, Labels, files, locks
<1>2. ASSUME NEW d \in Readers
      PROVE  ReaderCtl(d)'
  <2>1. ReaderCtl(d) /\ d # f /\ d \in Procs /\ at[d] \in Flights \cup {None} /\ at[d] # f
    BY <1>0, ConstantsAssumption DEF Control, Procs, Shape
  <2>2. CASE d = c
    BY <1>0, <2>1, <2>2 DEF ReaderCtl, ReaderLabels, Shape
  <2>3. CASE d # c
    <3>1. pc'[d] = pc[d] /\ at'[d] = at[d] /\ then'[d] = then[d]
      BY <1>0, <2>1, <2>3 DEF Shape
    <3>2. at[d] \in Flights => result'[at[d]] = result[at[d]]
      BY <1>0, <2>1 DEF Shape
    <3> QED
      BY <2>1, <3>1, <3>2 DEF ReaderCtl
  <2> QED
    BY <2>2, <2>3
<1>3. ASSUME NEW g \in Flights
      PROVE  FlightCtl(g)'
  <2>1. FlightCtl(g) /\ g \in Procs /\ g # c /\ at[g] = None /\ ~ (flight = g)
    BY <1>0, ConstantsAssumption DEF Control, Procs, FlightCtl
  <2>2. CASE g = f
    BY <1>0, <2>1, <2>2 DEF FlightCtl, Running, FlightLabels, Shape
  <2>3. CASE g # f
    BY <1>0, <2>1, <2>3 DEF FlightCtl, Running, Shape
  <2> QED
    BY <2>2, <2>3
<1> QED
  BY <1>1, <1>2, <1>3 DEF Control

\* Deletes, evictions, damage, and stuttering.
OtherStep ==
    \/ DeleteArtifact \/ Republish \/ EvictHot \/ Damage \/ UNCHANGED vars
    \/ \E f \in Flights : EvictTransient(f)

\* They move no process.
LEMMA OtherControl ==
    ASSUME Control, OtherStep
    PROVE  Control' /\ UNCHANGED <<active, group, pc, then, at>>
<1>1. Shape' /\ UNCHANGED <<active, group, pc, then, at>>
  <2>1. CASE DeleteArtifact
    BY <2>1 DEF Control, Shape, DeleteArtifact, RemoveHot, group
  <2>2. CASE Republish
    BY <2>2 DEF Control, Shape, Republish, locks, group
  <2>3. CASE EvictHot
    BY <2>3 DEF Control, Shape, EvictHot, RemoveHot, group
  <2>4. CASE Damage
    BY <2>4 DEF Control, Shape, Damage, locks, group
  <2>5. CASE UNCHANGED vars
    BY <2>5 DEF Control, Shape, vars, group
  <2>6. CASE \E f \in Flights : EvictTransient(f)
    BY <2>6 DEF Control, Shape, EvictTransient, locks, group
  <2> QED
    BY <2>1, <2>2, <2>3, <2>4, <2>5, <2>6 DEF OtherStep
<1>2. ASSUME NEW c \in Readers
      PROVE  ReaderCtl(c)'
  BY <1>1 DEF Control, ReaderCtl, group
<1>3. ASSUME NEW f \in Flights
      PROVE  FlightCtl(f)'
  BY <1>1 DEF Control, FlightCtl, Running, group
<1> QED
  BY <1>1, <1>2, <1>3 DEF Control

-----------------------------------------------------------------------------
(* Counting.                                                               *)

\* What process p, or reader c, contributes to a count.
HoldCount(p) == IF Holds(p) THEN 1 ELSE 0
WaitCount(c, f) == IF Waits(c, f) THEN 1 ELSE 0
ReadCount(c, f) == IF Reads(c, f) THEN 1 ELSE 0

\* Two sets that differ at most in x.
LEMMA CountChange ==
    ASSUME NEW S, NEW T, NEW x, IsFiniteSet(S), T \ {x} = S \ {x}
    PROVE  /\ IsFiniteSet(T)
           /\ Cardinality(S) \in Nat /\ Cardinality(T) \in Nat
           /\ Cardinality(T) =
                Cardinality(S) + (IF x \in T THEN 1 ELSE 0) - (IF x \in S THEN 1 ELSE 0)
<1>1. CASE x \in S /\ x \notin T
  <2>1. T = S \ {x}
    BY <1>1
  <2> QED
    <3>1. /\ IsFiniteSet(T) /\ Cardinality(T) = Cardinality(S) - 1
      BY <1>1, <2>1, FS_RemoveElement
    <3>2. Cardinality(S) \in Nat /\ Cardinality(T) \in Nat
      BY <3>1, FS_CardinalityType
    <3> QED
      BY <1>1, <3>1, <3>2
<1>2. CASE x \notin S /\ x \in T
  <2>1. T = S \cup {x}
    BY <1>2
  <2> QED
    BY <1>2, <2>1, FS_AddElement, FS_CardinalityType
<1>3. CASE x \in S <=> x \in T
  <2>1. T = S
    BY <1>3
  <2> QED
    BY <1>3, <2>1, FS_CardinalityType
<1> QED
  BY <1>1, <1>2, <1>3

\* The sets that are counted are finite.
LEMMA CountedFinite ==
    /\ IsFiniteSet(Procs) /\ IsFiniteSet(Holders)
    /\ \A f \in Flights : IsFiniteSet(Waiters(f)) /\ IsFiniteSet(Openers(f))
<1>1. IsFiniteSet(Procs)
  BY ConstantsAssumption, FS_Union DEF Procs
<1>2. Holders \subseteq Procs
  BY DEF Holders
<1>3. ASSUME NEW f \in Flights
      PROVE  Waiters(f) \subseteq Readers /\ Openers(f) \subseteq Readers
  BY DEF Waiters, Openers
<1> QED
  BY <1>1, <1>2, <1>3, ConstantsAssumption, FS_Subset

\* The counts are natural numbers.
LEMMA CountTypes ==
    /\ Cardinality(Holders) \in Nat
    /\ \A f \in Flights : Cardinality(Waiters(f)) \in Nat /\ Cardinality(Openers(f)) \in Nat
BY CountedFinite, FS_CardinalityType

\* A local step changes each count by what its process contributes.
LEMMA LocalHolders ==
    ASSUME NEW p \in Procs, Local(p), UNCHANGED result
    PROVE  Cardinality(Holders)' = Cardinality(Holders) + HoldCount(p)' - HoldCount(p)
<1>1. (Holders)' \ {p} = Holders \ {p}
  BY DEF Holders, Holds, Local
<1>2. (p \in (Holders)' <=> Holds(p)') /\ (p \in Holders <=> Holds(p))
  BY DEF Holders
<1> QED
  BY <1>1, <1>2, CountedFinite, CountChange DEF HoldCount

\* The same for the readers of a flight.
LEMMA LocalReaders ==
    ASSUME NEW p \in Procs, Local(p), NEW f \in Flights, UNCHANGED result
    PROVE  /\ p \in Readers =>
              /\ Cardinality(Waiters(f))' = Cardinality(Waiters(f)) + WaitCount(p, f)' - WaitCount(p, f)
              /\ Cardinality(Openers(f))' = Cardinality(Openers(f)) + ReadCount(p, f)' - ReadCount(p, f)
           /\ p \notin Readers =>
              /\ Waiters(f)' = Waiters(f)
              /\ Openers(f)' = Openers(f)
<1>1. Waiters(f)' \ {p} = Waiters(f) \ {p} /\ Openers(f)' \ {p} = Openers(f) \ {p}
  BY DEF Waiters, Waits, Openers, Reads, Local, Procs
<1>2. CASE p \in Readers
  <2>1. /\ (p \in Waiters(f)' <=> Waits(p, f)') /\ (p \in Waiters(f) <=> Waits(p, f))
        /\ (p \in Openers(f)' <=> Reads(p, f)') /\ (p \in Openers(f) <=> Reads(p, f))
    BY <1>2 DEF Waiters, Openers
  <2>2. Cardinality(Waiters(f))' = Cardinality(Waiters(f)) + WaitCount(p, f)' - WaitCount(p, f)
    BY <1>1, <2>1, CountedFinite, CountChange DEF WaitCount
  <2>3. Cardinality(Openers(f))' = Cardinality(Openers(f)) + ReadCount(p, f)' - ReadCount(p, f)
    BY <1>1, <2>1, CountedFinite, CountChange DEF ReadCount
  <2> QED
    BY <1>2, <2>2, <2>3
<1>3. CASE p \notin Readers
  <2>1. p \notin Waiters(f)' /\ p \notin Waiters(f) /\ p \notin Openers(f)' /\ p \notin Openers(f)
    BY <1>3 DEF Waiters, Openers
  <2> QED
    BY <1>1, <1>3, <2>1
<1> QED
  BY <1>2, <1>3

\* A reader that waits for a flight, or has its transient file open, is
\* counted; one that does both counts twice.
LEMMA Counted ==
    ASSUME Exact, NEW c \in Readers, NEW f \in Flights
    PROVE  /\ Holds(c) => active >= 1
           /\ waiters[f] >= WaitCount(c, f)
           /\ result[f] = "temp" => refs[f] >= WaitCount(c, f) + ReadCount(c, f)
<1>1. Holds(c) => Cardinality(Holders) >= 1
  <2>1. Holds(c) => Holders # {}
    BY DEF Holders, Procs
  <2> QED
    BY <2>1, CountedFinite, CountTypes, FS_EmptySet
<1>2. Cardinality(Waiters(f)) >= WaitCount(c, f)
  <2>1. Waits(c, f) => Waiters(f) # {}
    BY DEF Waiters
  <2> QED
    BY <2>1, CountedFinite, CountTypes, FS_EmptySet DEF WaitCount
<1>3. Cardinality(Openers(f)) >= ReadCount(c, f)
  <2>1. Reads(c, f) => Openers(f) # {}
    BY DEF Openers
  <2> QED
    BY <2>1, CountedFinite, CountTypes, FS_EmptySet DEF ReadCount
<1> QED
  BY <1>1, <1>2, <1>3, CountTypes DEF Exact, WaitCount, ReadCount

\* A local step that adds to the counters what its process adds to the counts.
LEMMA ExactStep ==
    ASSUME Control, Control', Exact, NEW p \in Procs, Local(p), UNCHANGED result,
           active' = active + HoldCount(p)' - HoldCount(p),
           p \in Readers => \A f \in Flights :
              /\ waiters'[f] = waiters[f] + WaitCount(p, f)' - WaitCount(p, f)
              /\ refs'[f] = IF result[f] = "temp"
                            THEN refs[f] + (WaitCount(p, f)' - WaitCount(p, f))
                                         + (ReadCount(p, f)' - ReadCount(p, f))
                            ELSE 0,
           p \notin Readers => UNCHANGED <<waiters, refs>>,
           \A f \in Flights : result[f] = "temp" /\ refs[f] = 0 => refs'[f] = 0,
           p \in Readers /\ pc'[p] = "cleanup" => refs'[at'[p]] = 0 /\ then'[p] = "idle",
           p \in Flights => pc'[p] # "cleanup"
    PROVE  Exact'
<1>1. active' = Cardinality(Holders)'
  BY LocalHolders, CountTypes DEF Exact, HoldCount
<1>2. ASSUME NEW f \in Flights
      PROVE  /\ waiters'[f] = Cardinality(Waiters(f))'
             /\ refs'[f] = IF result'[f] = "temp" THEN waiters'[f] + Cardinality(Openers(f))' ELSE 0
  <2>1. /\ waiters[f] = Cardinality(Waiters(f)) /\ waiters[f] \in Int
        /\ refs[f] = IF result[f] = "temp" THEN waiters[f] + Cardinality(Openers(f)) ELSE 0
        /\ Cardinality(Waiters(f)) \in Nat /\ Cardinality(Openers(f)) \in Nat
    BY CountTypes DEF Exact
  <2>2. CASE p \in Readers
    BY <2>1, <2>2, LocalReaders DEF WaitCount, ReadCount
  <2>3. CASE p \notin Readers
    BY <2>1, <2>3, LocalReaders
  <2> QED
    BY <2>2, <2>3
<1>3. ASSUME NEW c \in Readers, pc'[c] = "cleanup"
      PROVE  refs'[at'[c]] = 0 /\ then'[c] = "idle"
  <2>1. CASE c = p
    BY <1>3, <2>1
  <2>2. CASE c # p
    <3>1. c \in Procs /\ pc[c] = "cleanup" /\ at'[c] = at[c] /\ then'[c] = then[c]
      BY <1>3, <2>2 DEF Local, Procs
    <3>2. refs[at[c]] = 0 /\ then[c] = "idle"
      BY <3>1 DEF Exact
    <3>3. at[c] \in Flights /\ result[at[c]] = "temp"
      BY <3>1 DEF Control, ReaderCtl, Shape
    <3> QED
      BY <3>1, <3>2, <3>3
  <2> QED
    BY <2>1, <2>2
<1>4. ASSUME NEW f \in Flights, pc'[f] = "cleanup"
      PROVE  refs'[f] = 0
  <2>1. f # p /\ pc[f] = "cleanup"
    BY <1>4 DEF Local, Procs
  <2> QED
    BY <1>4, <2>1 DEF Exact, Control, FlightCtl
<1> QED
  BY <1>1, <1>2, <1>3, <1>4 DEF Exact

\* A local step after which the same readers wait and read.
LEMMA QuietStep ==
    ASSUME Control, Control', Exact, NEW p \in Procs, Local(p), UNCHANGED <<result, waiters, refs>>,
           active' = active + HoldCount(p)' - HoldCount(p),
           p \in Readers => \A f \in Flights : /\ Waits(p, f)' <=> Waits(p, f)
                                               /\ Reads(p, f)' <=> Reads(p, f),
           pc'[p] # "cleanup"
    PROVE  Exact'
<1>1. p \in Readers => \A f \in Flights :
              /\ waiters'[f] = waiters[f] + WaitCount(p, f)' - WaitCount(p, f)
              /\ refs'[f] = IF result[f] = "temp"
                            THEN refs[f] + (WaitCount(p, f)' - WaitCount(p, f))
                                         + (ReadCount(p, f)' - ReadCount(p, f))
                            ELSE 0
  BY DEF WaitCount, ReadCount, Control, Shape, Exact
<1> QED
  BY <1>1, ExactStep

\* Opening, releasing and removing files.
LEMMA OpenStepExact ==
    ASSUME Control, Exact, NEW p \in Procs, OpenStep(p)
    PROVE  Exact'
<1>0. /\ Control' /\ Local(p) /\ UNCHANGED <<result, waiters, refs>> /\ active \in Int
      /\ p \in Readers => ReaderCtl(p)
      /\ p \in Flights => FlightCtl(p) /\ p \notin Readers
      /\ p \in Readers \/ p \in Flights
  BY OpenStepControl, ConstantsAssumption DEF group, Control, Shape, Procs
<1>1. pc \in [Procs -> Labels] /\ then \in [Procs -> Labels] /\ at \in [Procs -> Flights \cup {None}]
  BY DEF Control, Shape
<1>2. ASSUME pc[p] \in {"lstat", "retain", "open", "verify"}, UNCHANGED at,
             pc'[p] \in {"join", "build", "retain", "open", "verify", "release", "reading"}
      PROVE  p \in Readers => \A f \in Flights : /\ Waits(p, f)' <=> Waits(p, f)
                                                 /\ Reads(p, f)' <=> Reads(p, f)
  BY <1>0, <1>2, ConstantsAssumption DEF ReaderCtl, Waits, Reads
<1>3. CASE Lstat(p)
  <2>1. /\ pc[p] = "lstat" /\ pc'[p] \in {"join", "build", "retain"} /\ at' = at
        /\ active' = active
    BY <1>1, <1>3 DEF Lstat, Miss, locks
  <2>2. ~ Holds(p) /\ ~ Holds(p)'
    BY <2>1 DEF Holds
  <2> QED
    BY <1>0, <1>2, <2>1, <2>2, QuietStep DEF HoldCount
<1>4. CASE Retain(p)
  <2>1. /\ pc[p] = "retain" /\ pc'[p] = "open" /\ at' = at /\ active' = active + 1
    BY <1>1, <1>4 DEF Retain, Goto
  <2>2. ~ Holds(p) /\ Holds(p)'
    BY <2>1 DEF Holds
  <2> QED
    BY <1>0, <1>2, <2>1, <2>2, QuietStep DEF HoldCount
<1>5. CASE Open(p) \/ Verify(p) \/ OpenError(p)
  <2>1. /\ pc[p] \in {"open", "verify"} /\ pc'[p] \in {"verify", "release", "reading"}
        /\ at' = at /\ active' = active /\ (pc'[p] = "reading" => p \in Readers)
    BY <1>1, <1>5 DEF Open, Verify, OpenError, Goto, GotoVia, locks
  <2>2. Holds(p) /\ Holds(p)'
    BY <1>0, <2>1 DEF Holds, ReaderCtl
  <2> QED
    BY <1>0, <1>2, <2>1, <2>2, QuietStep DEF HoldCount
<1>6. ASSUME pc[p] = "release", active' = active - 1,
             \/ pc'[p] = "unlink" /\ at'[p] = at[p]
             \/ pc'[p] = then[p] /\ at'[p] = IF then[p] = "idle" THEN None ELSE at[p]
      PROVE  Exact'
  <2>1. Holds(p) /\ ~ Holds(p)'
    BY <1>0, <1>6 DEF Holds, ReaderCtl, FlightCtl
  <2>2. p \in Readers => \A f \in Flights : /\ Waits(p, f)' <=> Waits(p, f)
                                            /\ Reads(p, f)' <=> Reads(p, f)
    BY <1>0, <1>6, ConstantsAssumption DEF Waits, Reads, ReaderCtl
  <2>3. pc'[p] # "cleanup"
    BY <1>0, <1>6 DEF ReaderCtl, FlightCtl
  <2> QED
    BY <1>0, <1>6, <2>1, <2>2, <2>3, QuietStep DEF HoldCount
<1>7. Resume(p) /\ pc[p] \in {"release", "unlink", "cleanup"} =>
        /\ pc'[p] = then[p]
        /\ at'[p] = IF then[p] = "idle" \/ (then[p] = "check" /\ result[at[p]] = "kept")
                    THEN None ELSE at[p]
  BY ResumeStep DEF Control
<1>8. CASE Release(p)
  <2>1. pc[p] = "release" /\ active' = active - 1
    BY <1>8 DEF Release
  <2>2. CASE active <= 1 /\ pending
    <3>1. pc'[p] = "unlink" /\ at'[p] = at[p]
      BY <1>1, <1>8, <2>2 DEF Release
    <3> QED
      BY <1>6, <2>1, <3>1
  <2>3. CASE ~ (active <= 1 /\ pending)
    <3>1. Resume(p)
      BY <1>8, <2>3 DEF Release
    <3>2. then[p] # "check"
      BY <1>0, <2>1 DEF ReaderCtl, FlightCtl
    <3> QED
      BY <1>6, <1>7, <2>1, <3>1, <3>2
  <2> QED
    BY <2>2, <2>3
<1>9. CASE Unlink(p)
  <2>1. pc[p] = "unlink" /\ active' = active /\ Resume(p)
    BY <1>9 DEF Unlink, locks
  <2>2. then[p] # "check" /\ then[p] # "cleanup"
    BY <1>0, <2>1 DEF ReaderCtl, FlightCtl
  <2>3. pc'[p] = then[p] /\ at'[p] = IF then[p] = "idle" THEN None ELSE at[p]
    BY <1>7, <2>1, <2>2
  <2>4. ~ Holds(p) /\ ~ Holds(p)'
    BY <1>0, <2>1, <2>3 DEF Holds, ReaderCtl, FlightCtl
  <2>5. p \in Readers => \A f \in Flights : /\ Waits(p, f)' <=> Waits(p, f)
                                            /\ Reads(p, f)' <=> Reads(p, f)
    BY <1>0, <2>1, <2>3, ConstantsAssumption DEF Waits, Reads, ReaderCtl
  <2> QED
    BY <1>0, <2>1, <2>2, <2>3, <2>4, <2>5, QuietStep DEF HoldCount
<1>10. CASE Cleanup(p)
  <2>1. pc[p] = "cleanup" /\ active' = active /\ Resume(p)
    BY <1>10 DEF Cleanup, locks
  <2>2. then[p] = "idle"
    BY <1>0, <2>1 DEF Exact, FlightCtl
  <2>3. pc'[p] = "idle" /\ at'[p] = None
    BY <1>7, <2>1, <2>2
  <2>4. ~ Holds(p) /\ ~ Holds(p)'
    BY <2>1, <2>3 DEF Holds
  <2>5. p \in Readers => \A f \in Flights : /\ Waits(p, f)' <=> Waits(p, f)
                                            /\ Reads(p, f)' <=> Reads(p, f)
    BY <2>1, <2>3 DEF Waits, Reads
  <2> QED
    BY <1>0, <2>1, <2>3, <2>4, <2>5, QuietStep DEF HoldCount
<1> QED
  BY <1>3, <1>4, <1>5, <1>8, <1>9, <1>10 DEF OpenStep

\* The steps of a reader, but for the start of a flight and the leaving of one.
LEMMA ReaderStepExact ==
    ASSUME Control, Exact, NEW c \in Readers,
           \/ EnsureBegin(c) \/ JoinCancelled(c) \/ WaitDone(c) \/ JoinFlight(c)
           \/ SharedRetain(c) \/ SharedOpenKept(c) \/ SharedOpenTemp(c) \/ Check(c)
           \/ CloseHot(c) \/ CloseTemp(c)
    PROVE  Exact'
<1>0. /\ Control' /\ Local(c) /\ UNCHANGED result /\ active \in Int /\ c \in Procs
      /\ ReaderCtl(c) /\ pc \in [Procs -> Labels] /\ at \in [Procs -> Flights \cup {None}]
      /\ refs \in [Flights -> Int] /\ waiters \in [Flights -> Int] /\ None \notin Flights
      /\ then \in [Procs -> Labels] /\ c \notin Flights
  BY ReaderStepControl, ConstantsAssumption DEF Control, Shape, Procs
<1>1. CASE EnsureBegin(c) \/ JoinCancelled(c)
  <2>1. /\ pc[c] \in {"idle", "join"} /\ pc'[c] \in {"idle", "join", "lstat"}
        /\ UNCHANGED <<active, waiters, refs>>
    BY <1>0, <1>1 DEF EnsureBegin, JoinCancelled, Goto, locks, group
  <2>2. ~ Holds(c) /\ ~ Holds(c)'
    BY <2>1 DEF Holds
  <2>3. \A f \in Flights : /\ Waits(c, f)' <=> Waits(c, f)
                           /\ Reads(c, f)' <=> Reads(c, f)
    BY <2>1 DEF Waits, Reads
  <2> QED
    BY <1>0, <2>1, <2>2, <2>3, QuietStep DEF HoldCount
<1>2. CASE WaitDone(c) \/ SharedRetain(c)
  <2>1. /\ pc[c] \in {"wait", "sharedRetain"} /\ pc'[c] \in {"sharedRetain", "sharedOpen"}
        /\ at' = at /\ UNCHANGED <<waiters, refs>>
        /\ pc[c] = "wait" =>
              active' = active /\ (pc'[c] = "sharedOpen" => result[at[c]] = "temp")
        /\ pc[c] = "sharedRetain" => active' = active + 1 /\ pc'[c] = "sharedOpen"
    BY <1>0, <1>2 DEF WaitDone, SharedRetain, Goto, locks, group
  <2>2. ~ Holds(c) /\ (Holds(c)' <=> pc[c] = "sharedRetain")
    BY <1>0, <2>1 DEF Holds, ReaderCtl
  <2>3. \A f \in Flights : /\ Waits(c, f)' <=> Waits(c, f)
                           /\ Reads(c, f)' <=> Reads(c, f)
    BY <2>1 DEF Waits, Reads
  <2> QED
    BY <1>0, <2>1, <2>2, <2>3, QuietStep DEF HoldCount
<1>3. CASE SharedOpenKept(c)
  <2>1. /\ pc[c] = "sharedOpen" /\ pc'[c] \in {"leaveOpen", "release"} /\ at' = at
        /\ result[at[c]] = "kept" /\ UNCHANGED <<active, waiters, refs>>
    BY <1>0, <1>3 DEF SharedOpenKept, GotoVia, locks, group
  <2>2. Holds(c) /\ Holds(c)'
    BY <1>0, <2>1 DEF Holds
  <2>3. \A f \in Flights : /\ Waits(c, f)' <=> Waits(c, f)
                           /\ Reads(c, f)' <=> Reads(c, f)
    BY <1>0, <2>1 DEF Waits, Reads
  <2> QED
    BY <1>0, <2>1, <2>2, <2>3, QuietStep DEF HoldCount
<1>4. CASE Check(c) \/ CloseHot(c)
  <2>1. /\ pc[c] \in {"check", "reading"} /\ pc'[c] \in {"reading", "release"} /\ at' = at
        /\ pc'[c] = "release" => at[c] = None
        /\ pc[c] = "reading" => pc'[c] = "release"
        /\ UNCHANGED <<active, waiters, refs>>
    BY <1>0, <1>4 DEF Check, CloseHot, ReadsTemp, Goto, GotoVia, locks, group
  <2>2. Holds(c)' <=> Holds(c)
    BY <1>0, <2>1 DEF Holds
  <2>3. \A f \in Flights : /\ Waits(c, f)' <=> Waits(c, f)
                           /\ Reads(c, f)' <=> Reads(c, f)
    BY <1>0, <2>1 DEF Waits, Reads
  <2> QED
    BY <1>0, <2>1, <2>2, <2>3, QuietStep DEF HoldCount
<1>5. CASE JoinFlight(c)
  <2>1. /\ pc[c] = "join" /\ pc'[c] = "wait" /\ flight \in Flights /\ at'[c] = flight
        /\ waiters' = [waiters EXCEPT ![flight] = @ + 1] /\ UNCHANGED <<active, refs>>
    BY <1>0, <1>5 DEF JoinFlight, Control, Shape, locks
  <2>2. result[flight] = "none"
    BY <2>1 DEF Control, FlightCtl
  <2>3. ~ Holds(c) /\ ~ Holds(c)'
    BY <2>1 DEF Holds
  <2>4. \A f \in Flights : /\ ~ Waits(c, f) /\ (Waits(c, f)' <=> f = flight)
                           /\ ~ Reads(c, f) /\ ~ Reads(c, f)'
    BY <1>0, <2>1 DEF Waits, Reads
  <2>5. \A f \in Flights :
              /\ waiters'[f] = waiters[f] + WaitCount(c, f)' - WaitCount(c, f)
              /\ refs'[f] = IF result[f] = "temp"
                            THEN refs[f] + (WaitCount(c, f)' - WaitCount(c, f))
                                         + (ReadCount(c, f)' - ReadCount(c, f))
                            ELSE 0
    BY <1>0, <2>1, <2>2, <2>4 DEF WaitCount, ReadCount, Exact
  <2> QED
    BY <1>0, <2>1, <2>3, <2>5, ExactStep DEF HoldCount
<1>6. CASE SharedOpenTemp(c) /\ at[c] \notin transient
  <2>1. /\ pc[c] = "sharedOpen" /\ pc'[c] = "leaveFailed" /\ at' = at
        /\ result[at[c]] = "temp" /\ UNCHANGED <<active, waiters, refs>>
    BY <1>0, <1>6 DEF SharedOpenTemp, Goto, locks
  <2>2. ~ Holds(c) /\ ~ Holds(c)'
    BY <1>0, <2>1 DEF Holds
  <2>3. \A f \in Flights : /\ Waits(c, f)' <=> Waits(c, f)
                           /\ Reads(c, f)' <=> Reads(c, f)
    BY <1>0, <2>1 DEF Waits, Reads
  <2> QED
    BY <1>0, <2>1, <2>2, <2>3, QuietStep DEF HoldCount
<1>7. CASE SharedOpenTemp(c) /\ at[c] \in transient
  <2>1. /\ pc[c] = "sharedOpen" /\ pc'[c] = "leaveOpen" /\ at' = at
        /\ result[at[c]] = "temp" /\ at[c] \in Flights /\ UNCHANGED <<active, waiters>>
        /\ refs' = [refs EXCEPT ![at[c]] = @ + 1]
    BY <1>0, <1>7 DEF SharedOpenTemp, Goto, locks, ReaderCtl
  <2>2. ~ Holds(c) /\ ~ Holds(c)'
    BY <1>0, <2>1 DEF Holds
  <2>3. \A f \in Flights : /\ Waits(c, f)' <=> Waits(c, f)
                           /\ ~ Reads(c, f) /\ (Reads(c, f)' <=> f = at[c])
    BY <1>0, <2>1 DEF Waits, Reads
  <2>4. \A f \in Flights :
              /\ waiters'[f] = waiters[f] + WaitCount(c, f)' - WaitCount(c, f)
              /\ refs'[f] = IF result[f] = "temp"
                            THEN refs[f] + (WaitCount(c, f)' - WaitCount(c, f))
                                         + (ReadCount(c, f)' - ReadCount(c, f))
                            ELSE 0
    BY <1>0, <2>1, <2>3 DEF WaitCount, ReadCount, Exact
  <2>5. refs[at[c]] >= 1
    BY <1>0, <2>1, Counted DEF Waits, WaitCount, ReadCount
  <2> QED
    BY <1>0, <2>1, <2>2, <2>4, <2>5, ExactStep DEF HoldCount
<1>8. CASE CloseTemp(c)
  <2>1. /\ pc[c] = "reading" /\ at[c] \in Flights /\ at[c] # None
        /\ pc'[c] = IF refs[at[c]] = 1 THEN "cleanup" ELSE "idle"
        /\ pc'[c] = "cleanup" => then'[c] = "idle" /\ at' = at
        /\ pc'[c] = "idle" => at'[c] = None
        /\ UNCHANGED <<active, waiters>>
        /\ refs' = [refs EXCEPT ![at[c]] = @ - 1]
    BY <1>0, <1>8 DEF CloseTemp, ReadsTemp, Goto, GotoVia, locks
  <2>2. ~ Holds(c) /\ ~ Holds(c)' /\ result[at[c]] = "temp"
    BY <1>0, <2>1 DEF Holds, ReaderCtl
  <2>3. \A f \in Flights : /\ ~ Waits(c, f) /\ ~ Waits(c, f)'
                           /\ (Reads(c, f) <=> f = at[c]) /\ ~ Reads(c, f)'
    BY <1>0, <2>1, <2>2 DEF Waits, Reads
  <2>4. \A f \in Flights :
              /\ waiters'[f] = waiters[f] + WaitCount(c, f)' - WaitCount(c, f)
              /\ refs'[f] = IF result[f] = "temp"
                            THEN refs[f] + (WaitCount(c, f)' - WaitCount(c, f))
                                         + (ReadCount(c, f)' - ReadCount(c, f))
                            ELSE 0
    BY <1>0, <2>1, <2>2, <2>3 DEF WaitCount, ReadCount, Exact
  <2>5. refs[at[c]] >= 1
    BY <1>0, <2>1, <2>2, <2>3, Counted DEF WaitCount, ReadCount
  <2> QED
    BY <1>0, <2>1, <2>2, <2>4, <2>5, ExactStep DEF HoldCount
<1> QED
  BY <1>1, <1>2, <1>3, <1>4, <1>5, <1>6, <1>7, <1>8

\* Leaving a flight: the last reference to a transient file is never held by
\* a reader that has opened it and goes on to use it.
LEMMA LeaveExact ==
    ASSUME Control, Exact, NEW c \in Readers, NEW l \in {"idle", "check"}, Leave(c, l),
           pc[c] \in {"wait", "leaveOpen", "leaveFailed"},
           l = "check" <=> pc[c] = "leaveOpen"
    PROVE  Exact'
<1>0. /\ active \in Int /\ c \in Procs /\ c \notin Flights /\ None \notin Flights
      /\ ReaderCtl(c) /\ refs \in [Flights -> Int] /\ waiters \in [Flights -> Int]
      /\ at[c] \in Flights
  BY ConstantsAssumption DEF Control, Shape, Procs, ReaderCtl
<1>1. /\ Control' /\ Local(c) /\ UNCHANGED result
      /\ pc'[c] = IF result[at[c]] = "temp" /\ refs[at[c]] = 1 THEN "cleanup" ELSE l
      /\ at'[c] = IF pc'[c] = "cleanup" \/ (l = "check" /\ result[at[c]] = "temp")
                  THEN at[c] ELSE None
      /\ pc'[c] = "cleanup" => then'[c] = l
  BY LeaveControl
<1>2. /\ waiters' = [waiters EXCEPT ![at[c]] = @ - 1] /\ active' = active
      /\ refs' = IF result[at[c]] = "temp" THEN [refs EXCEPT ![at[c]] = @ - 1] ELSE refs
  BY DEF Leave, locks
<1>3. \A f \in Flights : /\ Waits(c, f) <=> f = at[c]
                         /\ Reads(c, f) <=> f = at[c] /\ l = "check" /\ result[f] = "temp"
  BY <1>0 DEF Waits, Reads
<1>4. result[at[c]] = "temp" => refs[at[c]] >= 1 /\ (l = "check" => refs[at[c]] >= 2)
  BY <1>0, <1>3, Counted DEF WaitCount, ReadCount
<1>5. \A f \in Flights : /\ ~ Waits(c, f)'
                         /\ Reads(c, f)' <=> Reads(c, f)
  BY <1>0, <1>1, <1>3, <1>4 DEF Waits, Reads
<1>6. HoldCount(c)' = HoldCount(c)
  BY <1>0, <1>1, <1>4 DEF HoldCount, Holds, ReaderCtl
<1>7. \A f \in Flights :
              /\ waiters'[f] = waiters[f] + WaitCount(c, f)' - WaitCount(c, f)
              /\ refs'[f] = IF result[f] = "temp"
                            THEN refs[f] + (WaitCount(c, f)' - WaitCount(c, f))
                                         + (ReadCount(c, f)' - ReadCount(c, f))
                            ELSE 0
  BY <1>0, <1>2, <1>3, <1>5 DEF WaitCount, ReadCount, Exact
<1>8. pc'[c] = "cleanup" => refs'[at'[c]] = 0 /\ then'[c] = "idle"
  BY <1>0, <1>1, <1>2, <1>4
<1>9. \A f \in Flights : result[f] = "temp" /\ refs[f] = 0 => refs'[f] = 0
  BY <1>0, <1>2, <1>4
<1>10. HoldCount(c) \in Int
  BY DEF HoldCount
<1> QED
  BY <1>0, <1>1, <1>2, <1>6, <1>7, <1>8, <1>9, <1>10, ExactStep

\* The steps of a flight, until it finishes.
LEMMA FlightStepExact ==
    ASSUME Control, Exact, NEW f \in Flights,
           \/ RunFlight(f) \/ BuildFailed(f) \/ BuildKept(f) \/ BuildTemp(f)
           \/ AttachKept(f) \/ AttachTemp(f) \/ AttachFailed(f)
    PROVE  Exact'
<1>0. /\ Control' /\ Local(f) /\ UNCHANGED <<result, waiters, refs>> /\ f \in Procs
      /\ f \notin Readers /\ active \in Int /\ pc \in [Procs -> Labels]
      /\ row \in {"absent", "nopath", "path"}
  BY FlightStepControl, ConstantsAssumption DEF group, Control, Shape, Procs
<1>1. /\ active' = active
      /\ pc[f] \in {"run", "build", "attachKept", "attachTemp"}
      /\ pc'[f] \in {"fail", "build", "lstat", "attachKept", "attachTemp", "kept", "temp"}
  BY <1>0 DEF RunFlight, BuildFailed, BuildKept, BuildTemp, AttachKept, AttachTemp,
              AttachFailed, Goto, locks
<1>2. ~ Holds(f) /\ ~ Holds(f)'
  BY <1>1 DEF Holds
<1> QED
  BY <1>0, <1>1, <1>2, QuietStep DEF HoldCount

\* The end of a flight: nobody can have acted on its result before.
LEMMA FinishExact ==
    ASSUME Control, Exact, NEW f \in Flights, FinishFlight(f)
    PROVE  Exact'
<1>0. /\ Control' /\ Local(f) /\ result' = [result EXCEPT ![f] = pc[f]] /\ result[f] = "none"
      /\ pc'[f] = IF pc[f] = "temp" /\ waiters[f] = 0 THEN "cleanup" ELSE "idle"
      /\ pc[f] \in {"kept", "temp", "fail"} /\ UNCHANGED <<active, waiters>>
      /\ refs' = IF pc[f] = "temp" THEN [refs EXCEPT ![f] = @ + waiters[f]] ELSE refs
  BY FinishControl DEF FinishFlight, locks
<1>1. /\ Shape /\ f \notin Readers /\ f \in Procs /\ None \notin Flights
      /\ \A c \in Readers : c \in Procs /\ c # f
  BY ConstantsAssumption DEF Control, Procs
<1>2. ASSUME NEW c \in Readers
      PROVE  /\ pc'[c] = pc[c] /\ at'[c] = at[c] /\ then'[c] = then[c]
             /\ at[c] \in Flights \cup {None}
             /\ at[c] = f => pc[c] \in {"wait"}
             /\ at[c] \in Flights \ {f} => result'[at[c]] = result[at[c]]
  BY <1>0, <1>1 DEF Local, Control, ReaderCtl, ReaderLabels, Shape
<1>3. Holders' = Holders
  <2>1. ASSUME NEW p \in Procs
        PROVE  Holds(p)' <=> Holds(p)
    <3>1. CASE p \in Readers
      BY <1>1, <1>2, <3>1, ConstantsAssumption DEF Holds, Control, ReaderCtl
    <3>2. CASE p = f
      BY <1>0, <3>2 DEF Holds
    <3>3. CASE p \in Flights \ {f}
      <4>1. /\ pc'[p] = pc[p] /\ pc[p] \in FlightLabels
        BY <1>0, <3>3 DEF Local, Procs, Control, FlightCtl
      <4> QED
        BY <4>1 DEF Holds, FlightLabels
    <3> QED
      BY <3>1, <3>2, <3>3 DEF Procs
  <2> QED
    BY <2>1 DEF Holders
<1>4. ASSUME NEW g \in Flights
      PROVE  Waiters(g)' = Waiters(g) /\ (g # f => Openers(g)' = Openers(g))
  BY <1>0, <1>1, <1>2 DEF Waiters, Waits, Openers, Reads, Shape
<1>5. Openers(f)' = {}
  BY <1>2 DEF Openers, Reads
<1>6. ASSUME NEW g \in Flights
      PROVE  refs'[g] = IF result'[g] = "temp"
                        THEN waiters'[g] + Cardinality(Openers(g))' ELSE 0
  <2>1. CASE g = f
    <3>1. refs[f] = 0 /\ waiters[f] \in Int
      BY <1>0, <1>1 DEF Exact, Shape
    <3>2. refs'[f] = IF pc[f] = "temp" THEN waiters[f] ELSE 0
      BY <1>0, <1>1, <3>1 DEF Shape
    <3>3. result'[f] = pc[f]
      BY <1>0, <1>1 DEF Shape
    <3>4. Cardinality(Openers(f))' = 0
      BY <1>5, FS_EmptySet
    <3> QED
      BY <1>0, <2>1, <3>1, <3>2, <3>3, <3>4
  <2>2. CASE g # f
    <3>1. refs'[g] = refs[g] /\ result'[g] = result[g] /\ waiters'[g] = waiters[g]
      BY <1>0, <1>1, <2>2 DEF Shape
    <3>2. Cardinality(Openers(g))' = Cardinality(Openers(g))
      BY <1>4, <2>2
    <3> QED
      BY <3>1, <3>2 DEF Exact
  <2> QED
    BY <2>1, <2>2
<1>7. ASSUME NEW c \in Readers, pc'[c] = "cleanup"
      PROVE  refs'[at'[c]] = 0 /\ then'[c] = "idle"
  <2>1. pc[c] = "cleanup" /\ at[c] \in Flights /\ result[at[c]] = "temp"
    BY <1>1, <1>2, <1>7 DEF Control, ReaderCtl, Shape
  <2>2. at[c] # f /\ refs[at[c]] = 0 /\ then[c] = "idle"
    BY <1>0, <2>1 DEF Exact
  <2> QED
    BY <1>0, <1>1, <1>2, <2>1, <2>2 DEF Shape
<1>8. ASSUME NEW g \in Flights, pc'[g] = "cleanup"
      PROVE  refs'[g] = 0
  <2>1. CASE g = f
    BY <1>0, <1>1, <1>8, <2>1 DEF Exact, Shape
  <2>2. CASE g # f
    BY <1>0, <1>1, <1>8, <2>2 DEF Exact, Shape, Local, Procs
  <2> QED
    BY <2>1, <2>2
<1> QED
  BY <1>0, <1>3, <1>4, <1>6, <1>7, <1>8 DEF Exact

\* The start of a flight: its first waiter is its only one.
LEMMA StartExact ==
    ASSUME Control, Exact, NEW c \in Readers, NEW f \in Flights, StartFlight(c, f)
    PROVE  Exact'
<1>0. /\ Shape /\ c \in Procs /\ f \in Procs /\ c # f /\ f \notin Readers /\ None \notin Flights
      /\ \A p \in Procs : at[p] # f
      /\ UNCHANGED <<active, then>> /\ pc[c] = "join" /\ pc[f] = "idle"
      /\ result' = [result EXCEPT ![f] = "none"] /\ at' = [at EXCEPT ![c] = f]
      /\ waiters' = [waiters EXCEPT ![f] = 1] /\ refs' = [refs EXCEPT ![f] = 0]
      /\ pc' = [pc EXCEPT ![c] = "wait", ![f] = "run"]
      /\ at[c] = None
  BY ConstantsAssumption DEF Control, Procs, StartFlight, Unused, locks, ReaderCtl
<1>1. ASSUME NEW p \in Procs \ {c, f}
      PROVE  /\ pc'[p] = pc[p] /\ at'[p] = at[p] /\ then'[p] = then[p]
             /\ at[p] \in Flights => result'[at[p]] = result[at[p]]
             /\ at[p] \in Flights \cup {None} /\ at[p] # f
  BY <1>0 DEF Shape
<1>2. pc'[c] = "wait" /\ at'[c] = f /\ pc'[f] = "run"
  BY <1>0 DEF Shape
<1>3. Holders' = Holders
  <2>1. ASSUME NEW p \in Procs
        PROVE  Holds(p)' <=> Holds(p)
    <3>1. CASE p \in {c, f}
      BY <1>0, <1>2, <3>1 DEF Holds
    <3>2. CASE p \in Readers \ {c, f}
      BY <1>1, <3>2, ConstantsAssumption DEF Holds, Control, ReaderCtl, Procs
    <3>3. CASE p \in Flights \ {c, f}
      <4>1. /\ pc'[p] = pc[p] /\ pc[p] \in FlightLabels
        BY <1>1, <3>3 DEF Procs, Control, FlightCtl
      <4> QED
        BY <4>1 DEF Holds, FlightLabels
    <3> QED
      BY <3>1, <3>2, <3>3 DEF Procs
  <2> QED
    BY <2>1 DEF Holders
<1>4. ASSUME NEW g \in Flights \ {f}
      PROVE  Waiters(g)' = Waiters(g) /\ Openers(g)' = Openers(g)
  <2>1. result'[g] = result[g]
    BY <1>0 DEF Shape
  <2>2. ASSUME NEW d \in Readers
        PROVE  (Waits(d, g)' <=> Waits(d, g)) /\ (Reads(d, g)' <=> Reads(d, g))
    BY <1>0, <1>1, <1>2, <2>1 DEF Waits, Reads, Procs
  <2> QED
    BY <2>2 DEF Waiters, Openers
<1>5. Waiters(f)' = {c}
  BY <1>0, <1>1, <1>2 DEF Waiters, Waits, Procs
<1>6. Cardinality(Waiters(f))' = 1
  BY <1>5, FS_Singleton
<1>7. ASSUME NEW g \in Flights
      PROVE  /\ waiters'[g] = Cardinality(Waiters(g))'
             /\ refs'[g] = IF result'[g] = "temp"
                           THEN waiters'[g] + Cardinality(Openers(g))' ELSE 0
  <2>1. CASE g = f
    BY <1>0, <1>6, <2>1 DEF Shape
  <2>2. CASE g # f
    BY <1>0, <1>4, <2>2 DEF Shape, Exact
  <2> QED
    BY <2>1, <2>2
<1>8. ASSUME NEW d \in Readers, pc'[d] = "cleanup"
      PROVE  refs'[at'[d]] = 0 /\ then'[d] = "idle"
  <2>1. d # c /\ d # f /\ d \in Procs
    BY <1>0, <1>2, <1>8 DEF Procs
  <2>2. pc[d] = "cleanup" /\ at'[d] = at[d] /\ then'[d] = then[d] /\ at[d] \in Flights /\ at[d] # f
    BY <1>1, <1>8, <2>1 DEF Control, ReaderCtl
  <2> QED
    BY <1>0, <2>2 DEF Exact, Shape
<1>9. ASSUME NEW g \in Flights, pc'[g] = "cleanup"
      PROVE  refs'[g] = 0
  <2>1. g # c /\ g # f /\ g \in Procs
    BY <1>2, <1>9, ConstantsAssumption DEF Procs
  <2> QED
    BY <1>0, <1>1, <1>9, <2>1 DEF Exact, Shape
<1> QED
  BY <1>0, <1>3, <1>7, <1>8, <1>9 DEF Exact

\* Deletes, evictions, damage, and stuttering change no count.
LEMMA OtherExact ==
    ASSUME Control, Exact, OtherStep
    PROVE  Exact'
<1>1. UNCHANGED <<active, waiters, refs, result, pc, then, at>>
  BY OtherControl DEF group
<1>2. Holders' = Holders
  BY <1>1 DEF Holders, Holds
<1>3. ASSUME NEW f \in Flights
      PROVE  Waiters(f)' = Waiters(f) /\ Openers(f)' = Openers(f)
  BY <1>1 DEF Waiters, Waits, Openers, Reads
<1> QED
  BY <1>1, <1>2, <1>3 DEF Exact

-----------------------------------------------------------------------------
(* Transient files.                                                        *)

\* A transient file with references has, after a step, a reader that waits
\* for it or has it open.
LEMMA SomeReader ==
    ASSUME Exact', NEW f \in Flights, result'[f] = "temp", refs'[f] # 0
    PROVE  \E c \in Readers : at'[c] = f
<1>1. Waiters(f)' # {} \/ Openers(f)' # {}
  BY FS_EmptySet DEF Exact
<1> QED
  BY <1>1 DEF Waiters, Waits, Openers, Reads

\* A step of a reader that leaves a transient file only to others.
LEMMA ReaderOwnedKept ==
    ASSUME Control, Owned, Kept, Exact', NEW c \in Readers, Local(c),
           UNCHANGED <<result, transient>>,
           \A f \in Flights : refs'[f] > 0 => refs[f] > 0 \/ f \in transient,
           at'[c] # at[c] /\ at[c] # None /\ result[at[c]] = "temp" => refs'[at[c]] # 0
    PROVE  Owned' /\ Kept'
<1>0. c \notin Flights /\ Shape /\ c \in Procs
  BY ConstantsAssumption DEF Control, Procs
<1>1. ASSUME NEW f \in Flights
      PROVE  pc'[f] = pc[f]
  BY <1>0, <1>1 DEF Local, Procs
<1>2. ASSUME NEW f \in transient
      PROVE  \/ pc'[f] \in {"attachTemp", "temp", "cleanup"}
             \/ result'[f] = "temp" /\ \E d \in Readers : at'[d] = f
  <2>0. f \in Flights
    BY <1>0 DEF Shape
  <2>1. CASE pc[f] \in {"attachTemp", "temp", "cleanup"}
    BY <1>1, <2>0, <2>1
  <2>2. ASSUME NEW d \in Readers, at[d] = f, result[f] = "temp"
        PROVE  \E e \in Readers : at'[e] = f
    <3>1. CASE d # c
      BY <2>2, <3>1 DEF Local, Procs
    <3>2. CASE d = c /\ at'[c] = at[c]
      BY <2>2, <3>2
    <3>3. CASE d = c /\ at'[c] # at[c]
      <4>1. at[c] = f /\ f # None
        BY <2>0, <2>2, <3>3, ConstantsAssumption
      <4>2. refs'[f] # 0 /\ result'[f] = "temp"
        BY <2>2, <3>3, <4>1
      <4> QED
        BY <2>0, <4>2, SomeReader
    <3> QED
      BY <3>1, <3>2, <3>3
  <2> QED
    BY <2>1, <2>2 DEF Owned
<1> QED
  BY <1>1, <1>2 DEF Owned, Kept

\* The readers.
LEMMA ReaderStepOwnedKept ==
    ASSUME Control, Exact, Exact', Owned, Kept, NEW c \in Readers,
           \/ EnsureBegin(c) \/ JoinCancelled(c) \/ WaitDone(c) \/ JoinFlight(c)
           \/ SharedRetain(c) \/ SharedOpenKept(c) \/ SharedOpenTemp(c) \/ Check(c)
           \/ CloseHot(c) \/ CloseTemp(c)
    PROVE  Owned' /\ Kept'
<1>0. /\ Local(c) /\ UNCHANGED result /\ c \in Procs /\ ReaderCtl(c) /\ Shape
      /\ at[c] \in Flights \cup {None} /\ None \notin Flights
  BY ReaderStepControl, ConstantsAssumption DEF Control, Shape, Procs
<1>1. CASE ~ CloseTemp(c) /\ ~ SharedOpenTemp(c)
  <2>1. UNCHANGED <<transient, refs>>
    BY <1>1 DEF EnsureBegin, JoinCancelled, WaitDone, JoinFlight, SharedRetain,
                SharedOpenKept, Check, CloseHot, files, group
  <2>2. at'[c] # at[c] => at[c] = None
    BY <1>0, <1>1 DEF EnsureBegin, JoinCancelled, WaitDone, JoinFlight, SharedRetain,
                SharedOpenKept, Check, CloseHot, Goto, GotoVia, ReaderCtl, Shape
  <2> QED
    BY <1>0, <2>1, <2>2, ReaderOwnedKept
<1>2. CASE SharedOpenTemp(c)
  <2>1. /\ UNCHANGED <<transient, at>>
        /\ refs' = IF at[c] \in transient THEN [refs EXCEPT ![at[c]] = @ + 1] ELSE refs
    BY <1>2 DEF SharedOpenTemp, Goto, files
  <2>2. \A f \in Flights : refs'[f] > 0 => refs[f] > 0 \/ f \in transient
    BY <1>0, <2>1 DEF Shape
  <2> QED
    BY <1>0, <2>1, <2>2, ReaderOwnedKept
<1>3. CASE CloseTemp(c)
  <2>1. /\ pc[c] = "reading" /\ at[c] \in Flights /\ at[c] # None /\ UNCHANGED transient
        /\ refs' = [refs EXCEPT ![at[c]] = @ - 1]
        /\ refs[at[c]] = 1 => at' = at
    BY <1>0, <1>3 DEF CloseTemp, ReadsTemp, GotoVia, files
  <2>2. Reads(c, at[c]) /\ ~ Waits(c, at[c]) /\ result[at[c]] = "temp"
    BY <1>0, <2>1 DEF Reads, Waits, ReaderCtl
  <2>3. refs[at[c]] >= 1
    BY <2>1, <2>2, Counted DEF WaitCount, ReadCount
  <2>4. \A f \in Flights : refs'[f] > 0 => refs[f] > 0
    BY <1>0, <2>1 DEF Shape
  <2>5. at' # at => refs'[at[c]] # 0
    BY <1>0, <2>1, <2>3 DEF Shape
  <2> QED
    BY <1>0, <2>1, <2>4, <2>5, ReaderOwnedKept
<1> QED
  BY <1>1, <1>2, <1>3

\* Leaving a flight.
LEMMA LeaveOwnedKept ==
    ASSUME Control, Exact, Exact', Owned, Kept,
           NEW c \in Readers, NEW l \in {"idle", "check"}, Leave(c, l),
           pc[c] \in {"wait", "leaveOpen", "leaveFailed"},
           l = "check" <=> pc[c] = "leaveOpen"
    PROVE  Owned' /\ Kept'
<1>5. /\ c \in Procs /\ Shape /\ at[c] \in Flights /\ at[c] # None /\ refs \in [Flights -> Int]
  BY DEF Control, Shape, Procs, ReaderCtl
<1>0. /\ Local(c) /\ UNCHANGED <<result, transient>>
      /\ at'[c] # at[c] => ~ (result[at[c]] = "temp" /\ refs[at[c]] = 1)
      /\ refs' = IF result[at[c]] = "temp" THEN [refs EXCEPT ![at[c]] = @ - 1] ELSE refs
  BY LeaveControl DEF Leave, files
<1>1. Waits(c, at[c])
  BY DEF Waits
<1>2. result[at[c]] = "temp" => refs[at[c]] >= 1
  BY <1>5, <1>1, Counted DEF WaitCount, ReadCount
<1>3. \A f \in Flights : refs'[f] > 0 => refs[f] > 0
  BY <1>5, <1>0
<1>4. at'[c] # at[c] /\ result[at[c]] = "temp" => refs'[at[c]] # 0
  BY <1>5, <1>0, <1>2
<1> QED
  BY <1>5, <1>0, <1>3, <1>4, ReaderOwnedKept

\* Opening, releasing and removing files.
LEMMA OpenStepOwnedKept ==
    ASSUME Control, Exact, Owned, Kept, Exact', NEW p \in Procs, OpenStep(p)
    PROVE  Owned' /\ Kept'
<1>0. /\ Local(p) /\ UNCHANGED <<result, refs>> /\ Shape /\ Control'
      /\ p \in Readers => ReaderCtl(p) /\ p \notin Flights
      /\ p \in Flights => FlightCtl(p) /\ FlightCtl(p)' /\ p \notin Readers
      /\ p \in Readers \/ p \in Flights
      /\ None \notin Flights
  BY OpenStepControl, ConstantsAssumption DEF group, Control, Procs
<1>1. CASE Cleanup(p)
  <2> DEFINE g == IF p \in Readers THEN at[p] ELSE p
  <2>1. /\ transient' = transient \ {g} /\ pc[p] = "cleanup" /\ g \in Flights
        /\ refs[g] = 0 /\ then[p] = "idle" /\ result[g] = "temp"
    BY <1>0, <1>1 DEF Cleanup, Exact, ReaderCtl, FlightCtl, Shape
  <2>2. Resume(p)
    BY <1>1 DEF Cleanup
  <2>3. pc'[p] = "idle" /\ at'[p] = None
    BY <1>0, <2>1, <2>2, ResumeStep
  <2>4. ASSUME NEW f \in transient'
        PROVE  \/ pc'[f] \in {"attachTemp", "temp", "cleanup"}
               \/ result'[f] = "temp" /\ \E d \in Readers : at'[d] = f
    <3>1. f \in transient /\ f # g /\ f \in Flights /\ f # p
      BY <1>0, <2>1, <2>4 DEF Shape
    <3>2. pc'[f] = pc[f]
      BY <1>0, <3>1 DEF Local, Procs
    <3>3. ASSUME NEW d \in Readers, at[d] = f
          PROVE  at'[d] = f
      BY <1>0, <3>1, <3>3 DEF Local, Procs
    <3> QED
      BY <1>0, <3>1, <3>2, <3>3 DEF Owned
  <2>5. ASSUME ~ Budget, NEW f \in Flights
        PROVE  /\ pc'[f] \in {"attachTemp", "temp"} => f \in transient'
               /\ result'[f] = "temp" /\ refs'[f] > 0 => f \in transient'
    <3>1. CASE f = g
      <4>1. ~ Running(f)
        BY <2>1, <3>1 DEF Control, FlightCtl
      <4>2. pc'[f] \notin {"attachTemp", "temp"}
        BY <1>0, <2>3, <4>1 DEF Running, Local, Procs
      <4> QED
        BY <1>0, <2>1, <3>1, <4>2
    <3>2. CASE f # g
      <4>1. f # p => pc'[f] = pc[f]
        BY <1>0 DEF Local, Procs
      <4> QED
        BY <1>0, <2>1, <2>3, <2>5, <3>2, <4>1 DEF Kept
    <3> QED
      BY <3>1, <3>2
  <2> QED
    BY <2>4, <2>5 DEF Owned, Kept
<1>2. CASE ~ Cleanup(p)
  <2>1. UNCHANGED transient
    BY <1>2 DEF OpenStep, Lstat, Retain, Open, Verify, OpenError, Release, Unlink, files
  <2>2. pc[p] \in {"lstat", "retain", "open", "verify", "release", "unlink"}
    BY <1>2 DEF OpenStep, Lstat, Retain, Open, Verify, OpenError, Release, Unlink
  <2>3. CASE p \in Readers
    <3>1. at'[p] # at[p] => at[p] = None
      <4>1. CASE pc[p] \in {"lstat", "retain", "open", "verify"}
        BY <1>0, <2>3, <4>1 DEF ReaderCtl
      <4>2. CASE pc[p] \in {"release", "unlink"}
        <5>1. Resume(p) \/ at' = at
          BY <1>2, <4>2 DEF OpenStep, Lstat, Retain, Open, Verify, OpenError, Release, Unlink
        <5> QED
          BY <1>0, <2>3, <4>2, <5>1, ResumeStep DEF ReaderCtl
      <4> QED
        BY <2>2, <4>1, <4>2
    <3> QED
      BY <1>0, <2>1, <2>3, <3>1, ReaderOwnedKept
  <2>4. CASE p \in Flights
    <3>1. Running(p) /\ result[p] = "none" /\ p \notin transient
      BY <1>0, <2>2, <2>4 DEF Running, FlightCtl, Owned
    <3>2. pc'[p] \notin {"attachTemp", "temp"}
      <4>1. CASE pc[p] \in {"release", "unlink"}
        <5>1. Resume(p) \/ pc'[p] = "unlink"
          BY <1>0, <1>2, <4>1
             DEF OpenStep, Lstat, Retain, Open, Verify, OpenError, Release, Unlink, Shape
        <5> QED
          BY <1>0, <2>4, <4>1, <5>1, ResumeStep DEF FlightCtl
      <4>2. CASE pc[p] \in {"lstat", "retain", "open", "verify"}
        BY <1>0, <1>2, <4>2
           DEF OpenStep, Lstat, Retain, Open, Verify, OpenError, Release, Unlink, Shape,
               Goto, GotoVia, Miss
      <4> QED
        BY <2>2, <4>1, <4>2
    <3>3. ASSUME NEW f \in Flights \ {p}
          PROVE  pc'[f] = pc[f]
      BY <1>0 DEF Local, Procs
    <3>4. ASSUME NEW d \in Readers
          PROVE  at'[d] = at[d]
      BY <1>0, <2>4 DEF Local, Procs
    <3>5. transient \subseteq Flights
      BY <1>0 DEF Shape
    <3>6. Owned'
      BY <1>0, <2>1, <3>1, <3>3, <3>4, <3>5 DEF Owned
    <3>7. Kept'
      BY <1>0, <2>1, <3>1, <3>2, <3>3 DEF Kept
    <3> QED
      BY <3>6, <3>7
  <2> QED
    BY <1>0, <2>3, <2>4
<1> QED
  BY <1>1, <1>2

\* The flights, until they finish.
LEMMA FlightStepOwnedKept ==
    ASSUME Control, Owned, Kept, NEW f \in Flights,
           \/ RunFlight(f) \/ BuildFailed(f) \/ BuildKept(f) \/ BuildTemp(f)
           \/ AttachKept(f) \/ AttachTemp(f) \/ AttachFailed(f)
    PROVE  Owned' /\ Kept'
<1>0. /\ Local(f) /\ UNCHANGED <<result, refs>> /\ Shape /\ f \in Procs /\ f \notin Readers
      /\ FlightCtl(f)
  BY FlightStepControl, ConstantsAssumption DEF group, Control, Procs
<1>1. /\ pc[f] \in {"run", "build", "attachKept", "attachTemp"}
      /\ \/ UNCHANGED transient /\ pc[f] # "attachTemp" /\ pc'[f] \notin {"attachTemp", "temp"}
         \/ UNCHANGED transient /\ pc[f] = "attachTemp" /\ pc'[f] = "temp"
         \/ transient' = transient \cup {f} /\ pc'[f] = "attachTemp"
         \/ transient' = transient \ {f} /\ pc'[f] = "fail"
  <2>1. CASE RunFlight(f) \/ BuildFailed(f) \/ BuildKept(f) \/ AttachKept(f)
    BY <1>0, <2>1 DEF RunFlight, BuildFailed, BuildKept, AttachKept, Goto, Shape, files
  <2>2. CASE BuildTemp(f) \/ AttachTemp(f) \/ AttachFailed(f)
    BY <1>0, <2>2 DEF BuildTemp, AttachTemp, AttachFailed, Goto, Shape
  <2> QED
    BY <2>1, <2>2
<1>2. Running(f) /\ result[f] = "none" /\ (f \in transient => pc[f] = "attachTemp")
  BY <1>0, <1>1 DEF Running, FlightCtl, Owned
<1>3. ASSUME NEW g \in Flights \ {f}
      PROVE  pc'[g] = pc[g]
  BY <1>0 DEF Local, Procs
<1>4. ASSUME NEW d \in Readers
      PROVE  at'[d] = at[d]
  BY <1>0 DEF Local, Procs
<1>5. transient \subseteq Flights
  BY <1>0 DEF Shape
<1>6. ASSUME NEW g \in transient'
      PROVE  \/ pc'[g] \in {"attachTemp", "temp", "cleanup"}
             \/ result'[g] = "temp" /\ \E c \in Readers : at'[c] = g
  <2>1. CASE g = f
    BY <1>1, <1>2, <1>6, <2>1
  <2>2. CASE g # f
    <3>1. g \in transient /\ pc'[g] = pc[g] /\ result'[g] = result[g]
      BY <1>0, <1>1, <1>3, <1>5, <1>6, <2>2
    <3> QED
      BY <1>4, <3>1 DEF Owned
  <2> QED
    BY <2>1, <2>2
<1>7. ASSUME ~ Budget, NEW g \in Flights
      PROVE  /\ pc'[g] \in {"attachTemp", "temp"} => g \in transient'
             /\ result'[g] = "temp" /\ refs'[g] > 0 => g \in transient'
  <2>1. CASE g = f
    BY <1>0, <1>1, <1>2, <1>7, <2>1 DEF Kept
  <2>2. CASE g # f
    BY <1>0, <1>1, <1>3, <1>7, <2>2 DEF Kept
  <2> QED
    BY <2>1, <2>2
<1> QED
  BY <1>6, <1>7 DEF Owned, Kept

\* The end of a flight hands its transient file over to its waiters.
LEMMA FinishOwnedKept ==
    ASSUME Control, Exact, Exact', Owned, Kept, NEW f \in Flights, FinishFlight(f)
    PROVE  Owned' /\ Kept'
<1>0. /\ Local(f) /\ result' = [result EXCEPT ![f] = pc[f]] /\ result[f] = "none"
      /\ pc'[f] = IF pc[f] = "temp" /\ waiters[f] = 0 THEN "cleanup" ELSE "idle"
      /\ pc[f] \in {"kept", "temp", "fail"} /\ UNCHANGED transient
      /\ refs' = IF pc[f] = "temp" THEN [refs EXCEPT ![f] = @ + waiters[f]] ELSE refs
      /\ Shape /\ f \notin Readers
  BY FinishControl, ConstantsAssumption DEF FinishFlight, files, Control
<1>1. refs[f] = 0 /\ waiters[f] \in Int
  BY <1>0 DEF Exact, Shape
<1>2. refs'[f] = IF pc[f] = "temp" THEN waiters[f] ELSE 0
  BY <1>0, <1>1 DEF Shape
<1>3. result'[f] = pc[f]
  BY <1>0 DEF Shape
<1>4. ASSUME NEW g \in Flights \ {f}
      PROVE  pc'[g] = pc[g] /\ result'[g] = result[g] /\ refs'[g] = refs[g]
  BY <1>0 DEF Local, Procs, Shape
<1>5. ASSUME NEW d \in Readers
      PROVE  at'[d] = at[d]
  BY <1>0 DEF Local, Procs
<1>6. ASSUME NEW g \in transient'
      PROVE  \/ pc'[g] \in {"attachTemp", "temp", "cleanup"}
             \/ result'[g] = "temp" /\ \E c \in Readers : at'[c] = g
  <2>0. g \in transient /\ g \in Flights
    BY <1>0, <1>6 DEF Shape
  <2>1. CASE g = f
    <3>1. pc[f] = "temp"
      BY <1>0, <2>0, <2>1 DEF Owned
    <3>2. CASE waiters[f] = 0
      BY <1>0, <2>1, <3>1, <3>2
    <3>3. CASE waiters[f] # 0
      BY <1>2, <1>3, <2>1, <3>1, <3>3, SomeReader
    <3> QED
      BY <3>2, <3>3
  <2>2. CASE g # f
    BY <1>4, <1>5, <2>0, <2>2 DEF Owned
  <2> QED
    BY <2>1, <2>2
<1>7. ASSUME ~ Budget, NEW g \in Flights
      PROVE  /\ pc'[g] \in {"attachTemp", "temp"} => g \in transient'
             /\ result'[g] = "temp" /\ refs'[g] > 0 => g \in transient'
  <2>1. CASE g = f
    BY <1>0, <1>3, <1>7, <2>1 DEF Kept
  <2>2. CASE g # f
    BY <1>0, <1>4, <1>7, <2>2 DEF Kept
  <2> QED
    BY <2>1, <2>2
<1> QED
  BY <1>6, <1>7 DEF Owned, Kept

\* The start of a flight.
LEMMA StartOwnedKept ==
    ASSUME Control, Owned, Kept, NEW c \in Readers, NEW f \in Flights, StartFlight(c, f)
    PROVE  Owned' /\ Kept'
<1>0. /\ Shape /\ c \in Procs /\ f \in Procs /\ c # f /\ f \notin transient
      /\ \A p \in Procs : at[p] # f
      /\ UNCHANGED transient
      /\ result' = [result EXCEPT ![f] = "none"] /\ at' = [at EXCEPT ![c] = f]
      /\ refs' = [refs EXCEPT ![f] = 0] /\ pc' = [pc EXCEPT ![c] = "wait", ![f] = "run"]
      /\ at[c] = None /\ None \notin Flights
  BY ConstantsAssumption DEF Control, Procs, StartFlight, Unused, files, ReaderCtl
<1>1. ASSUME NEW g \in Flights \ {f}
      PROVE  pc'[g] = pc[g] /\ result'[g] = result[g] /\ refs'[g] = refs[g]
  <2>1. g # c /\ g \in Procs
    BY ConstantsAssumption DEF Procs
  <2> QED
    BY <1>0, <2>1 DEF Shape
<1>2. ASSUME NEW d \in Readers, at[d] \in Flights
      PROVE  at'[d] = at[d]
  BY <1>0, <1>2 DEF Shape
<1>3. pc'[f] = "run" /\ result'[f] = "none"
  BY <1>0 DEF Shape
<1>4. transient \subseteq Flights \ {f}
  BY <1>0 DEF Shape
<1>5. Owned'
  <2>1. ASSUME NEW g \in transient'
        PROVE  \/ pc'[g] \in {"attachTemp", "temp", "cleanup"}
               \/ result'[g] = "temp" /\ \E d \in Readers : at'[d] = g
    <3>1. g \in transient /\ pc'[g] = pc[g] /\ result'[g] = result[g] /\ g \in Flights
      BY <1>0, <1>1, <1>4, <2>1
    <3> QED
      BY <1>2, <3>1 DEF Owned
  <2> QED
    BY <2>1 DEF Owned
<1>6. Kept'
  BY <1>0, <1>1, <1>3 DEF Kept
<1> QED
  BY <1>5, <1>6

\* The others only ever remove transient files, to make room.
LEMMA OtherOwnedKept ==
    ASSUME Control, Owned, Kept, OtherStep
    PROVE  Owned' /\ Kept'
<1>1. UNCHANGED <<refs, result, pc, at>>
  BY OtherControl DEF group
<1>2. transient' \subseteq transient /\ (~ Budget => transient' = transient)
  BY DEF OtherStep, DeleteArtifact, Republish, EvictHot, Damage, vars, EvictTransient
<1> QED
  BY <1>1, <1>2 DEF Owned, Kept

-----------------------------------------------------------------------------
(* Deferred deletions.                                                     *)

\* A process that retains the path is counted.
LEMMA HoldsActive ==
    ASSUME Exact, NEW p \in Procs, Holds(p)
    PROVE  active > 0
<1>1. Holders # {}
  BY DEF Holders
<1> QED
  BY <1>1, CountedFinite, CountTypes, FS_EmptySet DEF Exact

\* Every step keeps a deferred deletion in somebody's hands.
LEMMA PendingHeldNext ==
    ASSUME Control, Exact, PendingHeld, [Next]_vars
    PROVE  PendingHeld'
<1>0. /\ active \in Nat /\ pending \in BOOLEAN
      /\ \A c \in Readers : ReaderCtl(c) /\ c \in Procs
  BY CountTypes DEF Exact, Control, Shape, Procs
<1>1. CASE UNCHANGED locks
  BY <1>1 DEF PendingHeld, locks
<1>2. ASSUME NEW p \in Procs, Retain(p) \/ SharedRetain(p)
      PROVE  PendingHeld'
  <2>1. active' = active + 1
    BY <1>2 DEF Retain, SharedRetain
  <2>2. active' > 0
    BY <1>0, <2>1
  <2> QED
    BY <2>2 DEF PendingHeld
<1>3. ASSUME NEW p \in Procs, Verify(p) \/ Check(p), p \in Readers \/ Verify(p)
      PROVE  PendingHeld'
  <2>1. CASE UNCHANGED pending
    BY <1>3, <2>1 DEF Verify, Check, PendingHeld
  <2>2. CASE ~ UNCHANGED pending
    <3>1. active' = active /\ Holds(p)
      BY <1>3, <2>2 DEF Verify, Check, Holds
    <3>2. active > 0
      BY <3>1, HoldsActive
    <3> QED
      BY <3>1, <3>2 DEF PendingHeld
  <2> QED
    BY <2>1, <2>2
<1>4. ASSUME NEW p \in Procs, Release(p)
      PROVE  PendingHeld'
  <2>1. CASE active <= 1 /\ pending
    BY <1>4, <2>1 DEF Release, PendingHeld
  <2>2. CASE ~ (active <= 1 /\ pending)
    <3>1. active' = active - 1 /\ pending' = pending
      BY <1>4, <2>2 DEF Release
    <3>2. pending => active > 1
      BY <1>0, <2>2
    <3> QED
      BY <1>0, <3>1, <3>2 DEF PendingHeld
  <2> QED
    BY <2>1, <2>2
<1>5. CASE DeleteArtifact \/ EvictHot
  <2>1. CASE RemoveHot
    <3>1. active' = active /\ pending' = (pending \/ active > 0)
      BY <1>5, <2>1 DEF DeleteArtifact, EvictHot, RemoveHot
    <3> QED
      BY <3>1 DEF PendingHeld
  <2>2. CASE ~ RemoveHot
    <3>1. active' = active /\ pending' = pending
      BY <1>5, <2>2 DEF DeleteArtifact, EvictHot
    <3> QED
      BY <3>1 DEF PendingHeld
  <2> QED
    BY <2>1, <2>2
<1>6. CASE Republish \/ Damage \/ UNCHANGED vars \/ \E f \in Flights : EvictTransient(f)
  BY <1>1, <1>6 DEF Republish, Damage, vars, EvictTransient, locks
<1>7. ASSUME NEW p \in Procs, OpenStep(p)
      PROVE  PendingHeld'
  BY <1>1, <1>2, <1>3, <1>4, <1>7 DEF OpenStep, Lstat, Open, OpenError, Unlink, Cleanup
<1>8. ASSUME NEW c \in Readers, EnsureBegin(c) \/ ReaderStep(c) \/ ClientCancels(c)
      PROVE  PendingHeld'
  <2>1. CASE OpenStep(c)
    BY <1>0, <1>7, <2>1
  <2>2. CASE SharedRetain(c) \/ Check(c)
    BY <1>0, <1>2, <1>3, <2>2
  <2>3. CASE ~ OpenStep(c) /\ ~ SharedRetain(c) /\ ~ Check(c)
    BY <1>1, <1>8, <2>3
       DEF EnsureBegin, ReaderStep, ClientCancels, JoinCancelled, WaitCancelled, JoinFlight,
           StartFlight, WaitFailed, WaitDone, SharedOpenKept, SharedOpenTemp, LeaveOpen,
           LeaveFailed, Leave, CloseHot, CloseTemp
  <2> QED
    BY <2>1, <2>2, <2>3
<1>9. ASSUME NEW f \in Flights, FlightStep(f)
      PROVE  PendingHeld'
  <2>1. CASE OpenStep(f)
    BY <1>7, <2>1 DEF Procs
  <2>2. CASE ~ OpenStep(f)
    BY <1>1, <1>9, <2>2
       DEF FlightStep, RunFlight, BuildFailed, BuildKept, BuildTemp, AttachKept, AttachTemp,
           AttachFailed, FinishFlight
  <2> QED
    BY <2>1, <2>2
<1> QED
  BY <1>5, <1>6, <1>8, <1>9 DEF Next

-----------------------------------------------------------------------------
(* The theorems.                                                           *)

\* Nothing is built, read or referenced at the start.
LEMMA HotInvInit == Init => HotInv
<1> SUFFICES ASSUME Init PROVE HotInv
  OBVIOUS
<1>1. Shape
  <2>1. "idle" \in Labels /\ pending \in BOOLEAN
    BY DEF Init, Labels
  <2>2. /\ waiters \in [Flights -> Int] /\ refs \in [Flights -> Int] /\ active \in Int
        /\ pc \in [Procs -> Labels] /\ then \in [Procs -> Labels]
    BY <2>1 DEF Init
  <2>3. cancelled \in [Flights -> BOOLEAN]
    BY DEF Init
  <2> QED
    BY <2>1, <2>2, <2>3 DEF Init, Shape
<1>2. \A c \in Readers : ReaderCtl(c)
  BY DEF Init, ReaderCtl, ReaderLabels, Procs
<1>3. \A f \in Flights : FlightCtl(f)
  BY ConstantsAssumption DEF Init, FlightCtl, FlightLabels, Running, Procs
<1>4. Holders = {} /\ \A f \in Flights : Waiters(f) = {} /\ Openers(f) = {}
  BY ConstantsAssumption DEF Init, Holders, Holds, Waiters, Waits, Openers, Reads, Procs
<1>5. Exact
  BY <1>4, FS_EmptySet DEF Init, Exact, Procs
<1>6. PendingHeld /\ Owned /\ Kept
  BY DEF Init, PendingHeld, Owned, Kept, Procs
<1> QED
  BY <1>1, <1>2, <1>3, <1>5, <1>6 DEF HotInv, Control

\* Every step keeps the invariant.
LEMMA HotInvNext == HotInv /\ [Next]_vars => HotInv'
<1> SUFFICES ASSUME HotInv, [Next]_vars PROVE HotInv'
  OBVIOUS
<1> DEFINE Good == Control' /\ Exact' /\ Owned' /\ Kept'
<1> USE DEF HotInv
<1>1. ASSUME NEW p \in Procs, OpenStep(p)
      PROVE  Good
  BY <1>1, OpenStepControl, OpenStepExact, OpenStepOwnedKept
<1>2. ASSUME NEW c \in Readers, EnsureBegin(c) \/ ReaderStep(c) \/ ClientCancels(c)
      PROVE  Good
  <2>1. CASE OpenStep(c)
    BY <1>1, <2>1 DEF Procs
  <2>2. ASSUME NEW f \in Flights, StartFlight(c, f)
        PROVE  Good
    BY <2>2, StartControl, StartExact, StartOwnedKept
  <2>3. CASE \/ EnsureBegin(c) \/ JoinCancelled(c) \/ WaitDone(c) \/ JoinFlight(c)
             \/ SharedRetain(c) \/ SharedOpenKept(c) \/ SharedOpenTemp(c) \/ Check(c)
             \/ CloseHot(c) \/ CloseTemp(c)
    <3>1. Control' /\ Exact'
      BY <2>3, ReaderStepControl, ReaderStepExact
    <3> QED
      BY <2>3, <3>1, ReaderStepOwnedKept
  <2>4. ASSUME NEW l \in {"idle", "check"}, Leave(c, l),
               pc[c] \in {"wait", "leaveOpen", "leaveFailed"},
               l = "check" <=> pc[c] = "leaveOpen"
        PROVE  Good
    <3>1. Control' /\ Exact'
      BY <2>4, LeaveControl, LeaveExact
    <3> QED
      BY <2>4, <3>1, LeaveOwnedKept
  <2>5. CASE WaitCancelled(c) \/ WaitFailed(c) \/ LeaveOpen(c) \/ LeaveFailed(c)
    BY <2>4, <2>5 DEF WaitCancelled, WaitFailed, LeaveOpen, LeaveFailed
  <2> QED
    BY <1>2, <2>1, <2>2, <2>3, <2>5 DEF ReaderStep, ClientCancels
<1>3. ASSUME NEW f \in Flights, FlightStep(f)
      PROVE  Good
  <2>1. CASE OpenStep(f)
    BY <1>1, <2>1 DEF Procs
  <2>2. CASE FinishFlight(f)
    <3>1. Control' /\ Exact'
      BY <2>2, FinishControl, FinishExact
    <3> QED
      BY <2>2, <3>1, FinishOwnedKept
  <2>3. CASE \/ RunFlight(f) \/ BuildFailed(f) \/ BuildKept(f) \/ BuildTemp(f)
             \/ AttachKept(f) \/ AttachTemp(f) \/ AttachFailed(f)
    BY <2>3, FlightStepControl, FlightStepExact, FlightStepOwnedKept
  <2> QED
    BY <1>3, <2>1, <2>2, <2>3 DEF FlightStep
<1>4. ASSUME OtherStep
      PROVE  Good
  BY <1>4, OtherControl, OtherExact, OtherOwnedKept
<1>5. Good
  BY <1>2, <1>3, <1>4 DEF Next, OtherStep
<1>6. PendingHeld'
  BY PendingHeldNext
<1> QED
  BY <1>5, <1>6

\* The invariant holds in every reachable state.
LEMMA HotInvCorrect == Spec => []HotInv
BY HotInvInit, HotInvNext, PTL DEF Spec

\* Type correctness: hotActiveObj, the waiters of a flight and the references
\* to a transient file never go below zero.
THEOREM TypeCorrect == Spec => []TypeOK
<1>1. HotInv => TypeOK
  <2> SUFFICES ASSUME HotInv PROVE TypeOK
    OBVIOUS
  <2>1. active \in Nat /\ \A f \in Flights : waiters[f] \in Nat /\ refs[f] \in Nat
    BY CountTypes DEF HotInv, Exact
  <2>2. waiters \in [Flights -> Nat] /\ refs \in [Flights -> Nat]
    BY <2>1 DEF HotInv, Control, Shape
  <2> QED
    BY <2>1, <2>2 DEF HotInv, Control, Shape, TypeOK
<1> QED
  BY <1>1, HotInvCorrect, PTL

\* A deferred deletion always has a process that retains the path and will
\* carry it out.
THEOREM PendingHeldCorrect == Spec => []PendingHeld
BY HotInvCorrect, PTL DEF HotInv

\* Flights are shared: at most one of them runs.
THEOREM OneBuildCorrect == Spec => []OneBuild
<1>1. HotInv => OneBuild
  BY DEF HotInv, Control, FlightCtl, OneBuild
<1> QED
  BY <1>1, HotInvCorrect, PTL

\* The transient file of a flight is there while a waiter may open it.
THEOREM TransientKeptCorrect == Spec => []TransientKept
<1>1. HotInv => TransientKept
  <2> SUFFICES ASSUME HotInv, ~ Budget, NEW c \in Readers, NEW f \in Flights,
                      Waits(c, f), result[f] = "temp"
               PROVE  f \in transient
    BY DEF TransientKept
  <2>2. refs[f] \in Int /\ Exact
    BY DEF HotInv, Control, Shape
  <2>3. WaitCount(c, f) = 1 /\ ReadCount(c, f) \in {0, 1}
    BY DEF WaitCount, ReadCount
  <2>1. refs[f] >= 1
    BY <2>2, <2>3, Counted
  <2> QED
    BY <2>1, <2>2 DEF HotInv, Kept
<1> QED
  BY <1>1, HotInvCorrect, PTL

\* A transient file has its flight or a reader to remove it.
THEOREM TransientOwnedCorrect == Spec => []TransientOwned
<1>1. HotInv => TransientOwned
  BY DEF HotInv, Owned, TransientOwned
<1> QED
  BY <1>1, HotInvCorrect, PTL
=============================================================================
