------------------------------ MODULE Download ------------------------------
(* The download of a version's archive into the spool (mod/source: retry.go,   *)
(* client.go, git.go): attempts with a limited number of slots, resumed with a *)
(* range request while the upstream may replace the archive between attempts.  *)
(* Validators are taken to be strong: an upstream that stamps two contents     *)
(* with one Last-Modified, or answers a range it was not asked for, is outside.*)
EXTENDS Naturals, FiniteSets, Sequences

CONSTANTS
    Fetches,          \* the versions fetched at the same time
    NoSpool,          \* no file
    NoValidator,      \* resumeStateObj without a validator
    DownloadSettings  \* the length of each content the upstream has in turn, whether it announces it
                      \* and whether it sends validators, maxArchiveSize (0: none), the number of
                      \* slots, and the attempts of the retry

ASSUME FetchesAssumption == IsFiniteSet(Fetches)
ASSUME MarksAssumption == NoSpool \notin Seq(Nat \X Nat) /\ NoValidator \notin Nat
ASSUME DownloadSettingsAssumption ==
    DownloadSettings \subseteq [lengths : Seq(Nat) \ {<<>>}, announced : BOOLEAN, validators : BOOLEAN,
                                max : Nat, slots : Nat, attempts : Nat]

VARIABLES
    fetch,        \* for each fetch: where it is, the attempt, the content being received and from
                  \* which length of the file on, the size reported
    validator,    \* resumeStateObj.validator
    spoolFile,    \* its file: units of contents
    downloadSem,  \* slots in use
    upstream,     \* the content the upstream has
    downloadSetting

downloadVars == <<fetch, validator, spoolFile, downloadSem, upstream, downloadSetting>>

max == downloadSetting.max
Length(c) == downloadSetting.lengths[c]
Unit(c, i) == <<c, i>>
At(f, where) == fetch[f].at = where

DownloadInit ==
    /\ downloadSetting \in DownloadSettings
    /\ fetch = [f \in Fetches |-> [at |-> "start", attempt |-> 1, content |-> 1, from |-> 0, size |-> 0]]
    /\ validator = [f \in Fetches |-> NoValidator]
    /\ spoolFile = [f \in Fetches |-> NoSpool]
    /\ downloadSem = 0 /\ upstream = 1

------------------------------------------------------------------------------
(* How an attempt ends.                                                       *)

\* The error is permanent, or the context ends: FetchArchive removes the file.
GiveUp(f, size) ==
    /\ fetch' = [fetch EXCEPT ![f].at = "failed", ![f].size = size]
    /\ spoolFile' = [spoolFile EXCEPT ![f] = NoSpool]
\* Any other error: the next attempt comes after the backoff, without the slot.
TryAgain(f, size) ==
    IF fetch[f].attempt >= downloadSetting.attempts THEN GiveUp(f, size)
    ELSE /\ fetch' = [fetch EXCEPT ![f].at = "backoff", ![f].size = size]
         /\ UNCHANGED spoolFile
Release == downloadSem' = downloadSem - 1

Acquire(f) ==
    /\ At(f, "start") /\ downloadSem < downloadSetting.slots
    /\ downloadSem' = downloadSem + 1
    /\ fetch' = [fetch EXCEPT ![f].at = "request"]
    /\ UNCHANGED <<validator, spoolFile, upstream, downloadSetting>>
BackoffEnds(f) ==
    /\ At(f, "backoff")
    /\ fetch' = [fetch EXCEPT ![f].at = "start", ![f].attempt = @ + 1]
    /\ UNCHANGED <<validator, spoolFile, downloadSem, upstream, downloadSetting>>
\* The context ends: waiting for a slot, in the backoff, or in an attempt.
Cancel(f) ==
    /\ fetch[f].at \in {"start", "backoff", "request", "body"}
    /\ GiveUp(f, fetch[f].size)
    /\ IF fetch[f].at \in {"request", "body"} THEN Release ELSE UNCHANGED downloadSem
    /\ UNCHANGED <<validator, upstream, downloadSetting>>

------------------------------------------------------------------------------
(* The request.                                                               *)

\* Mutant of startAt: the file is continued with or without a validator.
startAtAlways(f) == IF spoolFile[f] # NoSpool THEN Len(spoolFile[f]) ELSE 0
startAt(f) == IF validator[f] # NoValidator /\ spoolFile[f] # NoSpool THEN Len(spoolFile[f]) ELSE 0

\* No connection, no answer in time, or a status of 500 and above.
Unanswered(f) ==
    /\ At(f, "request")
    /\ \E size \in {0, startAt(f)} : TryAgain(f, size)
    /\ Release
    /\ UNCHANGED <<validator, upstream, downloadSetting>>
\* A status of 400 to 499; a range that begins at the end cannot be satisfied.
Refused(f) ==
    /\ At(f, "request")
    /\ GiveUp(f, 0) /\ Release
    /\ UNCHANGED <<validator, upstream, downloadSetting>>

\* What is announced is compared with the limit before the file is opened.
TooLong(f, resume) == LET written == IF resume THEN startAt(f) ELSE 0
                      IN  downloadSetting.announced /\ Length(upstream) > written /\ max > 0 /\ Length(upstream) > max
Answered(f, resume) ==
    /\ validator' = [validator EXCEPT ![f] = IF downloadSetting.validators THEN upstream ELSE NoValidator]
    /\ IF TooLong(f, resume)
       THEN GiveUp(f, Length(upstream)) /\ Release
       ELSE /\ fetch' = [fetch EXCEPT ![f].at = "body", ![f].content = upstream,
                                          ![f].from = IF resume THEN startAt(f) ELSE 0]
            /\ spoolFile' = IF resume THEN spoolFile ELSE [spoolFile EXCEPT ![f] = <<>>]
            /\ UNCHANGED downloadSem
    /\ UNCHANGED <<upstream, downloadSetting>>
\* The whole content: always possible, also to a range request.
Full(f) == At(f, "request") /\ Answered(f, FALSE)
\* The rest of it: If-Range holds, an empty one too.
Partial(f) ==
    /\ At(f, "request")
    /\ startAt(f) > 0 /\ startAt(f) < Length(upstream)
    /\ validator[f] \in {upstream, NoValidator}
    /\ Answered(f, TRUE)

------------------------------------------------------------------------------
(* The body.                                                                  *)

Written(f) == Len(spoolFile[f])
\* The reader stops one unit above the limit.
Ended(f) == Written(f) >= Length(fetch[f].content) \/ (max > 0 /\ Written(f) > max)
Receive(f) ==
    /\ At(f, "body") /\ ~ Ended(f)
    /\ spoolFile' = [spoolFile EXCEPT ![f] = Append(@, Unit(fetch[f].content, Len(@) + 1))]
    /\ UNCHANGED <<fetch, validator, downloadSem, upstream, downloadSetting>>
\* The connection breaks, stalls, or is slower than the least rate; also after
\* the last byte, if the end was not announced.
Breaks(f) ==
    /\ At(f, "body")
    /\ Ended(f) => ~ downloadSetting.announced
    /\ TryAgain(f, Written(f)) /\ Release
    /\ UNCHANGED <<validator, upstream, downloadSetting>>
Received(f) ==
    /\ At(f, "body") /\ Ended(f)
    /\ IF max > 0 /\ Written(f) > max
       THEN GiveUp(f, Written(f))
       ELSE /\ fetch' = [fetch EXCEPT ![f].at = "done", ![f].size = Written(f)]
            /\ UNCHANGED spoolFile
    /\ Release
    /\ UNCHANGED <<validator, upstream, downloadSetting>>
\* The file cannot be opened, synced or closed.
SpoolFails(f) ==
    /\ At(f, "body") /\ (Written(f) = fetch[f].from \/ Ended(f))
    /\ GiveUp(f, Written(f)) /\ Release
    /\ UNCHANGED <<validator, upstream, downloadSetting>>

\* The upstream replaces the archive (a tag is moved).
Replace ==
    /\ upstream < Len(downloadSetting.lengths)
    /\ upstream' = upstream + 1
    /\ UNCHANGED <<fetch, validator, spoolFile, downloadSem, downloadSetting>>

DownloadNext ==
    \/ Replace
    \/ \E f \in Fetches :
           \/ Acquire(f) \/ BackoffEnds(f) \/ Cancel(f)
           \/ Unanswered(f) \/ Refused(f) \/ Full(f) \/ Partial(f)
           \/ Receive(f) \/ Breaks(f) \/ Received(f) \/ SpoolFails(f)
DownloadSpec == DownloadInit /\ [][DownloadNext]_downloadVars

------------------------------------------------------------------------------
\* What a fetch returns is one content of the upstream, whole, however often
\* the connection broke and the upstream replaced it meanwhile, within the
\* limit, and of the size that is reported; a failed fetch leaves no file
\* ("rescan owns extract, publish, and spool cleanup" of the result only,
\* mod/source/git.go:168); and every slot is given back, so that a failure
\* never takes the place of another fetch.
DownloadExact ==
    /\ \A f \in Fetches :
           /\ At(f, "done") =>
                  /\ \E c \in 1 .. upstream : spoolFile[f] = [i \in 1 .. Length(c) |-> Unit(c, i)]
                  /\ fetch[f].size = Len(spoolFile[f])
                  /\ max > 0 => fetch[f].size <= max
           /\ At(f, "failed") => spoolFile[f] = NoSpool
    /\ (\A f \in Fetches : fetch[f].at \in {"done", "failed", "backoff"}) => downloadSem = 0
==============================================================================
