--------------------------- MODULE ServicesProofs ----------------------------
(* The components that act for one version or one key at a time, proved for   *)
(* every value of their constants: downloads, the link to another instance,    *)
(* and the documents that are served.                                          *)
EXTENDS Download, MirrorLink, Documents, FiniteLemmas, SequenceTheorems

------------------------------------------------------------------------------
(* Downloads for any number of versions, slots, attempts and contents of any  *)
(* length: a resumed file is one content of the upstream, and slots come back. *)

FetchPlaces == {"start", "backoff", "request", "body", "done", "failed"}
SpoolFiles == Seq(Nat \X Nat) \cup {NoSpool}
Fetch == [at : FetchPlaces, attempt : Nat, content : Nat, from : Nat, size : Nat]
DownloadType ==
    /\ fetch \in [Fetches -> Fetch]
    /\ validator \in [Fetches -> Nat \cup {NoValidator}]
    /\ spoolFile \in [Fetches -> SpoolFiles]
    /\ downloadSem \in Nat /\ upstream \in 1 .. Len(downloadSetting.lengths)
    /\ downloadSetting \in DownloadSettings

\* The file is the beginning of one content, and the validator is that
\* content's or there is none.
FileOK(file, content, valid) ==
    file # NoSpool =>
        /\ \A i \in 1 .. Len(file) : file[i] = Unit(content, i)
        /\ Len(file) <= Length(content)
        /\ valid \in {content, NoValidator}
FetchOK(f) ==
    /\ fetch[f].content \in 1 .. upstream
    /\ FileOK(spoolFile[f], fetch[f].content, validator[f])
    /\ At(f, "body") => spoolFile[f] # NoSpool
    /\ At(f, "failed") => spoolFile[f] = NoSpool
    /\ At(f, "done") =>
           /\ spoolFile[f] # NoSpool /\ fetch[f].size = Len(spoolFile[f])
           /\ Len(spoolFile[f]) = Length(fetch[f].content)
           /\ max > 0 => fetch[f].size <= max

\* A slot is held from the request to the end of the body.
Holders == {f \in Fetches : fetch[f].at \in {"request", "body"}}
Slots == downloadSem = Cardinality(Holders)

DownloadInv == DownloadType /\ (\A f \in Fetches : FetchOK(f)) /\ Slots

------------------------------------------------------------------------------
\* The settings of a configuration, field by field.
LEMMA SettingType ==
    ASSUME DownloadType
    PROVE  /\ downloadSetting.lengths \in Seq(Nat) /\ downloadSetting.announced \in BOOLEAN
           /\ downloadSetting.validators \in BOOLEAN /\ max \in Nat
           /\ downloadSetting.slots \in Nat /\ downloadSetting.attempts \in Nat
           /\ upstream \in Nat /\ \A c \in 1 .. upstream : Length(c) \in Nat
<1>1. downloadSetting \in [lengths : Seq(Nat) \ {<<>>}, announced : BOOLEAN, validators : BOOLEAN,
                           max : Nat, slots : Nat, attempts : Nat]
  BY DownloadSettingsAssumption DEF DownloadType
<1>2. downloadSetting.lengths \in Seq(Nat) /\ upstream \in 1 .. Len(downloadSetting.lengths)
  BY <1>1 DEF DownloadType
<1>3. upstream \in Nat /\ \A c \in 1 .. upstream : Length(c) \in Nat
  BY <1>2 DEF Length
<1> QED
  BY <1>1, <1>2, <1>3 DEF max

\* Nothing is downloaded at first.
LEMMA DownloadBegins == ASSUME DownloadInit PROVE DownloadInv
<1>1. downloadSetting \in DownloadSettings /\ downloadSetting.lengths \in Seq(Nat) \ {<<>>}
  BY DownloadSettingsAssumption DEF DownloadInit
<1>2. 1 \in 1 .. Len(downloadSetting.lengths)
  BY <1>1, EmptySeq
<1>3. DownloadType
  BY <1>1, <1>2 DEF DownloadInit, DownloadType, Fetch, SpoolFiles, FetchPlaces
<1>4. \A f \in Fetches : FetchOK(f)
  BY DEF DownloadInit, FetchOK, FileOK, At
<1>5. Holders = {}
  BY DEF Holders, DownloadInit
<1>6. Slots
  BY <1>5, FS_EmptySet DEF Slots, DownloadInit
<1> QED
  BY <1>3, <1>4, <1>6 DEF DownloadInv

------------------------------------------------------------------------------
(* A step of one fetch.                                                       *)

\* The other fetches, the upstream and the configuration stay.
Alone(f) ==
    /\ UNCHANGED <<upstream, downloadSetting>>
    /\ \A g \in Fetches \ {f} :
           fetch'[g] = fetch[g] /\ validator'[g] = validator[g] /\ spoolFile'[g] = spoolFile[g]

LEMMA AloneInv ==
    ASSUME DownloadInv, NEW f \in Fetches, Alone(f), FetchOK(f)'
    PROVE  \A g \in Fetches : FetchOK(g)'
BY DEF DownloadInv, Alone, FetchOK, FileOK, At, max, Length

\* The number of slots follows the one fetch that moves.
LEMMA SlotTaken ==
    ASSUME DownloadInv, NEW f \in Fetches, Alone(f),
           f \notin Holders, fetch'[f].at \in {"request", "body"}, downloadSem' = downloadSem + 1
    PROVE  Slots'
<1>1. Holders' = Holders \cup {f}
  BY DEF Alone, Holders
<1>2. IsFiniteSet(Holders)
  BY FS_Subset, FetchesAssumption DEF Holders
<1> QED
  BY <1>1, <1>2, FS_AddElement DEF Slots, DownloadInv
LEMMA SlotGiven ==
    ASSUME DownloadInv, NEW f \in Fetches, Alone(f),
           f \in Holders, fetch'[f].at \notin {"request", "body"}, downloadSem' = downloadSem - 1
    PROVE  Slots' /\ downloadSem' \in Nat
<1>1. Holders' = Holders \ {f}
  BY DEF Alone, Holders
<1>2. IsFiniteSet(Holders)
  BY FS_Subset, FetchesAssumption DEF Holders
<1>3. Cardinality(Holders) \in Nat /\ Cardinality(Holders) # 0
  BY <1>2, FS_CardinalityType, FS_EmptySet
<1>4. Cardinality(Holders \ {f}) = Cardinality(Holders) - 1
  BY <1>2, FS_RemoveElement
<1>5. downloadSem = Cardinality(Holders)
  BY DEF Slots, DownloadInv
<1>6. Cardinality(Holders') = downloadSem'
  BY <1>1, <1>4, <1>5
<1>7. downloadSem' \in Nat
  BY <1>3, <1>5
<1> QED
  BY <1>6, <1>7 DEF Slots
LEMMA SlotKept ==
    ASSUME DownloadInv, NEW f \in Fetches, Alone(f), downloadSem' = downloadSem,
           f \in Holders <=> fetch'[f].at \in {"request", "body"}
    PROVE  Slots'
<1>1. Holders' = Holders
  BY DEF Alone, Holders
<1> QED
  BY <1>1 DEF Slots, DownloadInv

------------------------------------------------------------------------------
(* How an attempt ends.                                                       *)

\* A fetch that is given up has no file.
LEMMA GiveUpStep ==
    ASSUME DownloadType, NEW f \in Fetches, NEW size \in Nat, GiveUp(f, size)
    PROVE  /\ fetch' \in [Fetches -> Fetch] /\ spoolFile' \in [Fetches -> SpoolFiles]
           /\ fetch'[f].at = "failed" /\ fetch'[f].content = fetch[f].content /\ spoolFile'[f] = NoSpool
           /\ \A g \in Fetches \ {f} : fetch'[g] = fetch[g] /\ spoolFile'[g] = spoolFile[g]
<1>1. fetch[f] \in Fetch
  BY DEF DownloadType
<1>2. [fetch[f] EXCEPT !.at = "failed", !.size = size] \in Fetch
  BY <1>1 DEF Fetch, FetchPlaces
<1>3. fetch' = [fetch EXCEPT ![f] = [fetch[f] EXCEPT !.at = "failed", !.size = size]]
  BY DEF GiveUp, DownloadType
<1>4. fetch'[f] = [fetch[f] EXCEPT !.at = "failed", !.size = size]
  BY <1>3 DEF DownloadType
<1>5. fetch'[f].at = "failed" /\ fetch'[f].content = fetch[f].content
  BY <1>1, <1>4 DEF Fetch
<1> QED
  BY <1>2, <1>3, <1>5 DEF GiveUp, DownloadType, SpoolFiles

\* One that is tried again keeps its file, and the content it began with.
LEMMA TryAgainStep ==
    ASSUME DownloadType, NEW f \in Fetches, NEW size \in Nat, TryAgain(f, size)
    PROVE  /\ fetch' \in [Fetches -> Fetch] /\ spoolFile' \in [Fetches -> SpoolFiles]
           /\ fetch'[f].content = fetch[f].content
           /\ \/ fetch'[f].at = "failed" /\ spoolFile'[f] = NoSpool
              \/ fetch'[f].at = "backoff" /\ spoolFile'[f] = spoolFile[f]
           /\ \A g \in Fetches \ {f} : fetch'[g] = fetch[g] /\ spoolFile'[g] = spoolFile[g]
<1>1. CASE GiveUp(f, size)
  BY <1>1, GiveUpStep
<1>2. CASE fetch' = [fetch EXCEPT ![f].at = "backoff", ![f].size = size] /\ UNCHANGED spoolFile
  <2>1. fetch[f] \in Fetch
    BY DEF DownloadType
  <2>2. [fetch[f] EXCEPT !.at = "backoff", !.size = size] \in Fetch
    BY <2>1 DEF Fetch, FetchPlaces
  <2>3. fetch' = [fetch EXCEPT ![f] = [fetch[f] EXCEPT !.at = "backoff", !.size = size]]
    BY <1>2 DEF DownloadType
  <2>4. fetch'[f] = [fetch[f] EXCEPT !.at = "backoff", !.size = size]
    BY <2>3 DEF DownloadType
  <2>5. fetch'[f].at = "backoff" /\ fetch'[f].content = fetch[f].content
    BY <2>1, <2>4 DEF Fetch
  <2> QED
    BY <1>2, <2>2, <2>3, <2>5 DEF DownloadType
<1> QED
  BY <1>1, <1>2 DEF TryAgain

\* An attempt that ended so, with its slot given back, keeps the invariant;
\* what the validator became does not matter to a fetch without a file.
LEMMA AttemptOver ==
    ASSUME DownloadInv, NEW f \in Fetches, f \in Holders, NEW size \in Nat,
           Release, UNCHANGED <<upstream, downloadSetting>>,
           validator' \in [Fetches -> Nat \cup {NoValidator}],
           \A g \in Fetches \ {f} : validator'[g] = validator[g],
           \/ GiveUp(f, size)
           \/ TryAgain(f, size) /\ UNCHANGED validator
    PROVE  DownloadInv'
<1>1. DownloadType /\ FetchOK(f)
  BY DEF DownloadInv
<1>2. /\ fetch' \in [Fetches -> Fetch] /\ spoolFile' \in [Fetches -> SpoolFiles]
      /\ fetch'[f].content = fetch[f].content
      /\ \/ fetch'[f].at = "failed" /\ spoolFile'[f] = NoSpool
         \/ fetch'[f].at = "backoff" /\ spoolFile'[f] = spoolFile[f] /\ UNCHANGED validator
      /\ \A g \in Fetches \ {f} : fetch'[g] = fetch[g] /\ spoolFile'[g] = spoolFile[g]
  BY <1>1, GiveUpStep, TryAgainStep
<1>3. Alone(f)
  BY <1>2 DEF Alone
<1>4. FetchOK(f)'
  BY <1>1, <1>2 DEF FetchOK, FileOK, At, Length
<1>5. Slots' /\ downloadSem' \in Nat
  BY <1>2, <1>3, SlotGiven DEF Release
<1>6. DownloadType'
  BY <1>1, <1>2, <1>5 DEF DownloadType
<1> QED
  BY <1>3, <1>4, <1>5, <1>6, AloneInv DEF DownloadInv

------------------------------------------------------------------------------
(* The steps.                                                                 *)

\* A step of one fetch that keeps the types, the other fetches, its own part
\* of the invariant and the number of slots keeps the invariant.
LEMMA OneFetchOnly ==
    ASSUME DownloadInv, NEW f \in Fetches,
           NEW record \in Fetch, fetch' = [fetch EXCEPT ![f] = record],
           NEW file \in SpoolFiles, spoolFile' = [spoolFile EXCEPT ![f] = file],
           NEW valid \in Nat \cup {NoValidator}, validator' = [validator EXCEPT ![f] = valid],
           downloadSem' \in Nat, UNCHANGED <<upstream, downloadSetting>>,
           FetchOK(f)', Slots'
    PROVE  DownloadInv'
<1>1. DownloadType
  BY DEF DownloadInv
<1>2. DownloadType'
  BY <1>1 DEF DownloadType
<1>3. Alone(f)
  BY <1>1 DEF Alone, DownloadType
<1> QED
  BY <1>2, <1>3, AloneInv DEF DownloadInv

\* What is written of a fetch and its file after such a step.
LEMMA OneFetchValues ==
    ASSUME DownloadType, NEW f \in Fetches,
           NEW record \in Fetch, fetch' = [fetch EXCEPT ![f] = record],
           NEW file \in SpoolFiles, spoolFile' = [spoolFile EXCEPT ![f] = file],
           NEW valid \in Nat \cup {NoValidator}, validator' = [validator EXCEPT ![f] = valid],
           UNCHANGED <<upstream, downloadSetting>>
    PROVE  /\ fetch'[f] = record /\ spoolFile'[f] = file /\ validator'[f] = valid /\ Alone(f)
           /\ fetch[f] \in Fetch /\ spoolFile[f] \in SpoolFiles /\ validator[f] \in Nat \cup {NoValidator}
BY DEF Alone, DownloadType

\* A fetch that has a slot begins its request.
LEMMA AcquireStep ==
    ASSUME DownloadInv, NEW f \in Fetches, Acquire(f) PROVE DownloadInv'
<1> DEFINE record == [fetch[f] EXCEPT !.at = "request"]
<1>1. DownloadType /\ FetchOK(f) /\ downloadSem \in Nat
  BY DEF DownloadInv, DownloadType
<1>2. fetch[f] \in Fetch /\ spoolFile[f] \in SpoolFiles /\ validator[f] \in Nat \cup {NoValidator}
  BY <1>1 DEF DownloadType
<1>3. record \in Fetch /\ record.at = "request" /\ record.content = fetch[f].content
  BY <1>2 DEF Fetch, FetchPlaces
<1>4. /\ fetch' = [fetch EXCEPT ![f] = record]
      /\ spoolFile' = [spoolFile EXCEPT ![f] = spoolFile[f]]
      /\ validator' = [validator EXCEPT ![f] = validator[f]]
  BY <1>1 DEF Acquire, DownloadType
<1>5. UNCHANGED <<upstream, downloadSetting>> /\ downloadSem' = downloadSem + 1 /\ f \notin Holders
  BY DEF Acquire, At, Holders
<1>6. /\ fetch'[f] = record /\ spoolFile'[f] = spoolFile[f] /\ validator'[f] = validator[f] /\ Alone(f)
  <2> HIDE DEF record
  <2> QED BY <1>1, <1>2, <1>3, <1>4, <1>5, OneFetchValues
<1> HIDE DEF record
<1>7. FetchOK(f)'
  BY <1>1, <1>3, <1>5, <1>6 DEF FetchOK, FileOK, At, Length
<1>8. Slots'
  BY <1>3, <1>5, <1>6, SlotTaken
<1>9. downloadSem' \in Nat
  BY <1>1, <1>5
<1> QED
  BY <1>2, <1>3, <1>4, <1>5, <1>7, <1>8, <1>9, OneFetchOnly

\* One that comes from its backoff waits for a slot again, its file kept.
LEMMA BackoffStep ==
    ASSUME DownloadInv, NEW f \in Fetches, BackoffEnds(f) PROVE DownloadInv'
<1> DEFINE record == [fetch[f] EXCEPT !.at = "start", !.attempt = @ + 1]
<1>1. DownloadType /\ FetchOK(f) /\ downloadSem \in Nat
  BY DEF DownloadInv, DownloadType
<1>2. fetch[f] \in Fetch /\ spoolFile[f] \in SpoolFiles /\ validator[f] \in Nat \cup {NoValidator}
  BY <1>1 DEF DownloadType
<1>3. record \in Fetch /\ record.at = "start" /\ record.content = fetch[f].content
  <2> DEFINE attempt == fetch[f].attempt + 1
  <2>1. attempt \in Nat
    BY <1>2 DEF Fetch
  <2>2. record = [fetch[f] EXCEPT !.at = "start", !.attempt = attempt]
    OBVIOUS
  <2> HIDE DEF attempt, record
  <2> QED
    BY <1>2, <2>1, <2>2 DEF Fetch, FetchPlaces
<1>4. /\ fetch' = [fetch EXCEPT ![f] = record]
      /\ spoolFile' = [spoolFile EXCEPT ![f] = spoolFile[f]]
      /\ validator' = [validator EXCEPT ![f] = validator[f]]
  BY <1>1 DEF BackoffEnds, DownloadType
<1>5. UNCHANGED <<upstream, downloadSetting>> /\ downloadSem' = downloadSem /\ f \notin Holders
  BY DEF BackoffEnds, At, Holders
<1>6. /\ fetch'[f] = record /\ spoolFile'[f] = spoolFile[f] /\ validator'[f] = validator[f] /\ Alone(f)
  <2> HIDE DEF record
  <2> QED BY <1>1, <1>2, <1>3, <1>4, <1>5, OneFetchValues
<1> HIDE DEF record
<1>7. FetchOK(f)'
  BY <1>1, <1>3, <1>5, <1>6 DEF FetchOK, FileOK, At, Length
<1>8. Slots'
  BY <1>3, <1>5, <1>6, SlotKept
<1> QED
  BY <1>1, <1>2, <1>3, <1>4, <1>5, <1>7, <1>8, OneFetchOnly

\* One that is cancelled holds a slot in an attempt only.
LEMMA CancelStep ==
    ASSUME DownloadInv, NEW f \in Fetches, Cancel(f) PROVE DownloadInv'
<1>1. DownloadType /\ FetchOK(f) /\ downloadSem \in Nat
  BY DEF DownloadInv, DownloadType
<1>2. fetch[f].size \in Nat /\ GiveUp(f, fetch[f].size) /\ UNCHANGED <<validator, upstream, downloadSetting>>
  BY <1>1 DEF Cancel, DownloadType, Fetch
<1>3. CASE f \in Holders
  <2>1. Release
    BY <1>3 DEF Cancel, Holders
  <2> QED
    BY <1>1, <1>2, <1>3, <2>1, AttemptOver DEF DownloadType
<1>4. CASE f \notin Holders
  <2>1. downloadSem' = downloadSem
    BY <1>4 DEF Cancel, Holders
  <2>2. /\ fetch' \in [Fetches -> Fetch] /\ spoolFile' \in [Fetches -> SpoolFiles]
        /\ fetch'[f].at = "failed" /\ fetch'[f].content = fetch[f].content /\ spoolFile'[f] = NoSpool
        /\ \A g \in Fetches \ {f} : fetch'[g] = fetch[g] /\ spoolFile'[g] = spoolFile[g]
    BY <1>1, <1>2, GiveUpStep
  <2>3. Alone(f)
    BY <1>2, <2>2 DEF Alone
  <2>4. FetchOK(f)'
    BY <1>1, <1>2, <2>2 DEF FetchOK, FileOK, At
  <2>5. Slots'
    BY <1>4, <2>1, <2>2, <2>3, SlotKept
  <2>6. DownloadType'
    BY <1>1, <1>2, <2>1, <2>2 DEF DownloadType
  <2> QED
    BY <2>3, <2>4, <2>5, <2>6, AloneInv DEF DownloadInv
<1> QED
  BY <1>3, <1>4

\* What is left of the file to continue is a length.
LEMMA StartAtType ==
    ASSUME DownloadInv, NEW f \in Fetches PROVE startAt(f) \in Nat
<1>1. spoolFile[f] # NoSpool => Len(spoolFile[f]) \in Nat
  BY DEF DownloadInv, DownloadType, SpoolFiles
<1> QED
  BY <1>1 DEF startAt

\* Requests that get no content.
LEMMA UnansweredStep ==
    ASSUME DownloadInv, NEW f \in Fetches, Unanswered(f) PROVE DownloadInv'
<1>1. PICK size \in {0, startAt(f)} : TryAgain(f, size)
  BY DEF Unanswered
<1>2. size \in Nat /\ f \in Holders /\ Release /\ UNCHANGED <<validator, upstream, downloadSetting>>
  BY StartAtType DEF Unanswered, At, Holders
<1> QED
  BY <1>1, <1>2, AttemptOver DEF DownloadInv, DownloadType
LEMMA RefusedStep ==
    ASSUME DownloadInv, NEW f \in Fetches, Refused(f) PROVE DownloadInv'
<1>1. 0 \in Nat /\ GiveUp(f, 0) /\ f \in Holders /\ Release /\ UNCHANGED <<validator, upstream, downloadSetting>>
  BY DEF Refused, At, Holders
<1> QED
  BY <1>1, AttemptOver DEF DownloadInv, DownloadType

\* The validator of the answer becomes the fetch's, before the length is looked at.
LEMMA AnsweredStep ==
    ASSUME DownloadInv, NEW f \in Fetches, At(f, "request"),
           NEW resume \in BOOLEAN, Answered(f, resume),
           resume => startAt(f) > 0 /\ startAt(f) < Length(upstream) /\ validator[f] \in {upstream, NoValidator}
    PROVE  DownloadInv'
<1> DEFINE valid == IF downloadSetting.validators THEN upstream ELSE NoValidator
           from == IF resume THEN startAt(f) ELSE 0
           file == IF resume THEN spoolFile[f] ELSE <<>>
           record == [fetch[f] EXCEPT !.at = "body", !.content = upstream, !.from = from]
<1>1. DownloadType /\ FetchOK(f) /\ downloadSem \in Nat /\ f \in Holders
  BY DEF DownloadInv, DownloadType, At, Holders
<1>2. fetch[f] \in Fetch /\ spoolFile[f] \in SpoolFiles /\ validator[f] \in Nat \cup {NoValidator}
  BY <1>1 DEF DownloadType
<1>3. upstream \in Nat /\ Length(upstream) \in Nat /\ upstream \in 1 .. upstream /\ from \in Nat
  <2>1. upstream \in Nat /\ upstream >= 1 /\ \A c \in 1 .. upstream : Length(c) \in Nat
    BY <1>1, SettingType DEF DownloadType
  <2>2. upstream \in 1 .. upstream
    BY <2>1
  <2>3. startAt(f) \in Nat
    BY StartAtType
  <2> QED
    BY <2>1, <2>2, <2>3
<1>4. valid \in Nat \cup {NoValidator} /\ validator' = [validator EXCEPT ![f] = valid]
  BY <1>3 DEF Answered
<1>5. UNCHANGED <<upstream, downloadSetting>>
  BY DEF Answered
<1>6. CASE TooLong(f, resume)
  <2>1. GiveUp(f, Length(upstream)) /\ Release
    BY <1>6 DEF Answered
  <2>2. validator' \in [Fetches -> Nat \cup {NoValidator}] /\ \A g \in Fetches \ {f} : validator'[g] = validator[g]
    BY <1>1, <1>4 DEF DownloadType
  <2> QED
    BY <1>1, <1>3, <1>5, <2>1, <2>2, AttemptOver
<1>7. CASE ~ TooLong(f, resume)
  <2>1. /\ fetch' = [fetch EXCEPT ![f].at = "body", ![f].content = upstream, ![f].from = from]
        /\ spoolFile' = IF resume THEN spoolFile ELSE [spoolFile EXCEPT ![f] = <<>>]
        /\ downloadSem' = downloadSem
    BY <1>7 DEF Answered
  <2>2. fetch' = [fetch EXCEPT ![f] = record] /\ spoolFile' = [spoolFile EXCEPT ![f] = file]
    BY <1>1, <2>1 DEF DownloadType
  <2>3. record \in Fetch /\ record.at = "body" /\ record.content = upstream
    BY <1>2, <1>3 DEF Fetch, FetchPlaces
  <2>4. <<>> \in SpoolFiles
    BY DEF SpoolFiles
  <2>5. file \in SpoolFiles
    BY <1>2, <2>4
  <2>6. ~ resume => file = <<>> /\ Len(<<>>) = 0
    OBVIOUS
  <2>7. resume => file = spoolFile[f] /\ validator[f] = upstream /\ spoolFile[f] # NoSpool
                  /\ fetch[f].content = upstream
    <3> HAVE resume
    <3>1. validator[f] # NoValidator /\ spoolFile[f] # NoSpool
      BY DEF startAt
    <3> QED
      BY <1>1, <3>1 DEF FetchOK, FileOK
  <2>8. valid \in {upstream, NoValidator}
    OBVIOUS
  <2>9. file # NoSpool
    <3>1. CASE resume
      BY <2>7, <3>1
    <3>2. CASE ~ resume
      <4>1. <<>> \in Seq(Nat \X Nat)
        OBVIOUS
      <4> QED
        BY <2>6, <3>2, <4>1, MarksAssumption
    <3> QED BY <3>1, <3>2
  <2>10. FileOK(file, upstream, valid)
    <3>1. CASE resume
      <4>1. FileOK(spoolFile[f], upstream, validator[f])
        BY <1>1, <2>7, <3>1 DEF FetchOK
      <4> HIDE DEF valid
      <4> QED BY <2>7, <2>8, <3>1, <4>1 DEF FileOK
    <3>2. CASE ~ resume
      <4> HIDE DEF valid, file
      <4> QED BY <1>3, <2>6, <2>8, <3>2 DEF FileOK
    <3> QED BY <3>1, <3>2
  <2>11. fetch'[f] = record /\ spoolFile'[f] = file /\ validator'[f] = valid /\ Alone(f)
    <3> HIDE DEF record, file, valid
    <3> QED BY <1>1, <1>4, <1>5, <2>2, <2>3, <2>5, OneFetchValues
  <2> HIDE DEF record, file, valid
  <2>12. FetchOK(f)'
    <3>1. FileOK(spoolFile[f], fetch[f].content, validator[f])'
      BY <1>5, <2>3, <2>10, <2>11 DEF FileOK, Length
    <3> QED
      BY <1>3, <1>5, <2>3, <2>9, <2>11, <3>1 DEF FetchOK, At
  <2>13. Slots'
    BY <1>1, <2>1, <2>3, <2>11, SlotKept
  <2> QED
    BY <1>1, <1>4, <1>5, <2>1, <2>2, <2>3, <2>5, <2>12, <2>13, OneFetchOnly
<1> QED
  BY <1>6, <1>7

\* The next unit of the content, unless it has ended.
LEMMA ReceiveStep ==
    ASSUME DownloadInv, NEW f \in Fetches, Receive(f) PROVE DownloadInv'
<1> DEFINE before == spoolFile[f]
           content == fetch[f].content
           file == Append(before, Unit(content, Len(before) + 1))
<1>1. DownloadType /\ FetchOK(f) /\ downloadSem \in Nat /\ At(f, "body")
  BY DEF DownloadInv, DownloadType, Receive
<1>2. fetch[f] \in Fetch /\ validator[f] \in Nat \cup {NoValidator} /\ content \in Nat
  BY <1>1 DEF DownloadType, Fetch
<1>3. before \in Seq(Nat \X Nat)
  BY <1>1 DEF FetchOK, DownloadType, SpoolFiles
<1>4. Len(before) \in Nat /\ Unit(content, Len(before) + 1) \in Nat \X Nat
  BY <1>2, <1>3 DEF Unit
<1>5. /\ file \in Seq(Nat \X Nat) /\ Len(file) = Len(before) + 1
      /\ \A i \in 1 .. Len(before) : file[i] = before[i]
      /\ file[Len(before) + 1] = Unit(content, Len(before) + 1)
  BY <1>3, <1>4
<1>6. /\ fetch' = [fetch EXCEPT ![f] = fetch[f]] /\ spoolFile' = [spoolFile EXCEPT ![f] = file]
      /\ validator' = [validator EXCEPT ![f] = validator[f]]
      /\ UNCHANGED <<fetch, validator, upstream, downloadSetting>> /\ downloadSem' = downloadSem
  BY <1>1 DEF Receive, DownloadType
<1>7. content \in 1 .. upstream /\ Length(content) \in Nat
  BY <1>1, SettingType DEF FetchOK
<1>8. Len(before) < Length(content)
  BY <1>4, <1>7 DEF Receive, Ended, Written
<1>9. FileOK(before, content, validator[f]) /\ before # NoSpool /\ file # NoSpool
  BY <1>1, <1>5, MarksAssumption DEF FetchOK
<1> HIDE DEF before, content, file
<1>10. FileOK(file, content, validator[f])
  <2>1. ASSUME NEW i \in 1 .. Len(file) PROVE file[i] = Unit(content, i)
    <3>1. i \in 1 .. Len(before) \/ i = Len(before) + 1
      BY <1>4, <1>5
    <3>2. \A j \in 1 .. Len(before) : before[j] = Unit(content, j)
      BY <1>9 DEF FileOK
    <3> QED
      BY <1>5, <3>1, <3>2
  <2>2. Len(file) <= Length(content)
    BY <1>4, <1>5, <1>7, <1>8
  <2>3. validator[f] \in {content, NoValidator}
    BY <1>9 DEF FileOK
  <2> QED
    BY <2>1, <2>2, <2>3 DEF FileOK
<1>11. fetch'[f] = fetch[f] /\ spoolFile'[f] = file /\ validator'[f] = validator[f] /\ Alone(f)
  BY <1>1, <1>6 DEF Alone, DownloadType
<1>12. FetchOK(f)'
  BY <1>1, <1>6, <1>7, <1>9, <1>10, <1>11 DEF FetchOK, FileOK, At, Length, content
<1>13. Slots'
  BY <1>1, <1>6, <1>11, SlotKept DEF Holders, At
<1>14. file \in SpoolFiles
  BY <1>5 DEF SpoolFiles
<1> QED
  BY <1>1, <1>2, <1>6, <1>12, <1>13, <1>14, OneFetchOnly

\* What is received is a length; a body that breaks, or cannot be kept.
LEMMA WrittenType ==
    ASSUME DownloadInv, NEW f \in Fetches, At(f, "body") PROVE Written(f) \in Nat /\ f \in Holders
BY DEF DownloadInv, DownloadType, SpoolFiles, FetchOK, At, Written, Holders
LEMMA BreaksStep ==
    ASSUME DownloadInv, NEW f \in Fetches, Breaks(f) PROVE DownloadInv'
<1>1. TryAgain(f, Written(f)) /\ Release /\ UNCHANGED <<validator, upstream, downloadSetting>>
  BY DEF Breaks
<1>2. Written(f) \in Nat /\ f \in Holders
  BY WrittenType DEF Breaks
<1> QED
  BY <1>1, <1>2, AttemptOver DEF DownloadInv, DownloadType
LEMMA SpoolFailsStep ==
    ASSUME DownloadInv, NEW f \in Fetches, SpoolFails(f) PROVE DownloadInv'
<1>1. GiveUp(f, Written(f)) /\ Release /\ UNCHANGED <<validator, upstream, downloadSetting>>
  BY DEF SpoolFails
<1>2. Written(f) \in Nat /\ f \in Holders
  BY WrittenType DEF SpoolFails
<1> QED
  BY <1>1, <1>2, AttemptOver DEF DownloadInv, DownloadType

\* A body that is complete is the whole content, within the limit.
LEMMA ReceivedStep ==
    ASSUME DownloadInv, NEW f \in Fetches, Received(f) PROVE DownloadInv'
<1> DEFINE record == [fetch[f] EXCEPT !.at = "done", !.size = Written(f)]
<1>1. DownloadType /\ FetchOK(f) /\ At(f, "body")
  BY DEF DownloadInv, Received
<1>2. Written(f) \in Nat /\ f \in Holders
  BY <1>1, WrittenType
<1>3. Release /\ UNCHANGED <<validator, upstream, downloadSetting>> /\ max \in Nat
  BY <1>1, SettingType DEF Received
<1>4. CASE max > 0 /\ Written(f) > max
  <2>1. GiveUp(f, Written(f))
    BY <1>4 DEF Received
  <2> QED
    BY <1>1, <1>2, <1>3, <2>1, AttemptOver DEF DownloadType
<1>5. CASE ~ (max > 0 /\ Written(f) > max)
  <2>1. fetch' = [fetch EXCEPT ![f].at = "done", ![f].size = Written(f)] /\ UNCHANGED spoolFile
    BY <1>5 DEF Received
  <2>2. fetch[f] \in Fetch /\ spoolFile[f] \in SpoolFiles /\ validator[f] \in Nat \cup {NoValidator}
    BY <1>1 DEF DownloadType
  <2>3. record \in Fetch /\ record.at = "done" /\ record.size = Written(f) /\ record.content = fetch[f].content
    BY <1>2, <2>2 DEF Fetch, FetchPlaces
  <2>4. /\ fetch' = [fetch EXCEPT ![f] = record]
        /\ spoolFile' = [spoolFile EXCEPT ![f] = spoolFile[f]]
        /\ validator' = [validator EXCEPT ![f] = validator[f]]
    BY <1>1, <1>3, <2>1 DEF DownloadType
  <2> HIDE DEF record
  <2>5. fetch'[f] = record /\ spoolFile'[f] = spoolFile[f] /\ validator'[f] = validator[f] /\ Alone(f)
    BY <1>1, <1>3, <2>4 DEF Alone, DownloadType
  <2>6. Length(fetch[f].content) \in Nat
    BY <1>1, SettingType DEF FetchOK
  <2>7. Written(f) = Length(fetch[f].content)
    <3>1. Written(f) >= Length(fetch[f].content)
      BY <1>5 DEF Received, Ended
    <3>2. Written(f) <= Length(fetch[f].content)
      BY <1>1 DEF FetchOK, FileOK, Written
    <3> QED
      BY <1>2, <2>6, <3>1, <3>2
  <2>8. FetchOK(f)'
    <3>1. FileOK(spoolFile[f], fetch[f].content, validator[f])'
      BY <1>1, <1>3, <2>3, <2>5 DEF FetchOK, FileOK, Length
    <3>2. max > 0 => Written(f) <= max
      BY <1>2, <1>3, <1>5
    <3>3. Length(fetch[f].content)' = Length(fetch[f].content) /\ max' = max
      BY <1>3, <2>3, <2>5 DEF Length, max
    <3> QED
      BY <1>1, <1>3, <2>3, <2>5, <2>7, <3>1, <3>2, <3>3 DEF FetchOK, At, Written
  <2>9. Slots' /\ downloadSem' \in Nat
    BY <1>2, <1>3, <2>3, <2>5, SlotGiven DEF Release
  <2> QED
    BY <1>3, <2>2, <2>3, <2>4, <2>8, <2>9, OneFetchOnly
<1> QED
  BY <1>4, <1>5

\* A content that is replaced stays what it was to those who receive it.
LEMMA ReplaceStep ==
    ASSUME DownloadInv, Replace PROVE DownloadInv'
<1>1. DownloadType /\ upstream \in Nat /\ downloadSetting.lengths \in Seq(Nat)
  BY SettingType DEF DownloadInv
<1>2. upstream' = upstream + 1 /\ UNCHANGED <<fetch, validator, spoolFile, downloadSem, downloadSetting>>
  BY DEF Replace
<1>3. DownloadType'
  BY <1>1, <1>2 DEF DownloadType, Replace
<1>4. \A f \in Fetches : FetchOK(f)'
  BY <1>1, <1>2 DEF DownloadInv, FetchOK, FileOK, At, max, Length
<1>5. Slots'
  BY <1>2 DEF DownloadInv, Slots, Holders
<1> QED
  BY <1>3, <1>4, <1>5 DEF DownloadInv

\* Every step keeps the invariant.
LEMMA DownloadGoesOn == ASSUME DownloadInv, [DownloadNext]_downloadVars PROVE DownloadInv'
<1>1. CASE UNCHANGED downloadVars
  BY <1>1 DEF downloadVars, DownloadInv, DownloadType, FetchOK, FileOK, At, max, Length, Slots, Holders
<1>2. CASE Replace
  BY <1>2, ReplaceStep
<1>3. ASSUME NEW f \in Fetches,
             \/ Acquire(f) \/ BackoffEnds(f) \/ Cancel(f)
             \/ Unanswered(f) \/ Refused(f) \/ Full(f) \/ Partial(f)
             \/ Receive(f) \/ Breaks(f) \/ Received(f) \/ SpoolFails(f)
      PROVE  DownloadInv'
  <2>1. CASE Full(f)
    BY <2>1, AnsweredStep DEF Full
  <2>2. CASE Partial(f)
    BY <2>2, AnsweredStep DEF Partial
  <2> QED
    BY <1>3, <2>1, <2>2, AcquireStep, BackoffStep, CancelStep, UnansweredStep, RefusedStep,
       ReceiveStep, BreaksStep, ReceivedStep, SpoolFailsStep
<1> QED
  BY <1>1, <1>2, <1>3 DEF DownloadNext

\* The invariant says what is returned, left and given back.
LEMMA DownloadIsExact == ASSUME DownloadInv PROVE DownloadExact
<1>1. ASSUME NEW f \in Fetches, At(f, "done")
      PROVE  /\ \E c \in 1 .. upstream : spoolFile[f] = [i \in 1 .. Length(c) |-> Unit(c, i)]
             /\ fetch[f].size = Len(spoolFile[f])
             /\ max > 0 => fetch[f].size <= max
  <2> DEFINE c == fetch[f].content
  <2>1. FetchOK(f) /\ c \in 1 .. upstream /\ spoolFile[f] \in Seq(Nat \X Nat)
    BY <1>1 DEF DownloadInv, FetchOK, DownloadType, SpoolFiles
  <2>2. Len(spoolFile[f]) = Length(c) /\ \A i \in 1 .. Len(spoolFile[f]) : spoolFile[f][i] = Unit(c, i)
    BY <1>1, <2>1 DEF FetchOK, FileOK
  <2>3. spoolFile[f] = [i \in 1 .. Len(spoolFile[f]) |-> spoolFile[f][i]]
    <3> DEFINE file == spoolFile[f]
    <3>1. file \in Seq(Nat \X Nat)
      BY <2>1
    <3> HIDE DEF file
    <3>2. file = [i \in 1 .. Len(file) |-> file[i]]
      BY ONLY <3>1
    <3> QED
      BY <3>2 DEF file
  <2>4. spoolFile[f] = [i \in 1 .. Length(c) |-> Unit(c, i)]
    BY <2>2, <2>3
  <2> QED
    BY <1>1, <2>1, <2>4 DEF FetchOK
<1>2. \A f \in Fetches : At(f, "failed") => spoolFile[f] = NoSpool
  BY DEF DownloadInv, FetchOK
<1>3. ASSUME \A f \in Fetches : fetch[f].at \in {"done", "failed", "backoff"} PROVE downloadSem = 0
  <2>1. Holders = {}
    BY <1>3 DEF Holders
  <2> QED
    BY <2>1, FS_EmptySet DEF DownloadInv, Slots
<1> QED
  BY <1>1, <1>2, <1>3 DEF DownloadExact

\* A download that is returned is one whole content of the upstream within the
\* limit, a failed one leaves no file, and slots are given back (FetchArchive,
\* downloadOnce and fetchWithRetry of mod/source).
THEOREM DownloadExactCorrect == DownloadSpec => []DownloadExact
<1>1. DownloadInit => DownloadInv
  BY DownloadBegins
<1>2. DownloadInv /\ [DownloadNext]_downloadVars => DownloadInv'
  BY DownloadGoesOn
<1>3. DownloadInv => DownloadExact
  BY DownloadIsExact
<1> QED
  BY <1>1, <1>2, <1>3, PTL DEF DownloadSpec

------------------------------------------------------------------------------
(* The link: the walk over the pages of the other instance.                    *)

ListedRow == [tag : Tags, tree : TreeNames, seq : Nat]
Order(S) == {p \in S \X S : ListedBefore(p[1], p[2])}
pageSize == linkSetting.pageSize
RemoteType ==
    /\ linkSetting \in LinkSettings
    /\ remote \in [Tags -> TheirRow \cup {Gone}]

LEMMA LinkSettingType ==
    ASSUME linkSetting \in LinkSettings
    PROVE  /\ pageSize \in Nat \ {0} /\ linkSetting.keyset \in BOOLEAN
           /\ linkSetting.remote \in [Tags -> TheirRow \cup {Gone}]
           /\ linkSetting.mirrored \in [Tags -> TreeNames \cup {Gone}]
           /\ linkSetting.own \in [bytes : Nat, count : Nat]
           /\ \A l \in linkSetting.limits : l \in [bytes : Nat, count : Nat]
BY LinkSettingsAssumption DEF pageSize

------------------------------------------------------------------------------
(* The list of the other instance.                                            *)

\* A row of it.
LEMMA RowOfTagType ==
    ASSUME RemoteType, NEW t \in Present
    PROVE  /\ RowOfTag(t) \in ListedRow /\ RowOfTag(t) \in TheirRows
           /\ RowOfTag(t).tag = t /\ RowOfTag(t).seq = remote[t].seq /\ RowOfTag(t).tree = remote[t].tree
           /\ remote[t].seq \in Nat /\ remote[t].tree \in TreeNames /\ t \in Nat /\ t \in Tags
<1>1. t \in Tags /\ t \in Nat /\ remote[t] \in TheirRow
  BY TagsAssumption DEF RemoteType, Present
<1>2. remote[t].seq \in Nat /\ remote[t].tree \in TreeNames
  BY <1>1 DEF TheirRow
<1> QED
  BY <1>1, <1>2 DEF RowOfTag, ListedRow, TheirRows
LEMMA TheirRowsType ==
    ASSUME RemoteType
    PROVE  /\ IsFiniteSet(TheirRows) /\ IsFiniteSet(Present) /\ TheirRows \subseteq ListedRow
           /\ \A r \in TheirRows : r.tag \in Present /\ r = RowOfTag(r.tag)
<1>1. IsFiniteSet(Present)
  BY TagsAssumption, FS_Subset DEF Present
<1>2. IsFiniteSet(TheirRows)
  <2> DEFINE f == [t \in Present |-> RowOfTag(t)]
  <2>1. f \in Surjection(Present, TheirRows)
    BY DEF Surjection, TheirRows
  <2> HIDE DEF f
  <2> QED
    BY <1>1, <2>1, FS_Surjection
<1>3. ASSUME NEW r \in TheirRows PROVE r \in ListedRow /\ r.tag \in Present /\ r = RowOfTag(r.tag)
  <2>1. PICK t \in Present : r = RowOfTag(t)
    BY DEF TheirRows
  <2>2. RowOfTag(t) \in ListedRow /\ RowOfTag(t).tag = t
    BY RowOfTagType
  <2> QED
    BY <2>1, <2>2
<1> QED
  BY <1>1, <1>2, <1>3

\* The order of rows is one.
LEMMA ListedOrder ==
    ASSUME NEW S \in SUBSET ListedRow, \A r, s \in S : r.tag = s.tag => r = s
    PROVE  StrictOrder(S, Order(S))
<1>1. \A r \in S : r.seq \in Nat /\ r.tag \in Nat
  BY TagsAssumption DEF ListedRow
<1>2. \A r, s \in S : <<r, s>> \in Order(S) <=> ListedBefore(r, s)
  BY DEF Order
<1>3. \A r \in S : ~ ListedBefore(r, r)
  BY <1>1 DEF ListedBefore
<1>4. \A r, s \in S : r # s => ListedBefore(r, s) \/ ListedBefore(s, r)
  BY <1>1 DEF ListedBefore
<1>5. \A r, s, u \in S : ListedBefore(r, s) /\ ListedBefore(s, u) => ListedBefore(r, u)
  BY <1>1 DEF ListedBefore
<1> QED
  BY <1>2, <1>3, <1>4, <1>5 DEF StrictOrder
LEMMA TheirOrder ==
    ASSUME RemoteType, NEW S \in SUBSET TheirRows
    PROVE  /\ IsFiniteSet(S) /\ StrictOrder(S, Order(S)) /\ Sorted(S) = InOrder(S, Order(S))
           /\ S \in SUBSET ListedRow /\ \A r, s \in S : r.tag = s.tag => r = s
<1>1. S \in SUBSET ListedRow /\ \A r, s \in S : r.tag = s.tag => r = s
  BY TheirRowsType
<1>2. IsFiniteSet(S)
  BY TheirRowsType, FS_Subset
<1> QED
  BY <1>1, <1>2, ListedOrder DEF Sorted, Order

\* What is answered from a list: its first page, and whether there is more.
PageOf(rows) == SubSeq(rows, 1, Least(Len(rows), pageSize))
LEMMA FirstOfList ==
    ASSUME RemoteType, NEW S \in SUBSET TheirRows
    PROVE  LET rows == Sorted(S)
               page == PageOf(rows)
           IN  /\ rows \in Seq(ListedRow) /\ Len(rows) = Cardinality(S) /\ page \in Seq(ListedRow)
               /\ \A i, k \in DOMAIN page : page[i].tag = page[k].tag => i = k
               /\ Elements(page) \subseteq S
               /\ Len(rows) <= pageSize => Elements(page) = S
               /\ Len(rows) > pageSize =>
                      /\ page # <<>> /\ Last(page) \in ListedRow
                      /\ \A r \in S : r \in Elements(page) <=> ~ ListedBefore(Last(page), r)
<1> DEFINE rows == Sorted(S)
           page == PageOf(rows)
           R == Order(S)
           N == Cardinality(S)
           place(r) == Cardinality(Preceding(r, S, R))
<1>1. IsFiniteSet(S) /\ StrictOrder(S, R) /\ rows = InOrder(S, R)
      /\ S \in SUBSET ListedRow /\ \A r, s \in S : r.tag = s.tag => r = s
  BY TheirOrder
<1>2. /\ rows \in Seq(S) /\ Len(rows) = N
      /\ \A n \in 1 .. N : rows[n] \in S /\ place(rows[n]) = n - 1
      /\ \A r \in S : place(r) + 1 \in 1 .. N /\ rows[place(r) + 1] = r
  <2>1. /\ InOrder(S, R) \in Seq(S) /\ Len(InOrder(S, R)) = N
        /\ \A n \in 1 .. N : InOrder(S, R)[n] \in S /\ place(InOrder(S, R)[n]) = n - 1
        /\ \A r \in S : place(r) + 1 \in 1 .. N /\ InOrder(S, R)[place(r) + 1] = r
    BY <1>1, InOrderType
  <2>2. rows = InOrder(S, R)
    BY <1>1
  <2> HIDE DEF rows, R, N
  <2> QED
    BY <2>1, <2>2
<1>3. N \in Nat /\ \A r \in S : place(r) \in Nat
  <2>1. \A r \in S : IsFiniteSet(Preceding(r, S, R))
    BY <1>1, FS_Subset DEF Preceding
  <2> QED
    BY <1>1, <2>1, FS_CardinalityType
<1>4. pageSize \in Nat \ {0}
  BY LinkSettingType DEF RemoteType
<1>5. \A r, s \in S : ListedBefore(r, s) => place(r) < place(s)
  <2> TAKE r \in S, s \in S
  <2> HAVE ListedBefore(r, s)
  <2>1. <<r, s>> \in R
    BY DEF Order
  <2> QED
    BY <1>1, <2>1, PlacesGrow
<1>6. \A r, s \in S : r = s \/ ListedBefore(r, s) \/ ListedBefore(s, r)
  BY <1>1 DEF StrictOrder, Order
<1>7. Len(page) = Least(N, pageSize) /\ page \in Seq(S) /\ DOMAIN page = 1 .. Least(N, pageSize)
      /\ \A i \in 1 .. Least(N, pageSize) : page[i] = rows[i]
  <2>1. Least(N, pageSize) \in 0 .. N
    BY <1>3, <1>4 DEF Least
  <2>2. page = SubSeq(rows, 1, Least(N, pageSize))
    BY <1>2 DEF PageOf
  <2>3. rows \in Seq(S) /\ Least(N, pageSize) \in 0 .. Len(rows)
    BY <1>2, <2>1
  <2> HIDE DEF rows, page, N
  <2> QED
    BY <2>2, <2>3, FirstPart
<1> DEFINE n == Least(N, pageSize)
<1>8. n \in Nat /\ n <= N /\ n <= pageSize /\ (n = N \/ n = pageSize) /\ (N <= pageSize => n = N) /\ (N > pageSize => n = pageSize)
  BY <1>3, <1>4 DEF Least
<1> HIDE DEF rows, page, R, N, n, place
<1>9. \A i, k \in 1 .. n : page[i].tag = page[k].tag => i = k
  <2> TAKE i \in 1 .. n, k \in 1 .. n
  <2> HAVE page[i].tag = page[k].tag
  <2>1. i \in 1 .. N /\ k \in 1 .. N
    BY <1>3, <1>8
  <2>2. rows[i] = rows[k]
    BY <1>1, <1>2, <1>7, <2>1 DEF n
  <2>3. i - 1 = k - 1
    BY <1>2, <2>1, <2>2
  <2> QED
    BY <2>1, <2>3, <1>3
<1>10. \A r \in S : r \in Elements(page) <=> place(r) < n
  <2> TAKE r \in S
  <2>1. r \in Elements(page) <=> \E i \in 1 .. n : rows[i] = r
    BY <1>7 DEF Elements, n
  <2>2. ASSUME NEW i \in 1 .. n, rows[i] = r PROVE place(r) < n
    <3>1. i \in 1 .. N
      BY <1>3, <1>8
    <3>2. place(r) = i - 1
      BY <1>2, <2>2, <3>1
    <3> QED
      BY <1>8, <3>2
  <2>3. ASSUME place(r) < n PROVE \E i \in 1 .. n : rows[i] = r
    <3>1. place(r) + 1 \in 1 .. n
      BY <1>3, <1>8, <2>3
    <3> QED
      BY <1>2, <3>1
  <2> QED
    BY <2>1, <2>2, <2>3
<1>11. Elements(page) \subseteq S
  BY <1>7 DEF Elements
<1>12. N <= pageSize => Elements(page) = S
  <2> HAVE N <= pageSize
  <2>1. \A r \in S : place(r) < n
    BY <1>2, <1>3, <1>8
  <2> QED
    BY <1>10, <1>11, <2>1
<1>13. ASSUME N > pageSize
       PROVE  /\ page # <<>> /\ Last(page) \in ListedRow
              /\ \A r \in S : r \in Elements(page) <=> ~ ListedBefore(Last(page), r)
  <2>1. n = pageSize /\ n \in 1 .. N /\ Len(page) = n
    BY <1>3, <1>4, <1>7, <1>8, <1>13 DEF n
  <2>2. Last(page) = rows[n] /\ Last(page) \in S /\ place(Last(page)) = n - 1
    BY <1>2, <1>7, <2>1 DEF Last, n
  <2>3. \A r \in S : place(r) < n <=> ~ ListedBefore(Last(page), r)
    <3> TAKE r \in S
    <3>1. CASE ListedBefore(Last(page), r)
      <4>1. n - 1 < place(r)
        BY <1>5, <2>2, <3>1
      <4> QED
        BY <1>3, <1>8, <3>1, <4>1
    <3>2. CASE r = Last(page)
      <4>1. ~ ListedBefore(r, r)
        BY <1>3, <1>5
      <4> QED
        BY <1>8, <2>2, <3>2, <4>1
    <3>3. CASE ListedBefore(r, Last(page))
      <4>1. place(r) < n - 1
        BY <1>5, <2>2, <3>3
      <4>2. ~ ListedBefore(Last(page), r)
        BY <1>3, <1>5, <2>2, <3>3
      <4> QED
        BY <1>3, <1>8, <4>1, <4>2
    <3> QED
      BY <1>6, <2>2, <3>1, <3>2, <3>3
  <2>4. page # <<>>
    BY <1>8, <2>1, <1>4
  <2> QED
    BY <1>1, <1>10, <2>2, <2>3, <2>4
<1>14. rows \in Seq(ListedRow) /\ page \in Seq(ListedRow)
  BY <1>1, <1>2, <1>7
<1>15. \A i, k \in DOMAIN page : page[i].tag = page[k].tag => i = k
  BY <1>7, <1>9 DEF n
<1> QED
  BY <1>2, <1>11, <1>12, <1>13, <1>14, <1>15 DEF rows, page, N

\* The page after so many rows.
LEMMA LaterOfList ==
    ASSUME RemoteType, NEW from \in Nat
    PROVE  LET rest == SubSeq(Rows, from + 1, Len(Rows))
               page == PageOf(rest)
           IN  /\ page \in Seq(ListedRow)
               /\ Len(rest) > pageSize => page # <<>> /\ Last(page) \in ListedRow
               /\ \A r \in TheirRows :
                      LET place == Cardinality(Preceding(r, TheirRows, Order(TheirRows)))
                      IN  place >= from /\ (place < from + pageSize \/ ~ Len(rest) > pageSize) => r \in Elements(page)
<1> DEFINE rest == SubSeq(Rows, from + 1, Len(Rows))
           page == PageOf(rest)
           R == Order(TheirRows)
           N == Cardinality(TheirRows)
           place(r) == Cardinality(Preceding(r, TheirRows, R))
           n == Least(Len(rest), pageSize)
<1>1. /\ IsFiniteSet(TheirRows) /\ StrictOrder(TheirRows, R) /\ Sorted(TheirRows) = InOrder(TheirRows, R)
      /\ TheirRows \in SUBSET ListedRow
  BY TheirOrder
<1>2. /\ Rows \in Seq(TheirRows) /\ Len(Rows) = N
      /\ \A r \in TheirRows : place(r) + 1 \in 1 .. N /\ Rows[place(r) + 1] = r
  <2>1. /\ InOrder(TheirRows, R) \in Seq(TheirRows) /\ Len(InOrder(TheirRows, R)) = N
        /\ \A r \in TheirRows : place(r) + 1 \in 1 .. N /\ InOrder(TheirRows, R)[place(r) + 1] = r
    BY <1>1, InOrderType
  <2>2. Rows = InOrder(TheirRows, R)
    BY <1>1 DEF Rows
  <2> HIDE DEF R, N
  <2> QED
    BY <2>1, <2>2
<1>3. N \in Nat /\ \A r \in TheirRows : place(r) \in Nat
  <2>1. \A r \in TheirRows : IsFiniteSet(Preceding(r, TheirRows, R))
    BY <1>1, FS_Subset DEF Preceding
  <2> QED
    BY <1>1, <2>1, FS_CardinalityType
<1>4. pageSize \in Nat \ {0}
  BY LinkSettingType DEF RemoteType
<1>5. /\ rest \in Seq(TheirRows) /\ Len(rest) = (IF from <= N THEN N - from ELSE 0)
      /\ \A j \in 1 .. Len(rest) : rest[j] = Rows[from + j]
  BY <1>2, <1>3, RestOf
<1>6. n \in 0 .. Len(rest) /\ page = SubSeq(rest, 1, n) /\ n <= pageSize /\ (Len(rest) > pageSize => n = pageSize)
      /\ (~ Len(rest) > pageSize => n = Len(rest))
  <2>1. Len(rest) \in Nat
    BY <1>3, <1>5
  <2> HIDE DEF rest
  <2> QED
    BY <1>4, <2>1 DEF Least, PageOf
<1> HIDE DEF rest, page, R, N, n, place
<1>7. page \in Seq(TheirRows) /\ Len(page) = n /\ DOMAIN page = 1 .. n /\ \A j \in 1 .. n : page[j] = rest[j]
  BY <1>5, <1>6, FirstPart
<1>8. page \in Seq(ListedRow)
  BY <1>1, <1>7
<1>9. Len(rest) > pageSize => page # <<>> /\ Last(page) \in ListedRow
  <2> HAVE Len(rest) > pageSize
  <2>1. n \in 1 .. n /\ Len(page) = n
    BY <1>4, <1>6, <1>7
  <2>2. Last(page) = page[n] /\ page[n] \in TheirRows
    BY <1>7, <2>1 DEF Last
  <2>3. Len(<<>>) = 0 /\ n # 0
    BY <1>4, <1>6
  <2> QED
    BY <1>1, <2>1, <2>2, <2>3
<1>10. ASSUME NEW r \in TheirRows, place(r) >= from, place(r) < from + pageSize \/ ~ Len(rest) > pageSize
       PROVE  r \in Elements(page)
  <2>1. place(r) + 1 \in 1 .. N /\ Rows[place(r) + 1] = r /\ place(r) \in Nat
    BY <1>2, <1>3
  <2> DEFINE j == place(r) - from + 1
  <2>2. j \in 1 .. n /\ from + j = place(r) + 1
    BY <1>3, <1>4, <1>5, <1>6, <1>10, <2>1
  <2>3. j \in 1 .. Len(rest)
    BY <1>6, <2>2
  <2>4. page[j] = r
    <3>1. page[j] = rest[j] /\ rest[j] = Rows[from + j]
      BY <1>5, <1>7, <2>2, <2>3
    <3> HIDE DEF j
    <3> QED
      BY <2>1, <2>2, <3>1
  <2> HIDE DEF j
  <2> QED
    BY <1>7, <2>2, <2>4 DEF Elements
<1> QED
  BY <1>8, <1>9, <1>10 DEF rest, page, place, R

------------------------------------------------------------------------------
(* The walk.                                                                  *)

ByCursor == linkSetting.keyset \/ via = "public"
ListedTags == {walk.listed[i].tag : i \in DOMAIN walk.listed}
\* The tags listed before t, and whether the cursor has passed t.
Before(t) == {u \in Present : ListedBefore(RowOfTag(u), RowOfTag(t))}
Reached(t) == walk.after # Gone /\ ~ ListedBefore(walk.after, RowOfTag(t))

WalkType ==
    /\ RemoteType /\ via \in {"rpc", "public"}
    /\ walk \in [page : Nat, after : ListedRow \cup {Gone}, listed : Seq(ListedRow)]
    /\ throughout \subseteq Present
\* Where the walk is in the cycle.
WalkAt ==
    /\ at = "dial" => walk.page = 1
    /\ at = "index" => walk.page # 0
    /\ at \in {"next", "redial", "blobs", "done"} => walk.page = 0
    /\ walk.page = 1 => walk = FirstPage
\* What is listed of the versions that were there all the time.
ListedOnce ==
    ByCursor => \A i, k \in DOMAIN walk.listed :
                    i # k /\ walk.listed[i].tag = walk.listed[k].tag => walk.listed[i].tag \notin throughout
ListedSoFar ==
    walk.page # 0 =>
        /\ ByCursor => \A t \in throughout : t \in ListedTags <=> Reached(t)
        /\ ~ ByCursor /\ ~ deleted =>
               \A t \in throughout \ ListedTags : Cardinality(Before(t)) >= (walk.page - 1) * pageSize
ListedAll == walk.page = 0 /\ (ByCursor \/ ~ deleted) => throughout \subseteq ListedTags
WalkInv == WalkType /\ WalkAt /\ ListedOnce /\ ListedSoFar /\ ListedAll

\* The place of a row among the rows is that of its tag among the tags.
LEMMA PlaceOfTag ==
    ASSUME RemoteType, NEW t \in Present
    PROVE  /\ Cardinality(Preceding(RowOfTag(t), TheirRows, Order(TheirRows))) = Cardinality(Before(t))
           /\ IsFiniteSet(Before(t)) /\ Cardinality(Before(t)) \in Nat
<1> DEFINE A == Before(t)
           B == Preceding(RowOfTag(t), TheirRows, Order(TheirRows))
           f == [u \in A |-> RowOfTag(u)]
<1>1. IsFiniteSet(A) /\ A \subseteq Present
  BY TheirRowsType, FS_Subset DEF Before
<1>2. B = {RowOfTag(u) : u \in A}
  BY RowOfTagType DEF Preceding, Order, Before, TheirRows
<1>3. f \in Surjection(A, B)
  BY <1>2 DEF Surjection
<1>4. \A u, v \in A : RowOfTag(u) = RowOfTag(v) => u = v
  BY <1>1, RowOfTagType
<1>5. f \in Bijection(A, B)
  BY <1>3, <1>4 DEF Bijection, Injection, IsInjective, Surjection
<1> HIDE DEF A, B, f
<1>6. ExistsBijection(A, B)
  BY <1>5 DEF ExistsBijection
<1>7. IsFiniteSet(B) /\ Cardinality(B) = Cardinality(A) /\ Cardinality(A) \in Nat
  BY <1>1, <1>6, FS_Bijection, FS_CardinalityType
<1> QED
  BY <1>1, <1>7 DEF A, B
LEMMA PlaceAfter ==
    ASSUME RemoteType', NEW t \in Present'
    PROVE  IsFiniteSet(Before(t)') /\ Cardinality(Before(t)') \in Nat
<1>1. IsFiniteSet(Present')
  BY TagsAssumption, FS_Subset DEF Present
<1>2. Before(t)' \subseteq Present'
  BY DEF Before
<1> QED
  BY <1>1, <1>2, FS_Subset, FS_CardinalityType

\* A step that leaves the walk and the list alone.
LEMMA WalkAlone ==
    ASSUME WalkInv, UNCHANGED <<remote, throughout, deleted, via, walk, linkSetting>>,
           at' = "dial" => walk.page = 1, at' = "index" => walk.page # 0,
           at' \in {"next", "redial", "blobs", "done"} => walk.page = 0
    PROVE  WalkInv'
<1>1. WalkType' /\ WalkAt'
  BY DEF WalkInv, WalkType, WalkAt, RemoteType, Present, FirstPage
<1>2. ListedOnce' /\ ListedAll'
  BY DEF WalkInv, ListedOnce, ListedAll, ByCursor, ListedTags
<1>3. ListedSoFar'
  <2>1. \A t : Reached(t)' <=> Reached(t)
    BY DEF Reached, RowOfTag
  <2>2. \A t : Before(t)' = Before(t)
    BY DEF Before, Present, RowOfTag
  <2>3. ListedTags' = ListedTags /\ ByCursor' = ByCursor /\ walk' = walk /\ deleted' = deleted
        /\ throughout' = throughout /\ pageSize' = pageSize
    BY DEF ListedTags, ByCursor, pageSize
  <2> QED
    BY <2>1, <2>2, <2>3 DEF WalkInv, ListedSoFar
<1> QED
  BY <1>1, <1>2, <1>3 DEF WalkInv

\* The walk begins.
LEMMA WalkBegins ==
    ASSUME WalkType, walk = FirstPage, at \in {"dial", "index"}
    PROVE  WalkInv
<1>1. walk.page = 1 /\ walk.after = Gone /\ walk.listed = <<>>
  BY DEF FirstPage
<1>2. ListedTags = {} /\ \A t : ~ Reached(t)
  BY <1>1 DEF ListedTags, Reached
<1>3. \A t \in throughout : Cardinality(Before(t)) >= (walk.page - 1) * pageSize
  <2> TAKE t \in throughout
  <2>1. pageSize \in Nat /\ Cardinality(Before(t)) \in Nat
    BY PlaceOfTag, LinkSettingType DEF WalkType, RemoteType
  <2> QED
    BY <1>1, <2>1
<1>4. ListedOnce
  BY <1>1 DEF ListedOnce
<1> QED
  BY <1>1, <1>2, <1>3, <1>4 DEF WalkInv, WalkAt, ListedSoFar, ListedAll
LEMMA WalkStarts ==
    ASSUME WalkType', walk' = FirstPage', at' \in {"dial", "index"}
    PROVE  WalkInv'
<1>1. walk'.page = 1 /\ walk'.after = Gone /\ walk'.listed = <<>>
  BY DEF FirstPage
<1>2. ListedTags' = {} /\ \A t : ~ Reached(t)'
  BY <1>1 DEF ListedTags, Reached
<1>3. \A t \in throughout' : Cardinality(Before(t)') >= (walk'.page - 1) * pageSize'
  <2> TAKE t \in throughout'
  <2>1. linkSetting' \in LinkSettings /\ RemoteType' /\ t \in Present'
    BY DEF WalkType, RemoteType
  <2>2. pageSize' \in Nat
    BY <2>1, LinkSettingsAssumption DEF pageSize
  <2>3. Cardinality(Before(t)') \in Nat
    BY <2>1, PlaceAfter
  <2> QED
    BY <1>1, <2>2, <2>3
<1>4. ListedOnce'
  BY <1>1 DEF ListedOnce
<1> QED
  BY <1>1, <1>2, <1>3, <1>4 DEF WalkInv, WalkAt, ListedSoFar, ListedAll

LEMMA WalkInitially == ASSUME LinkInit PROVE WalkInv
<1>1. WalkType
  BY LinkSettingType DEF LinkInit, WalkType, RemoteType, FirstPage
<1> QED
  BY <1>1, WalkBegins DEF LinkInit

\* Another version is listed, or one at the same place with another content.
LEMMA PublishWalks ==
    ASSUME WalkInv, NEW t \in Tags, NEW name \in TreeNames, NEW seq \in 1 .. linkSetting.seqs,
           RemotePublish(t, name, seq)
    PROVE  WalkInv'
<1>1. /\ UNCHANGED <<throughout, deleted, at, via, walk, linkSetting>>
      /\ remote' = [remote EXCEPT ![t] = [tree |-> name, seq |-> seq]]
      /\ remote[t] # Gone => seq = remote[t].seq
  BY DEF RemotePublish
<1>2. [tree |-> name, seq |-> seq] \in TheirRow /\ [tree |-> name, seq |-> seq] # Gone
  <2>1. seq \in Nat
    OBVIOUS
  <2> QED
    BY <2>1, GoneAssumption DEF TheirRow
<1>3. RemoteType' /\ Present \subseteq Present' /\ \A u \in Present : remote'[u].seq = remote[u].seq
  BY <1>1, <1>2 DEF WalkInv, WalkType, RemoteType, Present
<1>4. \A u, v \in Present : ListedBefore(RowOfTag(u)', RowOfTag(v)') <=> ListedBefore(RowOfTag(u), RowOfTag(v))
  BY <1>3 DEF ListedBefore, RowOfTag
<1>5. \A u \in Present : Reached(u)' <=> Reached(u)
  BY <1>1, <1>3 DEF Reached, ListedBefore, RowOfTag
<1>6. \A u \in Present : Before(u) \subseteq Before(u)'
  BY <1>3, <1>4 DEF Before
<1>7. \A u \in Present : Cardinality(Before(u)) <= Cardinality(Before(u)')
  <2> TAKE u \in Present
  <2>1. IsFiniteSet(Before(u)')
    <3>1. u \in Present'
      BY <1>3
    <3> QED
      BY <1>3, <3>1, PlaceAfter
  <2> QED
    BY <1>6, <2>1, FS_Subset
<1>8. WalkType' /\ WalkAt' /\ ListedOnce' /\ ListedAll'
  BY <1>1, <1>3 DEF WalkInv, WalkType, WalkAt, ListedOnce, ListedAll, ByCursor, ListedTags, FirstPage
<1>9. ListedSoFar'
  <2>1. ListedTags' = ListedTags /\ ByCursor' = ByCursor /\ pageSize' = pageSize /\ throughout' = throughout
        /\ walk' = walk /\ deleted' = deleted /\ throughout \subseteq Present
    BY <1>1 DEF ListedTags, ByCursor, pageSize, WalkInv, WalkType
  <2>2. walk.page # 0 /\ ByCursor => \A u \in throughout : u \in ListedTags <=> Reached(u)'
    BY <1>5, <2>1 DEF WalkInv, ListedSoFar
  <2>3. ASSUME walk.page # 0, ~ ByCursor, ~ deleted, NEW u \in throughout \ ListedTags
        PROVE  Cardinality(Before(u)') >= (walk.page - 1) * pageSize
    <3>1. Cardinality(Before(u)) >= (walk.page - 1) * pageSize
      BY <2>3 DEF WalkInv, ListedSoFar
    <3>2. Cardinality(Before(u)) <= Cardinality(Before(u)') /\ Cardinality(Before(u)) \in Nat
      BY <1>7, <2>1, PlaceOfTag DEF WalkInv, WalkType
    <3>3. Cardinality(Before(u)') \in Nat
      BY <1>3, <2>1, PlaceAfter
    <3>4. walk.page - 1 \in Int /\ pageSize \in Nat
      BY LinkSettingType DEF WalkInv, WalkType, RemoteType
    <3>5. (walk.page - 1) * pageSize \in Int
      BY <3>4
    <3> QED
      BY <3>1, <3>2, <3>3, <3>5
  <2> QED
    BY <2>1, <2>2, <2>3 DEF ListedSoFar
<1> QED
  BY <1>8, <1>9 DEF WalkInv

\* A version is deleted: it was not there all the time.
LEMMA DeleteWalks == ASSUME WalkInv, NEW t \in Tags, RemoteDelete(t) PROVE WalkInv'
<1>1. /\ UNCHANGED <<at, via, walk, linkSetting>> /\ throughout' = throughout \ {t} /\ deleted' = TRUE
      /\ remote' = [remote EXCEPT ![t] = Gone]
  BY DEF RemoteDelete
<1>2. RemoteType' /\ Present' = Present \ {t} /\ \A u \in Present' : remote'[u] = remote[u]
  BY <1>1 DEF WalkInv, WalkType, RemoteType, Present
<1>3. WalkType' /\ WalkAt' /\ ListedOnce' /\ ListedAll'
  BY <1>1, <1>2 DEF WalkInv, WalkType, WalkAt, ListedOnce, ListedAll, ByCursor, ListedTags, FirstPage
<1>4. \A u \in throughout' : u \in throughout /\ (Reached(u)' <=> Reached(u))
  BY <1>1, <1>2 DEF WalkInv, WalkType, Reached, RowOfTag
<1>5. ListedSoFar'
  <2>1. ListedTags' = ListedTags /\ ByCursor' = ByCursor /\ walk' = walk /\ deleted'
    BY <1>1 DEF ListedTags, ByCursor
  <2> QED
    BY <1>4, <2>1 DEF WalkInv, ListedSoFar
<1> QED
  BY <1>3, <1>5 DEF WalkInv

------------------------------------------------------------------------------
(* A page is read.                                                            *)

\* What the walk makes of a page.
LEMMA WalkedType ==
    ASSUME WalkInv, NEW given \in Seq(ListedRow), NEW next \in Nat, Walked([entries |-> given, next |-> next]),
           next = 0 \/ (given # <<>> /\ Last(given) \in ListedRow)
    PROVE  /\ walk' = [page |-> next, after |-> IF next = 0 THEN Gone ELSE Last(given), listed |-> walk.listed \o given]
           /\ walk' \in [page : Nat, after : ListedRow \cup {Gone}, listed : Seq(ListedRow)]
           /\ ListedTags' = ListedTags \cup {e.tag : e \in Elements(given)}
           /\ DOMAIN walk'.listed = 1 .. Len(walk.listed) + Len(given)
           /\ \A i \in 1 .. Len(walk.listed) : walk'.listed[i] = walk.listed[i]
           /\ \A i \in 1 .. Len(given) : walk'.listed[Len(walk.listed) + i] = given[i]
           /\ Len(walk.listed) \in Nat /\ Len(given) \in Nat
<1>1. walk' = [page |-> next, after |-> IF next = 0 THEN Gone ELSE Last(given), listed |-> walk.listed \o given]
  BY DEF Walked
<1> DEFINE a == walk.listed
           b == a \o given
<1>2. a \in Seq(ListedRow)
  BY DEF WalkInv, WalkType
<1>3. /\ b \in Seq(ListedRow) /\ Len(b) = Len(a) + Len(given) /\ Len(a) \in Nat /\ Len(given) \in Nat
      /\ DOMAIN b = 1 .. Len(a) + Len(given) /\ DOMAIN a = 1 .. Len(a) /\ DOMAIN given = 1 .. Len(given)
      /\ \A i \in 1 .. Len(a) : b[i] = a[i]
      /\ \A i \in 1 .. Len(given) : b[Len(a) + i] = given[i]
  <2> HIDE DEF a
  <2> QED
    BY <1>2, JoinedType
<1>4. walk'.listed = b /\ walk.listed = a /\ b = walk.listed \o given
  BY <1>1
<1> HIDE DEF a, b
<1>5. {b[i].tag : i \in DOMAIN b} = {a[i].tag : i \in DOMAIN a} \cup {e.tag : e \in Elements(given)}
  <2>1. ASSUME NEW i \in DOMAIN b PROVE b[i].tag \in {a[k].tag : k \in DOMAIN a} \cup {e.tag : e \in Elements(given)}
    <3>1. CASE i \in 1 .. Len(a)
      BY <1>3, <3>1
    <3>2. CASE i \notin 1 .. Len(a)
      <4>1. i - Len(a) \in 1 .. Len(given) /\ i = Len(a) + (i - Len(a))
        BY <1>3, <3>2
      <4>2. b[i] = given[i - Len(a)]
        BY <1>3, <4>1
      <4> QED
        BY <1>3, <4>1, <4>2 DEF Elements
    <3> QED
      BY <3>1, <3>2
  <2>2. \A i \in DOMAIN a : i \in DOMAIN b /\ b[i] = a[i]
    BY <1>3
  <2>3. \A i \in DOMAIN given : Len(a) + i \in DOMAIN b /\ b[Len(a) + i] = given[i]
    BY <1>3
  <2> QED
    BY <2>1, <2>2, <2>3 DEF Elements
<1>6. ListedTags' = ListedTags \cup {e.tag : e \in Elements(given)}
  BY <1>4, <1>5 DEF ListedTags
<1>7. walk' \in [page : Nat, after : ListedRow \cup {Gone}, listed : Seq(ListedRow)]
  <2>1. walk' = [page |-> next, after |-> IF next = 0 THEN Gone ELSE Last(given), listed |-> b]
    BY <1>1, <1>4
  <2> QED
    BY <1>3, <2>1
<1> QED
  BY <1>1, <1>3, <1>4, <1>6, <1>7

\* By cursor: what comes after it.
LEMMA CursorPage ==
    ASSUME WalkInv, ByCursor, walk.page # 0, UNCHANGED <<remote, throughout, deleted, via, linkSetting>>,
           NEW page, page = PageOf(RowsAfter(walk.after)),
           Walked([entries |-> page, next |-> IF Len(RowsAfter(walk.after)) > pageSize THEN walk.page + 1 ELSE 0])
    PROVE  /\ walk' \in [page : Nat, after : ListedRow \cup {Gone}, listed : Seq(ListedRow)]
           /\ walk'.page # 1 /\ ListedOnce' /\ ListedSoFar' /\ ListedAll'
<1> DEFINE S == {r \in TheirRows : walk.after = Gone \/ ListedBefore(walk.after, r)}
           rows == Sorted(S)
           next == IF Len(rows) > pageSize THEN walk.page + 1 ELSE 0
<1>1. RemoteType /\ S \in SUBSET TheirRows /\ rows = RowsAfter(walk.after) /\ page = PageOf(rows)
  BY DEF WalkInv, WalkType, RowsAfter
<1>2. /\ rows \in Seq(ListedRow) /\ page \in Seq(ListedRow)
      /\ \A i, k \in DOMAIN page : page[i].tag = page[k].tag => i = k
      /\ Elements(page) \subseteq S
      /\ Len(rows) <= pageSize => Elements(page) = S
      /\ Len(rows) > pageSize =>
             /\ page # <<>> /\ Last(page) \in ListedRow
             /\ \A r \in S : r \in Elements(page) <=> ~ ListedBefore(Last(page), r)
  <2> HIDE DEF S
  <2> QED
    BY <1>1, FirstOfList
<1>3. walk.page \in Nat /\ pageSize \in Nat \ {0} /\ Len(rows) \in Nat /\ walk.after \in ListedRow \cup {Gone}
  BY <1>2, LinkSettingType DEF WalkInv, WalkType, RemoteType
<1>4. next \in Nat /\ next # 1 /\ (next = 0 <=> ~ Len(rows) > pageSize) /\ (next = 0 => Len(rows) <= pageSize)
  BY <1>3
<1>5. Walked([entries |-> page, next |-> next])
  BY <1>1
<1> HIDE DEF rows, next
<1>6. /\ walk' = [page |-> next, after |-> IF next = 0 THEN Gone ELSE Last(page), listed |-> walk.listed \o page]
      /\ walk' \in [page : Nat, after : ListedRow \cup {Gone}, listed : Seq(ListedRow)]
      /\ ListedTags' = ListedTags \cup {e.tag : e \in Elements(page)}
      /\ DOMAIN walk'.listed = 1 .. Len(walk.listed) + Len(page)
      /\ \A i \in 1 .. Len(walk.listed) : walk'.listed[i] = walk.listed[i]
      /\ \A i \in 1 .. Len(page) : walk'.listed[Len(walk.listed) + i] = page[i]
      /\ Len(walk.listed) \in Nat /\ Len(page) \in Nat
  BY <1>2, <1>4, <1>5, WalkedType
<1>7. /\ DOMAIN walk.listed = 1 .. Len(walk.listed) /\ DOMAIN page = 1 .. Len(page)
      /\ \A t \in throughout : t \in ListedTags <=> Reached(t)
      /\ throughout \subseteq Present
  BY <1>2 DEF WalkInv, WalkType, ListedSoFar
<1>8. \A t \in throughout : RowOfTag(t) \in S <=> ~ Reached(t)
  BY <1>1, <1>7, RowOfTagType DEF Reached
<1>9. \A e \in Elements(page) : e = RowOfTag(e.tag) /\ e \in S
  BY <1>1, <1>2, TheirRowsType
<1>10. \A t \in throughout : t \in {e.tag : e \in Elements(page)} <=> RowOfTag(t) \in Elements(page)
  BY <1>1, <1>7, <1>9, RowOfTagType
<1>11. ByCursor' /\ ListedOnce'
  <2>1. ByCursor'
    BY DEF ByCursor
  <2>2. ASSUME NEW i \in DOMAIN walk'.listed, NEW k \in DOMAIN walk'.listed, i < k,
               walk'.listed[i].tag = walk'.listed[k].tag, walk'.listed[i].tag \in throughout
        PROVE  FALSE
    <3> DEFINE n == Len(walk.listed)
    <3>1. i \in 1 .. n + Len(page) /\ k \in 1 .. n + Len(page) /\ n \in Nat /\ Len(page) \in Nat
      BY <1>6
    <3>2. CASE k \in 1 .. n
      <4>1. i \in 1 .. n
        BY <2>2, <3>1, <3>2
      <4>2. walk.listed[i].tag = walk.listed[k].tag /\ walk.listed[i].tag \in throughout
        BY <1>6, <2>2, <3>2, <4>1
      <4>3. i # k
        BY <2>2, <3>1
      <4> QED
        BY <1>7, <3>2, <4>1, <4>2, <4>3 DEF WalkInv, ListedOnce
    <3>3. CASE i \in 1 .. n /\ k \notin 1 .. n
      <4>1. k - n \in 1 .. Len(page) /\ k = n + (k - n)
        <5> HIDE DEF n
        <5> QED
          BY <3>1, <3>3
      <4>2. walk'.listed[k] = page[k - n] /\ page[k - n] \in Elements(page)
        BY <1>6, <1>7, <4>1 DEF Elements
      <4>3. walk.listed[i].tag \in ListedTags
        BY <1>7, <3>3 DEF ListedTags
      <4>4. walk'.listed[i] = walk.listed[i]
        BY <1>6, <3>3
      <4> DEFINE t == walk.listed[i].tag
      <4>5. t \in throughout /\ t \in ListedTags /\ t \in {e.tag : e \in Elements(page)}
        BY <2>2, <4>2, <4>3, <4>4
      <4> HIDE DEF t
      <4> QED
        BY <1>2, <1>7, <1>8, <1>10, <4>5
    <3>4. CASE i \notin 1 .. n /\ k \notin 1 .. n
      <4>1. i - n \in 1 .. Len(page) /\ i = n + (i - n) /\ k - n \in 1 .. Len(page) /\ k = n + (k - n)
        <5> HIDE DEF n
        <5> QED
          BY <3>1, <3>4
      <4>2. page[i - n].tag = page[k - n].tag
        BY <1>6, <2>2, <4>1
      <4>3. i - n = k - n
        BY <1>2, <1>7, <4>1, <4>2
      <4> QED
        BY <2>2, <3>1, <4>3
    <3> QED
      BY <2>2, <3>1, <3>2, <3>3, <3>4
  <2>3. \A i, k \in DOMAIN walk'.listed :
            i # k /\ walk'.listed[i].tag = walk'.listed[k].tag => walk'.listed[i].tag \notin throughout
    <3>1. DOMAIN walk'.listed \subseteq Nat
      <4> DEFINE m == Len(walk.listed) + Len(page)
      <4>1. DOMAIN walk'.listed = 1 .. m
        BY <1>6
      <4>2. m \in Nat
        <5>1. Len(walk.listed) \in Nat /\ Len(page) \in Nat
          BY <1>6
        <5> QED
          BY ONLY <5>1 DEF m
      <4> HIDE DEF m
      <4> QED
        BY <4>1, <4>2
    <3> QED
      BY <2>2, <3>1
  <2> QED
    BY <2>1, <2>3 DEF ListedOnce
<1>12. ListedAll'
  <2>1. ASSUME next = 0, NEW t \in throughout PROVE t \in ListedTags'
    BY <1>2, <1>4, <1>6, <1>7, <1>8, <1>10, <2>1
  <2> QED
    BY <1>6, <2>1 DEF ListedAll
<1>13. ASSUME next # 0, NEW t \in throughout PROVE t \in ListedTags' <=> Reached(t)'
  <2>1. walk'.after = Last(page) /\ Last(page) \in ListedRow /\ Last(page) # Gone
    BY <1>2, <1>4, <1>6, <1>13, GoneAssumption DEF ListedRow
  <2>2. Reached(t)' <=> ~ ListedBefore(Last(page), RowOfTag(t))
    BY <2>1 DEF Reached, RowOfTag
  <2>3. CASE RowOfTag(t) \in S
    BY <1>2, <1>4, <1>6, <1>7, <1>8, <1>10, <1>13, <2>2, <2>3
  <2>4. CASE RowOfTag(t) \notin S
    <3>1. Reached(t) /\ t \in ListedTags
      BY <1>7, <1>8, <2>4
    <3>2. Last(page) \in Elements(page)
      <4>1. page # <<>>
        BY <1>2, <1>4, <1>13
      <4>2. Len(page) \in 1 .. Len(page)
        BY <1>2, <4>1
      <4> QED
        BY <1>7, <4>2 DEF Last, Elements
    <3>3. ListedBefore(walk.after, Last(page))
      BY <1>2, <3>1, <3>2 DEF Reached
    <3>4. RowOfTag(t) \in ListedRow /\ walk.after \in ListedRow
      BY <1>1, <1>3, <1>7, <3>1, RowOfTagType DEF Reached
    <3>5. ~ ListedBefore(Last(page), RowOfTag(t))
      <4>1. \A r \in ListedRow : r.seq \in Nat /\ r.tag \in Nat
        BY TagsAssumption DEF ListedRow
      <4>2. \A r, u, v \in ListedRow : ListedBefore(r, u) /\ ListedBefore(u, v) => ListedBefore(r, v)
        BY <4>1 DEF ListedBefore
      <4> QED
        BY <2>1, <3>1, <3>3, <3>4, <4>2 DEF Reached
    <3> QED
      BY <1>6, <2>2, <3>1, <3>5
  <2> QED
    BY <2>3, <2>4
<1>14. ListedSoFar'
  BY <1>6, <1>11, <1>13 DEF ListedSoFar
<1>15. walk'.page # 1
  BY <1>4, <1>6
<1> QED
  BY <1>6, <1>11, <1>12, <1>14, <1>15

\* By number: what comes after the rows of the pages before.
LEMMA NumberPage ==
    ASSUME WalkInv, ~ ByCursor, walk.page # 0, UNCHANGED <<remote, throughout, deleted, via, linkSetting>>,
           NEW rest, rest = RowsFrom(walk.page), NEW page, page = PageOf(rest),
           Walked([entries |-> page, next |-> IF Len(rest) > pageSize THEN walk.page + 1 ELSE 0])
    PROVE  /\ walk' \in [page : Nat, after : ListedRow \cup {Gone}, listed : Seq(ListedRow)]
           /\ walk'.page # 1 /\ ListedOnce' /\ ListedSoFar' /\ ListedAll'
<1> DEFINE from == (walk.page - 1) * pageSize
           next == IF Len(rest) > pageSize THEN walk.page + 1 ELSE 0
<1>1. RemoteType /\ walk.page \in Nat \ {0} /\ pageSize \in Nat \ {0} /\ throughout \subseteq Present
  BY LinkSettingType DEF WalkInv, WalkType, RemoteType
<1>2. from \in Nat
  <2>1. \A m, n \in Nat : m * n \in Nat
    OBVIOUS
  <2>2. walk.page - 1 \in Nat
    BY <1>1
  <2> QED
    BY <1>1, <2>1, <2>2
<1>3. (walk.page + 1 - 1) * pageSize = from + pageSize
  <2>1. \A m, n \in Nat : m # 0 => (m + 1 - 1) * n = (m - 1) * n + n
    OBVIOUS
  <2> QED
    BY <1>1, <2>1
<1>4. rest = SubSeq(Rows, from + 1, Len(Rows))
  BY DEF RowsFrom, pageSize
<1>5. next \in Nat /\ next # 1 /\ (next = 0 <=> ~ Len(rest) > pageSize) /\ (next # 0 => next = walk.page + 1)
  BY <1>1
<1>6. Walked([entries |-> page, next |-> next])
  OBVIOUS
<1> HIDE DEF from, next
<1>7. /\ page \in Seq(ListedRow)
      /\ Len(rest) > pageSize => page # <<>> /\ Last(page) \in ListedRow
      /\ \A r \in TheirRows :
             LET place == Cardinality(Preceding(r, TheirRows, Order(TheirRows)))
             IN  place >= from /\ (place < from + pageSize \/ ~ Len(rest) > pageSize) => r \in Elements(page)
  BY <1>1, <1>2, <1>4, LaterOfList
<1>8. /\ walk' = [page |-> next, after |-> IF next = 0 THEN Gone ELSE Last(page), listed |-> walk.listed \o page]
      /\ walk' \in [page : Nat, after : ListedRow \cup {Gone}, listed : Seq(ListedRow)]
      /\ ListedTags' = ListedTags \cup {e.tag : e \in Elements(page)}
  BY <1>5, <1>6, <1>7, WalkedType
<1>9. ~ ByCursor' /\ deleted' = deleted /\ throughout' = throughout /\ pageSize' = pageSize
  BY DEF ByCursor, pageSize
<1>10. ASSUME ~ deleted, NEW t \in throughout, t \notin ListedTags'
       PROVE  next # 0 /\ Cardinality(Before(t)') >= (next - 1) * pageSize
  <2> DEFINE place == Cardinality(Before(t))
  <2>1. place \in Nat /\ place = Cardinality(Preceding(RowOfTag(t), TheirRows, Order(TheirRows)))
    BY <1>1, PlaceOfTag
  <2>2. RowOfTag(t) \in TheirRows /\ RowOfTag(t).tag = t
    BY <1>1, RowOfTagType
  <2>3. place >= from
    BY <1>8, <1>10 DEF WalkInv, ListedSoFar, from
  <2>4. RowOfTag(t) \notin Elements(page)
    BY <1>8, <1>10, <2>2
  <2>5. Len(rest) > pageSize /\ ~ place < from + pageSize
    BY <1>7, <2>1, <2>2, <2>3, <2>4
  <2>6. next = walk.page + 1 /\ next # 0
    BY <1>5, <2>5
  <2>7. (next - 1) * pageSize = from + pageSize
    <3>1. \A q, m, n \in Nat : q = m + 1 => (q - 1) * n = (m + 1 - 1) * n
      OBVIOUS
    <3>2. (next - 1) * pageSize = (walk.page + 1 - 1) * pageSize
      BY <1>1, <1>5, <2>6, <3>1
    <3> QED
      BY ONLY <1>3, <3>2, Zenon
  <2>8. Before(t)' = Before(t)
    BY DEF Before, Present, RowOfTag
  <2>9. Cardinality(Before(t)') = place
    BY ONLY <2>8, Zenon DEF place
  <2> HIDE DEF place
  <2> QED
    BY <1>1, <1>2, <2>1, <2>5, <2>6, <2>7, <2>9
<1>11. ListedAll'
  BY <1>8, <1>9, <1>10 DEF ListedAll
<1>12. ListedSoFar'
  <2>1. walk'.page = next
    BY <1>8
  <2> QED
    BY <1>9, <1>10, <2>1 DEF ListedSoFar
<1>13. ListedOnce' /\ walk'.page # 1
  BY <1>5, <1>8, <1>9 DEF ListedOnce
<1> QED
  BY <1>8, <1>11, <1>12, <1>13

LEMMA IndexWalks == ASSUME WalkInv, IndexPage PROVE WalkInv'
<1>1. UNCHANGED <<remote, throughout, deleted, via, linkSetting>> /\ at = "index" /\ walk.page # 0
  BY DEF IndexPage, them, WalkInv, WalkAt
<1> DEFINE rows == IF linkSetting.keyset \/ walk.page = 1 \/ via = "public" THEN RowsAfter(walk.after)
                   ELSE RowsFrom(walk.page)
           page == PageOf(rows)
           next == IF Len(rows) > pageSize THEN walk.page + 1 ELSE 0
<1>2. IndexAnswer(walk.page, walk.after) = [entries |-> page, next |-> next]
  BY DEF IndexAnswer, PageOf, pageSize
<1>3. Walked([entries |-> page, next |-> next]) /\ at' = IF via = "public" THEN "details" ELSE IF next = 0 THEN "next" ELSE "index"
  <2>1. /\ Walked(IndexAnswer(walk.page, walk.after))
        /\ at' = IF via = "public" THEN "details" ELSE IF IndexAnswer(walk.page, walk.after).next = 0 THEN "next" ELSE "index"
    BY DEF IndexPage
  <2> HIDE DEF rows, page, next
  <2> QED
    BY <1>2, <2>1
<1>4. /\ walk' \in [page : Nat, after : ListedRow \cup {Gone}, listed : Seq(ListedRow)]
      /\ walk'.page # 1 /\ ListedOnce' /\ ListedSoFar' /\ ListedAll'
  <2>1. CASE ByCursor
    <3>1. rows = RowsAfter(walk.after)
      BY <2>1 DEF ByCursor
    <3> HIDE DEF rows
    <3> QED
      BY <1>1, <1>3, <2>1, <3>1, CursorPage
  <2>2. CASE ~ ByCursor
    <3>1. rows = RowsFrom(walk.page)
      <4>1. CASE walk.page = 1
        <5>1. walk.after = Gone
          BY <4>1 DEF WalkInv, WalkAt, FirstPage
        <5>2. {r \in TheirRows : walk.after = Gone \/ ListedBefore(walk.after, r)} = TheirRows
          BY <5>1
        <5>3. RowsAfter(walk.after) = Rows
          BY ONLY <5>2, Zenon DEF RowsAfter, Rows
        <5>4. Rows \in Seq(ListedRow) /\ pageSize \in Nat
          BY FirstOfList, LinkSettingType DEF WalkInv, WalkType, RemoteType, Rows
        <5>5. SubSeq(Rows, 0 * pageSize + 1, Len(Rows)) = Rows
          <6>1. 0 * pageSize + 1 = 1
            BY <5>4
          <6>2. \A s \in Seq(ListedRow) : SubSeq(s, 1, Len(s)) = s
            OBVIOUS
          <6> QED
            BY <5>4, <6>1, <6>2
        <5>6. RowsFrom(walk.page) = SubSeq(Rows, 0 * pageSize + 1, Len(Rows))
          <6>1. walk.page - 1 = 0
            BY <4>1
          <6> QED
            BY ONLY <6>1, Zenon DEF RowsFrom, pageSize
        <5> QED
          BY <4>1, <5>3, <5>5, <5>6
      <4> QED
        BY <2>2, <4>1 DEF ByCursor
    <3> HIDE DEF rows
    <3> QED
      BY <1>1, <1>3, <2>2, <3>1, NumberPage
  <2> QED
    BY <2>1, <2>2
<1>5. WalkType'
  BY <1>1, <1>4 DEF WalkInv, WalkType, RemoteType, Present
<1>6. WalkAt'
  <2>1. walk'.page = next
    BY <1>3 DEF Walked
  <2> HIDE DEF next
  <2> QED
    BY <1>3, <1>4, <2>1 DEF WalkAt
<1> QED
  BY <1>4, <1>5, <1>6 DEF WalkInv

LEMMA WalkNext == ASSUME WalkInv, [LinkNext]_linkVars PROVE WalkInv'
<1>1. CASE UNCHANGED linkVars
  BY <1>1, WalkAlone DEF linkVars, them, WalkInv, WalkAt
<1>2. CASE RemoteRestart \/ Dial \/ Redial \/ RedialFails \/ IndexFails \/ Resolve \/ ResolvedAll
  BY <1>2, WalkAlone DEF RemoteRestart, Dial, Redial, RedialFails, IndexFails, Resolve, ResolvedAll, them, WalkInv, WalkAt
<1>3. CASE DialFails
  <2>1. walk = FirstPage /\ at' = "index" /\ UNCHANGED <<remote, throughout, linkSetting, walk>> /\ via' = "public"
    BY <1>3 DEF DialFails, them, WalkInv, WalkAt
  <2>2. WalkType'
    BY <2>1 DEF WalkInv, WalkType, RemoteType, Present
  <2>3. walk' = FirstPage'
    BY <2>1 DEF FirstPage
  <2> QED
    BY <2>1, <2>2, <2>3, WalkStarts
<1>4. CASE Skip \/ EndOfList \/ FetchVersion \/ CallFails \/ FetchBatch \/ TooLarge \/ PublishVersion
  <2>1. \A outcome : AfterVersion(outcome) \in {"redial", "next"}
    BY DEF AfterVersion
  <2>2. UNCHANGED <<remote, throughout, deleted, via, walk, linkSetting>> /\ at \in {"next", "blobs"}
        /\ at' \in {"next", "redial", "blobs", "done"}
    BY <1>4, <2>1 DEF Skip, EndOfList, FetchVersion, CallFails, FetchBatch, TooLarge, PublishVersion, GiveUpVersion, them
  <2> QED
    BY <2>2, WalkAlone DEF WalkInv, WalkAt
<1> QED
  BY <1>1, <1>2, <1>3, <1>4, PublishWalks, DeleteWalks, IndexWalks DEF LinkNext

\* The walk names every version that was there all the time, and none twice
\* (brotherIndex over Index, with the cursor of ListVersionsKeyset or the page
\* numbers of ListVersionsPage).
THEOREM WalkCompleteCorrect == LinkSpec => []WalkComplete
<1>1. LinkInit => WalkInv
  BY WalkInitially
<1>2. WalkInv /\ [LinkNext]_linkVars => WalkInv'
  BY WalkNext
<1>3. WalkInv => WalkComplete
  BY DEF WalkInv, WalkAt, ListedAll, ListedOnce, ListedTags, ByCursor, WalkComplete
<1> QED
  BY <1>1, <1>2, <1>3, PTL DEF LinkSpec

------------------------------------------------------------------------------
(* The link: the batches, and what a cycle without a change or a fault does.  *)

Limits == [bytes : Nat, count : Nat]
ListedEntry == [tag : Tags, tree : TreeNames \cup {Gone}, seq : Nat]
TodoTags == {todo[i].tag : i \in DOMAIN todo}
Quiet == changes = 0 /\ faults = 0

LinkTypes ==
    /\ changes \in Nat /\ faults \in Nat
    /\ limit \in Limits
    /\ session \in [state : {"up", "dead", "failed"}, limit : Limits]
    /\ mirrored \in [Tags -> TreeNames \cup {Gone}]
    /\ todo \in Seq(ListedEntry)
    /\ pull \in [need : Seq(DOMAIN SizeOf), got : SUBSET DOMAIN SizeOf]
    /\ at \in {"dial", "redial", "index", "details", "next", "blobs", "done", "unavailable"}
\* A session that is up has the limits of the other instance as it is now.
AgreedUpon == session.state = "up" => session.limit = Agreed(limit)
AtWork == at = "blobs" => todo # <<>>
InBatches == AgreedUpon /\ ~ overruled /\ AtWork

TooBig(b) == ~ Fits(<<b>>, session.limit)
BlobsAt(t) == ToSet(TreeContents[remote[t].tree])
Delivered(t) == mirrored[t] = remote[t].tree \/ \E b \in BlobsAt(t) : TooBig(b)
\* The cycle is where it can be without a fault.
QuietAt ==
    /\ via = "rpc" /\ refused = {} /\ ~ deleted /\ throughout = Present
    /\ at \in {"dial", "index", "next", "blobs", "done"}
    /\ at # "dial" => session.state = "up"
\* What is left to do, and what the version at its head still needs.
QuietTodo ==
    /\ \A i \in DOMAIN todo : todo[i].tag \in Present /\ todo[i].tree = remote[todo[i].tag].tree
    /\ at \in {"dial", "index"} => ListedTags \subseteq TodoTags
    /\ at \in {"next", "blobs", "done"} => \A t \in Present \ TodoTags : Delivered(t)
    /\ at = "done" => todo = <<>>
QuietPull ==
    at = "blobs" =>
        /\ ToSet(pull.need) \subseteq BlobsAt(Entry.tag)
        /\ BlobsAt(Entry.tag) \subseteq Stored \cup pull.got \cup ToSet(pull.need)
QuietInv == Quiet => QuietAt /\ QuietTodo /\ QuietPull
LinkInv == WalkInv /\ LinkTypes /\ InBatches /\ QuietInv

\* A part of the list is answered.
LEMMA AnswerType ==
    ASSUME RemoteType, NEW number \in Nat \ {0}, NEW cursor
    PROVE  LET answer == IndexAnswer(number, cursor)
           IN  /\ answer.entries \in Seq(TheirRows) /\ answer.entries \in Seq(ListedRow)
               /\ answer.next \in Nat
<1> DEFINE rows == IF linkSetting.keyset \/ number = 1 \/ via = "public" THEN RowsAfter(cursor) ELSE RowsFrom(number)
<1>1. pageSize \in Nat \ {0} /\ TheirRows \subseteq ListedRow
  BY LinkSettingType, TheirRowsType DEF RemoteType
<1>2. ASSUME NEW S \in SUBSET TheirRows PROVE Sorted(S) \in Seq(TheirRows)
  <2>1. Sorted(S) \in Seq(S)
    BY TheirOrder, InOrderType
  <2> QED
    BY <2>1
<1>3. RowsAfter(cursor) \in Seq(TheirRows)
  BY <1>2 DEF RowsAfter
<1>4. RowsFrom(number) \in Seq(TheirRows)
  <2>1. Rows \in Seq(TheirRows)
    BY <1>2 DEF Rows
  <2>2. (number - 1) * pageSize \in Nat
    <3>1. \A m, n \in Nat : m * n \in Nat
      OBVIOUS
    <3>2. number - 1 \in Nat
      OBVIOUS
    <3> QED
      BY <1>1, <3>1, <3>2
  <2>3. \A m \in Nat : SubSeq(Rows, m + 1, Len(Rows)) \in Seq(TheirRows)
    BY <2>1, RestOf
  <2> QED
    BY <2>1, <2>2, <2>3 DEF RowsFrom, pageSize
<1>5. rows \in Seq(TheirRows) /\ Len(rows) \in Nat
  BY <1>3, <1>4
<1> HIDE DEF rows
<1>6. Least(Len(rows), pageSize) \in 0 .. Len(rows)
  BY <1>1, <1>5 DEF Least
<1>7. SubSeq(rows, 1, Least(Len(rows), pageSize)) \in Seq(TheirRows)
  BY <1>5, <1>6, FirstPart
<1>8. \A l \in Seq(TheirRows) : l \in Seq(ListedRow)
  BY <1>1
<1>9. /\ IndexAnswer(number, cursor).entries = SubSeq(rows, 1, Least(Len(rows), pageSize))
      /\ IndexAnswer(number, cursor).next = IF Len(rows) > pageSize THEN number + 1 ELSE 0
  BY DEF IndexAnswer, rows, pageSize
<1> QED
  BY <1>1, <1>5, <1>7, <1>8, <1>9

\* The size of blobs is a number.
LEMMA SizeType == ASSUME NEW list \in Seq(DOMAIN SizeOf) PROVE TotalSize(list) \in Nat
<1> DEFINE size == [i \in DOMAIN list |-> SizeOf[list[i]]]
<1>1. Counted(size, DOMAIN list)
  <2>1. IsFiniteSet(DOMAIN list)
    BY FS_Interval
  <2> QED
    BY <2>1, ContentsAssumption DEF Counted
<1>2. TotalSize(list) = Total(size, DOMAIN list)
  BY DEF TotalSize, Total
<1> HIDE DEF size
<1> QED
  BY <1>1, <1>2, TotalType

\* A batch is a first part of what is needed: what fits, or a single blob.
LEMMA BatchIs ==
    ASSUME pull.need \in Seq(DOMAIN SizeOf), pull.need # <<>>
    PROVE  \E n \in 1 .. Len(pull.need) : Batch = Prefix(n) /\ (n = 1 \/ Fits(Prefix(n), session.limit))
<1> DEFINE N == Len(pull.need)
           Ends(n) == n < N => ~ Fits(Prefix(n + 1), session.limit)
           Good(n) == (n = 1 \/ Fits(Prefix(n), session.limit)) /\ Ends(n)
           S == {n \in 1 .. N : Ends(n)}
<1>1. N \in Nat /\ N # 0
  OBVIOUS
<1> HIDE DEF N
<1>2. N \in S
  BY <1>1
<1>3. PICK n \in S : \A m \in S : n <= m
  <2>1. S \in SUBSET Nat
    OBVIOUS
  <2> HIDE DEF S
  <2> QED
    BY <1>2, <2>1, LeastNumber
<1>4. n \in 1 .. N /\ Ends(n)
  BY <1>3
<1>5. n = 1 \/ Fits(Prefix(n), session.limit)
  <2>1. SUFFICES ASSUME n # 1, ~ Fits(Prefix(n), session.limit) PROVE FALSE
    OBVIOUS
  <2>2. n - 1 \in 1 .. N /\ n - 1 + 1 = n /\ n - 1 < n
    BY <1>1, <1>4, <2>1
  <2>3. Prefix(n - 1 + 1) = Prefix(n)
    BY ONLY <2>2, Zenon
  <2>4. n - 1 \in S
    BY <2>1, <2>2, <2>3
  <2> HIDE DEF S
  <2> QED
    BY <1>1, <1>3, <1>4, <2>2, <2>4
<1>6. Good(n)
  BY <1>4, <1>5
<1> DEFINE c == CHOOSE m \in 1 .. N : Good(m)
<1>7. c \in 1 .. N /\ Good(c)
  <2> HIDE DEF Good
  <2> QED
    BY <1>4, <1>6
<1>8. Batch = Prefix(c)
  BY DEF Batch, N
<1> HIDE DEF c
<1> QED
  BY <1>7, <1>8 DEF N

\* The version at the head of the list, and the list without it.
LEMMA EntryType ==
    ASSUME LinkTypes, todo # <<>>
    PROVE  /\ Entry = todo[1] /\ 1 \in DOMAIN todo /\ Entry \in ListedEntry
           /\ Rest \in Seq(ListedEntry)
           /\ \A i \in DOMAIN Rest : \E k \in DOMAIN todo : Rest[i] = todo[k]
           /\ \A k \in DOMAIN todo : todo[k].tag # Entry.tag => \E i \in DOMAIN Rest : Rest[i] = todo[k]
<1>1. todo \in Seq(ListedEntry)
  BY DEF LinkTypes
<1>2. Entry = todo[1] /\ 1 \in DOMAIN todo /\ Entry \in ListedEntry
  BY <1>1 DEF Entry
<1> DEFINE S == {e \in ToSet(todo) : e.tag # Entry.tag}
<1>3. Keeping(todo, S) \in Seq(ListedEntry \cap S) /\ Elements(Keeping(todo, S)) = Elements(todo) \cap S
  <2> HIDE DEF S
  <2> QED
    BY <1>1, KeepingType
<1>4. Rest = Keeping(todo, S)
  BY DEF Rest
<1>5. Elements(Rest) = Elements(todo) \cap S
  BY ONLY <1>3, <1>4, Zenon
<1>6. Rest \in Seq(ListedEntry)
  <2>1. \A s \in Seq(ListedEntry \cap S) : s \in Seq(ListedEntry)
    <3> HIDE DEF S
    <3> QED
      OBVIOUS
  <2> HIDE DEF S
  <2> QED
    BY <1>3, <1>4, <2>1
<1>7. ASSUME NEW i \in DOMAIN Rest PROVE \E k \in DOMAIN todo : Rest[i] = todo[k]
  BY <1>5 DEF Elements
<1>8. ASSUME NEW k \in DOMAIN todo, todo[k].tag # Entry.tag PROVE \E i \in DOMAIN Rest : Rest[i] = todo[k]
  <2>1. todo[k] \in S
    BY <1>8 DEF ToSet
  <2> QED
    BY <1>5, <2>1 DEF Elements
<1> QED
  BY <1>2, <1>6, <1>7, <1>8

\* The blobs that are to be asked for.
LEMMA MissingType ==
    ASSUME NEW name \in TreeNames, Entry.tree = name
    PROVE  /\ Missing \in Seq(DOMAIN SizeOf) /\ ToSet(Missing) = ToSet(TreeContents[name]) \ Stored
<1> DEFINE S == ToSet(TreeContents[name]) \ Stored
<1>1. TreeContents[name] \in Seq(DOMAIN SizeOf)
  BY ContentsAssumption
<1>2. /\ Keeping(TreeContents[name], S) \in Seq(DOMAIN SizeOf \cap S)
      /\ Elements(Keeping(TreeContents[name], S)) = Elements(TreeContents[name]) \cap S
  <2> HIDE DEF S
  <2> QED
    BY <1>1, KeepingType
<1>3. Missing = Keeping(TreeContents[name], S)
  BY DEF Missing
<1>4. Elements(Missing) = Elements(TreeContents[name]) \cap S
  BY ONLY <1>2, <1>3, Zenon
<1>5. Missing \in Seq(DOMAIN SizeOf)
  <2>1. \A s \in Seq(DOMAIN SizeOf \cap S) : s \in Seq(DOMAIN SizeOf)
    <3> HIDE DEF S
    <3> QED
      OBVIOUS
  <2> HIDE DEF S
  <2> QED
    BY <1>2, <1>3, <2>1
<1>6. Elements(Missing) = ToSet(Missing) /\ Elements(TreeContents[name]) = ToSet(TreeContents[name])
  BY DEF Elements, ToSet
<1> QED
  BY <1>4, <1>5, <1>6

\* A batch, and what is needed after it.
LEMMA BatchType ==
    ASSUME LinkTypes, pull.need # <<>>
    PROVE  LET rest == SubSeq(pull.need, Len(Batch) + 1, Len(pull.need))
           IN  /\ Batch \in Seq(DOMAIN SizeOf) /\ rest \in Seq(DOMAIN SizeOf)
               /\ ToSet(Batch) \subseteq DOMAIN SizeOf
               /\ ToSet(pull.need) = ToSet(Batch) \cup ToSet(rest)
               /\ ~ Fits(Batch, session.limit) => ~ Fits(<<pull.need[1]>>, session.limit) /\ pull.need[1] \in ToSet(pull.need)
<1> DEFINE need == pull.need
           rest == SubSeq(need, Len(Batch) + 1, Len(need))
<1>1. need \in Seq(DOMAIN SizeOf) /\ need # <<>> /\ pull.need = need
  BY DEF LinkTypes
<1>2. PICK n \in 1 .. Len(need) : Batch = SubSeq(need, 1, n) /\ (n = 1 \/ Fits(SubSeq(need, 1, n), session.limit))
  BY <1>1, BatchIs DEF Prefix
<1> HIDE DEF need
<1>3. /\ Batch \in Seq(DOMAIN SizeOf) /\ Len(Batch) = n /\ DOMAIN Batch = 1 .. n
      /\ \A i \in 1 .. n : Batch[i] = need[i]
  <2>1. n \in 0 .. Len(need)
    BY <1>1, <1>2
  <2>2. /\ SubSeq(need, 1, n) \in Seq(DOMAIN SizeOf) /\ Len(SubSeq(need, 1, n)) = n
        /\ DOMAIN SubSeq(need, 1, n) = 1 .. n /\ \A i \in 1 .. n : SubSeq(need, 1, n)[i] = need[i]
    BY <1>1, <2>1, FirstPart
  <2> QED
    BY ONLY <1>2, <2>2, Zenon
<1>4. /\ rest \in Seq(DOMAIN SizeOf) /\ Len(rest) = Len(need) - n
      /\ \A i \in 1 .. Len(rest) : rest[i] = need[n + i]
  <2>1. rest = SubSeq(need, n + 1, Len(need))
    BY <1>3
  <2>2. n \in Nat /\ n <= Len(need)
    BY <1>1, <1>2
  <2> HIDE DEF rest
  <2> QED
    BY <1>1, <2>1, <2>2, RestOf
<1> HIDE DEF rest
<1>5. ToSet(need) = ToSet(Batch) \cup ToSet(rest)
  <2>1. DOMAIN need = 1 .. Len(need) /\ DOMAIN rest = 1 .. Len(rest) /\ Len(need) \in Nat
    BY <1>1, <1>4
  <2>2. ASSUME NEW i \in DOMAIN need PROVE need[i] \in ToSet(Batch) \cup ToSet(rest)
    <3>1. CASE i <= n
      BY <1>2, <1>3, <2>1, <3>1 DEF ToSet
    <3>2. CASE ~ i <= n
      <4>1. i - n \in 1 .. Len(rest) /\ n + (i - n) = i
        BY <1>2, <1>4, <2>1, <3>2
      <4>2. rest[i - n] = need[n + (i - n)]
        BY <1>4, <4>1
      <4>3. rest[i - n] = need[i]
        BY ONLY <4>1, <4>2, Zenon
      <4> QED
        BY <2>1, <4>1, <4>3 DEF ToSet
    <3> QED
      BY <3>1, <3>2
  <2>3. \A i \in DOMAIN Batch : i \in DOMAIN need /\ Batch[i] = need[i]
    BY <1>2, <1>3, <2>1
  <2>4. \A i \in DOMAIN rest : n + i \in DOMAIN need /\ rest[i] = need[n + i]
    BY <1>2, <1>4, <2>1
  <2> QED
    BY <2>2, <2>3, <2>4 DEF ToSet
<1>6. ASSUME ~ Fits(Batch, session.limit)
      PROVE  ~ Fits(<<need[1]>>, session.limit) /\ need[1] \in ToSet(need)
  <2>1. n = 1
    BY <1>2, <1>6
  <2>2. SubSeq(need, 1, 1) = <<need[1]>> /\ 1 \in DOMAIN need
    <3>1. ASSUME NEW T, NEW a \in Seq(T), Len(a) = 1 PROVE a = <<a[1]>>
      BY <3>1
    <3>2. 1 \in 0 .. Len(need) /\ 1 \in DOMAIN need /\ 1 \in 1 .. 1
      BY <1>1
    <3>3. /\ SubSeq(need, 1, 1) \in Seq(DOMAIN SizeOf) /\ Len(SubSeq(need, 1, 1)) = 1
          /\ SubSeq(need, 1, 1)[1] = need[1]
      BY <1>1, <3>2, FirstPart
    <3> QED
      BY ONLY <3>1, <3>2, <3>3, Zenon
  <2>3. Batch = <<need[1]>>
    BY ONLY <1>2, <2>1, <2>2, Zenon
  <2>4. ~ Fits(<<need[1]>>, session.limit)
    BY ONLY <1>6, <2>3, Zenon
  <2> QED
    BY <2>2, <2>4 DEF ToSet
<1>7. ToSet(Batch) \subseteq DOMAIN SizeOf
  BY <1>3 DEF ToSet
<1> QED
  BY <1>1, <1>3, <1>4, <1>5, <1>6, <1>7 DEF rest

\* The limits that are agreed on.
LEMMA AgreedType ==
    ASSUME RemoteType, NEW other \in Limits
    PROVE  /\ Agreed(other) \in Limits
           /\ Agreed(other).bytes <= other.bytes /\ Agreed(other).count <= other.count
<1>1. linkSetting.own.bytes \in Nat /\ linkSetting.own.count \in Nat /\ other.bytes \in Nat /\ other.count \in Nat
  BY LinkSettingType DEF RemoteType, Limits
<1> QED
  BY <1>1 DEF Agreed, Least, Limits

\* How the rest of the list follows a version that is given up.
LEMMA GivenUp ==
    ASSUME LinkTypes, todo # <<>>, NEW outcome, GiveUpVersion(outcome)
    PROVE  /\ todo' \in Seq(ListedEntry) /\ at' \in {"redial", "next"} /\ at' = AfterVersion(outcome)
           /\ pull' = [need |-> <<>>, got |-> {}]
           /\ pull' \in [need : Seq(DOMAIN SizeOf), got : SUBSET DOMAIN SizeOf]
           /\ \A i \in DOMAIN todo' : \E k \in DOMAIN todo : todo'[i] = todo[k]
           /\ \A k \in DOMAIN todo : todo[k].tag # Entry.tag => \E i \in DOMAIN todo' : todo'[i] = todo[k]
<1>1. todo' = Rest /\ at' = AfterVersion(outcome) /\ pull' = [need |-> <<>>, got |-> {}]
  BY DEF GiveUpVersion
<1>2. AfterVersion(outcome) \in {"redial", "next"}
  BY DEF AfterVersion
<1>3. <<>> \in Seq(DOMAIN SizeOf)
  OBVIOUS
<1> QED
  BY <1>1, <1>2, <1>3, EntryType

LEMMA LinkTypesBegin == ASSUME LinkInit PROVE LinkTypes /\ InBatches
<1>1. linkSetting.own \in Limits /\ limit \in Limits /\ mirrored \in [Tags -> TreeNames \cup {Gone}]
  BY LinkSettingType DEF LinkInit, Limits
<1>2. <<>> \in Seq(DOMAIN SizeOf) /\ <<>> \in Seq(ListedEntry)
  OBVIOUS
<1>3. LinkTypes
  BY <1>1, <1>2 DEF LinkInit, LinkTypes
<1> QED
  BY <1>3 DEF LinkInit, InBatches, AgreedUpon, AtWork

LEMMA TheirSteps ==
    ASSUME WalkInv, LinkTypes, InBatches,
           \/ \E t \in Tags, name \in TreeNames, seq \in 1 .. linkSetting.seqs : RemotePublish(t, name, seq)
           \/ \E t \in Tags : RemoteDelete(t)
           \/ RemoteRestart
    PROVE  LinkTypes' /\ InBatches' /\ ~ Quiet'
<1>1. changes' \in Nat /\ changes' # 0
  BY DEF RemotePublish, RemoteDelete, RemoteRestart, Changes, LinkTypes
<1>2. CASE RemoteRestart
  <2>1. limit' \in Limits
    BY <1>2, LinkSettingType DEF RemoteRestart, WalkInv, WalkType, RemoteType, Limits
  <2>2. UNCHANGED <<mirrored, todo, pull, at, faults, overruled>>
    BY <1>2 DEF RemoteRestart, us
  <2>3. session' \in [state : {"up", "dead", "failed"}, limit : Limits] /\ session'.state # "up"
    BY <1>2 DEF RemoteRestart, LinkTypes
  <2> QED
    BY <1>1, <2>1, <2>2, <2>3 DEF LinkTypes, InBatches, AgreedUpon, AtWork, Quiet
<1>3. CASE UNCHANGED limit
  <2>1. UNCHANGED <<session, mirrored, todo, pull, at, faults, overruled, linkSetting>>
    <3>1. ~ RemoteRestart
      BY <1>3 DEF RemoteRestart
    <3> QED
      BY <3>1 DEF RemotePublish, RemoteDelete, us
  <2>2. Agreed(limit)' = Agreed(limit)
    BY <1>3, <2>1 DEF Agreed
  <2> QED
    BY <1>1, <1>3, <2>1, <2>2 DEF LinkTypes, InBatches, AgreedUpon, AtWork, Quiet
<1> QED
  BY <1>2, <1>3 DEF RemotePublish, RemoteDelete

\* The steps that change the session, and those that change nothing but where
\* the cycle is.
LEMMA SessionSteps ==
    ASSUME WalkInv, LinkTypes, InBatches,
           Dial \/ DialFails \/ Redial \/ RedialFails \/ IndexFails \/ EndOfList
    PROVE  LinkTypes' /\ InBatches' /\ UNCHANGED <<remote, mirrored, refused, throughout, deleted, limit, walk, todo, pull, changes>>
<1>1. UNCHANGED <<remote, limit, throughout, deleted, changes, mirrored, refused, walk, todo, pull, overruled, linkSetting>>
  BY DEF Dial, DialFails, Redial, RedialFails, IndexFails, EndOfList, them, us
<1>2. faults' \in Nat
  BY DEF Dial, DialFails, Redial, RedialFails, IndexFails, EndOfList, Fault, LinkTypes
<1>3. at' \in {"index", "next", "done", "unavailable"}
  BY DEF Dial, DialFails, Redial, RedialFails, IndexFails, EndOfList
<1>4. Agreed(limit) \in Limits
  BY AgreedType DEF WalkInv, WalkType, LinkTypes
<1>5. /\ session' \in [state : {"up", "dead", "failed"}, limit : Limits]
      /\ session'.state = "up" => session'.limit = Agreed(limit)
  BY <1>4 DEF Dial, DialFails, Redial, RedialFails, IndexFails, EndOfList, Connected, Broken, LinkTypes, InBatches, AgreedUpon
<1>6. Agreed(limit)' = Agreed(limit)
  BY <1>1 DEF Agreed
<1> QED
  BY <1>1, <1>2, <1>3, <1>5, <1>6 DEF LinkTypes, InBatches, AgreedUpon, AtWork

\* A page adds its entries to the list.
LEMMA IndexTypes ==
    ASSUME WalkInv, LinkTypes, InBatches, IndexPage
    PROVE  LinkTypes' /\ InBatches'
<1>1. /\ UNCHANGED <<limit, changes, mirrored, session, pull, faults, overruled, linkSetting>>
      /\ at' \in {"details", "next", "index"} /\ walk.page # 0
  BY DEF IndexPage, them, us, WalkInv, WalkAt
<1> DEFINE rows == IndexAnswer(walk.page, walk.after).entries
           more == [i \in DOMAIN rows |-> Named(rows[i])]
<1>2. todo' = todo \o more
  BY DEF IndexPage
<1>3. rows \in Seq(ListedRow)
  BY <1>1, AnswerType DEF WalkInv, WalkType
<1>4. more \in Seq(ListedEntry)
  <2> HIDE DEF rows
  <2>1. \A e \in ListedRow : Named(e) \in ListedEntry
    BY DEF Named, ListedRow, ListedEntry
  <2>2. DOMAIN rows = 1 .. Len(rows) /\ Len(rows) \in Nat /\ \A i \in DOMAIN rows : rows[i] \in ListedRow
    BY <1>3
  <2> QED
    BY <2>1, <2>2
<1> HIDE DEF more
<1>5. todo' \in Seq(ListedEntry)
  BY <1>2, <1>4, JoinedType DEF LinkTypes
<1>6. Agreed(limit)' = Agreed(limit)
  BY <1>1 DEF Agreed
<1> QED
  BY <1>1, <1>5, <1>6 DEF LinkTypes, InBatches, AgreedUpon, AtWork

\* A listed name gets its tree, or is left out.
LEMMA DetailTypes ==
    ASSUME WalkInv, LinkTypes, InBatches, Resolve \/ ResolvedAll
    PROVE  LinkTypes' /\ InBatches'
<1>1. UNCHANGED <<limit, changes, mirrored, session, pull, overruled, linkSetting>>
  BY DEF Resolve, ResolvedAll, them, us
<1>2. todo \in Seq(ListedEntry)
  BY DEF LinkTypes
<1>3. todo' \in Seq(ListedEntry)
  <2>1. CASE ResolvedAll
    <3>1. Keeping(todo, {e \in ToSet(todo) : e.tree # Gone}) \in Seq(ListedEntry \cap {e \in ToSet(todo) : e.tree # Gone})
      BY <1>2, KeepingType
    <3>2. ASSUME NEW S PROVE \A s \in Seq(ListedEntry \cap S) : s \in Seq(ListedEntry)
      OBVIOUS
    <3> QED
      BY <2>1, <3>1, <3>2 DEF ResolvedAll
  <2>2. CASE Resolve
    <3> DEFINE i == CHOOSE n \in Unresolved : \A k \in Unresolved : n <= k
    <3>1. i \in DOMAIN todo
      <4>1. Unresolved \subseteq DOMAIN todo /\ Unresolved # {} /\ DOMAIN todo \subseteq Nat
        <5>1. Unresolved # {}
          BY <2>2 DEF Resolve
        <5>2. DOMAIN todo \subseteq Nat
          BY <1>2
        <5> QED
          BY <5>1, <5>2 DEF Unresolved
      <4>2. \E n \in Unresolved : \A k \in Unresolved : n <= k
        BY <4>1, LeastNumber
      <4> QED
        BY <4>1, <4>2
    <3>2. \/ remote[todo[i].tag] # Gone /\ todo' = [todo EXCEPT ![i].tree = remote[todo[i].tag].tree]
          \/ todo' = RemoveAt(todo, i)
      BY <2>2 DEF Resolve
    <3> HIDE DEF i
    <3>3. todo[i] \in ListedEntry
      BY <1>2, <3>1
    <3>4. CASE remote[todo[i].tag] # Gone /\ todo' = [todo EXCEPT ![i].tree = remote[todo[i].tag].tree]
      <4>1. remote[todo[i].tag].tree \in TreeNames
        BY <3>3, <3>4 DEF ListedEntry, WalkInv, WalkType, RemoteType, TheirRow
      <4>2. [todo[i] EXCEPT !.tree = remote[todo[i].tag].tree] \in ListedEntry
        BY <3>3, <4>1 DEF ListedEntry
      <4>3. todo' = [todo EXCEPT ![i] = [todo[i] EXCEPT !.tree = remote[todo[i].tag].tree]]
        BY <3>4
      <4> QED
        BY <1>2, <3>1, <4>2, <4>3
    <3>5. CASE todo' = RemoveAt(todo, i)
      <4>1. i - 1 \in 0 .. Len(todo) /\ i \in Nat
        BY <1>2, <3>1
      <4>2. SubSeq(todo, 1, i - 1) \in Seq(ListedEntry)
        BY <1>2, <4>1, FirstPart
      <4>3. SubSeq(todo, i + 1, Len(todo)) \in Seq(ListedEntry)
        BY <1>2, <4>1, RestOf
      <4>4. todo' = SubSeq(todo, 1, i - 1) \o SubSeq(todo, i + 1, Len(todo))
        BY <3>5 DEF RemoveAt
      <4> QED
        BY <4>2, <4>3, <4>4, JoinedType
    <3> QED
      BY <3>2, <3>4, <3>5
  <2> QED
    BY <2>1, <2>2
<1>4. faults' \in Nat /\ at' \in {"index", "details", "next"}
  BY DEF Resolve, ResolvedAll, Fault, LinkTypes
<1>5. Agreed(limit)' = Agreed(limit)
  BY <1>1 DEF Agreed
<1> QED
  BY <1>1, <1>3, <1>4, <1>5 DEF LinkTypes, InBatches, AgreedUpon, AtWork

\* The version at the head of the list is skipped, fetched or given up.
LEMMA VersionTypes ==
    ASSUME WalkInv, LinkTypes, InBatches, Skip \/ FetchVersion \/ CallFails \/ FetchBatch \/ TooLarge \/ PublishVersion
    PROVE  LinkTypes' /\ InBatches'
<1>1. UNCHANGED <<limit, changes, linkSetting>> /\ Agreed(limit)' = Agreed(limit)
  BY DEF Skip, FetchVersion, CallFails, FetchBatch, TooLarge, PublishVersion, them, Agreed
<1>2. todo # <<>>
  BY DEF Skip, FetchVersion, CallFails, FetchBatch, TooLarge, PublishVersion, InBatches, AtWork
<1>3. /\ session' \in [state : {"up", "dead", "failed"}, limit : Limits]
      /\ session'.state = "up" => session' = session
  BY DEF Skip, FetchVersion, CallFails, FetchBatch, TooLarge, PublishVersion, Broken, LinkTypes
<1>4. AgreedUpon'
  BY <1>1, <1>3 DEF AgreedUpon, InBatches
<1>5. faults' \in Nat
  BY DEF Skip, FetchVersion, CallFails, FetchBatch, TooLarge, PublishVersion, Fault, LinkTypes
<1>6. Entry \in ListedEntry
  BY <1>2, EntryType
<1>7. mirrored' \in [Tags -> TreeNames \cup {Gone}]
  <2>1. CASE UNCHANGED mirrored
    BY <2>1 DEF LinkTypes
  <2>2. CASE PublishVersion
    <3>1. mirrored' = mirrored \/ mirrored' = [mirrored EXCEPT ![Entry.tag] = Entry.tree]
      BY <2>2 DEF PublishVersion
    <3>2. Entry.tree \in TreeNames \cup {Gone}
      BY <1>6 DEF ListedEntry
    <3> QED
      BY <3>1, <3>2 DEF LinkTypes
  <2> QED
    BY <2>1, <2>2 DEF Skip, FetchVersion, CallFails, FetchBatch, TooLarge, us
<1>8. ASSUME NEW outcome, GiveUpVersion(outcome), UNCHANGED overruled PROVE LinkTypes' /\ InBatches'
  BY <1>1, <1>2, <1>3, <1>4, <1>5, <1>7, <1>8, GivenUp DEF LinkTypes, InBatches, AtWork
<1>9. CASE Skip
  <2>1. todo' \in Seq(ListedEntry) /\ UNCHANGED <<at, pull, overruled>> /\ at # "blobs"
    BY <1>2, <1>9, EntryType DEF Skip
  <2> QED
    BY <1>1, <1>3, <1>4, <1>5, <1>7, <2>1 DEF LinkTypes, InBatches, AtWork
<1>10. CASE CallFails \/ TooLarge \/ PublishVersion
  <2>1. \E outcome : GiveUpVersion(outcome) /\ UNCHANGED overruled
    BY <1>10 DEF CallFails, TooLarge, PublishVersion
  <2> QED
    BY <1>8, <2>1
<1>11. CASE FetchVersion
  <2>1. CASE GiveUpVersion("up")
    BY <1>8, <1>11, <2>1 DEF FetchVersion
  <2>2. CASE ~ GiveUpVersion("up")
    <3>1. /\ remote[Entry.tag] # Gone /\ remote[Entry.tag].tree = Entry.tree
          /\ pull' = [need |-> IF via = "rpc" THEN Missing ELSE <<>>, got |-> {}]
          /\ at' = "blobs" /\ UNCHANGED <<todo, overruled>>
      BY <1>11, <2>2 DEF FetchVersion
    <3>2. Entry.tree \in TreeNames
      BY <1>6, <3>1 DEF ListedEntry, WalkInv, WalkType, RemoteType, TheirRow
    <3>3. Missing \in Seq(DOMAIN SizeOf) /\ <<>> \in Seq(DOMAIN SizeOf)
      BY <3>2, MissingType
    <3>4. pull' \in [need : Seq(DOMAIN SizeOf), got : SUBSET DOMAIN SizeOf]
      BY <3>1, <3>3
    <3> QED
      BY <1>1, <1>2, <1>3, <1>4, <1>5, <1>7, <3>1, <3>4 DEF LinkTypes, InBatches, AtWork
  <2> QED
    BY <2>1, <2>2
<1>12. CASE FetchBatch
  <2>1. pull.need # <<>> /\ session.state = "up" /\ Fits(Batch, session.limit) /\ UNCHANGED session
    BY <1>12 DEF FetchBatch, Works
  <2>2. Fits(Batch, limit)
    <3>1. session.limit = Agreed(limit) /\ limit \in Limits
      BY <2>1 DEF InBatches, AgreedUpon, LinkTypes
    <3>2. /\ Agreed(limit).bytes <= limit.bytes /\ Agreed(limit).count <= limit.count
          /\ Agreed(limit) \in Limits
      BY <3>1, AgreedType DEF WalkInv, WalkType
    <3>3. TotalSize(Batch) \in Nat /\ Len(Batch) \in Nat
      BY <2>1, BatchType, SizeType
    <3>4. TotalSize(Batch) <= session.limit.bytes /\ Len(Batch) <= session.limit.count
      BY <2>1 DEF Fits
    <3> QED
      BY <3>1, <3>2, <3>3, <3>4 DEF Fits, Limits
  <2>3. PICK lost \in SUBSET (ToSet(Batch) \ Held) :
            pull' = [need |-> SubSeq(pull.need, Len(Batch) + 1, Len(pull.need)),
                     got |-> pull.got \cup (ToSet(Batch) \ lost)]
    BY <1>12, <2>2 DEF FetchBatch
  <2>4. pull.got \in SUBSET DOMAIN SizeOf
    BY DEF LinkTypes
  <2>5. pull' \in [need : Seq(DOMAIN SizeOf), got : SUBSET DOMAIN SizeOf]
    BY <2>1, <2>3, <2>4, BatchType
  <2>6. UNCHANGED <<at, todo, overruled>>
    BY <1>12, <2>2 DEF FetchBatch
  <2> QED
    BY <1>1, <1>3, <1>4, <1>5, <1>7, <2>5, <2>6 DEF LinkTypes, InBatches, AtWork
<1> QED
  BY <1>9, <1>10, <1>11, <1>12

\* Without a fault there was none before.
LEMMA FaultCounts == ASSUME LinkTypes, Quiet' PROVE ~ Fault /\ (UNCHANGED <<changes, faults>> => Quiet)
BY DEF LinkTypes, Fault, Quiet

\* The version at the head of the list is done.
LEMMA LessTodo ==
    ASSUME LinkTypes, QuietAt, QuietTodo, todo # <<>>, at \in {"next", "blobs"}, at' = "next",
           UNCHANGED <<remote, session, via, refused, throughout, deleted>>,
           \A i \in DOMAIN todo' : \E k \in DOMAIN todo : todo'[i] = todo[k],
           \A k \in DOMAIN todo : todo[k].tag # Entry.tag => \E i \in DOMAIN todo' : todo'[i] = todo[k],
           \A t \in Present : Delivered(t) \/ t = Entry.tag => Delivered(t)'
    PROVE  QuietAt' /\ QuietTodo' /\ QuietPull'
<1>1. Present' = Present
  BY DEF Present
<1>2. QuietAt'
  BY <1>1 DEF QuietAt
<1>3. \A i \in DOMAIN todo' : todo'[i].tag \in Present' /\ todo'[i].tree = remote'[todo'[i].tag].tree
  BY <1>1 DEF QuietTodo
<1>4. ASSUME NEW t \in Present', t \notin TodoTags' PROVE Delivered(t)'
  <2>1. t \notin TodoTags \/ t = Entry.tag
    <3>1. ASSUME NEW k \in DOMAIN todo, t = todo[k].tag, t # Entry.tag PROVE FALSE
      <4>1. PICK i \in DOMAIN todo' : todo'[i] = todo[k]
        BY <3>1
      <4> QED
        BY <1>4, <3>1, <4>1 DEF TodoTags
    <3> QED
      BY <3>1 DEF TodoTags
  <2>2. Delivered(t) \/ t = Entry.tag
    BY <1>1, <1>4, <2>1 DEF QuietTodo
  <2> QED
    BY <1>1, <1>4, <2>2
<1>5. QuietTodo'
  BY <1>3, <1>4 DEF QuietTodo
<1> QED
  BY <1>2, <1>5 DEF QuietPull

\* What a page adds is there.
LEMMA IndexQuiet ==
    ASSUME LinkInv, IndexPage, QuietAt, QuietTodo, WalkInv'
    PROVE  QuietAt' /\ QuietTodo' /\ QuietPull'
<1>1. /\ UNCHANGED <<remote, limit, throughout, deleted, refused, via, session, linkSetting>> /\ at = "index"
      /\ walk.page \in Nat \ {0} /\ RemoteType
  BY DEF IndexPage, them, us, LinkInv, WalkInv, WalkAt, WalkType
<1> DEFINE answer == IndexAnswer(walk.page, walk.after)
           more == [i \in DOMAIN answer.entries |-> Named(answer.entries[i])]
<1>2. /\ answer.entries \in Seq(TheirRows) /\ answer.entries \in Seq(ListedRow) /\ answer.next \in Nat
  BY <1>1, AnswerType
<1>3. /\ Walked(answer) /\ todo' = todo \o more
      /\ at' = IF answer.next = 0 THEN "next" ELSE "index"
  BY DEF IndexPage, QuietAt
<1> HIDE DEF answer
<1>4. more = answer.entries
  <2> DEFINE s == answer.entries
  <2>1. s \in Seq(ListedRow)
    BY <1>2
  <2>2. \A e : Named(e) = e
    BY DEF Named, QuietAt
  <2>3. more = [i \in DOMAIN s |-> s[i]]
    BY <2>2
  <2> HIDE DEF s, more
  <2>4. [i \in DOMAIN s |-> s[i]] = s
    BY <2>1
  <2>5. s = answer.entries
    BY DEF s
  <2> QED
    BY ONLY <2>3, <2>4, <2>5, Zenon
<1> HIDE DEF more
<1>5. walk'.listed = walk.listed \o more /\ walk'.page = answer.next
  BY <1>3, <1>4 DEF Walked
<1>6. more \in Seq(ListedRow) /\ more \in Seq(TheirRows)
  BY <1>2, <1>4
<1>7. Present' = Present /\ QuietAt'
  BY <1>1, <1>3 DEF Present, QuietAt
<1>8. /\ DOMAIN todo' = 1 .. Len(todo) + Len(more) /\ Len(todo) \in Nat /\ Len(more) \in Nat
      /\ DOMAIN todo = 1 .. Len(todo) /\ DOMAIN more = 1 .. Len(more)
      /\ \A i \in 1 .. Len(todo) : todo'[i] = todo[i]
      /\ \A i \in 1 .. Len(more) : todo'[Len(todo) + i] = more[i]
  <2>1. todo \in Seq(ListedEntry) /\ more \in Seq(ListedEntry)
    <3>1. ListedRow \subseteq ListedEntry
      BY DEF ListedRow, ListedEntry
    <3>2. \A s \in Seq(ListedRow) : s \in Seq(ListedEntry)
      BY <3>1
    <3> QED
      BY <1>6, <3>2 DEF LinkInv, LinkTypes
  <2> QED
    BY <1>3, <2>1, JoinedType
<1>9. ASSUME NEW i \in DOMAIN todo' PROVE todo'[i].tag \in Present' /\ todo'[i].tree = remote'[todo'[i].tag].tree
  <2>1. CASE i \in 1 .. Len(todo)
    <3>1. todo'[i] = todo[i] /\ i \in DOMAIN todo
      BY <1>8, <2>1
    <3> QED
      BY <1>1, <1>7, <3>1 DEF QuietTodo
  <2>2. CASE i \notin 1 .. Len(todo)
    <3>1. i - Len(todo) \in 1 .. Len(more) /\ Len(todo) + (i - Len(todo)) = i
      BY <1>8, <2>2
    <3>2. todo'[Len(todo) + (i - Len(todo))] = more[i - Len(todo)]
      BY <1>8, <3>1
    <3>3. todo'[i] = more[i - Len(todo)]
      BY ONLY <3>1, <3>2, Zenon
    <3>4. more[i - Len(todo)] \in TheirRows
      BY <1>6, <3>1
    <3>5. todo'[i].tag \in Present /\ todo'[i] = RowOfTag(todo'[i].tag)
      BY <1>1, <3>3, <3>4, TheirRowsType
    <3>6. todo'[i].tree = remote[todo'[i].tag].tree
      BY <1>1, <3>5, RowOfTagType
    <3> QED
      BY <1>1, <1>7, <3>5, <3>6
  <2> QED
    BY <2>1, <2>2
<1>10. ListedTags' \subseteq TodoTags'
  <2> DEFINE a == walk.listed
             b == walk'.listed
  <2>1. a \in Seq(ListedRow) /\ b = a \o more
    BY <1>5 DEF LinkInv, WalkInv, WalkType
  <2> HIDE DEF a, b
  <2>2. /\ DOMAIN b = 1 .. Len(a) + Len(more) /\ DOMAIN a = 1 .. Len(a) /\ Len(a) \in Nat /\ Len(more) \in Nat
        /\ \A i \in 1 .. Len(a) : b[i] = a[i]
        /\ \A k \in 1 .. Len(more) : b[Len(a) + k] = more[k]
    BY <1>6, <2>1, JoinedType
  <2>3. \A i \in DOMAIN a : \E k \in DOMAIN todo : todo[k].tag = a[i].tag
    BY <1>1 DEF QuietTodo, ListedTags, TodoTags, a
  <2>4. ASSUME NEW i \in DOMAIN b PROVE \E k \in DOMAIN todo' : todo'[k].tag = b[i].tag
    <3>1. CASE i \in 1 .. Len(a)
      <4>1. i \in DOMAIN a /\ b[i] = a[i]
        BY <2>2, <3>1
      <4>2. PICK k \in DOMAIN todo : todo[k].tag = a[i].tag
        BY <2>3, <4>1
      <4>3. k \in DOMAIN todo' /\ todo'[k] = todo[k]
        BY <1>8
      <4> QED
        BY <4>1, <4>2, <4>3
    <3>2. CASE i \notin 1 .. Len(a)
      <4>1. i - Len(a) \in 1 .. Len(more) /\ Len(a) + (i - Len(a)) = i
        BY <2>2, <3>2
      <4>2. b[Len(a) + (i - Len(a))] = more[i - Len(a)]
        BY <2>2, <4>1
      <4>3. b[i] = more[i - Len(a)]
        BY ONLY <4>1, <4>2, Zenon
      <4>4. Len(todo) + (i - Len(a)) \in DOMAIN todo' /\ todo'[Len(todo) + (i - Len(a))] = more[i - Len(a)]
        BY <1>8, <4>1
      <4> QED
        BY <4>3, <4>4
    <3> QED
      BY <3>1, <3>2
  <2> QED
    BY <2>4 DEF ListedTags, TodoTags, b
<1>11. at' = "next" => Present' \subseteq TodoTags'
  <2>1. SUFFICES ASSUME at' = "next" PROVE Present' \subseteq TodoTags'
    OBVIOUS
  <2>2. walk'.page = 0
    BY <2>1 DEF WalkInv, WalkAt
  <2>3. throughout' \subseteq ListedTags' /\ throughout' = Present'
    BY <1>7, <2>2 DEF WalkInv, ListedAll, QuietAt
  <2> QED
    BY <1>10, <2>3
<1>12. at' \in {"index", "next"}
  BY <1>3
<1> QED
  BY <1>7, <1>9, <1>10, <1>11, <1>12 DEF QuietTodo, QuietPull

\* What is known of the version at the head of the list.
LEMMA EntryQuiet ==
    ASSUME LinkTypes, QuietTodo, todo # <<>>
    PROVE  /\ Entry.tag \in Present /\ Entry.tree = remote[Entry.tag].tree
           /\ BlobsAt(Entry.tag) = ToSet(TreeContents[Entry.tree])
BY EntryType DEF QuietTodo, BlobsAt

\* The session of a fault-free cycle.
LEMMA SessionQuiet ==
    ASSUME LinkInv, QuietAt, QuietTodo, Quiet', Dial \/ DialFails \/ Redial \/ RedialFails \/ IndexFails \/ EndOfList
    PROVE  QuietAt' /\ QuietTodo' /\ QuietPull'
<1>1. ~ Fault
  BY FaultCounts DEF LinkInv
<1>2. ~ DialFails /\ ~ Redial /\ ~ RedialFails
  BY <1>1 DEF DialFails, Redial, RedialFails, QuietAt
<1>3. ~ IndexFails
  BY <1>1 DEF IndexFails, QuietAt, Works
<1>4. UNCHANGED <<remote, mirrored, refused, throughout, deleted, limit, walk, todo, pull>>
  BY SessionSteps DEF LinkInv
<1>5. CASE Dial
  <2>1. at = "dial" /\ at' = "index" /\ via' = via /\ session'.state = "up"
    BY <1>5 DEF Dial, Connected
  <2> QED
    BY <1>4, <2>1 DEF QuietAt, QuietTodo, QuietPull, Present, ListedTags, TodoTags
<1>6. CASE EndOfList
  <2>1. at = "next" /\ at' = "done" /\ todo = <<>> /\ UNCHANGED <<via, session>>
    BY <1>6 DEF EndOfList
  <2>2. Present' = Present /\ TodoTags' = TodoTags /\ \A t : Delivered(t)' = Delivered(t)
    BY <1>4, <2>1 DEF Present, TodoTags, Delivered, BlobsAt, TooBig
  <2> QED
    BY <1>4, <2>1, <2>2 DEF QuietAt, QuietTodo, QuietPull
<1> QED
  BY <1>2, <1>3, <1>5, <1>6

\* A version that is given up in a fault-free cycle is delivered.
LEMMA GivenUpQuiet ==
    ASSUME LinkInv, QuietAt, QuietTodo, todo # <<>>, at \in {"next", "blobs"}, GiveUpVersion("up"),
           UNCHANGED <<remote, session, via, refused, throughout, deleted>>,
           \A t \in Present : Delivered(t) \/ t = Entry.tag => Delivered(t)'
    PROVE  QuietAt' /\ QuietTodo' /\ QuietPull'
<1>1. at' = "next"
  BY DEF GiveUpVersion, AfterVersion
<1>2. /\ \A i \in DOMAIN todo' : \E k \in DOMAIN todo : todo'[i] = todo[k]
      /\ \A k \in DOMAIN todo : todo[k].tag # Entry.tag => \E i \in DOMAIN todo' : todo'[i] = todo[k]
  BY GivenUp DEF LinkInv
<1> QED
  BY <1>1, <1>2, LessTodo DEF LinkInv

\* A version of a fault-free cycle.
LEMMA VersionQuiet ==
    ASSUME LinkInv, QuietAt, QuietTodo, QuietPull, Quiet',
           Skip \/ FetchVersion \/ CallFails \/ FetchBatch \/ TooLarge \/ PublishVersion
    PROVE  QuietAt' /\ QuietTodo' /\ QuietPull'
<1>1. LinkTypes /\ RemoteType /\ ~ Fault
  BY FaultCounts DEF LinkInv, WalkInv, WalkType
<1>2. /\ todo # <<>> /\ at \in {"next", "blobs"} /\ session.state = "up" /\ via = "rpc" /\ refused = {}
  BY DEF Skip, FetchVersion, CallFails, FetchBatch, TooLarge, PublishVersion, LinkInv, InBatches, AtWork, QuietAt
<1>3. ~ CallFails
  BY <1>1, <1>2 DEF CallFails, Works
<1>4. UNCHANGED <<remote, session, via, throughout, deleted>> /\ Present' = Present
  BY <1>3 DEF Skip, FetchVersion, FetchBatch, TooLarge, PublishVersion, them, Present
<1>5. /\ Entry.tag \in Present /\ Entry.tree = remote[Entry.tag].tree
      /\ BlobsAt(Entry.tag) = ToSet(TreeContents[Entry.tree])
  BY <1>1, <1>2, EntryQuiet
<1>6. Entry.tree \in TreeNames /\ remote[Entry.tag] # Gone /\ Entry.tag \in Tags
  BY <1>1, <1>5, RowOfTagType DEF Present
<1>7. ASSUME UNCHANGED mirrored PROVE \A t : Delivered(t) => Delivered(t)'
  BY <1>4, <1>7 DEF Delivered, BlobsAt, TooBig
<1>8. CASE Skip
  <2>1. mirrored[Entry.tag] = Entry.tree /\ todo' = Rest /\ UNCHANGED <<mirrored, refused>> /\ at' = "next"
    BY <1>2, <1>8 DEF Skip, Known, us
  <2>2. Delivered(Entry.tag)
    BY <1>5, <2>1 DEF Delivered
  <2>3. /\ \A i \in DOMAIN todo' : \E k \in DOMAIN todo : todo'[i] = todo[k]
        /\ \A k \in DOMAIN todo : todo[k].tag # Entry.tag => \E i \in DOMAIN todo' : todo'[i] = todo[k]
    BY <1>1, <1>2, <2>1, EntryType
  <2> QED
    BY <1>1, <1>2, <1>4, <1>7, <2>1, <2>2, <2>3, LessTodo
<1>9. CASE FetchVersion
  <2>1. /\ pull' = [need |-> Missing, got |-> {}] /\ at' = "blobs" /\ UNCHANGED <<refused, todo, mirrored>>
    BY <1>2, <1>5, <1>6, <1>9 DEF FetchVersion
  <2>2. at = "next" /\ (\A t : Delivered(t) => Delivered(t)')
    BY <1>7, <1>9, <2>1 DEF FetchVersion
  <2>3. ToSet(Missing) = BlobsAt(Entry.tag) \ Stored
    BY <1>5, <1>6, MissingType
  <2>4. Entry' = Entry /\ Stored' = Stored /\ BlobsAt(Entry.tag)' = BlobsAt(Entry.tag) /\ TodoTags' = TodoTags
    BY <1>4, <2>1 DEF Entry, Stored, BlobsAt, TodoTags
  <2>5. QuietPull'
    BY <2>1, <2>3, <2>4 DEF QuietPull
  <2>6. QuietAt'
    BY <1>2, <1>4, <2>1 DEF QuietAt
  <2>7. QuietTodo'
    BY <1>4, <2>1, <2>2, <2>4 DEF QuietTodo
  <2> QED
    BY <2>5, <2>6, <2>7
<1>10. CASE FetchBatch
  <2>1. at = "blobs" /\ pull.need # <<>> /\ UNCHANGED <<mirrored, refused, limit, linkSetting>> /\ Fits(Batch, session.limit)
    BY <1>10 DEF FetchBatch, us, them
  <2>2. ~ overruled'
    BY VersionTypes DEF LinkInv, InBatches
  <2>3. /\ \E lost \in SUBSET (ToSet(Batch) \ Held) :
              pull' = [need |-> SubSeq(pull.need, Len(Batch) + 1, Len(pull.need)),
                       got |-> pull.got \cup (ToSet(Batch) \ lost)]
        /\ UNCHANGED <<at, todo>>
    BY <1>10, <2>2 DEF FetchBatch
  <2>4. ToSet(pull.need) = ToSet(Batch) \cup ToSet(SubSeq(pull.need, Len(Batch) + 1, Len(pull.need)))
    BY <1>1, <2>1, BatchType
  <2>5. BlobsAt(Entry.tag) \subseteq Held
    BY <1>5 DEF Held, BlobsAt
  <2>6. ToSet(pull.need) \subseteq BlobsAt(Entry.tag) /\ BlobsAt(Entry.tag) \subseteq Stored \cup pull.got \cup ToSet(pull.need)
    BY <2>1 DEF QuietPull
  <2>7. /\ pull'.need = SubSeq(pull.need, Len(Batch) + 1, Len(pull.need))
        /\ pull'.got = pull.got \cup ToSet(Batch)
    <3>1. PICK lost \in SUBSET (ToSet(Batch) \ Held) :
              pull' = [need |-> SubSeq(pull.need, Len(Batch) + 1, Len(pull.need)),
                       got |-> pull.got \cup (ToSet(Batch) \ lost)]
      BY <2>3
    <3>2. lost = {}
      BY <2>4, <2>5, <2>6
    <3>3. ToSet(Batch) \ lost = ToSet(Batch)
      BY <3>2
    <3> QED
      BY <3>1, <3>3
  <2>8. Entry' = Entry /\ Stored' = Stored /\ BlobsAt(Entry.tag)' = BlobsAt(Entry.tag) /\ TodoTags' = TodoTags
    BY <1>4, <2>1, <2>3 DEF Entry, Stored, BlobsAt, TodoTags
  <2>9. ToSet(pull.need)' = ToSet(SubSeq(pull.need, Len(Batch) + 1, Len(pull.need)))
    BY <2>7 DEF ToSet
  <2>10. QuietPull'
    BY <2>4, <2>6, <2>7, <2>8, <2>9 DEF QuietPull
  <2>11. QuietAt'
    BY <1>2, <1>4, <2>1, <2>3 DEF QuietAt
  <2>12. QuietTodo'
    BY <1>4, <1>7, <2>1, <2>3, <2>8 DEF QuietTodo
  <2> QED
    BY <2>10, <2>11, <2>12
<1>11. CASE TooLarge
  <2>1. /\ at = "blobs" /\ pull.need # <<>> /\ UNCHANGED <<mirrored, refused>>
        /\ ~ Fits(Batch, session.limit) /\ GiveUpVersion("up")
    BY <1>2, <1>11 DEF TooLarge, us
  <2>2. ~ Fits(<<pull.need[1]>>, session.limit) /\ pull.need[1] \in ToSet(pull.need)
    BY <1>1, <2>1, BatchType
  <2>3. Delivered(Entry.tag)
    BY <2>1, <2>2 DEF QuietPull, Delivered, TooBig
  <2> QED
    BY <1>2, <1>4, <1>7, <2>1, <2>3, GivenUpQuiet
<1>12. CASE PublishVersion
  <2>1. /\ at = "blobs" /\ pull.need = <<>> /\ UNCHANGED refused /\ GiveUpVersion("up")
    BY <1>2, <1>12 DEF PublishVersion
  <2>2. ToSet(TreeContents[Entry.tree]) \subseteq Stored \cup pull.got
    BY <1>5, <2>1 DEF QuietPull, ToSet
  <2>3. mirrored' = [mirrored EXCEPT ![Entry.tag] = Entry.tree]
    BY <1>12, <2>2 DEF PublishVersion
  <2>4. mirrored'[Entry.tag] = Entry.tree /\ \A t \in Present : t # Entry.tag => mirrored'[t] = mirrored[t]
    BY <1>1, <1>6, <2>3 DEF LinkTypes
  <2>5. \A t \in Present : Delivered(t) \/ t = Entry.tag => Delivered(t)'
    BY <1>4, <1>5, <2>4 DEF Delivered, BlobsAt, TooBig
  <2> QED
    BY <1>2, <1>4, <2>1, <2>5, GivenUpQuiet
<1> QED
  BY <1>3, <1>8, <1>9, <1>10, <1>11, <1>12

LEMMA LinkInvNext == ASSUME LinkInv, [LinkNext]_linkVars PROVE LinkInv'
<1>1. WalkInv'
  BY WalkNext DEF LinkInv
<1>2. CASE UNCHANGED linkVars
  <2>1. UNCHANGED <<remote, limit, changes, throughout, deleted, mirrored, refused, at, via, session, walk, todo, pull, faults,
                    overruled, linkSetting>>
    BY <1>2 DEF linkVars, them, us
  <2>2. LinkTypes' /\ InBatches'
    BY <2>1 DEF LinkInv, LinkTypes, InBatches, AgreedUpon, Agreed, AtWork
  <2>3. Quiet' = Quiet /\ QuietAt' = QuietAt
    BY <2>1 DEF Quiet, QuietAt, Present
  <2>4. QuietTodo' = QuietTodo
    BY <2>1 DEF QuietTodo, Present, ListedTags, TodoTags, Delivered, BlobsAt, TooBig
  <2>5. QuietPull' = QuietPull
    BY <2>1 DEF QuietPull, BlobsAt, Stored, Entry
  <2> QED
    BY <1>1, <2>2, <2>3, <2>4, <2>5 DEF LinkInv, QuietInv
<1>3. CASE \/ \E t \in Tags, name \in TreeNames, seq \in 1 .. linkSetting.seqs : RemotePublish(t, name, seq)
           \/ \E t \in Tags : RemoteDelete(t)
           \/ RemoteRestart
  BY <1>1, <1>3, TheirSteps DEF LinkInv, QuietInv
<1>4. ASSUME Dial \/ DialFails \/ Redial \/ RedialFails \/ IndexFails \/ EndOfList \/ IndexPage \/ Resolve \/ ResolvedAll
             \/ Skip \/ FetchVersion \/ CallFails \/ FetchBatch \/ TooLarge \/ PublishVersion, Quiet'
      PROVE  Quiet /\ QuietAt /\ QuietTodo /\ QuietPull
  <2>1. LinkTypes /\ ~ Fault
    BY <1>4, FaultCounts DEF LinkInv
  <2>2. UNCHANGED changes
    BY <1>4 DEF Dial, DialFails, Redial, RedialFails, IndexFails, EndOfList, IndexPage, Resolve, ResolvedAll,
                Skip, FetchVersion, CallFails, FetchBatch, TooLarge, PublishVersion, them
  <2>3. UNCHANGED faults
    BY <1>4, <2>1 DEF Dial, DialFails, Redial, RedialFails, IndexFails, EndOfList, IndexPage, Resolve, ResolvedAll,
                      Skip, FetchVersion, CallFails, FetchBatch, TooLarge, PublishVersion
  <2> QED
    BY <1>4, <2>2, <2>3 DEF Quiet, LinkInv, QuietInv
<1>5. CASE Dial \/ DialFails \/ Redial \/ RedialFails \/ IndexFails \/ EndOfList
  BY <1>1, <1>4, <1>5, SessionSteps, SessionQuiet DEF LinkInv, QuietInv
<1>6. CASE IndexPage
  BY <1>1, <1>4, <1>6, IndexTypes, IndexQuiet DEF LinkInv, QuietInv
<1>7. CASE Resolve \/ ResolvedAll
  <2>1. at = "details"
    BY <1>7 DEF Resolve, ResolvedAll
  <2>2. ~ Quiet'
    BY <1>4, <1>7, <2>1 DEF QuietAt
  <2> QED
    BY <1>1, <1>7, <2>2, DetailTypes DEF LinkInv, QuietInv
<1>8. CASE Skip \/ FetchVersion \/ CallFails \/ FetchBatch \/ TooLarge \/ PublishVersion
  BY <1>1, <1>4, <1>8, VersionTypes, VersionQuiet DEF LinkInv, QuietInv
<1> QED
  BY <1>2, <1>3, <1>5, <1>6, <1>7, <1>8 DEF LinkNext

LEMMA LinkBegins == ASSUME LinkInit PROVE LinkInv
<1>1. WalkInv /\ LinkTypes /\ InBatches
  BY WalkInitially, LinkTypesBegin
<1>2. QuietAt /\ QuietTodo /\ QuietPull
  BY DEF LinkInit, QuietAt, QuietTodo, QuietPull, FirstPage, ListedTags, TodoTags
<1> QED
  BY <1>1, <1>2 DEF LinkInv, QuietInv

\* Every batch is within what the other instance allows, and a cycle without a
\* change or a fault mirrors all that can be asked for (updateFetchLimits and
\* BlobsFetch of mod/source/brother.go, brotherFetchBlobs and
\* ingestBrotherVersion of mod/rescan/brother.go).
THEOREM LinkDeliversCorrect == LinkSpec => []LinkDelivers
<1>1. LinkInit => LinkInv
  BY LinkBegins
<1>2. LinkInv /\ [LinkNext]_linkVars => LinkInv'
  BY LinkInvNext
<1>3. LinkInv => LinkDelivers
  <2>1. SUFFICES ASSUME LinkInv PROVE LinkDelivers
    OBVIOUS
  <2>2. ~ overruled
    BY <2>1 DEF LinkInv, InBatches
  <2>3. ASSUME at = "done", changes = 0, faults = 0
        PROVE  /\ refused = {}
               /\ \A t \in Present : mirrored[t] = remote[t].tree
                                     \/ \E b \in ToSet(TreeContents[remote[t].tree]) : ~ Fits(<<b>>, session.limit)
    <3>1. QuietAt /\ QuietTodo
      BY <2>1, <2>3 DEF LinkInv, QuietInv, Quiet
    <3>2. TodoTags = {}
      BY <2>3, <3>1 DEF QuietTodo, TodoTags
    <3> QED
      BY <2>3, <3>1, <3>2 DEF QuietAt, QuietTodo, Delivered, BlobsAt, TooBig
  <2> QED
    BY <2>2, <2>3 DEF LinkDelivers
<1> QED
  BY <1>1, <1>2, <1>3, PTL DEF LinkSpec
------------------------------------------------------------------------------
(* The documents of a key with any number of versions: an answer under an     *)
(* ETag that still matches is the document, under any changes the ETag of the *)
(* document notices.                                                          *)

\* Documents whose ETag is the checksum of all that is mirrored, and those in
\* which the availability of the key, or a column of a row, is shown.
Cross == doc \in {"catalog", "catalog-page", "packages", "feed", "sitemap", "og-node"}
Pages == {"catalog", "catalog-page", "releases", "detail", "version-page", "key-page", "p2"}
\* What the ETag does not notice does not happen.
Kept == doc # "og-key" /\ docSetting.faults \subseteq Noticed

ActiveCount == Cardinality(Active)
NamesIn(etag) == {p[1] : p \in etag}
\* An ETag the document may have or have had, and one that stands for the
\* versions there are.  Versions are only added, so their number tells all.
Valid(etag) ==
    IF doc = "archive" THEN
        /\ Exists(about) /\ etag \in {<<t>> : t \in Trees}
        /\ etag = <<Tree(about)>> \/ (about \in Releases /\ Exists(about - 1))
    ELSE IF Cross THEN NamesIn(etag) \subseteq Active
    ELSE etag[2] \in 0 .. ActiveCount
UpToDate(etag) ==
    IF doc = "archive" THEN etag = <<Tree(about)>>
    ELSE IF Cross THEN NamesIn(etag) = Active
    ELSE etag[2] = ActiveCount

\* What the cycle should have left in mod/state, and whether it has, as far as
\* the document reads it.
FreshStats ==
    IF Active = {} THEN NoPublishes
    ELSE [latest |-> LatestVersion, count |-> ActiveCount, ts |-> Published(LatestVersion)]
FreshName == "composer" \in Ecosystems(FreshStats.latest)
StateFresh ==
    IF doc \in {"archive", "feed"} THEN TRUE
    ELSE IF Cross THEN stats = FreshStats /\ named = FreshName
    ELSE stats.latest = LatestVersion
\* The document, made of the rows alone.
FreshBody ==
    CASE doc = "catalog" -> <<FreshStats.latest, down>>
      [] doc = "catalog-page" -> <<FreshStats.latest, Ecosystems(FreshStats.latest), down>>
      [] doc = "key-page" ->
             <<LatestVersion, Ecosystems(LatestVersion), Listed(LAMBDA v : <<Published(v), Ecosystems(v)>>), down>>
      [] doc = "latest" ->
             IF LatestVersion # NoRow THEN LatestVersion ELSE IF Active = {} THEN NotFound ELSE LatestVersion
      [] doc = "packages" -> FreshName
      [] doc = "sitemap" -> <<FreshStats.ts, IF FreshStats.count = 0 THEN {} ELSE Listed(Published)>>
      [] doc = "og-node" -> <<FreshStats.count, FreshStats.ts>>
      [] doc = "archive" -> Tree(about)
      [] doc = "releases" -> BuildReleaseList       [] doc = "detail" -> BuildReleaseDetail
      [] doc = "version-page" -> VersionPage        [] doc = "list" -> BuildList
      [] doc = "list-full" -> BuildListFull         [] doc = "go-latest" -> LatestInfo
      [] doc = "go-list" -> BuildVersionList        [] doc = "go-info" -> BuildInfo
      [] doc = "go-mod" -> BuildMod                 [] doc = "p2" -> BuildP2
      [] doc = "key-feed" -> BuildFeed              [] doc = "feed" -> BuildFeed
      [] doc = "og-version" -> OGVersion

DocTypes ==
    /\ row \in [Names -> Row \cup {NoRow}] /\ events \in Seq(Event) /\ clock \in Nat
    /\ docSetting \in DocSettings
\* What the changes the ETag notices leave alone.
Untouched ==
    /\ doc # "archive" =>
           /\ \A v \in Names : Exists(v) => ~ row[v].gone
           /\ Active = {} => stats = NoPublishes
    /\ doc \in Pages => down = FALSE
AnswerOK(answer) ==
    answer # Nothing => Valid(answer.etag) /\ (UpToDate(answer.etag) => answer.body = FreshBody)
EtagOK == doc # "archive" => Valid(Etag) /\ (UpToDate(Etag) => StateFresh)
PendingOK ==
    pending # Nothing =>
        /\ DOMAIN pending = {"building", "etag", "seen"}
        /\ pending.building => Valid(pending.etag) /\ (UpToDate(pending.etag) => StateFresh)
\* How far the cycle has come with the statistics and the checksum.
CycleOK ==
    IF doc = "archive" THEN TRUE
    ELSE IF Cross THEN
        /\ phase \in {"names", "checksum"} /\ doc # "feed" => stats = FreshStats
        /\ phase = "checksum" /\ doc # "feed" => named = FreshName
        /\ phase = "idle" /\ synced => NamesIn(checksum) = Active
    ELSE phase # "key" /\ synced => stats.count = ActiveCount
DocInv ==
    /\ DocTypes /\ Kept
    /\ Untouched /\ EtagOK /\ AnswerOK(cached) /\ AnswerOK(client) /\ PendingOK /\ CycleOK
------------------------------------------------------------------------------
\* The configuration of a behaviour, and what of its faults can happen.
LEMMA DocSettingType ==
    ASSUME DocTypes
    PROVE  doc \in Docs /\ about \in Names /\ docSetting.publishes \in Nat
BY DocSettingsAssumption DEF DocTypes, doc, about
LEMMA FaultsOf ==
    ASSUME DocTypes, Kept
    PROVE  /\ ~ May("delete") /\ ~ May("evict") /\ ~ May("overwrite")
           /\ May("mark") => doc = "archive"
           /\ May("heal") \/ May("verify") \/ May("down") => doc \notin Pages
           /\ May("error") => doc = "archive" \/ (doc \notin Pages /\ (Cross => doc = "feed"))
<1>1. docSetting.faults \subseteq Noticed /\ doc \in Docs
  BY DocSettingType DEF Kept
<1>2. CASE doc = "archive"
  BY <1>1, <1>2 DEF Noticed, May, Pages
<1>3. CASE doc \in {"latest", "list", "list-full", "go-latest", "go-list", "go-info", "go-mod",
                    "key-feed", "feed", "og-version"}
  BY <1>1, <1>3 DEF Noticed, May, Pages, Cross
<1>4. CASE doc \in {"packages", "sitemap", "og-node"}
  BY <1>1, <1>4 DEF Noticed, May, Pages, Cross
<1>5. CASE doc \in Pages \cup {"og-key"}
  BY <1>1, <1>5 DEF Noticed, May, Pages
<1> QED
  BY <1>1, <1>2, <1>3, <1>4, <1>5 DEF Docs, Pages

\* The versions are a finite set of numbers, and the highest of some is one of
\* them.
LEMMA NamesType == Names \subseteq Nat /\ IsFiniteSet(Names)
<1> DEFINE Back == [v \in Releases |-> v - 1]
<1>1. IsFiniteSet({Back[v] : v \in Releases})
  BY FiniteImage, ReleasesAssumption
<1>2. {Back[v] : v \in Releases} = {v - 1 : v \in Releases}
  OBVIOUS
<1>3. IsFiniteSet(Names)
  BY <1>1, <1>2, ReleasesAssumption, FS_Union DEF Names
<1>4. Names \subseteq Nat
  <2>1. \A v \in Releases : v \in Nat /\ v - 1 \in Nat
    BY ReleasesAssumption
  <2> QED
    BY <2>1 DEF Names
<1> QED
  BY <1>3, <1>4
LEMMA HighestIs ==
    ASSUME NEW S \in SUBSET Nat, S # {}, IsFiniteSet(S)
    PROVE  Highest(S) \in S /\ \A w \in S : w <= Highest(S)
<1> DEFINE From(n) == {x \in S : n <= x}
           T == {From(n) : n \in S}
           U == S
<1>1. IsFiniteSet(U) /\ T \in SUBSET (SUBSET U) /\ T # {}
  OBVIOUS
<1>2. PICK A \in T : \A B \in T : B \subseteq A => B = A
  <2> HIDE DEF T, U
  <2> QED
    BY <1>1, SmallestSet
<1>3. PICK n \in S : A = From(n)
  OBVIOUS
<1>4. ASSUME NEW w \in S PROVE w <= n
  <2>1. SUFFICES ASSUME n < w PROVE FALSE
    OBVIOUS
  <2>2. n \in Nat /\ w \in Nat /\ \A x \in S : x \in Nat
    OBVIOUS
  <2>3. \A x \in S : w <= x => n <= x
    BY <2>1, <2>2
  <2>4. n \in From(n) /\ n \notin From(w)
    BY <2>1, <2>2
  <2>5. From(w) \in T
    OBVIOUS
  <2>6. From(w) \subseteq From(n)
    BY <2>3
  <2> HIDE DEF T, From
  <2> QED
    BY <1>2, <1>3, <2>6, <2>4, <2>5
<1>5. \E v \in S : \A w \in S : w <= v
  BY <1>4
<1> QED
  BY <1>5 DEF Highest

\* The versions that are listed, and the latest of them.
LEMMA ActiveType ==
    ASSUME DocTypes
    PROVE  /\ Active \subseteq Names /\ IsFiniteSet(Active) /\ ActiveCount \in Nat
           /\ Active = {} <=> ActiveCount = 0
           /\ Active # {} => LatestVersion \in Active /\ LatestVersion # NoRow
           /\ FreshStats.latest = LatestVersion /\ FreshStats.count = ActiveCount
<1>1. Active \subseteq Names /\ IsFiniteSet(Active)
  BY NamesType, FS_Subset DEF Active
<1>2. ActiveCount \in Nat /\ (Active = {} <=> ActiveCount = 0)
  BY <1>1, FS_CardinalityType, FS_EmptySet DEF ActiveCount
<1>3. Active # {} => LatestVersion \in Active
  BY <1>1, HighestIs, NamesType DEF LatestVersion
<1>4. Active # {} => LatestVersion # NoRow
  BY <1>1, <1>3, NoneAssumption
<1>5. FreshStats.latest = LatestVersion /\ FreshStats.count = ActiveCount
  BY <1>2 DEF FreshStats, NoPublishes, LatestVersion
<1> QED
  BY <1>1, <1>2, <1>3, <1>4, <1>5

------------------------------------------------------------------------------
(* Steps that leave the document as it is.                                    *)

\* The same versions, in what every document about them shows.
RowsAlike ==
    \A v \in Names :
        /\ Exists(v)' <=> Exists(v)
        /\ Exists(v) =>
               /\ Tree(v)' = Tree(v) /\ Published(v)' = Published(v)
               /\ row'[v].seq = row[v].seq /\ row'[v].gone = row[v].gone
LEMMA SameRows == ASSUME DocTypes, UNCHANGED row PROVE RowsAlike
BY DEF RowsAlike, Exists, Tree, Published
LEMMA AlikeActive ==
    ASSUME DocTypes, RowsAlike
    PROVE  /\ Active' = Active /\ ActiveCount' = ActiveCount /\ LatestVersion' = LatestVersion
           /\ \A v \in Names \cup {NoRow} : Ecosystems(v)' = Ecosystems(v)
           /\ FreshStats' = FreshStats /\ FreshName' = FreshName
<1>1. Active' = Active
  BY DEF Active, RowsAlike
<1>2. ActiveCount' = ActiveCount /\ LatestVersion' = LatestVersion
  BY <1>1 DEF ActiveCount, LatestVersion, Highest
<1>3. \A v \in Names \cup {NoRow} : Ecosystems(v)' = Ecosystems(v)
  <2>1. Ecosystems(NoRow) = {} /\ Ecosystems(NoRow)' = {}
    BY DEF Ecosystems
  <2>2. \A v \in Names : ~ Exists(v) => Ecosystems(v) = {} /\ Ecosystems(v)' = {}
    BY DEF Ecosystems, RowsAlike
  <2>3. \A v \in Names : Exists(v) => Ecosystems(v)' = Ecosystems(v)
    BY NoneAssumption DEF Ecosystems, RowsAlike
  <2> QED
    BY <2>1, <2>2, <2>3
<1>4. FreshStats' = FreshStats
  <2>1. CASE Active = {}
    BY <1>1, <2>1 DEF FreshStats
  <2>2. CASE Active # {}
    <3>1. Published(LatestVersion)' = Published(LatestVersion)
      <4>1. LatestVersion \in Active /\ Exists(LatestVersion) /\ LatestVersion \in Names
        BY <2>2, ActiveType DEF Active
      <4> QED
        BY <4>1, <1>2 DEF RowsAlike, Published
    <3> QED
      BY <1>1, <1>2, <2>2, <3>1 DEF FreshStats
  <2> QED
    BY <2>1, <2>2
<1>5. FreshStats.latest \in Names \cup {NoRow}
  BY ActiveType DEF LatestVersion
<1>6. FreshName' = FreshName
  BY <1>3, <1>4, <1>5 DEF FreshName
<1> QED
  BY <1>1, <1>2, <1>3, <1>4, <1>6

\* A document is shown as before if nothing it is made of has changed.
LEMMA BodyKept ==
    ASSUME DocTypes, doc # "og-key", RowsAlike, UNCHANGED <<events, docSetting>>,
           doc \in Pages => UNCHANGED <<row, down>>,
           doc = "archive" => Exists(about)
    PROVE  FreshBody' = FreshBody
<1>1. doc' = doc /\ about' = about /\ doc \in Docs /\ about \in Names
  BY DocSettingType DEF doc, about
<1>2. /\ Active' = Active /\ LatestVersion' = LatestVersion /\ FreshStats' = FreshStats /\ FreshName' = FreshName
      /\ \A v \in Names \cup {NoRow} : Ecosystems(v)' = Ecosystems(v)
  BY AlikeActive
<1>3. /\ Active \subseteq Names /\ \A v \in Active : Exists(v)
      /\ LatestVersion \in Names \cup {NoRow} /\ FreshStats.latest \in Names \cup {NoRow}
  BY ActiveType DEF Active, LatestVersion
<1>4. CASE doc \in {"catalog", "catalog-page"}
  BY <1>1, <1>2, <1>3, <1>4 DEF FreshBody, Pages
<1>5. CASE doc = "key-page"
  <2>1. Listed(LAMBDA v : <<Published(v), Ecosystems(v)>>)' = Listed(LAMBDA v : <<Published(v), Ecosystems(v)>>)
    BY <1>2, <1>3 DEF Listed, RowsAlike
  <2> QED
    BY <1>1, <1>2, <1>3, <1>5, <2>1 DEF FreshBody, Pages
<1>6. Listed(Published)' = Listed(Published) /\ Listed(Name)' = Listed(Name) /\ Listed(Tree)' = Listed(Tree)
  BY <1>2, <1>3 DEF Listed, RowsAlike, Name
<1>7. CASE doc = "releases"
  BY <1>1, <1>6, <1>7 DEF FreshBody, BuildReleaseList, Pages
<1>8. CASE doc \in {"detail", "version-page"}
  BY <1>1, <1>8 DEF FreshBody, BuildReleaseDetail, VersionPage, Pages, Exists
<1>9. CASE doc \in {"latest", "packages", "og-node"}
  BY <1>1, <1>2, <1>9 DEF FreshBody
<1>10. CASE doc = "sitemap"
  BY <1>1, <1>2, <1>6, <1>10 DEF FreshBody
<1>11. CASE doc \in {"list", "list-full"}
  BY <1>1, <1>6, <1>11 DEF FreshBody, BuildList, BuildListFull
<1>12. \A v \in Names : GoActive(v)' <=> GoActive(v)
  BY <1>2 DEF GoActive, RowsAlike
<1>13. InMajor' = InMajor /\ InMajor \subseteq Active
  BY <1>2, <1>3, <1>12 DEF InMajor
<1>14. CASE doc = "go-latest"
  <2>1. CASE InMajor = {}
    BY <1>1, <1>13, <1>14, <2>1 DEF FreshBody, LatestInfo
  <2>2. CASE InMajor # {}
    <3>1. InMajor \in SUBSET Nat /\ IsFiniteSet(InMajor)
      BY <1>3, <1>13, NamesType, ActiveType, FS_Subset
    <3>2. Highest(InMajor) \in InMajor /\ Highest(InMajor)' = Highest(InMajor)
      BY <1>13, <2>2, <3>1, HighestIs
    <3>3. Published(Highest(InMajor))' = Published(Highest(InMajor))
      BY <1>3, <1>13, <3>2 DEF RowsAlike, Published
    <3> QED
      BY <1>1, <1>13, <1>14, <3>2, <3>3 DEF FreshBody, LatestInfo
  <2> QED
    BY <2>1, <2>2
<1>15. CASE doc = "go-list"
  <2>1. {<<row[v].seq, v>> : v \in InMajor}' = {<<row[v].seq, v>> : v \in InMajor}
    BY <1>3, <1>13 DEF RowsAlike
  <2> QED
    BY <1>1, <1>13, <1>15, <2>1 DEF FreshBody, BuildVersionList
<1>16. CASE doc \in {"go-info", "go-mod"}
  BY <1>1, <1>12, <1>16 DEF FreshBody, BuildInfo, BuildMod, GoActive, RowsAlike
<1>17. CASE doc = "p2"
  <2>1. BuildP2' = BuildP2
    BY <1>2, <1>17 DEF BuildP2, Listed, Pages
  <2> QED
    BY <1>1, <1>17, <2>1 DEF FreshBody
<1>18. CASE doc \in {"key-feed", "feed"}
  <2> DEFINE last == IF Len(events) < FeedSize THEN Len(events) ELSE FeedSize
  <2>1. \A i \in 1 .. last : events[i].version \in Names
    <3>1. events \in Seq(Event) /\ Len(events) \in Nat
      BY DEF DocTypes
    <3>2. 1 .. last \subseteq 1 .. Len(events)
      BY <3>1, FeedSizeAssumption
    <3>3. \A i \in 1 .. Len(events) : events[i] \in Event
      BY <3>1, ElementOfSeq
    <3> QED
      BY <3>2, <3>3 DEF Event, Names
  <2>2. events' = events /\ \A i \in 1 .. last : Exists(events[i].version)' = Exists(events[i].version)
    BY <2>1 DEF RowsAlike, Exists
  <2>3. BuildFeed' = BuildFeed
    BY <2>2 DEF BuildFeed, ListPublishFeed
  <2> QED
    BY <1>1, <1>18, <2>3 DEF FreshBody
<1>19. CASE doc = "og-version"
  BY <1>1, <1>2, <1>19 DEF FreshBody, OGVersion, RowsAlike
<1>20. CASE doc = "archive"
  BY <1>1, <1>20 DEF FreshBody, RowsAlike
<1> QED
  BY <1>1, <1>4, <1>5, <1>7, <1>8, <1>9, <1>10, <1>11, <1>14, <1>15, <1>16, <1>17, <1>18, <1>19, <1>20 DEF Docs

\* A document that is built from statistics as they should be is the one made
\* of the rows alone.
LEMMA BodyIsFresh ==
    ASSUME DocTypes, doc # "og-key", StateFresh, NEW seen, doc = "archive" => Body(seen) # NotFound
    PROVE  Body(seen) = FreshBody
<1>1. doc \in Docs
  BY DocSettingType
<1>2. CASE doc \in {"catalog", "catalog-page", "packages", "sitemap", "og-node"}
  BY <1>2 DEF Body, FreshBody, StateFresh, Cross, BuildCatalog, CatalogPage, BuildPackages, BuildSitemap, OGNode
<1>3. CASE doc \in {"key-page", "latest"}
  BY <1>3 DEF Body, FreshBody, StateFresh, Cross, KeyPage, BuildLatest
<1>4. CASE doc = "archive"
  BY <1>4 DEF Body, FreshBody, OpenArtifact
<1>5. CASE doc \in {"releases", "detail", "version-page", "list", "list-full", "go-latest", "go-list",
                    "go-info", "go-mod", "p2", "key-feed", "feed", "og-version"}
  BY <1>5 DEF Body, FreshBody
<1> QED
  BY <1>1, <1>2, <1>3, <1>4, <1>5 DEF Docs

\* The invariant is what is said about answers that still match.
LEMMA DocInvNotices == ASSUME DocInv PROVE EtagIsCurrent
<1>1. DocTypes /\ doc # "og-key" /\ doc \in Docs
  BY DocSettingType DEF DocInv, Kept
<1>2. SUFFICES ASSUME phase = "idle", synced, NEW answer, AnswerOK(answer), Resolved, Matches(answer)
               PROVE  answer.body = Body(stats)
  BY DEF EtagIsCurrent, Current, DocInv
<1>3. /\ answer.etag = Etag /\ Valid(answer.etag)
      /\ UpToDate(answer.etag) => answer.body = FreshBody
  BY <1>2 DEF AnswerOK, Matches
<1>4. CASE doc = "archive"
  <2>1. Etag = <<OpenArtifact>>
    BY <1>4 DEF Etag
  <2>2. PICK t \in Trees : answer.etag = <<t>>
    BY <1>3, <1>4 DEF Valid
  <2>3. OpenArtifact = t /\ OpenArtifact # NotFound
    BY <1>3, <2>1, <2>2, NoneAssumption
  <2>4. OpenArtifact = Tree(about) /\ UpToDate(answer.etag) /\ Body(stats) = OpenArtifact
    BY <1>4, <2>2, <2>3 DEF OpenArtifact, UpToDate, Body
  <2> QED
    BY <1>1, <1>3, <1>4, <2>3, <2>4, BodyIsFresh DEF StateFresh
<1>5. CASE doc # "archive"
  <2>1. UpToDate(Etag)
    <3>1. CASE Cross
      BY <1>2, <1>5, <3>1 DEF DocInv, CycleOK, UpToDate, Etag, Cross, crossFreshness
    <3>2. CASE ~ Cross
      BY <1>2, <1>5, <3>2 DEF DocInv, CycleOK, UpToDate, Etag, Cross, keyFreshness
    <3> QED
      BY <3>1, <3>2
  <2>2. StateFresh
    BY <1>5, <2>1 DEF DocInv, EtagOK
  <2> QED
    BY <1>1, <1>3, <1>5, <2>1, <2>2, BodyIsFresh
<1> QED
  BY <1>4, <1>5

------------------------------------------------------------------------------
(* What a step may do to the ETags and documents there have been.             *)

\* An ETag that was valid stays so, and stands for the versions there are only
\* if it did before and the document is the same; and then the state is not
\* made worse.
EtagsFollow ==
    \A etag : Valid(etag) =>
        Valid(etag)' /\ (UpToDate(etag)' => UpToDate(etag) /\ FreshBody' = FreshBody)
Follows ==
    /\ EtagsFollow
    /\ (\E etag : Valid(etag) /\ UpToDate(etag)') => (StateFresh => StateFresh')

\* The rows show what they showed.
LEMMA AlikeFollows ==
    ASSUME DocTypes, Kept, RowsAlike, UNCHANGED <<events, docSetting>>,
           doc \in Pages => UNCHANGED <<row, down>>
    PROVE  EtagsFollow /\ ((StateFresh => StateFresh') => Follows)
<1>1. doc' = doc /\ about' = about /\ doc # "og-key" /\ about \in Names
  BY DocSettingType DEF doc, about, Kept
<1>2. Active' = Active /\ ActiveCount' = ActiveCount
  BY AlikeActive
<1>3. ASSUME NEW etag, Valid(etag) PROVE Valid(etag)' /\ (UpToDate(etag)' => UpToDate(etag) /\ FreshBody' = FreshBody)
  <2>1. CASE doc = "archive"
    <3>1. Exists(about) /\ Exists(about)' /\ Tree(about)' = Tree(about)
      BY <1>1, <1>3, <2>1 DEF Valid, RowsAlike
    <3>2. about \in Releases => (Exists(about - 1)' <=> Exists(about - 1))
      BY <1>1 DEF RowsAlike, Names, Exists
    <3>3. FreshBody' = FreshBody
      BY <1>1, <3>1, BodyKept
    <3> QED
      BY <1>1, <1>3, <2>1, <3>1, <3>2, <3>3 DEF Valid, UpToDate
  <2>2. CASE doc # "archive"
    <3>1. FreshBody' = FreshBody
      BY <1>1, <2>2, BodyKept
    <3> QED
      BY <1>1, <1>2, <1>3, <2>2, <3>1 DEF Valid, UpToDate, Cross
  <2> QED
    BY <2>1, <2>2
<1> QED
  BY <1>3 DEF Follows, EtagsFollow

\* The archive of a version follows that version alone, whose content moves
\* once at most.
LEMMA ArchiveFollows ==
    ASSUME DocTypes, doc = "archive", UNCHANGED docSetting,
           \A v \in Names : Exists(v) => Exists(v)',
           Exists(about) => \/ Tree(about)' = Tree(about)
                            \/ about \in Releases /\ ~ Exists(about - 1) /\ Exists(about - 1)'
                                   /\ Tree(about)' # Tree(about)
    PROVE  Follows
<1>1. doc' = doc /\ about' = about /\ about \in Names
  BY DocSettingType DEF doc, about
<1>2. about \in Releases /\ Exists(about - 1) => Exists(about - 1)'
  BY <1>1 DEF Names, Exists
<1>3. ASSUME NEW etag, Valid(etag) PROVE Valid(etag)' /\ (UpToDate(etag)' => UpToDate(etag) /\ FreshBody' = FreshBody)
  <2>1. /\ Exists(about) /\ Exists(about)' /\ etag \in {<<t>> : t \in Trees}
        /\ etag = <<Tree(about)>> \/ (about \in Releases /\ Exists(about - 1))
    BY <1>1, <1>3 DEF Valid
  <2>2. CASE Tree(about)' = Tree(about)
    BY <1>1, <1>2, <2>1, <2>2 DEF Valid, UpToDate, FreshBody
  <2>3. CASE Tree(about)' # Tree(about)
    <3>1. about \in Releases /\ Exists(about - 1)' /\ etag = <<Tree(about)>>
      BY <2>1, <2>3
    <3>2. etag # <<Tree(about)>>'
      BY <2>3, <3>1
    <3> QED
      BY <1>1, <2>1, <3>1, <3>2 DEF Valid, UpToDate
  <2> QED
    BY <2>2, <2>3
<1> QED
  BY <1>1, <1>3 DEF Follows, EtagsFollow, StateFresh

\* When there is a version more, no ETag there has been stands for all of them.
LEMMA GrownFollows ==
    ASSUME DocTypes, doc # "archive", UNCHANGED docSetting,
           NEW n, n \notin Active, Active' = Active \cup {n}
    PROVE  Follows /\ ActiveCount' = ActiveCount + 1
<1>1. doc' = doc
  BY DEF doc
<1>2. ActiveCount' = ActiveCount + 1 /\ ActiveCount \in Nat
  BY ActiveType, FS_AddElement DEF ActiveCount
<1>3. ASSUME NEW etag, Valid(etag) PROVE Valid(etag)' /\ ~ UpToDate(etag)'
  BY <1>1, <1>2, <1>3 DEF Valid, UpToDate, Cross
<1> QED
  BY <1>2, <1>3 DEF Follows, EtagsFollow

------------------------------------------------------------------------------
(* The steps.                                                                 *)

\* What is left to show of a step that builds nothing.
LEMMA KeptStays == ASSUME DocInv, UNCHANGED docSetting PROVE Kept'
BY DEF DocInv, Kept, Noticed, doc
LEMMA AnswerFollows ==
    ASSUME EtagsFollow
    PROVE  /\ \A answer : AnswerOK(answer) /\ client' = answer => AnswerOK(client)'
           /\ \A answer : AnswerOK(answer) /\ cached' = answer => AnswerOK(cached)'
BY DEF AnswerOK, EtagsFollow
LEMMA Stays ==
    ASSUME DocInv, Follows \/ (EtagsFollow /\ pending' = Nothing), UNCHANGED docSetting,
           DocTypes', Untouched', EtagOK', CycleOK',
           cached' \in {cached, Nothing}, client' \in {client, cached}, pending' \in {pending, Nothing}
    PROVE  DocInv'
<1>1. EtagsFollow
  BY DEF Follows
<1>2. AnswerOK(cached) /\ AnswerOK(client) /\ AnswerOK(Nothing)
  BY DEF DocInv, AnswerOK
<1>3. AnswerOK(cached)' /\ AnswerOK(client)'
  BY <1>1, <1>2, AnswerFollows
<1>4. PendingOK'
  <2>1. CASE pending' = Nothing
    BY <2>1 DEF PendingOK
  <2>2. CASE pending' # Nothing
    BY <2>2 DEF DocInv, PendingOK, Follows, EtagsFollow
  <2> QED
    BY <2>1, <2>2
<1> QED
  BY <1>3, <1>4, KeptStays DEF DocInv
LEMMA EtagStays ==
    ASSUME DocInv, Follows, UNCHANGED <<docSetting, stats, checksum>>
    PROVE  EtagOK'
<1>1. doc' = doc
  BY DEF doc
<1>2. doc # "archive" => Etag' = Etag
  BY <1>1 DEF Etag, crossFreshness, keyFreshness
<1> QED
  BY <1>1, <1>2 DEF EtagOK, DocInv, Follows, EtagsFollow

\* Nothing is published and no statistics change.
LEMMA NothingNew ==
    ASSUME DocInv, UNCHANGED <<db, state, docSetting>>
    PROVE  DocTypes' /\ Untouched' /\ Follows /\ EtagOK'
<1>1. UNCHANGED <<row, events, clock, stats, down, checksum, named, docSetting>>
  BY DEF db, state
<1>2. doc' = doc /\ DocTypes /\ Kept /\ RowsAlike
  BY <1>1, SameRows DEF doc, DocInv
<1>3. Active' = Active /\ LatestVersion' = LatestVersion /\ FreshStats' = FreshStats /\ FreshName' = FreshName
  BY <1>2, AlikeActive
<1>4. Follows
  BY <1>1, <1>2, <1>3, AlikeFollows DEF StateFresh, Cross
<1>5. DocTypes'
  BY <1>1, <1>2 DEF DocTypes
<1>6. Untouched'
  BY <1>1, <1>2, <1>3 DEF DocInv, Untouched, Exists
<1>7. EtagOK'
  BY <1>1, <1>4, EtagStays
<1> QED
  BY <1>4, <1>5, <1>6, <1>7
LEMMA CycleStays ==
    ASSUME DocInv, UNCHANGED <<db, state, docSetting>>,
           UNCHANGED <<phase, synced>> \/ phase' = "key"
    PROVE  CycleOK'
<1>1. UNCHANGED <<row, stats, checksum, named, docSetting>>
  BY DEF db, state
<1>2. doc' = doc /\ ActiveCount' = ActiveCount /\ Active' = Active /\ FreshStats' = FreshStats /\ FreshName' = FreshName
  BY <1>1, SameRows, AlikeActive DEF doc, DocInv
<1>3. CASE UNCHANGED <<phase, synced>>
  BY <1>1, <1>2, <1>3 DEF CycleOK, DocInv, Cross, NamesIn
<1>4. CASE phase' = "key"
  BY <1>1, <1>2, <1>4 DEF CycleOK, Cross
<1> QED
  BY <1>3, <1>4

\* There is nothing at first.
LEMMA DocBegins == ASSUME DocInit, Kept PROVE DocInv
<1>1. DocTypes /\ doc # "og-key"
  BY DEF DocInit, DocTypes, Kept
<1>2. Active = {} /\ ActiveCount = 0 /\ LatestVersion = NoRow /\ FreshStats = NoPublishes
  <2>1. Active = {}
    BY DEF DocInit, Active, Exists
  <2> QED
    BY <1>1, <2>1, ActiveType DEF LatestVersion, FreshStats
<1>3. FreshName = FALSE
  BY <1>2 DEF FreshName, Ecosystems, NoPublishes
<1>4. Untouched
  BY DEF DocInit, Untouched, Exists
<1>5. EtagOK
  <2>1. SUFFICES ASSUME doc # "archive" PROVE Valid(Etag) /\ StateFresh
    BY DEF EtagOK
  <2>2. StateFresh
    BY <1>2, <1>3, <2>1 DEF StateFresh, DocInit, NoPublishes
  <2>3. Cross => Valid(Etag)
    BY <1>2, <2>1 DEF Valid, Etag, Cross, crossFreshness, NamesIn, DocInit
  <2>4. ~ Cross => Valid(Etag)
    BY <1>2, <2>1 DEF Valid, Etag, Cross, keyFreshness, DocInit, NoPublishes
  <2> QED
    BY <2>2, <2>3, <2>4
<1>6. AnswerOK(cached) /\ AnswerOK(client) /\ PendingOK
  BY DEF DocInit, AnswerOK, PendingOK
<1>7. CycleOK
  BY DEF DocInit, CycleOK
<1> QED
  BY <1>1, <1>4, <1>5, <1>6, <1>7 DEF DocInv

------------------------------------------------------------------------------
(* The rows that a publish leaves.                                            *)

LEMMA NextSeqType == ASSUME DocTypes PROVE NextSeq \in Nat
<1> DEFINE Back == [v \in Names |-> IF Exists(v) THEN row[v].seq ELSE 0]
           Image == {Back[v] : v \in Names}
           Seqs == {0} \cup {row[v].seq : v \in {w \in Names : Exists(w)}}
<1>1. \A v \in Names : Exists(v) => row[v].seq \in Nat
  BY DEF DocTypes, Row, Exists
<1>2. IsFiniteSet(Image)
  BY FiniteImage, NamesType
<1>3. Seqs \subseteq {0} \cup Image
  OBVIOUS
<1>4. IsFiniteSet({0} \cup Image)
  <2> HIDE DEF Image
  <2> QED
    BY <1>2, FS_AddElement
<1>5. IsFiniteSet(Seqs)
  <2> HIDE DEF Image, Seqs
  <2> QED
    BY <1>3, <1>4, FS_Subset
<1>6. Seqs \in SUBSET Nat /\ Seqs # {}
  BY <1>1
<1>7. Highest(Seqs) \in Nat
  <2> HIDE DEF Seqs
  <2> QED
    BY <1>5, <1>6, HighestIs
<1> QED
  BY <1>7 DEF NextSeq

\* A version is published that is new, or whose old content is kept.
Publishable(v, t) == ~ Exists(v) \/ (Tree(v) # t /\ docSetting.history /\ ~ Exists(v - 1))
LEMMA PutRows ==
    ASSUME DocTypes, NEW v \in Releases, NEW t \in Trees, NEW c \in BOOLEAN, Put(v, t, c), Publishable(v, t)
    PROVE  /\ row' \in [Names -> Row \cup {NoRow}] /\ events' \in Seq(Event) /\ clock' \in Nat
           /\ row'[v] # NoRow /\ row'[v].tree = t /\ ~ row'[v].gone
           /\ row'[v - 1] = IF Exists(v) THEN row[v] ELSE row[v - 1]
           /\ \A w \in Names \ {v, v - 1} : row'[w] = row[w]
<1>1. v \in Names /\ v - 1 \in Names /\ v # v - 1 /\ clock' \in Nat
  BY ReleasesAssumption DEF Names, Put, DocTypes
<1>2. Exists(v) => row[v] \in Row /\ row[v].seq \in Nat
  BY <1>1 DEF DocTypes, Row, Exists
<1> DEFINE made == [tree |-> t, ts |-> clock', seq |-> IF Exists(v) THEN row[v].seq ELSE NextSeq,
                   gone |-> FALSE, complete |-> c, verified |-> clock']
           kept == IF Exists(v) /\ docSetting.history THEN row[v] ELSE row[v - 1]
<1>3. made \in Row
  BY <1>1, <1>2, NextSeqType DEF Row
<1>4. kept \in Row \cup {NoRow}
  BY <1>1, <1>2 DEF DocTypes
<1>5. row' = [row EXCEPT ![v] = made, ![v - 1] = kept]
  BY <1>1 DEF Put, DocTypes
<1>6. row' \in [Names -> Row \cup {NoRow}] /\ row'[v] = made /\ row'[v - 1] = kept
  <2> HIDE DEF made, kept
  <2> QED
    BY <1>1, <1>3, <1>4, <1>5 DEF DocTypes
<1>7. \A w \in Names \ {v, v - 1} : row'[w] = row[w]
  <2> HIDE DEF made, kept
  <2> QED
    BY <1>1, <1>5 DEF DocTypes
<1>8. made # NoRow /\ made.tree = t /\ ~ made.gone
  BY <1>3, NoneAssumption
<1>9. kept = IF Exists(v) THEN row[v] ELSE row[v - 1]
  BY DEF Publishable
<1>10. events' \in Seq(Event)
  <2> DEFINE event == [version |-> v, tree |-> t, ts |-> clock', first |-> ~ Exists(v)]
  <2>1. event \in Event
    BY <1>1 DEF Event
  <2>2. events' = <<event>> \o events /\ events \in Seq(Event)
    BY DEF Put, DocTypes
  <2> HIDE DEF event
  <2>3. <<event>> \in Seq(Event)
    BY <2>1
  <2> QED
    BY <2>2, <2>3, ConcatProperties
<1> QED
  BY <1>1, <1>6, <1>7, <1>8, <1>9, <1>10

------------------------------------------------------------------------------
(* The steps of the cycle.                                                    *)

LEMMA PublishStep ==
    ASSUME DocInv, NEW v \in Releases, NEW t \in Trees, NEW c \in BOOLEAN, Put(v, t, c), Publishable(v, t),
           phase = "key", UNCHANGED <<state, phase, synced, web, docSetting>>
    PROVE  DocInv'
<1>1. DocTypes /\ Untouched /\ doc' = doc /\ about' = about /\ about \in Names
  BY DocSettingType DEF DocInv, doc, about
<1>2. /\ row' \in [Names -> Row \cup {NoRow}] /\ events' \in Seq(Event) /\ clock' \in Nat
      /\ row'[v] # NoRow /\ row'[v].tree = t /\ ~ row'[v].gone
      /\ row'[v - 1] = IF Exists(v) THEN row[v] ELSE row[v - 1]
      /\ \A w \in Names \ {v, v - 1} : row'[w] = row[w]
  BY <1>1, PutRows
<1>3. v \in Names /\ v - 1 \in Names /\ v # v - 1 /\ v - 1 \notin Releases
  BY ReleasesAssumption DEF Names
<1>4. UNCHANGED <<stats, down, checksum, named, phase, synced, cached, client, pending, docSetting>>
  BY DEF state, web
<1>5. DocTypes'
  BY <1>1, <1>2, <1>4 DEF DocTypes
<1>6. \A w \in Names : Exists(w) => Exists(w)'
  BY <1>2, <1>3 DEF Exists
<1>7. CASE doc = "archive"
  <2>1. ASSUME Exists(about), Tree(about)' # Tree(about)
        PROVE  about \in Releases /\ ~ Exists(about - 1) /\ Exists(about - 1)'
    <3>1. about \in {v, v - 1}
      BY <1>1, <1>2, <2>1 DEF Tree
    <3>2. CASE about = v - 1
      <4>1. ~ Exists(v)
        BY <2>1, <3>2 DEF Publishable
      <4> QED
        BY <1>1, <1>2, <2>1, <3>2, <4>1 DEF Tree
    <3>3. CASE about = v
      BY <1>1, <1>2, <1>3, <2>1, <3>3 DEF Publishable, Exists
    <3> QED
      BY <3>1, <3>2, <3>3
  <2>2. Follows
    BY <1>1, <1>4, <1>6, <1>7, <2>1, ArchiveFollows
  <2>3. Untouched' /\ EtagOK' /\ CycleOK'
    BY <1>1, <1>7 DEF Untouched, EtagOK, CycleOK, Pages
  <2> QED
    BY <1>4, <1>5, <2>2, <2>3, Stays
<1>8. CASE doc # "archive"
  <2>1. \A w \in Names : Exists(w) => ~ row[w].gone
    BY <1>1, <1>8 DEF Untouched
  <2>2. \A w \in Names : Exists(w)' => ~ row'[w].gone
    BY <1>2, <1>3, <2>1 DEF Exists
  <2>3. Active = {w \in Names : Exists(w)} /\ Active' = {w \in Names : Exists(w)'}
    BY <2>1, <2>2 DEF Active
  <2>4. \E n : n \notin Active /\ Active' = Active \cup {n}
    <3>1. CASE Exists(v)
      <4>1. v - 1 \notin Active /\ Active' = Active \cup {v - 1}
        BY <1>2, <1>3, <2>3, <3>1 DEF Publishable, Exists
      <4> QED
        BY <4>1
    <3>2. CASE ~ Exists(v)
      <4>1. v \notin Active /\ Active' = Active \cup {v}
        BY <1>2, <1>3, <2>3, <3>2 DEF Exists
      <4> QED
        BY <4>1
    <3> QED
      BY <3>1, <3>2
  <2>5. Follows
    BY <1>1, <1>4, <1>8, <2>4, GrownFollows
  <2>6. Untouched'
    BY <1>1, <1>4, <2>2, <2>4 DEF Untouched
  <2>7. EtagOK'
    BY <1>4, <2>5, EtagStays
  <2>8. CycleOK'
    BY <1>1, <1>4, <1>8 DEF CycleOK, Cross
  <2> QED
    BY <1>4, <1>5, <2>5, <2>6, <2>7, <2>8, Stays
<1> QED
  BY <1>7, <1>8

LEMMA PublishNewStep == ASSUME DocInv, NEW v \in Releases, NEW t \in Trees, PublishNew(v, t) PROVE DocInv'
<1>1. PICK c \in BOOLEAN : Put(v, t, c)
  BY DEF PublishNew
<1> QED
  BY <1>1, PublishStep DEF PublishNew, Publishable
LEMMA PublishMovedStep == ASSUME DocInv, NEW v \in Releases, NEW t \in Trees, PublishMoved(v, t) PROVE DocInv'
<1>1. ~ May("overwrite")
  BY FaultsOf DEF DocInv
<1>2. docSetting.history /\ ~ Exists(v - 1) /\ Tree(v) # t
  BY <1>1 DEF PublishMoved
<1> QED
  BY <1>2, PublishStep DEF PublishMoved, Publishable

LEMMA TouchStep == ASSUME DocInv, NEW v \in Names, TouchVersion(v) PROVE DocInv'
<1>1. DocTypes /\ Kept /\ doc' = doc /\ doc # "og-key" /\ docSetting.publishes \in Nat
  BY DocSettingType DEF DocInv, Kept, TouchVersion, doc
<1>2. doc \notin Pages
  BY <1>1, FaultsOf DEF TouchVersion
<1>3. UNCHANGED <<events, clock, stats, down, checksum, named, phase, synced, cached, client, pending, docSetting>>
  BY DEF TouchVersion, state, web
<1>4. row[v] \in Row /\ Exists(v)
  BY <1>1 DEF TouchVersion, DocTypes, Exists
<1>5. PICK made \in Row :
          /\ row' = [row EXCEPT ![v] = made]
          /\ made.tree = row[v].tree /\ made.ts = row[v].ts /\ made.seq = row[v].seq /\ made.gone = row[v].gone
  <2>1. CASE row' = [row EXCEPT ![v].complete = TRUE]
    <3> DEFINE made == [row[v] EXCEPT !.complete = TRUE]
    <3>1. made \in Row /\ made.tree = row[v].tree /\ made.ts = row[v].ts /\ made.seq = row[v].seq /\ made.gone = row[v].gone
      BY <1>4 DEF Row
    <3>2. row' = [row EXCEPT ![v] = made]
      BY <2>1
    <3> QED
      BY <3>1, <3>2
  <2>2. CASE row' = [row EXCEPT ![v].verified = docSetting.publishes + 1]
    <3> DEFINE made == [row[v] EXCEPT !.verified = docSetting.publishes + 1]
    <3>1. made \in Row /\ made.tree = row[v].tree /\ made.ts = row[v].ts /\ made.seq = row[v].seq /\ made.gone = row[v].gone
      BY <1>1, <1>4 DEF Row
    <3>2. row' = [row EXCEPT ![v] = made]
      BY <2>2
    <3> QED
      BY <3>1, <3>2
  <2> QED
    BY <2>1, <2>2 DEF TouchVersion
<1>6. row'[v] = made /\ \A w \in Names \ {v} : row'[w] = row[w]
  BY <1>1, <1>5 DEF DocTypes
<1>7. made # NoRow
  BY <1>5, NoneAssumption
<1>8. RowsAlike
  BY <1>4, <1>5, <1>6, <1>7 DEF RowsAlike, Exists, Tree, Published
<1>9. DocTypes'
  BY <1>1, <1>3, <1>5 DEF DocTypes
<1>10. Active' = Active /\ LatestVersion' = LatestVersion /\ FreshStats' = FreshStats /\ FreshName' = FreshName
       /\ ActiveCount' = ActiveCount
  BY <1>1, <1>8, AlikeActive
<1>11. Follows
  BY <1>1, <1>2, <1>3, <1>8, <1>10, AlikeFollows DEF StateFresh, Cross
<1>12. Untouched'
  BY <1>1, <1>2, <1>3, <1>8, <1>10 DEF DocInv, Untouched, RowsAlike
<1>13. EtagOK'
  BY <1>3, <1>11, EtagStays
<1>14. CycleOK'
  BY <1>1, <1>3, <1>10 DEF DocInv, CycleOK, Cross, NamesIn
<1> QED
  BY <1>3, <1>9, <1>11, <1>12, <1>13, <1>14, Stays

LEMMA MarkStep == ASSUME DocInv, NEW v \in Names, MarkDeleted(v) PROVE DocInv'
<1>1. DocTypes /\ Kept /\ doc' = doc /\ about' = about /\ about \in Names
  BY DocSettingType DEF DocInv, Kept, MarkDeleted, doc, about
<1>2. doc = "archive"
  BY <1>1, FaultsOf DEF MarkDeleted
<1>3. UNCHANGED <<events, clock, stats, down, checksum, named, phase, synced, cached, client, pending, docSetting>>
  BY DEF MarkDeleted, state, web
<1>4. row[v] \in Row
  BY <1>1 DEF MarkDeleted, DocTypes, Exists
<1> DEFINE made == [row[v] EXCEPT !.gone = ~ row[v].gone]
<1>5. made \in Row /\ made.tree = row[v].tree
  BY <1>4 DEF Row
<1>6. row' = [row EXCEPT ![v] = made]
  BY DEF MarkDeleted
<1>7. row' \in [Names -> Row \cup {NoRow}] /\ row'[v] = made /\ \A w \in Names \ {v} : row'[w] = row[w]
  <2> HIDE DEF made
  <2> QED
    BY <1>1, <1>5, <1>6 DEF DocTypes
<1>8. made # NoRow
  BY <1>5, NoneAssumption
<1> HIDE DEF made
<1>9. \A w \in Names : (Exists(w) => Exists(w)') /\ Tree(w)' = Tree(w)
  BY <1>5, <1>7, <1>8 DEF Exists, Tree
<1>10. Tree(about)' = Tree(about)
  BY <1>1, <1>9 DEF Tree
<1>11. Follows
  BY <1>1, <1>2, <1>3, <1>9, <1>10, ArchiveFollows
<1>12. DocTypes'
  BY <1>1, <1>3, <1>7 DEF DocTypes
<1>13. Untouched' /\ EtagOK' /\ CycleOK'
  BY <1>1, <1>2 DEF Untouched, EtagOK, CycleOK, Pages
<1> QED
  BY <1>3, <1>11, <1>12, <1>13, Stays

\* A step of the cycle that leaves the rows: what it must say about the
\* statistics.
LEMMA DbStays ==
    ASSUME DocInv, UNCHANGED <<db, docSetting>>
    PROVE  /\ DocTypes' /\ doc' = doc /\ doc \in Docs /\ (Cross' <=> Cross)
           /\ Active' = Active /\ ActiveCount' = ActiveCount /\ LatestVersion' = LatestVersion
           /\ FreshStats' = FreshStats /\ FreshName' = FreshName
           /\ \A v \in Names : Exists(v)' <=> Exists(v)
           /\ (doc \in Pages => down' = down) => EtagsFollow
           /\ (doc \in Pages => down' = down) /\ (StateFresh => StateFresh') => Follows
           /\ (doc \in Pages => down' = FALSE) /\ (Active = {} => stats' = stats \/ stats' = NoPublishes) => Untouched'
<1>1. UNCHANGED <<row, events, clock, docSetting>> /\ DocTypes /\ Kept /\ Untouched
  BY DEF db, DocInv
<1>2. doc' = doc /\ doc \in Docs /\ (Cross' <=> Cross) /\ RowsAlike /\ DocTypes'
  BY <1>1, SameRows, DocSettingType DEF doc, DocTypes, Cross
<1>3. /\ Active' = Active /\ ActiveCount' = ActiveCount /\ LatestVersion' = LatestVersion
      /\ FreshStats' = FreshStats /\ FreshName' = FreshName
  BY <1>1, <1>2, AlikeActive
<1>4. (doc \in Pages => down' = down) => EtagsFollow /\ ((StateFresh => StateFresh') => Follows)
  BY <1>1, <1>2, AlikeFollows
<1>5. \A v \in Names : Exists(v)' <=> Exists(v)
  BY <1>1 DEF Exists
<1>6. (doc \in Pages => down' = FALSE) /\ (Active = {} => stats' = stats \/ stats' = NoPublishes) => Untouched'
  BY <1>1, <1>2, <1>3, <1>5 DEF Untouched
<1> QED
  BY <1>2, <1>3, <1>4, <1>5, <1>6

LEMMA AvailabilityStep == ASSUME DocInv, MarkAvailability PROVE DocInv'
<1>1. doc \notin Pages
  BY FaultsOf DEF MarkAvailability, DocInv
<1>2. UNCHANGED <<db, stats, checksum, named, phase, synced, cached, client, pending, docSetting>>
  BY DEF MarkAvailability, web
<1>3. StateFresh => StateFresh'
  BY <1>2, DbStays DEF StateFresh
<1>4. DocTypes' /\ Follows /\ Untouched'
  BY <1>1, <1>2, <1>3, DbStays
<1>5. EtagOK'
  BY <1>2, <1>4, EtagStays
<1>6. CycleOK'
  BY <1>2, DbStays DEF DocInv, CycleOK, NamesIn
<1> QED
  BY <1>2, <1>4, <1>5, <1>6, Stays

LEMMA ReconcileStep == ASSUME DocInv, ReconcileKeyStats \/ ReconcileFails PROVE DocInv'
<1>1. UNCHANGED <<db, down, checksum, named, cached, client, pending, docSetting>> /\ phase' = "names"
  BY DEF ReconcileKeyStats, ReconcileFails, web
<1>2. DocTypes /\ Kept /\ Untouched /\ EtagOK /\ CycleOK
  BY DEF DocInv
<1>3. /\ DocTypes' /\ doc' = doc /\ (Cross' <=> Cross)
      /\ Active' = Active /\ ActiveCount' = ActiveCount /\ LatestVersion' = LatestVersion
      /\ FreshStats' = FreshStats /\ FreshName' = FreshName
  BY <1>1, DbStays
<1>4. ActiveCount \in Nat /\ (Active = {} <=> ActiveCount = 0) /\ (Active = {} <=> LatestVersion = NoRow)
  BY <1>2, ActiveType DEF LatestVersion
<1>5. \/ ReconcileKeyStats /\ synced' = synced
      \/ ReconcileFails /\ synced' = FALSE /\ (doc = "archive" \/ (doc \notin Pages /\ (Cross => doc = "feed")))
  BY <1>2, FaultsOf DEF ReconcileKeyStats, ReconcileFails
<1>6. /\ ReconcileKeyStats => stats' = IF Active = {} THEN stats ELSE FreshStats
      /\ ReconcileFails => \/ stats' = stats
                           \/ Active # {} /\ stats'.count = 0 /\ stats'.latest = LatestVersion
  <2>1. ASSUME Active # {}
        PROVE  FreshStats = [latest |-> LatestVersion, count |-> Cardinality(Active), ts |-> Published(LatestVersion)]
    BY <2>1 DEF FreshStats, ActiveCount
  <2> QED
    BY <1>4, <2>1 DEF ReconcileKeyStats, ReconcileFails
<1>7. Active = {} => stats' = stats
  BY <1>6, <1>5
<1>8. Untouched'
  BY <1>1, <1>2, <1>7, DbStays DEF Untouched
<1>9. FreshStats.latest = LatestVersion /\ FreshStats.count = ActiveCount /\ (Active = {} => FreshStats = NoPublishes)
  BY <1>2, ActiveType DEF FreshStats
<1>10. CASE doc = "archive"
  <2>1. Follows
    BY <1>1, <1>3, <1>10, DbStays DEF StateFresh
  <2>2. EtagOK' /\ CycleOK'
    BY <1>3, <1>10 DEF EtagOK, CycleOK
  <2> QED
    BY <1>1, <1>3, <1>8, <2>1, <2>2, Stays
<1>11. CASE doc = "feed"
  <2>1. Follows
    BY <1>1, <1>3, <1>11, DbStays DEF StateFresh
  <2>2. EtagOK'
    BY <1>1, <1>2, <1>3, <1>11 DEF EtagOK, Etag, Cross, crossFreshness, Valid, UpToDate, StateFresh
  <2>3. CycleOK'
    BY <1>1, <1>3, <1>11 DEF CycleOK, Cross
  <2> QED
    BY <1>1, <1>3, <1>8, <2>1, <2>2, <2>3, Stays
<1>12. CASE Cross /\ doc # "feed"
  <2>1. doc # "archive"
    BY <1>12 DEF Cross
  <2>2. stats' = FreshStats
    BY <1>2, <1>5, <1>6, <1>9, <1>12, <2>1 DEF Untouched
  <2>3. StateFresh => StateFresh'
    BY <1>1, <1>3, <1>12, <2>1, <2>2 DEF StateFresh
  <2>4. Follows
    BY <1>1, <2>3, DbStays
  <2>5. EtagOK'
    BY <1>1, <1>2, <1>3, <1>12, <2>1, <2>3 DEF EtagOK, Etag, Cross, crossFreshness, Valid, UpToDate, NamesIn
  <2>6. CycleOK'
    BY <1>1, <1>3, <1>12, <2>2 DEF CycleOK
  <2> QED
    BY <1>1, <1>3, <1>8, <2>4, <2>5, <2>6, Stays
<1>13. CASE ~ Cross /\ doc # "archive"
  <2>1. stats.count \in 0 .. ActiveCount
    BY <1>2, <1>13 DEF EtagOK, Etag, Cross, keyFreshness, Valid
  <2>2. stats.count = ActiveCount => stats.latest = LatestVersion
    BY <1>2, <1>13 DEF EtagOK, Etag, Cross, keyFreshness, UpToDate, StateFresh
  <2>3. Active = {} => stats.latest = LatestVersion /\ stats.count = ActiveCount
    BY <1>2, <1>4, <1>9, <1>13 DEF Untouched, NoPublishes
  <2>4. stats'.latest = LatestVersion \/ stats' = stats
    BY <1>5, <1>6, <1>9
  <2>5. stats'.count \in 0 .. ActiveCount /\ (stats'.count = ActiveCount => stats'.latest = LatestVersion)
    BY <1>4, <1>5, <1>6, <1>9, <2>1, <2>2
  <2>6. StateFresh => StateFresh'
    BY <1>3, <1>13, <2>4 DEF StateFresh, Cross
  <2>7. Follows
    BY <1>1, <2>6, DbStays
  <2>8. EtagOK'
    BY <1>3, <1>13, <2>5 DEF EtagOK, Etag, Cross, keyFreshness, Valid, UpToDate, StateFresh
  <2>9. synced' => stats'.count = ActiveCount
    BY <1>5, <1>6, <1>9, <2>3
  <2>10. CycleOK'
    BY <1>1, <1>3, <1>13, <2>9 DEF CycleOK
  <2> QED
    BY <1>1, <1>3, <1>8, <2>7, <2>8, <2>10, Stays
<1> QED
  BY <1>10, <1>11, <1>12, <1>13

LEMMA NamesStep == ASSUME DocInv, ResolveNames PROVE DocInv'
<1>1. /\ UNCHANGED <<db, stats, down, checksum, synced, cached, client, pending, docSetting>>
      /\ phase = "names" /\ phase' = "checksum" /\ named' = ("composer" \in Ecosystems(stats.latest))
  BY DEF ResolveNames, web
<1>2. Untouched /\ EtagOK /\ CycleOK
  BY DEF DocInv
<1>3. /\ DocTypes' /\ doc' = doc /\ (Cross' <=> Cross) /\ Active' = Active /\ ActiveCount' = ActiveCount
      /\ LatestVersion' = LatestVersion /\ FreshStats' = FreshStats /\ FreshName' = FreshName
  BY <1>1, DbStays
<1>4. Untouched'
  BY <1>1, <1>2, DbStays DEF Untouched
<1>5. stats = FreshStats => named' = FreshName
  BY <1>1 DEF FreshName
<1>6. StateFresh => StateFresh'
  BY <1>1, <1>3, <1>5 DEF StateFresh
<1>7. Follows
  BY <1>1, <1>6, DbStays
<1>8. EtagOK'
  BY <1>1, <1>7, EtagStays
<1>9. CycleOK'
  BY <1>1, <1>2, <1>3, <1>5 DEF CycleOK
<1> QED
  BY <1>1, <1>3, <1>4, <1>7, <1>8, <1>9, Stays

LEMMA EndStep == ASSUME DocInv, EndCycle PROVE DocInv'
<1>1. /\ UNCHANGED <<db, stats, down, named, cached, client, pending, docSetting>>
      /\ phase = "checksum" /\ phase' = "idle"
  BY DEF EndCycle, web
<1>2. DocTypes /\ Kept /\ Untouched /\ EtagOK /\ CycleOK
  BY DEF DocInv
<1>3. /\ DocTypes' /\ doc' = doc /\ (Cross' <=> Cross) /\ Active' = Active /\ ActiveCount' = ActiveCount
      /\ LatestVersion' = LatestVersion /\ FreshStats' = FreshStats /\ FreshName' = FreshName
  BY <1>1, DbStays
<1>4. Untouched'
  BY <1>1, <1>2, DbStays DEF Untouched
<1>5. StateFresh' <=> StateFresh
  BY <1>1, <1>3 DEF StateFresh
<1>6. Follows
  BY <1>1, <1>5, DbStays
<1>7. CASE checksum' = checksum /\ synced' = FALSE
  <2>1. EtagOK'
    BY <1>1, <1>6, <1>7, EtagStays
  <2>2. CycleOK'
    BY <1>1, <1>7 DEF CycleOK
  <2> QED
    BY <1>1, <1>3, <1>4, <1>6, <2>1, <2>2, Stays
<1>8. CASE checksum' = ContentChecksum /\ UNCHANGED synced
  <2>1. NamesIn(checksum') = Active
    <3>1. \A v : v \in NamesIn(ContentChecksum) <=> v \in Active
      <4>1. ASSUME NEW v \in Active PROVE v \in NamesIn(ContentChecksum)
        <5>1. <<v, Tree(v)>> \in ContentChecksum /\ <<v, Tree(v)>>[1] = v
          BY DEF ContentChecksum
        <5> QED
          BY <5>1 DEF NamesIn
      <4>2. ASSUME NEW v \in NamesIn(ContentChecksum) PROVE v \in Active
        <5>1. PICK p \in ContentChecksum : v = p[1]
          BY DEF NamesIn
        <5>2. PICK w \in Active : p = <<w, Tree(w)>>
          BY DEF ContentChecksum
        <5> QED
          BY <5>1, <5>2
      <4> QED
        BY <4>1, <4>2
    <3> QED
      BY <1>8, <3>1
  <2>2. CycleOK'
    BY <1>1, <1>2, <1>3, <1>8, <2>1 DEF CycleOK, NamesIn
  <2>3. CASE Cross
    <3>1. StateFresh
      BY <1>1, <1>2, <2>3 DEF CycleOK, StateFresh, Cross
    <3>2. EtagOK'
      BY <1>3, <1>5, <2>1, <2>3, <3>1 DEF EtagOK, Etag, Cross, crossFreshness, Valid, NamesIn
    <3> QED
      BY <1>1, <1>3, <1>4, <1>6, <2>2, <3>2, Stays
  <2>4. CASE ~ Cross
    <3>1. EtagOK'
      BY <1>1, <1>2, <1>3, <1>5, <2>4 DEF EtagOK, Etag, Cross, keyFreshness, Valid, UpToDate
    <3> QED
      BY <1>1, <1>3, <1>4, <1>6, <2>2, <3>1, Stays
  <2> QED
    BY <2>3, <2>4
<1> QED
  BY <1>7, <1>8 DEF EndCycle

\* What a restart forgets is right again only if there is no version.
LEMMA RestartStep == ASSUME DocInv, Restart PROVE DocInv'
<1>1. /\ UNCHANGED <<db, client, docSetting>> /\ cached' = Nothing /\ pending' = Nothing
      /\ stats' = NoPublishes /\ down' = FALSE /\ checksum' = {} /\ named' = FALSE
      /\ phase' = "idle" /\ synced' = FALSE
  BY DEF Restart
<1>2. DocTypes /\ Untouched
  BY DEF DocInv
<1>3. /\ DocTypes' /\ doc' = doc /\ (Cross' <=> Cross) /\ Active' = Active /\ ActiveCount' = ActiveCount
      /\ LatestVersion' = LatestVersion /\ FreshStats' = FreshStats /\ FreshName' = FreshName
  BY <1>1, DbStays
<1>4. Untouched'
  BY <1>1, DbStays
<1>5. CycleOK'
  BY <1>1 DEF CycleOK
<1>6. ActiveCount \in Nat /\ (Active = {} <=> ActiveCount = 0)
  BY <1>2, ActiveType
<1>7. Active = {} => StateFresh'
  <2>1. ASSUME Active = {} PROVE FreshStats = NoPublishes /\ LatestVersion = NoRow /\ FreshName = FALSE
    BY <2>1 DEF FreshStats, LatestVersion, FreshName, NoPublishes, Ecosystems
  <2> QED
    BY <1>1, <1>3, <2>1 DEF StateFresh, NoPublishes
<1>8. EtagOK'
  <2>1. CASE Cross
    BY <1>1, <1>3, <1>7, <2>1 DEF EtagOK, Etag, Cross, crossFreshness, Valid, UpToDate, NamesIn
  <2>2. CASE ~ Cross
    BY <1>1, <1>3, <1>6, <1>7, <2>2 DEF EtagOK, Etag, Cross, keyFreshness, Valid, UpToDate, NoPublishes
  <2> QED
    BY <2>1, <2>2
<1>9. EtagsFollow
  BY <1>1, <1>2, DbStays DEF Untouched
<1> QED
  BY <1>1, <1>3, <1>4, <1>5, <1>8, <1>9, Stays

------------------------------------------------------------------------------
(* Requests.                                                                  *)

\* A document is built under the ETag it had, and kept and answered under it.
LEMMA BuildBeginStep == ASSUME DocInv, BuildBegin PROVE DocInv'
<1>1. /\ UNCHANGED <<db, state, phase, synced, cached, client, docSetting>> /\ pending # Nothing
      /\ pending' = IF doc = "archive" /\ OpenArtifact = NotFound THEN Nothing
                    ELSE [pending EXCEPT !.building = TRUE, !.etag = Etag]
  BY DEF BuildBegin, Answering
<1>2. DocTypes' /\ Untouched' /\ Follows /\ EtagOK' /\ CycleOK'
  BY <1>1, NothingNew, CycleStays
<1>3. doc # "archive" \/ OpenArtifact # NotFound => Valid(Etag) /\ (UpToDate(Etag) => StateFresh)
  <2>1. CASE doc = "archive"
    <3>1. OpenArtifact # NotFound => Exists(about) /\ Tree(about) \in Trees /\ OpenArtifact = Tree(about)
      BY DocSettingType DEF OpenArtifact, DocInv, DocTypes, Exists, Tree, Row
    <3> QED
      BY <2>1, <3>1 DEF Etag, Valid, StateFresh
  <2>2. CASE doc # "archive"
    BY <2>2 DEF DocInv, EtagOK
  <2> QED
    BY <2>1, <2>2
<1>4. CASE pending' = Nothing
  BY <1>1, <1>2, <1>4, Stays
<1>5. CASE pending' # Nothing
  <2>1. /\ DOMAIN pending' = {"building", "etag", "seen"} /\ pending'.etag = Etag
        /\ doc # "archive" \/ OpenArtifact # NotFound
    BY <1>1, <1>5 DEF DocInv, PendingOK
  <2>2. Valid(pending.etag)' /\ (UpToDate(pending.etag)' => StateFresh')
    <3>1. Valid(Etag) /\ (UpToDate(Etag) => StateFresh)
      BY <1>3, <2>1
    <3>2. \A etag : etag = Etag => Valid(etag)' /\ (UpToDate(etag)' => StateFresh')
      BY <1>2, <3>1 DEF Follows, EtagsFollow
    <3> QED
      BY <2>1, <3>2
  <2>3. PendingOK'
    BY <2>1, <2>2 DEF PendingOK
  <2>4. AnswerOK(cached)' /\ AnswerOK(client)'
    BY <1>1, <1>2, AnswerFollows DEF DocInv, Follows
  <2> QED
    BY <1>2, <2>3, <2>4, KeptStays, <1>1 DEF DocInv
<1> QED
  BY <1>4, <1>5

LEMMA BuildEndStep == ASSUME DocInv, BuildEnd PROVE DocInv'
<1> DEFINE answer == [etag |-> pending.etag, body |-> Body(pending.seen)]
<1>1. /\ UNCHANGED <<db, state, phase, synced, docSetting>> /\ pending' = Nothing
      /\ pending # Nothing /\ pending.building
      /\ \/ UNCHANGED <<cached, client>>
         \/ answer.body # NotFound /\ client' = answer /\ cached' \in {cached, answer}
  BY DEF BuildEnd
<1>2. DocTypes' /\ Untouched' /\ Follows /\ EtagOK' /\ CycleOK'
  BY <1>1, NothingNew, CycleStays
<1>3. CASE UNCHANGED <<cached, client>>
  BY <1>1, <1>2, <1>3, Stays
<1>4. CASE answer.body # NotFound /\ client' = answer /\ cached' \in {cached, answer}
  <2>1. Valid(answer.etag) /\ (UpToDate(answer.etag) => StateFresh)
    BY <1>1 DEF DocInv, PendingOK
  <2>2. UpToDate(answer.etag) => answer.body = FreshBody
    BY <1>4, <2>1, BodyIsFresh DEF DocInv, Kept
  <2> HIDE DEF answer
  <2>3. AnswerOK(answer)
    BY <2>1, <2>2 DEF AnswerOK
  <2>4. AnswerOK(client)' /\ AnswerOK(cached)'
    BY <1>2, <1>4, <2>3, AnswerFollows DEF DocInv, Follows
  <2>5. PendingOK'
    BY <1>1 DEF PendingOK
  <2> QED
    BY <1>1, <1>2, <2>4, <2>5, KeptStays DEF DocInv
<1> QED
  BY <1>1, <1>3, <1>4

\* Every step keeps the invariant.
LEMMA DocGoesOn == ASSUME DocInv, [DocNext]_docVars PROVE DocInv'
<1>1. SUFFICES ASSUME DocNext PROVE DocInv'
  <2>1. CASE UNCHANGED docVars
    BY <2>1, NothingNew, CycleStays, Stays DEF docVars, web
  <2> QED
    BY <1>1, <2>1
<1>2. CASE BeginCycle \/ NotModified \/ CacheHit \/ Expire \/ Calm
  <2>1. /\ UNCHANGED <<db, state, docSetting>> /\ (UNCHANGED <<phase, synced>> \/ phase' = "key")
        /\ cached' \in {cached, Nothing} /\ client' \in {client, cached} /\ pending' \in {pending, Nothing}
    BY <1>2 DEF BeginCycle, NotModified, CacheHit, Expire, Calm, web
  <2> QED
    BY <2>1, NothingNew, CycleStays, Stays
<1>3. CASE Request
  <2>1. /\ UNCHANGED <<db, state, phase, synced, cached, client, docSetting>>
        /\ pending' = [building |-> FALSE, etag |-> Nothing, seen |-> stats]
    BY <1>3 DEF Request
  <2>2. DocTypes' /\ Untouched' /\ Follows /\ EtagOK' /\ CycleOK'
    BY <2>1, NothingNew, CycleStays
  <2>3. AnswerOK(cached)' /\ AnswerOK(client)'
    BY <2>1, <2>2, AnswerFollows DEF DocInv, Follows
  <2>4. PendingOK'
    BY <2>1 DEF PendingOK
  <2> QED
    BY <2>1, <2>2, <2>3, <2>4, KeptStays DEF DocInv
<1>4. ASSUME NEW v \in Names, RowDeleted(v) PROVE FALSE
  BY <1>4, FaultsOf DEF RowDeleted, DocInv
<1> QED
  BY <1>1, <1>2, <1>3, <1>4, PublishNewStep, PublishMovedStep, TouchStep, MarkStep, AvailabilityStep,
     ReconcileStep, NamesStep, EndStep, RestartStep, BuildBeginStep, BuildEndStep
  DEF DocNext, Cycle, Serve

\* For every document but the banner of a key: as long as nothing happens that
\* its ETag does not notice, an answer whose ETag still matches is the
\* document, once a cycle has read all it needed.
THEOREM EtagNoticesCorrect == DocSpec => []EtagNotices
<1>1. ASSUME ~ Kept, [DocNext]_docVars PROVE ~ Kept'
  <2>1. docSetting' = docSetting
    BY <1>1 DEF DocNext, Cycle, Serve, docVars, web, BeginCycle, PublishNew, PublishMoved, TouchVersion,
                MarkDeleted, RowDeleted, MarkAvailability, ReconcileKeyStats, ReconcileFails, ResolveNames,
                EndCycle, Restart, Request, NotModified, CacheHit, BuildBegin, BuildEnd, Expire, Calm
  <2> QED
    BY <1>1, <2>1 DEF Kept, Noticed, doc
<1>2. DocInit => DocInv \/ ~ Kept
  BY DocBegins
<1>3. (DocInv \/ ~ Kept) /\ [DocNext]_docVars => (DocInv \/ ~ Kept)'
  BY <1>1, DocGoesOn
<1>4. DocInv \/ ~ Kept => EtagNotices
  BY DocInvNotices DEF EtagNotices, Kept
<1> QED
  BY <1>2, <1>3, <1>4, PTL DEF DocSpec
==============================================================================
