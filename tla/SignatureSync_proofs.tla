------------------------ MODULE SignatureSync_proofs ------------------------
(* Proofs about SignatureSync, for every vendor, every order of releases and  *)
(* every number of faults.                                                   *)
EXTENDS SignatureSync, TLAPS

\* A signature was downloaded if the mapping of the release names one.
Named(version, digest) ==
  digest \in IF Integrity[version] = "digest" THEN Releases ELSE {None}

\* What a check has read when it reaches a step, and what the source still has.
ReadSoFar ==
  check # None =>
    /\ check.at \notin {"mapping", "error"} =>
         /\ check.version \in Releases
         /\ hosted[FileOf[check.version]] \in Releases
    /\ check.at \in {"digest", "download", "raw", "index"} => check.sums \in Releases
    /\ check.at \in {"download", "raw", "index"} => Named(check.version, check.digest)
    /\ check.at \in {"raw", "index"} =>
         check.content \in Payloads /\ Verified(check.content, check.sums, check.digest)
    /\ check.at = "index" => raw[FileOf[check.version]] = check.content

SourceOK == hosted[FileOf[published]] \in Releases

IndexOK ==
  latest # None =>
    /\ Verified(latest.content, latest.sums, latest.digest) /\ latest.content \in Enumerable
    /\ Named(latest.version, latest.digest)

IInv == TypeOK /\ ReadSoFar /\ SourceOK /\ IndexOK

USE SourceAssumption

\* A check that starts has read nothing.
LEMMA InitIInv == Init => IInv
  BY DEF Init, IInv, TypeOK, ReadSoFar, SourceOK, IndexOK, NoState, States

\* The vendor replaces a file by a release, and never removes one.
LEMMA SourceKeeps ==
  ASSUME IInv, NEW r \in Releases, Upload(r) \/ Announce(r)
  PROVE  IInv'
<1>1. CASE Upload(r)
  <2>1. \A f \in Files : hosted[f] \in Releases => hosted'[f] \in Releases
    BY <1>1 DEF Upload, IInv, TypeOK
  <2>2. TypeOK'
    BY <1>1 DEF Upload, IInv, TypeOK, disk
  <2>3. SourceOK' /\ IndexOK'
    BY <1>1, <2>1 DEF Upload, IInv, TypeOK, SourceOK, IndexOK, disk
  <2>4. ReadSoFar'
    BY <1>1, <2>1 DEF Upload, IInv, TypeOK, ReadSoFar, Checks, disk
  <2> QED BY <2>2, <2>3, <2>4 DEF IInv
<1>2. CASE Announce(r)
  BY <1>2 DEF Announce, IInv, TypeOK, ReadSoFar, SourceOK, IndexOK, disk
<1> QED BY <1>1, <1>2

\* A check downloads, verifies and replaces; every step keeps the files typed and
\* hands on what it read.
LEMMA ReadingKeeps ==
  ASSUME IInv,
         (\E by \in {"loop", "post"} : Start(by)) \/ FetchMapping \/ FetchSums \/ FetchDigest
           \/ Download \/ DownloadCorrupt \/ WriteRaw
  PROVE  IInv'
<1> USE DEF IInv, TypeOK, SourceOK, IndexOK, ReadSoFar, Idle, At, disk, source
<1>1. ASSUME NEW by \in {"loop", "post"}, Start(by) PROVE IInv'
  BY <1>1 DEF Start, Checks, Steps, NoState, States
<1>2. CASE FetchMapping
  BY <1>2 DEF FetchMapping, Checks, Steps
<1>3. CASE FetchSums
  <2>1. check \in Checks /\ check.version \in Releases /\ check.at = "sums"
    BY <1>3 DEF FetchSums
  <2>2. hosted[FileOf[check.version]] \in Releases
    BY <1>3, <2>1 DEF FetchSums
  <2>3. check' \in Checks /\ check'.version = check.version
        /\ check'.sums \in Releases /\ check'.at = "digest"
    BY <1>3, <2>1, <2>2 DEF FetchSums, Checks, Steps
  <2> QED BY <1>3, <2>2, <2>3 DEF FetchSums
<1>8. CASE FetchDigest
  <2>1. /\ check \in Checks /\ check.version \in Releases /\ check.at = "digest"
        /\ check.sums \in Releases
    BY <1>8 DEF FetchDigest
  <2>2. hosted[FileOf[check.version]] \in Releases
    BY <1>8, <2>1 DEF FetchDigest
  <2> DEFINE named == Integrity[check.version] = "digest"
             digest == IF named THEN hosted[FileOf[check.version]] ELSE None
             found == [state EXCEPT !.result = "not-modified"]
  <2>4. digest \in Releases \cup {None} /\ Named(check.version, digest) /\ found \in States
    BY <2>2 DEF Named, States
  <2>5. \/ check' = [check EXCEPT !.digest = digest, !.at = "state", !.state = found]
        \/ check' = [check EXCEPT !.digest = digest, !.at = "download"]
    BY <1>8 DEF FetchDigest
  <2> HIDE DEF digest, found
  <2>3. /\ check' \in Checks /\ check'.version = check.version
        /\ check'.sums = check.sums /\ check'.at \in {"state", "download"}
        /\ Named(check'.version, check'.digest)
    <3>1. CASE check' = [check EXCEPT !.digest = digest, !.at = "state", !.state = found]
      BY <2>1, <2>4, <3>1 DEF Checks, Steps
    <3>2. CASE check' = [check EXCEPT !.digest = digest, !.at = "download"]
      BY <2>1, <2>4, <3>2 DEF Checks, Steps
    <3> QED BY <2>5, <3>1, <3>2
  <2> QED BY <1>8, <2>1, <2>2, <2>3 DEF FetchDigest
<1>4. ASSUME NEW content \in Payloads, At("download"), Downloaded(content),
             UNCHANGED <<source, disk, memory, loop>>, faults' \in 0 .. MaxFaults
      PROVE  IInv'
  <2>1. check \in Checks /\ check.at = "download" /\ check.sums \in Releases
    BY <1>4
  <2>2. CASE Verified(content, check.sums, check.digest)
    <3>1. check' = [check EXCEPT !.content = content, !.at = "raw"]
      BY <1>4, <2>2 DEF Downloaded
    <3>2. check' \in Checks /\ check'.at = "raw" /\ check'.content = content
          /\ check'.sums = check.sums /\ check'.version = check.version
          /\ check'.digest = check.digest
      BY <2>1, <3>1 DEF Checks, Steps
    <3> QED BY <1>4, <2>1, <2>2, <3>2
  <2>3. CASE ~ Verified(content, check.sums, check.digest)
    <3>1. check' \in Checks /\ check'.at = "error"
      BY <1>4, <2>1, <2>3 DEF Downloaded, GoTo, Checks, Steps
    <3> QED BY <1>4, <3>1
  <2> QED BY <2>2, <2>3
<1>5. CASE Download
  <2>1. hosted[FileOf[check.version]] \in Payloads
    BY <1>5 DEF Download, Payloads
  <2> QED BY <1>4, <1>5, <2>1 DEF Download
<1>6. CASE DownloadCorrupt
  BY <1>4, <1>6 DEF DownloadCorrupt, Payloads
<1>7. CASE WriteRaw
  <2>1. check \in Checks /\ check.at = "raw" /\ check.content \in Payloads
        /\ check.version \in Releases
    BY <1>7 DEF WriteRaw
  <2>2. check' \in Checks /\ check'.at = "index" /\ check'.content = check.content
        /\ check'.sums = check.sums /\ check'.version = check.version
        /\ check'.digest = check.digest
    BY <1>7, <2>1 DEF WriteRaw, GoTo, Checks, Steps
  <2>3. raw' \in [Files -> Payloads \cup {None}]
        /\ raw'[FileOf[check.version]] = check.content
        /\ newest' \in Files \cup {None}
    BY <1>7, <2>1 DEF WriteRaw
  <2> QED BY <1>7, <2>1, <2>2, <2>3 DEF WriteRaw
<1> QED BY <1>1, <1>2, <1>3, <1>5, <1>6, <1>7, <1>8

\* Only a verified XML that yields rules becomes the index; the rest of a check,
\* and every fault, leaves the index alone.
LEMMA FinishingKeeps ==
  ASSUME IInv,
         WriteIndex \/ NoRules \/ WriteState \/ Succeed \/ Fail
           \/ Raises \/ HandlerRaises \/ Restart
  PROVE  IInv'
<1> USE DEF IInv, TypeOK, SourceOK, IndexOK, ReadSoFar, Idle, At, disk, source
<1>1. CASE WriteIndex
  <2>1. check \in Checks /\ check.at = "index" /\ check.version \in Releases
        /\ check.sums \in Releases /\ check.content \in Enumerable
        /\ check.digest \in Releases \cup {None}
    BY <1>1 DEF WriteIndex, Checks
  <2>2. check' \in Checks /\ check'.at = "state" /\ check'.version = check.version
    BY <1>1, <2>1 DEF WriteIndex, Checks, Steps, States
  <2>3. /\ latest' \in Indexes /\ Verified(latest'.content, latest'.sums, latest'.digest)
        /\ latest'.content \in Enumerable /\ Named(latest'.version, latest'.digest)
    BY <1>1, <2>1 DEF WriteIndex, Indexes, Payloads
  <2> QED BY <1>1, <2>1, <2>2, <2>3 DEF WriteIndex
<1>2. CASE NoRules
  <2>1. check' \in Checks /\ check'.at = "error"
    BY <1>2 DEF NoRules, GoTo, Checks, Steps
  <2> QED BY <1>2, <2>1 DEF NoRules
<1>3. CASE WriteState
  <2>1. check \in Checks /\ check.at = "state" /\ check.version \in Releases
    BY <1>3 DEF WriteState
  <2>2. check' \in Checks /\ check'.at = "history" /\ check'.version = check.version
        /\ state' \in States
    BY <1>3, <2>1 DEF WriteState, GoTo, Checks, Steps
  <2> QED BY <1>3, <2>1, <2>2 DEF WriteState
<1>4. CASE Succeed
  BY <1>4 DEF Succeed, Checks
<1>5. [memory EXCEPT !.result = "error"] \in States
  BY DEF States
<1>6. CASE Fail
  BY <1>5, <1>6 DEF Fail
<1>7. CASE Raises
  <2>1. check' \in Checks /\ check'.at = "error" /\ faults' \in 0 .. MaxFaults
    BY <1>7 DEF Raises, GoTo, Checks, Steps
  <2> QED BY <1>7, <2>1 DEF Raises
<1>8. CASE HandlerRaises
  BY <1>5, <1>8 DEF HandlerRaises
<1>9. CASE Restart
  BY <1>9 DEF Restart
<1> QED BY <1>1, <1>2, <1>3, <1>4, <1>6, <1>7, <1>8, <1>9

LEMMA NextKeeps == IInv /\ [Next]_vars => IInv'
<1> SUFFICES ASSUME IInv, [Next]_vars PROVE IInv'
  OBVIOUS
<1>1. CASE UNCHANGED vars
  BY <1>1 DEF vars, source, disk, IInv, TypeOK, ReadSoFar, SourceOK, IndexOK
<1>2. CASE Next
  BY <1>2, SourceKeeps, ReadingKeeps, FinishingKeeps DEF Next, CheckStep
<1> QED BY <1>1, <1>2

LEMMA Invariance == Spec => []IInv
  BY InitIInv, NextKeeps, PTL DEF Spec

\* Every file, every record and every check in flight has the shape the services
\* that read them expect, whichever faults cut a check short.
THEOREM TypeCorrect == Spec => []TypeOK
<1>1. IInv => TypeOK
  BY DEF IInv
<1> QED BY <1>1, Invariance, PTL

\* With both verifications on, as docker-compose.yml sets them, the index is always
\* of an XML that matches the checksum or the signature recorded with it and yields
\* rules, for any sequence of publications, corrupt downloads, failed writes and
\* restarts.
THEOREM IndexIsVerifiedHolds ==
  ASSUME VerifySha1, VerifySignature
  PROVE  Spec => []IndexIsVerified
<1>1. IInv => IndexIsVerified
  BY DEF IInv, IndexOK, Verified, IndexIsVerified
<1> QED BY <1>1, Invariance, PTL

-----------------------------------------------------------------------------
(* What a check reports is the release the index is of, if the vendor never    *)
(* puts an older release back.                                                *)

CONSTANT Rank  \* the order in which the vendor made the releases

RankTyped == /\ Rank \in [Releases -> Nat]
             /\ \A r, s \in Releases : <<r, s>> \in Later => Rank[r] < Rank[s]

NoOlder(r, s) == r = s \/ ({r, s} \subseteq Releases /\ Rank[r] < Rank[s])

\* No file of the source is replaced by an older release.
Replaces == \A f \in Files : hosted[f] \in Releases => NoOlder(hosted[f], hosted'[f])
NeverBack == [][Replaces]_vars

\* The index is no newer than the source.
IndexInTime ==
  latest # None => /\ NoOlder(latest.version, published)
                   /\ hosted[FileOf[latest.version]] \in Releases
                   /\ NoOlder(latest.sums, hosted[FileOf[latest.version]])
                   /\ latest.digest # None =>
                        NoOlder(latest.digest, hosted[FileOf[latest.version]])

\* Nor is it newer than what the check under way has read.
CheckInTime ==
  check # None /\ check.at \notin {"mapping", "error"} =>
    /\ NoOlder(check.version, published)
    /\ latest # None => NoOlder(latest.version, check.version)
    /\ check.at \in {"digest", "download", "raw", "index"} =>
         /\ NoOlder(check.sums, hosted[FileOf[check.version]])
         /\ latest # None /\ latest.version = check.version =>
              NoOlder(latest.sums, check.sums)
    /\ check.at \in {"download", "raw", "index"} =>
         /\ check.digest # None => NoOlder(check.digest, hosted[FileOf[check.version]])
         /\ latest # None /\ latest.version = check.version =>
              NoOlder(latest.digest, check.digest)

\* A state that was written down is of the index, or of an older one.
Follows(s) ==
  s.version # None =>
    /\ latest # None /\ s.sums \in Releases
    /\ \/ /\ s.version = latest.version /\ NoOlder(s.sums, latest.sums)
          /\ NoOlder(s.digest, latest.digest)
       \/ s.version # latest.version /\ Rank[s.version] < Rank[latest.version]

RInv == /\ IndexInTime /\ CheckInTime /\ Follows(state) /\ Follows(memory)
        /\ ReportMatchesIndex

LEMMA NoOlderTransitive ==
  ASSUME RankTyped, NEW r, NEW s, NEW t, NoOlder(r, s), NoOlder(s, t)
  PROVE  NoOlder(r, t)
  BY DEF NoOlder, RankTyped

LEMMA InitRInv == Init => RInv
  BY DEF Init, RInv, IndexInTime, CheckInTime, Follows, ReportMatchesIndex, Idle, NoState

\* The source only gets newer.
LEMMA SourceMoves ==
  ASSUME RankTyped, IInv, IInv', RInv, Replaces, NEW r \in Releases, Upload(r) \/ Announce(r)
  PROVE  RInv'
<1>1. UNCHANGED <<disk, memory, check>>
  BY DEF Upload, Announce
<1>2. Follows(state)' /\ Follows(memory)' /\ ReportMatchesIndex'
  BY <1>1 DEF RInv, Follows, ReportMatchesIndex, Idle, disk
<1>3. published \in Releases /\ published' \in Releases /\ NoOlder(published, published')
  BY DEF Upload, Announce, IInv, TypeOK, NoOlder, RankTyped
<1>4. \A f \in Files : hosted[f] \in Releases =>
                        hosted'[f] \in Releases /\ NoOlder(hosted[f], hosted'[f])
  BY DEF Replaces, Upload, Announce, IInv, TypeOK
<1>5. IndexInTime'
  <2> SUFFICES ASSUME latest # None PROVE IndexInTime'
    BY <1>1 DEF IndexInTime, disk
  <2>1. latest.version \in Releases /\ latest.sums \in Releases
    BY DEF IInv, TypeOK, Indexes
  <2> QED BY <1>1, <1>3, <1>4, <2>1, NoOlderTransitive DEF RInv, IndexInTime, disk
<1>6. CheckInTime'
  <2> SUFFICES ASSUME check # None, check.at \notin {"mapping", "error"} PROVE CheckInTime'
    BY <1>1 DEF CheckInTime
  <2>1. check.version \in Releases /\ hosted[FileOf[check.version]] \in Releases
        /\ (check.at \in {"digest", "download", "raw", "index"} => check.sums \in Releases)
    BY DEF IInv, ReadSoFar
  <2> QED BY <1>1, <1>3, <1>4, <2>1, NoOlderTransitive DEF RInv, CheckInTime, disk
<1> QED BY <1>2, <1>5, <1>6 DEF RInv

\* A check reads what is no older than the index, and believes a state only if that
\* is the index's own.
LEMMA ReadingReports ==
  ASSUME RankTyped, IInv, IInv', RInv,
         (\E by \in {"loop", "post"} : Start(by)) \/ FetchMapping \/ FetchSums \/ FetchDigest
           \/ Download \/ DownloadCorrupt \/ WriteRaw
  PROVE  RInv'
<1>1. UNCHANGED <<source, latest, state, memory>>
  BY DEF Start, FetchMapping, FetchSums, FetchDigest, Download, DownloadCorrupt, WriteRaw, disk
<1>2. IndexInTime' /\ Follows(state)' /\ Follows(memory)'
  BY <1>1 DEF RInv, IndexInTime, Follows, source
<1>3. ASSUME NEW by \in {"loop", "post"}, Start(by) PROVE CheckInTime' /\ ReportMatchesIndex'
  BY <1>3 DEF Start, CheckInTime, ReportMatchesIndex, Idle
<1>4. CASE FetchMapping
  <2>1. check' = [check EXCEPT !.version = published, !.at = "sums"] /\ check \in Checks
    BY <1>4 DEF FetchMapping, At, Idle, IInv, TypeOK
  <2>2. check'.at = "sums" /\ check'.version = published
    BY <2>1 DEF Checks
  <2>3. CheckInTime'
    BY <1>1, <2>2 DEF RInv, IndexInTime, CheckInTime, NoOlder, source
  <2>4. ReportMatchesIndex'
    BY <2>2 DEF ReportMatchesIndex
  <2> QED BY <1>2, <2>3, <2>4 DEF RInv
<1>5. CASE FetchSums
  <2>1. check \in Checks /\ check.at = "sums" /\ check # None /\ check.version \in Releases
    BY <1>5 DEF FetchSums, At, Idle, IInv, TypeOK, ReadSoFar
  <2>2. /\ check'.at = "digest" /\ check'.version = check.version
        /\ check'.sums = hosted[FileOf[check.version]]
    BY <1>5, <2>1 DEF FetchSums, Checks
  <2>3. CheckInTime'
    BY <1>1, <2>1, <2>2 DEF RInv, IndexInTime, CheckInTime, NoOlder, source
  <2>4. ReportMatchesIndex'
    BY <2>2 DEF ReportMatchesIndex
  <2> QED BY <1>2, <2>3, <2>4 DEF RInv
<1>8. CASE FetchDigest
  <2> DEFINE v == check.version
             sums == check.sums
             there == hosted[FileOf[v]]
             digest == IF Integrity[v] = "digest" THEN there ELSE None
  <2>1. check \in Checks /\ check.at = "digest" /\ check # None
        /\ v \in Releases /\ sums \in Releases /\ there \in Releases
    BY <1>8 DEF FetchDigest, At, Idle, IInv, TypeOK, ReadSoFar
  <2>2. latest # None => /\ latest.version \in Releases /\ latest.sums \in Releases
                         /\ NoOlder(latest.version, v)
                         /\ latest.version = v => NoOlder(latest.sums, sums)
    BY <2>1 DEF IInv, TypeOK, Indexes, RInv, CheckInTime
  <2>3. latest # None /\ latest.version = v => NoOlder(latest.digest, digest)
    <3> SUFFICES ASSUME latest # None, latest.version = v PROVE NoOlder(latest.digest, digest)
      OBVIOUS
    <3>1. Named(v, latest.digest) /\ (latest.digest # None => NoOlder(latest.digest, there))
      BY DEF IInv, IndexOK, RInv, IndexInTime
    <3> QED BY <3>1, SourceAssumption DEF Named, NoOlder
  <2>4. NoOlder(sums, there) /\ (digest # None => NoOlder(digest, there))
    BY <2>1 DEF RInv, CheckInTime, NoOlder
  <2>5. CASE SameSource(v, sums, digest)
    <3>1. /\ latest # None /\ state.version = v /\ state.sums = sums /\ state.digest = digest
          /\ state \in States
      BY <2>5 DEF SameSource, IInv, TypeOK
    <3>2. v # None /\ Follows(state)
      BY <2>1, SourceAssumption DEF RInv
    <3>3. latest.version = v
      BY <2>1, <2>2, <3>1, <3>2 DEF Follows, NoOlder, RankTyped
    <3>4. latest.sums = sums
      BY <2>1, <2>2, <3>1, <3>2, <3>3 DEF Follows, NoOlder, RankTyped
    <3>5. latest.digest = digest
      BY <2>1, <2>3, <3>1, <3>2, <3>3 DEF Follows, NoOlder, RankTyped
    <3>6. /\ check'.at = "state" /\ check'.version = v
          /\ check'.state.version = v /\ check'.state.sums = sums
          /\ check'.state.digest = digest
      BY <1>8, <2>1, <2>5, <3>1 DEF FetchDigest, Checks, States
    <3>7. CheckInTime'
      BY <1>1, <2>1, <2>2, <3>6 DEF RInv, CheckInTime, source
    <3>8. ReportMatchesIndex'
      BY <1>1, <3>1, <3>3, <3>4, <3>5, <3>6 DEF ReportMatchesIndex
    <3> QED BY <1>2, <3>7, <3>8 DEF RInv
  <2>6. CASE ~ SameSource(v, sums, digest)
    <3>1. /\ check'.at = "download" /\ check'.version = v /\ check'.sums = sums
          /\ check'.digest = digest
      BY <1>8, <2>1, <2>6 DEF FetchDigest, Checks
    <3> HIDE DEF digest
    <3>2. CheckInTime'
      BY <1>1, <2>1, <2>2, <2>3, <2>4, <3>1 DEF RInv, CheckInTime, source
    <3>3. ReportMatchesIndex'
      BY <3>1 DEF ReportMatchesIndex
    <3> QED BY <1>2, <3>2, <3>3 DEF RInv
  <2> QED BY <2>5, <2>6
<1>6. CASE Download \/ DownloadCorrupt
  <2>1. check \in Checks /\ check.at = "download" /\ check # None
    BY <1>6 DEF Download, DownloadCorrupt, At, Idle, IInv, TypeOK
  <2>2. /\ check'.at \in {"raw", "error"} /\ check'.version = check.version
        /\ check'.sums = check.sums /\ check'.digest = check.digest
    BY <1>6, <2>1 DEF Download, DownloadCorrupt, Downloaded, GoTo, Checks
  <2>3. CheckInTime'
    BY <1>1, <2>1, <2>2 DEF RInv, CheckInTime, NoOlder, source
  <2>4. ReportMatchesIndex'
    BY <2>2 DEF ReportMatchesIndex
  <2> QED BY <1>2, <2>3, <2>4 DEF RInv
<1>7. CASE WriteRaw
  <2>1. check \in Checks /\ check.at = "raw" /\ check # None
    BY <1>7 DEF WriteRaw, At, Idle, IInv, TypeOK
  <2>2. check'.at = "index" /\ check'.version = check.version /\ check'.sums = check.sums
        /\ check'.digest = check.digest
    BY <1>7, <2>1 DEF WriteRaw, GoTo, Checks
  <2>3. CheckInTime'
    BY <1>1, <2>1, <2>2 DEF RInv, CheckInTime, NoOlder, source
  <2>4. ReportMatchesIndex'
    BY <2>2 DEF ReportMatchesIndex
  <2> QED BY <1>2, <2>3, <2>4 DEF RInv
<1> QED BY <1>2, <1>3, <1>4, <1>5, <1>6, <1>7, <1>8 DEF RInv

\* The index is written before the state; whatever is put into state.json afterwards is
\* of this index or of an older one.
LEMMA FinishingReports ==
  ASSUME RankTyped, IInv, IInv', RInv,
         WriteIndex \/ NoRules \/ WriteState \/ Succeed \/ Fail
           \/ Raises \/ HandlerRaises \/ Restart
  PROVE  RInv'
<1>1. CASE WriteIndex
  <2>1. /\ check \in Checks /\ check.at = "index" /\ check # None
        /\ check.version \in Releases /\ check.sums \in Releases
        /\ hosted[FileOf[check.version]] \in Releases
    BY <1>1 DEF WriteIndex, At, Idle, IInv, TypeOK, ReadSoFar
  <2>2. /\ latest' # None /\ latest'.version = check.version /\ latest'.sums = check.sums
        /\ check'.at = "state" /\ check'.version = check.version
        /\ check'.state.version = check.version /\ check'.state.sums = check.sums
        /\ latest'.digest = check.digest /\ check'.state.digest = check.digest
        /\ UNCHANGED <<source, state, memory>>
    <3>1. latest' = [content |-> check.content, sums |-> check.sums, digest |-> check.digest,
                     version |-> check.version]
          /\ latest' \in Indexes
      BY <1>1, <2>1 DEF WriteIndex, Indexes, IInv, ReadSoFar, Checks
    <3>2. check' = [check EXCEPT !.at = "state",
                     !.state = [version |-> check.version, sums |-> check.sums,
                                digest |-> check.digest, result |-> "updated"]]
      BY <1>1 DEF WriteIndex
    <3> QED BY <1>1, <2>1, <3>1, <3>2, NoneAssumption DEF WriteIndex, Checks, States
  <2>3. IndexInTime' /\ CheckInTime'
    BY <2>1, <2>2 DEF RInv, IndexInTime, CheckInTime, NoOlder, source
  <2>4. ReportMatchesIndex'
    BY <2>2 DEF ReportMatchesIndex
  <2>5. ASSUME NEW s \in States, Follows(s) PROVE Follows(s)'
    <3> SUFFICES ASSUME s.version # None PROVE Follows(s)'
      BY DEF Follows
    <3>1. s.version \in Releases /\ s.sums \in Releases /\ latest # None
          /\ latest.version \in Releases /\ latest.sums \in Releases
      BY <2>5 DEF Follows, States, IInv, TypeOK, Indexes
    <3>2. NoOlder(latest.version, check.version)
          /\ (latest.version = check.version => /\ NoOlder(latest.sums, check.sums)
                                                /\ NoOlder(latest.digest, check.digest))
      BY <2>1, <3>1 DEF RInv, CheckInTime
    <3>3. \/ /\ s.version = check.version /\ NoOlder(s.sums, check.sums)
             /\ NoOlder(s.digest, check.digest)
          \/ s.version # check.version /\ Rank[s.version] < Rank[check.version]
      <4>1. CASE s.version = latest.version /\ latest.version = check.version
        BY <2>5, <3>1, <3>2, <4>1, NoOlderTransitive DEF Follows
      <4>2. CASE s.version # latest.version \/ latest.version # check.version
        BY <2>1, <2>5, <3>1, <3>2, <4>2 DEF Follows, NoOlder, RankTyped
      <4> QED BY <4>1, <4>2
    <3> QED BY <2>2, <3>1, <3>3 DEF Follows
  <2>6. Follows(state)' /\ Follows(memory)'
    BY <2>2, <2>5 DEF RInv, IInv, TypeOK, Follows
  <2> QED BY <2>3, <2>4, <2>6 DEF RInv
<1>2. ASSUME NoRules \/ Raises PROVE RInv'
  <2>1. check \in Checks /\ check'.at = "error" /\ UNCHANGED <<source, disk, memory>>
    BY <1>2 DEF NoRules, Raises, At, Idle, GoTo, IInv, TypeOK, Checks
  <2> QED BY <2>1 DEF RInv, IndexInTime, CheckInTime, Follows, ReportMatchesIndex, source, disk
<1>3. CASE WriteState
  <2>1. check \in Checks /\ check.at = "state" /\ ~ Idle
    BY <1>3 DEF WriteState, At, Idle, IInv, TypeOK
  <2>2. /\ check'.at = "history" /\ check'.version = check.version
        /\ check'.state = check.state /\ state' = check.state
        /\ UNCHANGED <<source, latest, memory>>
    BY <1>3, <2>1 DEF WriteState, GoTo, Checks
  <2>3. /\ latest # None /\ latest.sums = check.state.sums /\ latest.version = check.state.version
        /\ latest.digest = check.state.digest
    BY <2>1 DEF RInv, ReportMatchesIndex
  <2>4. Follows(state)' /\ Follows(memory)'
    BY <2>2, <2>3 DEF Follows, NoOlder, IInv, TypeOK, Indexes, RInv
  <2>5. IndexInTime' /\ CheckInTime'
    BY <2>1, <2>2 DEF RInv, IndexInTime, CheckInTime, source, Idle
  <2>6. ReportMatchesIndex'
    BY <2>2, <2>3 DEF ReportMatchesIndex
  <2> QED BY <2>4, <2>5, <2>6 DEF RInv
<1>4. ASSUME Succeed \/ Fail \/ HandlerRaises \/ Restart PROVE RInv'
  <2>1. check' = None /\ UNCHANGED <<source, latest>>
    BY <1>4 DEF Succeed, Fail, HandlerRaises, Restart, disk
  <2>2. IndexInTime' /\ CheckInTime' /\ ReportMatchesIndex'
    BY <2>1 DEF RInv, IndexInTime, CheckInTime, ReportMatchesIndex, Idle, source
  <2>3. CASE Succeed
    <3>1. check.at = "history" /\ ~ Idle /\ check \in Checks /\ memory' = check.state
          /\ UNCHANGED disk
      BY <2>3 DEF Succeed, At, Idle, IInv, TypeOK
    <3>2. /\ latest # None /\ latest.sums = check.state.sums
          /\ latest.version = check.state.version /\ latest.digest = check.state.digest
      BY <3>1 DEF RInv, ReportMatchesIndex
    <3>3. Follows(state)' /\ Follows(memory)'
      BY <2>1, <3>1, <3>2 DEF RInv, Follows, NoOlder, IInv, TypeOK, Indexes, disk
    <3> QED BY <2>2, <3>3 DEF RInv
  <2>4. [memory EXCEPT !.result = "error"].version = memory.version
        /\ [memory EXCEPT !.result = "error"].sums = memory.sums
        /\ [memory EXCEPT !.result = "error"].digest = memory.digest
    BY DEF IInv, TypeOK, States
  <2>5. CASE Fail \/ HandlerRaises
    <3>1. memory'.version = memory.version /\ memory'.sums = memory.sums
          /\ memory'.digest = memory.digest
          /\ state' \in {state, memory'}
      BY <2>4, <2>5 DEF Fail, HandlerRaises
    <3>2. Follows(state)' /\ Follows(memory)'
      BY <2>1, <3>1 DEF RInv, Follows
    <3> QED BY <2>2, <3>2 DEF RInv
  <2>6. CASE Restart
    BY <2>1, <2>2, <2>6 DEF Restart, RInv, Follows, disk
  <2> QED BY <1>4, <2>3, <2>5, <2>6
<1> QED BY <1>1, <1>2, <1>3, <1>4

LEMMA NextReports ==
  ASSUME RankTyped
  PROVE  IInv /\ RInv /\ [Next]_vars /\ [Replaces]_vars => RInv'
<1> SUFFICES ASSUME IInv, RInv, [Next]_vars, [Replaces]_vars PROVE RInv'
  OBVIOUS
<1>1. CASE UNCHANGED vars
  BY <1>1 DEF vars, source, disk, RInv, IndexInTime, CheckInTime, Follows, ReportMatchesIndex, Idle
<1>2. CASE Next /\ Replaces
  <2>1. IInv'
    BY NextKeeps
  <2> QED BY <1>2, <2>1, SourceMoves, ReadingReports, FinishingReports DEF Next, CheckStep
<1> QED BY <1>1, <1>2

\* A check that ends well reports the release the index is of, whichever writes failed
\* and whenever the container stopped, as long as the vendor puts no older release back
\* in the place of a newer one (sync_once, run_once).
THEOREM ReportMatchesIndexHolds ==
  ASSUME RankTyped
  PROVE  Spec /\ NeverBack => []ReportMatchesIndex
<1>1. RInv => ReportMatchesIndex
  BY DEF RInv
<1> QED BY <1>1, InitRInv, NextReports, Invariance, PTL DEF Spec, NeverBack
=============================================================================
