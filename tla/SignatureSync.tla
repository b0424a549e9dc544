---------------------------- MODULE SignatureSync ----------------------------
(***************************************************************************)
(* signature-sync: the hourly check of the vendor's signature mapping, and   *)
(* the files it keeps under upstream/ for the other services to read.        *)
(*                                                                          *)
(* run_once holds a lock, so checks do not overlap, but the source may be    *)
(* republished between two downloads, every file is replaced by a write of   *)
(* its own, and a write may fail or the container stop between two of them.  *)
(* A release stands for its mapping entry, its checksum file, its signature  *)
(* (the digest) and its XML; each file is told apart by its release.  The copies*)
(* of the checksums, the versioned index and the history are never read back.*)
(***************************************************************************)
EXTENDS Naturals

CONSTANTS
  Releases,        \* what the vendor publishes over time
  Files,           \* names of the signature XML
  FileOf,          \* the file each release is published under
  Integrity,       \* what verifies it: the checksum in its checksum file (sha1), the
                   \* signature its mapping names (digest), or none
  Enumerable,      \* the releases whose XML yields rules
  Later,           \* pairs <<r, s>>: s may replace r
  First,           \* the release published when the service is installed
  VerifySha1, VerifySignature, \* the two switches of SyncConfig
  MaxFaults,       \* bound on failed downloads and writes, and on restarts
  Corrupt,         \* an XML that is none of the releases
  None

ASSUME SourceAssumption ==
  /\ FileOf \in [Releases -> Files]
  /\ Integrity \in [Releases -> {"sha1", "digest", "none"}]
  /\ Enumerable \subseteq Releases
  /\ Later \subseteq Releases \X Releases
  /\ First \in Releases
  /\ Corrupt \notin Releases /\ None \notin Releases \cup {Corrupt}
  /\ VerifySha1 \in BOOLEAN /\ VerifySignature \in BOOLEAN
  /\ MaxFaults \in Nat

Payloads == Releases \cup {Corrupt}
Indexes == [content : Payloads, sums : Releases, digest : Releases \cup {None}, version : Releases]
\* The fields of state.json that a later check reads or a client is shown.
States == [version : Releases \cup {None}, sums : Releases \cup {None},
           digest : Releases \cup {None},
           result : {"none", "updated", "not-modified", "error"}]
NoState == [version |-> None, sums |-> None, digest |-> None, result |-> "none"]

VARIABLES
  published,  \* the release the mapping names
  hosted,     \* the release behind each file of the source
  raw,        \* upstream/raw: the XML under each name
  newest,     \* the raw file modified last, the one netscaler-adapter exports from
  latest,     \* upstream/index/latest.json, which control-api plans from
  state,      \* upstream/state.json
  memory,     \* SyncRunner._state, which GET /status shows
  check,      \* the check under way, or None
  loop,       \* whether the hourly thread lives
  faults

source == <<published, hosted>>
disk == <<raw, newest, latest, state>>
vars == <<source, disk, memory, check, loop, faults>>

Steps == {"mapping", "sums", "digest", "download", "raw", "index", "state", "history", "error"}
Checks == [at : Steps, by : {"loop", "post"}, version : Releases \cup {None},
           sums : Releases \cup {None}, digest : Releases \cup {None},
           content : Payloads \cup {None},
           state : States]

\* None is the file that is not there and the check that is not under way.
ASSUME NoneAssumption == None \notin Indexes \cup Checks

Init ==
  /\ published = First
  /\ hosted = [f \in Files |-> IF f = FileOf[First] THEN First ELSE None]
  /\ raw = [f \in Files |-> None]
  /\ newest = None /\ latest = None
  /\ state = NoState /\ memory = NoState
  /\ check = None
  /\ loop = "alive"
  /\ faults = 0

-----------------------------------------------------------------------------
(* The vendor uploads the files of a release, then names it in the mapping *)

Upload(r) ==
  /\ <<published, r>> \in Later
  /\ hosted[FileOf[r]] # r
  /\ hosted' = [hosted EXCEPT ![FileOf[r]] = r]
  /\ UNCHANGED <<published, disk, memory, check, loop, faults>>

Announce(r) ==
  /\ <<published, r>> \in Later
  /\ hosted[FileOf[r]] = r
  /\ published' = r
  /\ UNCHANGED <<hosted, disk, memory, check, loop, faults>>

-----------------------------------------------------------------------------
(* run_once and sync_once *)

Idle == check = None
At(step) == ~ Idle /\ check.at = step
GoTo(step) == check' = [check EXCEPT !.at = step]

Start(by) ==
  /\ Idle
  /\ by = "loop" => loop = "alive"
  /\ check' = [at |-> "mapping", by |-> by, version |-> None, sums |-> None,
               digest |-> None, content |-> None, state |-> NoState]
  /\ UNCHANGED <<source, disk, memory, loop, faults>>

FetchMapping ==
  /\ At("mapping")
  /\ check' = [check EXCEPT !.version = published, !.at = "sums"]
  /\ UNCHANGED <<source, disk, memory, loop, faults>>

FetchSums ==
  /\ At("sums")
  /\ check' = [check EXCEPT !.sums = hosted[FileOf[check.version]], !.at = "digest"]
  /\ UNCHANGED <<source, disk, memory, loop, faults>>

\* Mutant of SameSource: only the name of the file is compared.
SameFile(version, sums, digest) ==
  /\ state.version # None /\ FileOf[state.version] = FileOf[version]
  /\ raw[FileOf[version]] # None
  /\ latest # None

SameSource(version, sums, digest) ==
  /\ state.version = version /\ state.sums = sums /\ state.digest = digest
  /\ raw[FileOf[version]] # None
  /\ latest # None

\* The second download, where the mapping names a signature.
FetchDigest ==
  /\ At("digest")
  /\ LET named == Integrity[check.version] = "digest"
         digest == IF named THEN hosted[FileOf[check.version]] ELSE None
     IN  check' = IF SameSource(check.version, check.sums, digest)
                  THEN [check EXCEPT !.digest = digest, !.at = "state",
                                     !.state = [state EXCEPT !.result = "not-modified"]]
                  ELSE [check EXCEPT !.digest = digest, !.at = "download"]
  /\ UNCHANGED <<source, disk, memory, loop, faults>>

\* Mutant of Verified: a plain checksum is looked for but never compared.
VerifiedBySignature(content, sums, digest) ==
  \/ Integrity[sums] = "sha1"
  \/ Integrity[sums] # "sha1" /\ digest # None /\ (VerifySignature => content = digest)
  \/ Integrity[sums] # "sha1" /\ digest = None /\ ~ VerifySignature

\* The checksum counts where there is one, else the signature.
Verified(content, sums, digest) ==
  \/ Integrity[sums] = "sha1" /\ (VerifySha1 => content = sums)
  \/ Integrity[sums] # "sha1" /\ digest # None /\ (VerifySignature => content = digest)
  \/ Integrity[sums] # "sha1" /\ digest = None /\ ~ VerifySignature

Downloaded(content) ==
  IF Verified(content, check.sums, check.digest)
  THEN check' = [check EXCEPT !.content = content, !.at = "raw"]
  ELSE GoTo("error")

Download ==
  /\ At("download")
  /\ Downloaded(hosted[FileOf[check.version]])
  /\ UNCHANGED <<source, disk, memory, loop, faults>>

DownloadCorrupt ==
  /\ At("download")
  /\ faults < MaxFaults /\ faults' = faults + 1
  /\ Downloaded(Corrupt)
  /\ UNCHANGED <<source, disk, memory, loop>>

WriteRaw ==
  /\ At("raw")
  /\ raw' = [raw EXCEPT ![FileOf[check.version]] = check.content]
  /\ newest' = FileOf[check.version]
  /\ GoTo("index")
  /\ UNCHANGED <<source, latest, state, memory, loop, faults>>

\* The XML is parsed from the file just replaced.
WriteIndex ==
  /\ At("index")
  /\ raw[FileOf[check.version]] \in Enumerable
  /\ latest' = [content |-> check.content, sums |-> check.sums, digest |-> check.digest,
                version |-> check.version]
  /\ check' = [check EXCEPT !.at = "state",
                            !.state = [version |-> check.version, sums |-> check.sums,
                                       digest |-> check.digest, result |-> "updated"]]
  /\ UNCHANGED <<source, raw, newest, state, memory, loop, faults>>

\* Mutant of NoRules: the check ends as updated, with the index there was.
NoRulesReported ==
  /\ At("index")
  /\ raw[FileOf[check.version]] \notin Enumerable
  /\ check' = [check EXCEPT !.at = "state",
                            !.state = [version |-> check.version, sums |-> check.sums,
                                       digest |-> check.digest, result |-> "updated"]]
  /\ UNCHANGED <<source, disk, memory, loop, faults>>

NoRules ==
  /\ At("index")
  /\ raw[FileOf[check.version]] \notin Enumerable
  /\ GoTo("error")
  /\ UNCHANGED <<source, disk, memory, loop, faults>>

WriteState ==
  /\ At("state")
  /\ state' = check.state
  /\ GoTo("history")
  /\ UNCHANGED <<source, raw, newest, latest, memory, loop, faults>>

Succeed ==
  /\ At("history")
  /\ memory' = check.state
  /\ check' = None
  /\ UNCHANGED <<source, disk, loop, faults>>

\* except Exception: what the runner remembers, marked as an error, is written
\* over state.json.
Fail ==
  /\ At("error")
  /\ memory' = [memory EXCEPT !.result = "error"]
  /\ state' = memory'
  /\ check' = None
  /\ UNCHANGED <<source, raw, newest, latest, loop, faults>>

-----------------------------------------------------------------------------
(* Faults *)

\* A download, a write or the append to the history raises.
Raises ==
  /\ ~ Idle /\ check.at # "error"
  /\ faults < MaxFaults /\ faults' = faults + 1
  /\ GoTo("error")
  /\ UNCHANGED <<source, disk, memory, loop>>

\* So does the handler of the exception, before or after it wrote state.json:
\* the hourly thread ends, a POST /run answers 500.
HandlerRaises ==
  /\ At("error")
  /\ faults < MaxFaults /\ faults' = faults + 1
  /\ memory' = [memory EXCEPT !.result = "error"]
  /\ state' \in {state, memory'}
  /\ loop' = IF check.by = "loop" THEN "dead" ELSE loop
  /\ check' = None
  /\ UNCHANGED <<source, raw, newest, latest>>

\* The container stops; the runner starts from state.json.
Restart ==
  /\ faults < MaxFaults /\ faults' = faults + 1
  /\ memory' = state
  /\ check' = None
  /\ loop' = "alive"
  /\ UNCHANGED <<source, disk>>

CheckStep ==
  \/ FetchMapping \/ FetchSums \/ FetchDigest \/ Download \/ WriteRaw
  \/ WriteIndex \/ NoRules \/ WriteState \/ Succeed \/ Fail

Next ==
  \/ \E r \in Releases : Upload(r) \/ Announce(r)
  \/ \E by \in {"loop", "post"} : Start(by)
  \/ CheckStep
  \/ DownloadCorrupt \/ Raises \/ HandlerRaises \/ Restart

Spec == Init /\ [][Next]_vars

\* The hourly thread wakes up again, and a check that runs comes to an end.
FairSpec == Spec /\ WF_vars(Start("loop")) /\ WF_vars(CheckStep)

-----------------------------------------------------------------------------
(* Properties *)

TypeOK ==
  /\ published \in Releases
  /\ hosted \in [Files -> Releases \cup {None}]
  /\ raw \in [Files -> Payloads \cup {None}]
  /\ newest \in Files \cup {None}
  /\ latest \in Indexes \cup {None}
  /\ state \in States /\ memory \in States
  /\ check \in Checks \cup {None}
  /\ loop \in {"alive", "dead"}
  /\ faults \in 0 .. MaxFaults

\* The index planned from is of an XML that was verified against the very checksum, or
\* else the signature, that it records, and yields rules, however the source was
\* republished between the downloads.
IndexIsVerified ==
  latest # None =>
    /\ latest.content = IF Integrity[latest.sums] = "sha1" THEN latest.sums ELSE latest.digest
    /\ latest.content \in Enumerable

\* A check that ends well reports, as updated or as not modified, the release the
\* index is of: state.json is believed when it says that there is nothing to do,
\* although it is written after latest.json and an error writes older fields back.
ReportMatchesIndex ==
  ~ Idle /\ check.at \in {"state", "history"} =>
    latest # None /\ \A field \in {"version", "sums", "digest"} : latest[field] = check.state[field]

\* Once the vendor stands by a release that can be verified and indexed, and the
\* faults end, the index follows it and stays, unless the hourly thread has died.
Usable == {r \in Enumerable : Integrity[r] # "none"}

IndexFollowsSource ==
  \A r \in Usable :
    <>[](published = r /\ hosted[FileOf[r]] = r) =>
      <>[](loop = "dead" \/ (latest # None /\ latest.content = r /\ latest.version = r))
=============================================================================
