# Verification of WAF-helper

TLA+ models of the WAF-helper services, checked with TLC, with theorems about
them checked by TLAPS.  `PROJECT.json` lists components, runs, mutants, the map
from definitions to source lines, findings, hazards and theorems.

## The system

WAF-helper discovers a web application, proposes NetScaler AppFW signatures for
it, and exports the ones an operator approves to an ADC.  It is a set of FastAPI
services (docker-compose.yml) that share a PostgreSQL database and a directory
of signature files.  Handlers are coroutines on one event loop per service;
database and SSH calls run in threads, so other requests interleave at every
`await`.

| Component | State | Operations | Talks to | What makes it correct |
|---|---|---|---|---|
| control-api: custom signature sets | `netscaler_custom_signature_sets`, `netscaler_change_previews`, `netscaler_write_audit` | prepare, edit, approve, preflight, export, rollback, promote, exception | netscaler-adapter (HTTP, 60 s), `latest.json` | only approved, preflighted content reaches the ADC; every write is audited; a rollback removes its own object |
| netscaler-adapter writes | none of its own; the ADC's AppFW objects | import, rm, profile/policy/binding batch, compensation | the ADC's CLI over SSH | a transaction may be late or partial but is never repeated or invented |
| discovery-worker | `discovery_runs`, `_evidence`, `_observations`, `running_tasks` | POST job, crawl, cancel, delete, reconcile at startup | the target site | an active run has somebody to move it on; a completed one has all its evidence once; outcomes stand |
| signature-sync | `upstream/raw`, `upstream/index`, `state.json`, `_state` in memory | hourly check, POST /run | the vendor's mapping and files | the index is of a verified file; what is reported is what there is; the index catches up |
| control-api and adapter: duplicate profile | `netscaler_plan_approvals`, previews, audit; the ADC's profiles, policies, bindings | approve, preflight, apply, rollback; batch and compensation | the ADC's CLI | what is created was reviewed, is whole or undone, and stands |
| control-api: positive-model candidates | `positive_model_candidates`, `_audit` | create, fuse, list, get, update (accept, reject, reopen, edit) | discovery-worker, analysis-service, runtime-inspector | no lost update, one audit row per version, a decided candidate keeps its model |
| control-api: learning, dry run | none | `build_*_candidate`, `validate_transaction` | what sessions and jobs observed | nothing unseen is learned, and what was seen passes |
| runtime-inspector: guided sessions | `browser_sessions`, Playwright contexts and pages | start, get, authenticate, navigate, select, focus, activate, probe, click, type, candidate-source, stop, expire | Chromium | five sessions at most, one login POST per session, no form submitted otherwise, honest labels and links |
| control-api: operator login | `login_attempts`, signed cookies | login, session, logout | every other route | five attempts a minute per peer; changes only within a session |
| rule selection, profile, intents | none; computed from evidence rows and the index | select, edit, promote, exception; the CVE tree, confidence | discovery-worker, analysis-service, signature-sync | product rules and CVEs with evidence only; more evidence takes nothing away |
| correlation, report, fingerprinting, inventory parsing | none | pure functions | | |
| older signature sets and plans, drafts, saved connections, CSP reports, proxies, frontend | rows of their own | single-statement operations | | |

How they meet: signature-sync publishes `latest.json`, from which control-api
plans, and the raw XML, from which the adapter cuts what it imports; control-api
hands CLI transactions to the adapter, which may outlive the request; discovery
jobs feed the plans, which are only built from a completed one; jobs and guided
sessions feed the candidates; and every route but login asks for a session.

What is hard: check-then-act over several transactions without a version;
timeouts of calls whose effect still comes; cancellation that does not reach a
thread; several files replaced one by one; compensation and error handlers that
may fail; pages whose scripts run between a look and a click; one fact computed
by several services; restarts in between.  The `hazards` of PROJECT.json give each at its line.

## Modules

| Module | Models | Composed with | Proved |
|---|---|---|---|
| `CustomSignatureSet` | the workflow of a signature set, the adapter and the ADC | implements `ReviewedDeployment` | all |
| `DiscoveryJob` | the life of a discovery run | | types, safety |
| `SignatureSync` | the synchroniser and the vendor | | types, safety |
| `AdcProtection` | duplicate-profile plans, batches, compensation | | all |
| `OperatorSession` | login, cookie, tabs | part of `PositiveCandidate` | with it |
| `PositiveCandidate` | the review of a candidate | extends `OperatorSession`, implements `ReviewRegister` | all |
| `LearnedModel` | learning and dry run over the evidence of a session or job | | all, in `PositiveCandidate_proofs` |
| `GuidedSession` | sessions, contexts, the login | | safety |
| `GuidedPage` | handlers against a live page | | all |
| `DetectionProfile` | technologies, tags and intents of a job | part of `RuleSelection` | |
| `RuleSelection` | proposals, and the rules of stored sets, while releases change | extends `DetectionProfile` | all |

`MC*` modules hold the instances for TLC, `*_proofs` the theorems; "all" and
"safety" are about the properties the runs check.  What is left to do: one model
of `CustomSignatureSet` and `AdcProtection` over a shared ADC.

## CustomSignatureSet

control-api/app/main.py 2892-3195, signature_workflow.py, and the adapter's two
write endpoints.

*State.* `rows`, `previews` and `audit` are the tables, `objects` the signature
objects of the ADC, `commands` the CLI transactions the adapter has accepted and
not run, `req[q]` the locals of request q and the await it is at.  `catalog`,
`writable` and `expired` are the index, the write flag and the approvals past
`expires_at`.  `reviews` and `lost` are history: what was approved under an
approval id, and which writes ended after the ADC was asked without a record.

*Actions.* One per stretch between two awaits that touch shared state, named for
the handler: `EditLoad`, `EditPlan`, `EditUpdate`; `ApproveLoad`,
`ApproveUpdate`; `PreflightLoad`, `PreflightPlan`, `PreflightPreview`,
`PreflightUpdate`; `ExportLoad`, `ExportPlan`, `RollbackLoad`, `RollbackCheck`,
then `Audit` and `ExportUpdate` or `RollbackUpdate`.  `Prepare`, `Promote` and
`Exception` are one step: nothing can see a row before its INSERT.  The adapter
answers, fails after the change, or rejects (`AdapterAnswers`,
`AdapterFailsLate`, `AdapterRejects`); a request ends early by `Refuse` (nothing
was changed), `GiveUp` (timeout, audit or UPDATE failed) or `Restart`.

*Data.* A fingerprint is the record of the fields that are hashed: that SHA-256
does not collide is assumed.  Job, hostname and NSIP of a set are constant; drift
of the NSIP is left out, it would only refuse more.  A plan uses the catalog once
and is one step at that read.  `preflight_status` is always the status of the
preview saved with it and is not a variable of its own.  The fingerprint a client
sends is the one of the row it names; any other is refused at once.  The AppFW
inventories of the reference check are the ADC's own, so the refusal is always
possible; administrators changing signature objects by other means are left out.
The XML is cut from the raw file: the adapter refuses when a rule is missing
(`AdapterRejects`); which raw file it is belongs to `SignatureSync`.

*Abstract specification.* `ReviewedDeployment`: a content is reviewed, a reviewed
content may be deployed under its own free name, and stays until it is removed.
`Deployment` maps every object to what was imported, not to the fingerprint that
was approved, so the implementation says that the two agree.

## DiscoveryJob

discovery-worker/app/main.py.  `runs`, `evidence`, `observations` are the tables,
`task` the coroutine of a run by the await it is at, `late` the writes of threads
whose coroutine was cancelled, `cancel` and `deleting` requests between two
statements.  A step of a task commits its write and resumes; a cancel that falls
between the two is the cancel of the next step.  `left` bounds the crawl by
`MaxRequests` as `max_pages` and `MAX_ASSETS_PER_RUN` do.  `strayed` holds the
runs whose last write was late or failed for good, `answered` those reported as
cancelled, `deleted` those deleted: history variables of the properties.

*Limits.* A database call that fails changes nothing (a commit whose answer is
lost is left out).  One cancel request is in flight at a time in the run.  A
request of control-api that times out is the same job.

## SignatureSync

signature-sync/app/sync.py and the readers of its files.  A release stands for its
mapping entry, checksum file, digest and XML; a stored file is the release it
belongs to, or `Corrupt`.  `check` is the check under way, by the step it is at:
`FetchMapping`, `FetchSums`, `FetchDigest` (with the `same_source` short cut), `Download`,
`WriteRaw`, `WriteIndex` or `NoRules`, `WriteState`, `Succeed`.  Any step may
raise, and then `Fail` writes the remembered state over `state.json`;
`HandlerRaises` is an error in that handler, which ends the hourly thread.
`Upload` and `Announce` are the vendor's: files first, then the mapping.

*Limits.* `previous` and `latest.json` are read, and compared, at the step that
fetches the digest; nothing else writes them then.  That SHA-1 does not
collide and that the public key is right is assumed.

## AdcProtection

control-api/app/main.py 2046-2297 and netscaler-adapter/app/main.py 163-203,
456-593, with the shell of ssh_inventory.py.

*State.* `running` and `saved` are the ADC's configuration now and at the last
`save ns config`: an object is a kind and a name, its entry says which request
created it, or which numbered change of an administrator, and what it refers to.  `approvals`, `previews`, `audit` are the
tables, `req` the requests, `call` the batches the adapter runs.

*Actions.* `Approve`, `Preflight`, `Apply`, `Rollback` begin a request;
`ReadProfiles` and the second read are separate, since the ADC changes between
them.  A batch is executed command by command (`Executed`, `Rejected`, `Lost`
before or after its effect, `SshError`), and a creation that raises goes on with
the batches of `CleanupBatches`.  `Timeout` ends the request and leaves the batch
running.  Administrators create what plans ask for, remove signature objects and
change the source profile.

*Data.* The plan is hashed with what was read, and is modelled by what was read;
the ADC refuses to create what exists or refers to what does not, and to remove
what is referred to.  Priorities and profile types are part of the plan.

*Limits of the code that the properties allow for.*  A command whose connection
is lost counts as the last one, and the cleanup then removes objects of these
names whoever made them (adapter main.py:469-486); rollback removes the objects
of a plan by name, whether or not an apply created them, although its plan says
"Delete only the newly created destination profile." (control-api main.py:2175).
`AppliedStands` and `NoHalfProtection` name both.

## OperatorSession, PositiveCandidate, ReviewRegister

operator_auth.py, and control-api/app/main.py 1075-1264.  `OperatorSession` is the
login: attempts in memory (a set of times, numbered where several fall on one
tick), a signed cookie nothing remembers, the CSRF token each tab knows.  Login does not await, so it is one step.  `PositiveCandidate` extends
it: `row` and `audit` are the tables, `view` what a tab last saw.  An update is one
transaction; its answer may be lost, so a tab may repeat what was done.  `Fuse`
checks the session before four services are asked, `Fused` inserts afterwards;
that a draft may outlast its session is the one exemption in `ChangesInSession`.

*Abstract specification.* `ReviewRegister` has no versions: a tab is aware of the
current state or not, and only an aware one may change it.  The mapping makes a
tab aware when its copy has the row's version.

## LearnedModel

What guided_candidate_source and correlate_focus_to_requests hand over,
positive_learning.py, EndpointModel in positive_model.py, positive_validator.py.

*State.* `observed` is `network_sequence`, or the rows of a discovery job; `label`,
`jar` and `interactions` are the session's `auth_state`, the cookies of its browser
context and its `interaction_events`.  `candidate` is the last candidate, `handed`
what it was built from, `cut` how many requests were cut since: the last two are
history variables of the properties.

*Actions.* `Observe` keeps a request before it is answered, and before the guard may
abort it; `Respond` answers the last of its kind, or never comes; `Interact` and
`Correlate` keep an interaction and link it.  Requests and interactions are cut to
the newest `KeepRequests` and `KeepInteractions` (200 and 100 in the code), cookies
are replaced or gone (`SetCookie`, `DropCookie`) and cut to `KeepCookies` (200) when
they are handed over.  `Build` is candidate-source, `build_guided_candidate`, over
the rows `build_discovery_candidate` converts, and the schema's verdict; `Tighten` is
what an operator may add.

*Data.* A path is a sequence of segments, `/` at the ends included, so that `//x` is a
path of its own; lengths are counted in segments, and a segment is of one kind.  A
query key that comes without a value is in `flags`: a session drops it (main.py:1299),
discovery keeps it.  `Build` is one step: candidate-source holds the session lock, and
reads the requests before it awaits the cookies.  `SignIn` is one step, although
requests leave during a login: no candidate is built meanwhile, and such a request
bears afterwards either the old label or the new one, which is `Observe` before or
after the step.  Findings are compared, not worded.  Left out: the cut of header names
at 100 and of names at 256 characters.

*Properties.*  They relate modules of the code that nothing else ties together: a
model built from traffic is asked about that traffic.  `OwnTrafficPasses` names what a
model cannot learn of it: names that are not safe, query keys without a value, and
cookies below a segment that the template hides (positive_learning.py:169 compares
the cookie's path with the template), besides templates that match the same path and
endpoints seen with and without a login.  `NothingUnseen` distinguishes what was
requested from what was answered: an endpoint of a session needs no answer
(positive_learning.py:105-110 does not look at the status), response headers and
types do.  A repeated path and method of runtime inspection is not learned from, and
so not own traffic.  `RefusedForCause` tells all the ways one request makes the whole
candidate a 422: a path that begins with // or is too long, too many types or fields,
query keys that differ in case, cookies of one name and different paths.
`MoreNeverLess` says that a later candidate lacks only what was taken away: the
requests that were cut, the cookies that are gone, and, of the confidence, the links
of interactions that were cut.

## GuidedSession

runtime-inspector/app/main.py 354-418 and 560-847, with the other handlers as the
one operation `interact`.  `lock` is browser_lab_lock and the handler that holds
it, with the sessions it found expired.  Handlers exclude each other, the browser
does not: `Get`, `Post`, `Respond` and `Crash` happen between any two steps.
`Post` is the guard of the routes together with the page, a late click or a
script that posts.  `shifted` notes a sequence cut while a login is awaited, when
`auth_sequence_start` points behind the place it meant (lines 604, 839).

## GuidedPage

runtime-inspector/app/main.py 198-328, 629-688 and 914-1277.  A handler looks at an
element (`Look`), acts (`Focus`, `Click`, `Fill`, `Key`) and records (`Conclude`).
An act reaches what is at the place, or has the focus, by then.  Scripts replace
elements, move the focus, load documents, raise events and submit forms between
any two steps; typing is one step for every key.  Elements are the records the
decisions distinguish.  `Forbidden` says what must not be reached without
repeating how it is decided.  Time is the number of acts begun.

*Limits of the code that the properties allow for.*  A page that changes between
look and act gets the click or the keys (`moved`); the window of half a second is
not closed by the code.  An event a script raises during an act gets the act's
links, whichever element it is of (line 1187); a focus whose event was cut off
meanwhile loses them (lines 940-950).  A probe looks at name, id and autocomplete
only, not at label and placeholder (line 1044); activate does not look for
credentials in a link (lines 962-995).

## DetectionProfile, RuleSelection

discovery-worker/app/main.py 526-637, signature_technology.py, the intents of
generic_protection.py; signature_workflow.py 98-231, generic_signature_groups.py,
rule_catalog.py, confidence.py, protection_lifecycle.py.  A job's rows give the
profile; a plan (`Begin`) takes the profile, with the index of that moment, and
selects (`Select`) from the index of a later one, or finds none published yet
(`Unpublished`).  `Selected` is the proposal or
the IDs asked for, `CveTree` and `Applicability` what is shown with it.  The words
a matcher finds in a description are part of a rule.  `Edit`, `Promote` and
`Exception` plan by IDs from the set stored before; `Approve` takes a set of any
status, as the code does (main.py:3034).  The action, LOG or BLOCK, is left out: the
selection does not depend on it.

`DraftIsWhatWasAsked` is about drafts and edited sets: a set with fewer rules than
were asked for is stored as blocked-invalid-rule-selection.  Nothing keeps such a set
from being approved, preflighted and exported; the property says nothing of that.

`MoreEvidenceOnlyAdds` asks of every pair of evidence sets one row apart, and of
every request, whether the longer crawl shows less.

## Runs

| Run | Shows | Bounds |
|---|---|---|
| `set_races` | `GatedExport`, `WritesAudited`, `HistoryAudited` for two requests interleaved at every await, with restarts, write-flag changes and a catalog that disappears | one set, one name, two contents (LOG, BLOCK), two approvals, one preview, `MaxLost` 1 |
| `set_serial` | requests one after the other: `ApprovalBindsContent`, `RollbackOnlyOwnObject`, and the refinement of `ReviewedDeployment` | two sets, names, rules and catalogs, one request, no lost write, one expiry |
| `discovery_jobs` | `CompletedIsComplete`, `OutcomeStands`, `RunsEnd` | a crawled and a rejected job, two requests, two errors, one cancel in flight, one restart |
| `signature_sync` | `IndexIsVerified`, `ReportMatchesIndex`, `IndexFollowsSource` | four releases under two file names, verified by checksum or by signature, two faults |
| `adc_protection` | `OnlyReviewed`, `CleanFailure`, `RejectionSparesOthers`, `AppliedStands`, `NoHalfProtection` | two plans for one destination, with and without policy; one approval and preview, two applies, one rollback, one outside change, one fault |
| `guided_sessions` | `OneLoginPost`, `ReportedLogin`, `LabelsFollowLogin`, `ContextsBounded`, `StaleSessionsLeave` | two sessions, a limit of one, three GETs kept in a sequence of two, one fault |
| `guided_page` | `ReachedAsChecked`, `LinkedInItsAct`, `FormsStay` | thirteen elements, documents of two, two acts, two keys, two steps of scripts, one request, two events |
| `candidate_review` | `GuessesLimited`, `VersionNamesContent`, `AuditTellsHistory`, `ChangesInSession`, the refinement of `ReviewRegister` | two tabs, two models, three versions, two logins, a clock of three, one restart or change of keys |
| `learned_model` | `OwnTrafficPasses`, `NothingUnseen`, `RefusedForCause`, `MoreNeverLess`, `RestrictionsOnlyAdd` | four events (`MaxEvents`), eight requests, two answers, three cookies; two requests, one interaction and two cookies kept; two rows of a job; paths of two segments, one type and five fields at most; one restriction |
| `rule_selection` | `EvidenceNeeded`, `CveListIsEvidenced`, `DraftIsWhatWasAsked`, `MoreEvidenceOnlyAdds` | five rows, no index or one of two releases of nine and eight entries, five requests |
| `approval_race` | an approval lands on an edited content | two requests, one set |
| `foreign_rollback` | a rollback removes another set's object after a lost record | two sets, one request, `MaxLost` 1 |

The last two end in a counterexample: each quotes in PROJECT.json the sentence of
the repository that the code does not keep.  `ApprovalBindsContent` and
`RollbackOnlyOwnObject` appear on both sides: they hold while requests do not
overlap and no record is lost, and fail otherwise.

*Why the bounds are enough.*  Every check-then-act of the set workflow involves two
requests on one row; a third only repeats one of the two roles.  Two approvals
let an old and a new one exist at once, two sets and one name let them compete
for it, two catalogs let one of them lack a rule the other has.  One lost record
and one restart are what the failure scenarios need, and more of them only
combine with themselves.  Four releases contain a repair under the same name, a
release the parser finds nothing in, and the change from checksum to signature.
Two applies and a rollback are all the roles in a batch's interference, and one
fault may fall on any command of any of them, cleanup included.  A second session
contends for the limit and for the handlers; the third GET is the one that cuts
the sequence, once before and once after the login.  Two acts are the earlier and
the later one of a wrong credit, two script steps move the focus and replace an
element in one act.  A window of two ticks and a limit of two let attempts
straddle a window; three versions let a tab be two behind.  Two requests are what
a clash, a repetition or a mixture of labels takes, a third one cuts the sequence, and
the limits of the schema are such that a path, a type or a field too many is among
the inputs; four events make a candidate of two requests and change its evidence
twice before the next.  The index has a rule for every
way into a proposal and for every reason to leave one out.

*Symmetry* is used over approvals, previews and requests in the `set_*` runs,
over requests of one endpoint in `adc_protection`, over tabs and models in
`candidate_review`; nowhere where a liveness property is checked.

*Deadlock* is checked except where the system may really stop: in the discovery
runs when all jobs have ended, in `adc_protection` when all requests have, and in
`guided_page` when the bounded acts and scripts are used up.

*Mutants.* Each property of a passing run has a mutant beside the definition it
replaces: a dropped guard, a missing reset, an unconditional update, an index off
by one, a comparison left out.

## Fairness

`DiscoveryJob!Fairness`: a created request goes on to create its task, a task is
resumed when what it awaits is done, a cancel that has read its row goes on.  All
three are ready callbacks of asyncio or threads of its pool, and every wait of a
crawl has a timeout (httpx 15 s).  No fairness on late writes, deletes, cancels
or restarts.  `RunsEnd` exempts runs whose last write was late or lost, which is
where the code has no second attempt.

`SignatureSync!FairSpec`: the hourly loop wakes up again (`Event.wait` with a
timeout), and a check that started takes its next step (every download has a
timeout).  The vendor need not publish anything, and faults need not happen.
`IndexFollowsSource` exempts a dead thread: an error inside the error handler
ends it for good.  It is checked for a vendor that does not return to an older
release: if the container stops between `latest.json` and `state.json` and the
vendor then goes back, the next check finds nothing to do and the index stays on
the withdrawn release, and `ReportMatchesIndex` fails for the same reason.

`GuidedSession!Spec` has weak fairness on `Handler`: every browser call of a
handler has a timeout, so whoever holds the lock goes on.  Nothing is assumed of
operators, pages or faults.  `StaleSessionsLeave` is conditional on handlers
other than stop coming to the removal again and again; without requests nothing
removes a session, since there is no timer in the code.

## Proofs

| Module | Theorem | For |
|---|---|---|
| `CustomSignatureSet_proofs` | `TypeCorrect`, `GatedExportHolds`, `WritesAuditedHolds`, `HistoryAuditedHolds` | any sets, names, rules, catalogs; any number of overlapping requests and lost writes |
| | `ApprovalBindsContentHolds`, `ImplementsReviewedDeploymentHolds` | the same, as long as `Serial`: no two requests are in flight |
| | `RollbackOnlyOwnObjectHolds` | the same, as long as `Calm`: `Serial`, and no write has lost its record |
| `DiscoveryJob_proofs` | `TypeCorrect`, `CompletedIsCompleteHolds`, `OutcomeStandsHolds` | any jobs, cancels, fetches, errors and restarts |
| `SignatureSync_proofs` | `TypeCorrect`, `IndexIsVerifiedHolds` | any releases, any order of publication; the second with both verifications on |
| | `ReportMatchesIndexHolds` | any releases, for a vendor that puts no older release in the place of a newer one |
| `AdcProtection_proofs` | `TypeCorrect`, `OnlyReviewedHolds`, `CleanFailureHolds`, `AppliedStandsHolds`, `NoHalfProtectionHolds`, `RejectionSparesOthersHolds` | any plans, requests, administrators' changes and faults |
| `PositiveCandidate_proofs` | `VersionNamesContentHolds`, `AuditTellsHistoryHolds`, `ChangesInSessionHolds`, `ImplementsRegisterHolds`, `GuessesLimitedHolds` | any tabs, models, versions, session lifetimes; any limit and window |
| | `NothingUnseenHolds`, `OwnTrafficPassesHolds`, `RefusedForCauseHolds`, `MoreNeverLessHolds`, `RestrictionsOnlyAddHolds` | any site (`SiteAssumption`), any number of its requests, cookies and links, and any limits on what is kept and what the schema takes |
| `GuidedSession_proofs` | `OneLoginPostHolds`, `ReportedLoginHolds`, `LabelsFollowLoginHolds`, `ContextsBoundedHolds` | any sessions, limit, requests, faults, length of the sequence |
| `GuidedPage_proofs` | `ReachedAsCheckedHolds`, `LinkedInItsActHolds`, `FormsStayHolds` | any elements, documents, acts, keys, scripts |
| `RuleSelection_proofs` | `DraftIsWhatWasAskedHolds`, `MoreEvidenceOnlyAddsHolds` | any indexes, requests, aliases, rows |
| | `EvidenceNeededHolds`, `CveListIsEvidencedHolds` | the same, where entries published under one ID are of one product (`OneProduct`) |

They rest on the named assumptions of the modules only: `CatalogAssumption`,
`InputAssumption`, `RequestAssumption`, `SourceAssumption`, `CandidateAssumption`,
`SessionAssumption`, `PageAssumption`, `IndexAssumption`, `RowAssumption`,
`SiteAssumption`, and the `NoneAssumption`s, which say that None is none of the
values it stands beside; TLC evaluates them in every run.

*Hypotheses.*  `Serial` and `Calm` are where the code draws the line: the runs
`approval_race` and `foreign_rollback` break the properties without them.  The
catalog, the write flag, the approvals and the restarts still change at will.  A
vendor that goes back defeats `ReportMatchesIndex` (see Fairness); `Rank` is the
order of its releases.  `SiteAssumption` says what requests, cookies and names are
made of, that lower case is idempotent, and that a path has no more numbered
parameters than the model has names for them (the code counts on).
`PositiveCandidate_proofs` extends both modules of a candidate, so the definitions
of `LearnedModel` have names of their own (`LearningSpec`).  `OneProduct` is
needed because normalize_rule_catalog keeps the first entry of an ID and the product
index lists them all: a rule of another technology would be proposed for the product
of the entry that was dropped.

*CustomSignatureSet.* None of the three properties is inductive: they speak of
objects and rows, while what makes them true is carried by requests and commands
for many steps.  Type correctness is proved first, by one lemma per action.  The
safety invariant then says of each carrier what the last check established:

- `RowApprovals`: a row that names an approval names a review of that very set;
- `WriteRequests`: a write request holds a review of its own set and a preview that
  is ready for apply;
- `ImportsGated`: every import command under way is gated in the same sense;
- `CommandsAccounted`: the request that sent a command will audit it, or the entry
  it should have written is in `lost`;
- `RequestsAudited`: a rollback request starts from an audited export of its set,
  and a write request reaches its row update only after its own audit row.

`IInv` is type correctness with the first three and `GatedExport`; `AInv` is type
correctness with the last two, `WritesAudited` and `HistoryAudited`.
Each action preserves each part it can disturb; the rest is frame.

Without overlap a row stands while a request is in flight (`RowStands`).  `BInv`
follows the approved content from the row through the request and the transaction
to the object; the refinement needs it, and `PInv`, that every content was planned
from a proposal and a state of the catalog.  `OInv` says, while no record is lost,
that a set that says exported owns the object of its name, and that a write request
and its transaction have the row as it is.

*DiscoveryJob.*  `CompletedIsComplete` is about two tables, but three writers may
come to them.  The invariant says that a run has one writer, its task or the one
write the task left behind (`OneWriter`), that none is left once it has an outcome
(`EndedIsIdle`), and what the tables hold at each step of a task (`Collected`).
`OutcomeStands` follows: whoever else could write has gone.

*SignatureSync.* `IndexIsVerified` speaks of a file that is written three steps
after it was checked.  The invariant adds `ReadSoFar` (a check holds whatever its
earlier steps fetched), `SourceOK` (the file the source's mapping names is present in the source) and
`IndexOK` (the content of the index was verified against the checksum it records,
and yields rules).  `ReadSoFar` also says that between download and index the check
holds, and has written, a verified content.  With both verifications on, `Verified`
is agreement of content and checksum.

`RInv` adds, for `ReportMatchesIndex`, that the index is never newer than the
source, nor than what the check under way has read, and that a state in memory or
on disk is of the index or of an older release.  So an error that writes an old
state over a newer one is still told apart from success.

*AdcProtection.*  The properties say whose an object is; a batch knows only names.
The invariant carries, command by command, what remains to be done (`Todo`: the rest
of the creation, or the removals in order), and so which parts were made (`Made`).
`OwnedIsMade` ties the objects of a request to those parts and to the approved
fingerprint, `MadeStands` says that a part that was made is there, and saved at the
end, unless somebody removed the name, `BeforeIsOlder` and `MadeIsNew` that what was
there when a call began is not what it has made; the cleanup, which goes by what was
made, therefore spares it.  `Checked` and `Asked` carry approval and preview from the
check to the batch.

*PositiveCandidate.*  The two invariants are inductive together: that a saved
version is new to every tab needs that no copy is ahead of the row, and the audit's
length is the version.  The refinement uses `VersionNamesContent`: a tab whose
copy has the row's version has the row, so what it keeps of the body is current.

`GuessesLimited` is a counting argument: the attempts the code remembers are the
checks of the last window (`Counting`), a refused attempt adds none, and a window
that begins at an earlier check holds no more than the limit allowed when its last
one was admitted.

*LearnedModel.*  A candidate outlives the evidence it was built from, which goes on
growing and being cut.  The invariant `LInv` says that an unedited candidate was built
from what is in `handed`, and that of these requests all but the first `cut` are still
there, answered in the meantime or not (`Remains`).  `NothingUnseen` then follows each
field to its request, and `OwnTrafficPasses` goes the other way: every name the dry run
looks for is a field, or one of those it is told not to expect, and a template matches
each path it was made of.  `MoreNeverLess` counts: when none of an endpoint's requests
was cut, moving each to its new place is an injection into the requests of the same
endpoint, and the score grows with the samples.  `RefusedForCause` needs that an
endpoint has finitely many fields, that header names, which are kept in lower case, and
path parameters, which are numbered, never clash, and that hiding segments changes
neither the length of a path nor whether it begins with //.  `RestrictionsOnlyAdd`
follows one restriction through every finding, the ambiguity of the route included.

*GuidedSession.*  The properties speak of what a handler reports steps after the
browser acted.  `LoginInv` ties the entries of a session to what the browser did,
and says that the permission is open only while the handler of that session
submits or waits; `LabelInv` places what was seen after the login behind
`auth_sequence_start`, unless the sequence was cut, and says that nothing is
relabelled before the judgement; `LockInv` says which handler can be at which step.
`ContextsBounded` counts: `Slots` says that the table is within the limit, that the
handler that starts a session has room for it until it is in the table, and that the
contexts nobody will close are no more than the calls that raised.

*GuidedPage.*  `LookedAt` carries the permission from the look to the act: until a
script moves something, the element at the place, or with the focus, is the one
that was looked at, but for what the act itself typed.  `ArmedByLogin` ties the
flag to the attempt, `Dated` gives every interaction and request the time of an
act that has begun, so that what was found since the act began is of this act.

*RuleSelection.*  A plan holds a profile while the index changes.  The invariant says
that a plan, and what it shows, were made of the rows the job ended with under some
release (`Seen`), and that promotion and exception ask for IDs of the stored set,
which stays until they are carried out.  The rest are lemmas on the four ways into a
proposal: no two rules of an index have one ID, so an ID that came in by a tag, a
filter, an intent or a group came in for this rule.  `MoreEvidenceOnlyAdds` is the
monotonicity of four computations, one lemma each: the score of a technology, a
maximum over rows with a bonus for families (that a finite set has a greatest
element is itself proved, from the well-foundedness of its subsets); the score of a
tag; the intents and groups; and the applicability, by the way a rule came in.

*Only model-checked.* Liveness under fairness (`RunsEnd`, `IndexFollowsSource`,
`StaleSessionsLeave`) and anything with ENABLED are beyond the prover, as are facts
by induction over data and RECURSIVE operators, which the modules do not use.  All
other properties of the passing runs are theorems.

## Where code and documents part

Found while modelling, beside the two findings of PROJECT.json; the models follow
the code, and the properties are stated so that they hold of it.

- approve does not look at the status (main.py:3034): an exported set can be
  approved once more and then edited, though main.py:3011 says it cannot be; and a set
  that prepare, promote or exception stored as blocked-invalid-rule-selection, with
  fewer rules than were asked for, can be approved, preflighted and exported.
- preflight's preview may be of the content before an edit that overlapped it, and
  export takes any preview that is ready (main.py:3070, 3082).
- preflight compares the current catalog with the `catalog_fingerprint` column
  (main.py:3060), which an edit does not refresh: a set edited on a newer catalog
  reports drift for good.
- a discovery run reported as cancelled may be set back to running, by a thread that
  outlives its coroutine or by a task created afterwards, and a cancel may overwrite an
  outcome recorded after it had read the run as active (discovery-worker main.py:770,
  792-804).
- sync_once replaces the raw XML before it parses it (sync.py:328): an update the
  parser finds nothing in leaves the index alone, and exports are cut from the new
  file.  `Existing good data is preserved on an update error.`
  (WAF_ANALYSIS_ROADMAP.md:687).
- "a broad intent must not pull in product-specific rules for technologies that
  were not observed" (signature_workflow.py:153-155), but a rule of the product
  index whose class and words make it no candidate for a group does not count as
  product-specific (generic_signature_groups.py:174-178) and is proposed when an
  intent has its class, such as xml, or the path group its words.
  `EvidenceNeeded` is therefore about rules with a tag or a CVE.
- "File-upload rules require upload evidence" (README.md:34), but a description
  that says "upload" without "file upload" matches the path group without any
  (generic_signature_groups.py:88-92, 145-152).
- an empty list of groups asks for all groups (generic_signature_groups.py:193),
  an empty list of rules promotes all (protection_lifecycle.py:28).
- a set that was edited or promoted is planned by IDs alone: the basis "explicit"
  of its rules, and the CVE entries of rules that were not detected, are gone
  (signature_workflow.py:214-231, confidence.py:57-91).

## Not modelled

*Stateless, and no step relies on the answer:* parsing and fingerprinting of pages
(technology_detection.py), inventory parsing (cli_inventory.py, nextgen.py), the
report of analysis-service, the login journey plan, the compile preview, the
correlation of scopes with inventories, the frontend and tools.

*Cannot change an ADC:* the ADC plans of the older kind (control-api main.py
1793-1965, 3244-3306) and the older signature-set workflow (2525-2861).  Their
writes end in the adapter's 501 (adapter main.py 85-95, 450-453, 502-505), and the
rollback of the latter in a NameError (`quote` is not imported, main.py:2811).
Their approvals and previews share tables with the modelled plans but carry their
own job key and fingerprint, which every reader compares.

*Single statements:* saved connections, CSP reports, proxies.

*Outside the models' reach:* the remote file two exports may share, administrators
who bind signature objects while a set is rolled back (whether the ADC refuses is
not in the repository), and the 5 s after which control-api gives up on a job that
runs.  The `hazards` without a property say so at their line.
