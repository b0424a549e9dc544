------------------------- MODULE CustomSignatureSet -------------------------
(***************************************************************************)
(* The guarded custom signature-set workflow of control-api: prepare, edit, *)
(* approve, preflight, export and rollback of a row of the table            *)
(* netscaler_custom_signature_sets, with the ADC behind netscaler-adapter.  *)
(*                                                                          *)
(* Every handler is a coroutine whose database calls are transactions of    *)
(* their own, run in threads: other requests interleave at each await.  A   *)
(* request therefore takes one action per stretch between two awaits that   *)
(* touch shared state, and carries what it read in req[q].                  *)
(*                                                                          *)
(* A plan fingerprint is the SHA-256 of the export-relevant fields, so it   *)
(* is modelled by those fields themselves.  The job, hostname and NSIP of a *)
(* set are fixed; its object name, action, rule IDs and catalog are not.    *)
(***************************************************************************)
EXTENDS Naturals, FiniteSets

CONSTANTS
  Sets,       \* identities custom_signature_set_id can take
  Names,      \* AppFW signature object names
  Rules,      \* rule IDs
  Catalogs,   \* normalized upstream catalogs, told apart by their fingerprint
  RulesIn,    \* the rule IDs of a catalog, none for the absent one
  Proposals,  \* the contents operators ask for
  Approvals,  \* identities approval_id can take (uuid4)
  Previews,   \* identities preview_id can take (uuid4)
  Requests,   \* HTTP requests that can be in flight at once
  IndexStates, \* the states the upstream index goes through
  WriteModes, \* the values the containers are given for the write flag
  MaxExpired, \* bound on approvals that expire
  MaxLost,    \* bound on ADC writes whose record is lost
  None

Actions == {"LOG", "BLOCK"}
Contents == [name : Names, action : Actions, rules : SUBSET Rules]
Fingerprints == [name : Names, action : Actions, rules : SUBSET Rules,
                 catalog : Catalogs \cup {None}]

RowStatuses == {"draft", "blocked-upstream-catalog", "blocked-invalid-rule-selection",
                "blocked-no-applicable-rules", "edited", "approved", "exported",
                "rolled-back"}
PreviewStatuses == {"drift-detected", "blocked-write-disabled", "ready-for-apply"}

Rows == [status : RowStatuses, content : Contents, fp : Fingerprints,
         catfp : Catalogs \cup {None}, approval : Approvals \cup {None},
         preview : Previews \cup {None}, applied : BOOLEAN]
PreviewRows == [set : Sets, approval : Approvals, fp : Fingerprints,
                status : PreviewStatuses]
Reviews == [set : Sets, fp : Fingerprints]
Objects == [set : Sets, content : Contents, fp : Fingerprints,
            approval : Approvals, preview : Previews]
Commands == [kind : {"import", "rm"}, by : Requests \cup {None}, set : Sets,
             content : Contents, fp : Fingerprints, approval : Approvals,
             preview : Previews]
Operations == {"edit", "approve", "preflight", "export", "rollback"}
InFlight == [op : Operations, at : {"plan", "inventory", "adc", "audit", "update"},
             set : Sets, content : Contents, fp : Fingerprints \cup {None},
             catfp : Catalogs \cup {None}, clean : BOOLEAN,
             approval : Approvals \cup {None}, preview : Previews \cup {None}]
Entries == [op : {"export", "rollback"}, set : Sets, approval : Approvals]

ASSUME CatalogAssumption ==
  /\ RulesIn \in [Catalogs \cup {None} -> SUBSET Rules]
  /\ RulesIn[None] = {}

ASSUME InputAssumption ==
  /\ Proposals \subseteq Contents
  /\ IndexStates \subseteq Catalogs \cup {None}
  /\ WriteModes \subseteq BOOLEAN

\* None is the SQL NULL, the missing row and the idle request.
ASSUME NoneAssumption ==
  /\ None \notin Catalogs \cup Approvals \cup Previews \cup Requests
  /\ None \notin Fingerprints \cup Rows \cup PreviewRows \cup Reviews
                              \cup Objects \cup InFlight

VARIABLES
  rows,      \* netscaler_custom_signature_sets
  previews,  \* netscaler_change_previews
  audit,     \* netscaler_write_audit; a row names its set and approval here
  reviews,   \* what the operator had approved when an approval_id was issued
  expired,   \* approvals whose expires_at has passed
  catalog,   \* the upstream index as load_upstream_catalog reads it
  writable,  \* NETSCALER_WRITE_ENABLED of the running containers
  objects,   \* the AppFW signature objects on the ADC
  commands,  \* CLI transactions handed to the adapter and not run yet
  req,       \* the requests in flight
  lost       \* write requests that ended after the ADC was asked, unrecorded

tables == <<rows, previews, audit>>
adc == <<objects, commands>>
env == <<expired, catalog, writable>>
vars == <<tables, adc, env, reviews, req, lost>>

-----------------------------------------------------------------------------
(* build_custom_signature_set_plan and workflow_fingerprint *)

\* select_rules_for_detection keeps the requested IDs the catalog has.
Selected(p, c) == [p EXCEPT !.rules = @ \cap RulesIn[c]]

Fingerprint(p, c) ==
  [name |-> p.name, action |-> p.action, rules |-> p.rules \cap RulesIn[c],
   catalog |-> c]

PlanStatus(p, c) ==
  IF c = None THEN "blocked-upstream-catalog"
  ELSE IF ~ (p.rules \subseteq RulesIn[c]) THEN "blocked-invalid-rule-selection"
  ELSE IF p.rules = {} THEN "blocked-no-applicable-rules"
  ELSE "draft"

Draft(p, c) ==
  [status |-> PlanStatus(p, c), content |-> Selected(p, c),
   fp |-> Fingerprint(p, c), catfp |-> c, approval |-> None, preview |-> None,
   applied |-> FALSE]

-----------------------------------------------------------------------------
Idle(q) == req[q] = None
At(q, op, step) == req[q] # None /\ req[q].op = op /\ req[q].at = step
Begin(q, r) == req' = [req EXCEPT ![q] = r]
Finish(q) == req' = [req EXCEPT ![q] = None]
GoTo(q, step) == req' = [req EXCEPT ![q].at = step]

Entry(r) == [op |-> r.op, set |-> r.set, approval |-> r.approval]

Init ==
  /\ rows = [s \in Sets |-> None]
  /\ previews = [v \in Previews |-> None]
  /\ audit = {}
  /\ reviews = [a \in Approvals |-> None]
  /\ expired = {}
  /\ catalog \in IndexStates
  /\ writable \in WriteModes
  /\ objects = [n \in Names |-> None]
  /\ commands = {}
  /\ req = [q \in Requests |-> None]
  /\ lost = {}

-----------------------------------------------------------------------------
(* Drafts.  Nothing else can see a row before it is inserted, so the plan    *)
(* and the INSERT are one action.                                            *)

Insert(s, p) ==
  /\ rows[s] = None
  /\ rows' = [rows EXCEPT ![s] = Draft(p, catalog)]
  /\ UNCHANGED <<previews, audit, adc, env, reviews, req, lost>>

Prepare(s, p) == Insert(s, p)

Promote(source, s, p) ==
  /\ rows[source] # None
  /\ rows[source].status \in {"exported", "approved", "edited", "draft"}
  /\ p.action = "BLOCK"
  /\ p.rules # {} /\ p.rules \subseteq rows[source].content.rules
  /\ Insert(s, p)

Exception(source, s, p) ==
  /\ rows[source] # None
  /\ p.action = rows[source].content.action
  /\ p.rules # {} /\ p.rules \subseteq rows[source].content.rules
  /\ Insert(s, p)

-----------------------------------------------------------------------------
(* PATCH: load, plan, one unconditional UPDATE *)

EditLoad(q, s, p) ==
  /\ Idle(q) /\ rows[s] # None
  /\ rows[s].status \notin {"exported", "rolled-back"}
  /\ Begin(q, [op |-> "edit", at |-> "plan", set |-> s, content |-> p,
               fp |-> None, catfp |-> None, clean |-> FALSE,
               approval |-> None, preview |-> None])
  /\ UNCHANGED <<tables, adc, env, reviews, lost>>

EditPlan(q) ==
  /\ At(q, "edit", "plan")
  /\ PlanStatus(req[q].content, catalog) = "draft"
  /\ req' = [req EXCEPT ![q].fp = Fingerprint(req[q].content, catalog),
                        ![q].at = "update"]
  /\ UNCHANGED <<tables, adc, env, reviews, lost>>

\* Mutant of EditUpdate: the edit leaves the approval standing.
EditUpdateKeepsApproval(q) ==
  /\ At(q, "edit", "update")
  /\ rows' = [rows EXCEPT ![req[q].set].content = req[q].content,
                          ![req[q].set].fp = req[q].fp,
                          ![req[q].set].preview = None]
  /\ Finish(q)
  /\ UNCHANGED <<previews, audit, adc, env, reviews, lost>>

\* catalog_fingerprint is not among the columns the UPDATE may set.
EditUpdate(q) ==
  /\ At(q, "edit", "update")
  /\ rows' = [rows EXCEPT ![req[q].set].status = "edited",
                          ![req[q].set].content = req[q].content,
                          ![req[q].set].fp = req[q].fp,
                          ![req[q].set].approval = None,
                          ![req[q].set].preview = None]
  /\ Finish(q)
  /\ UNCHANGED <<previews, audit, adc, env, reviews, lost>>

-----------------------------------------------------------------------------
(* Approve: the fingerprint is compared with the row as loaded; the UPDATE   *)
(* that follows names the row by its id only, whatever its status.           *)

ApproveLoad(q, s, f) ==
  /\ Idle(q) /\ rows[s] # None
  /\ rows[s].fp = f
  /\ Begin(q, [op |-> "approve", at |-> "update", set |-> s,
               content |-> rows[s].content, fp |-> f, catfp |-> None,
               clean |-> FALSE, approval |-> None, preview |-> None])
  /\ UNCHANGED <<tables, adc, env, reviews, lost>>

ApproveUpdate(q, a) ==
  /\ At(q, "approve", "update")
  /\ reviews[a] = None
  /\ rows' = [rows EXCEPT ![req[q].set].status = "approved",
                          ![req[q].set].approval = a]
  /\ reviews' = [reviews EXCEPT ![a] = [set |-> req[q].set, fp |-> req[q].fp]]
  /\ Finish(q)
  /\ UNCHANGED <<previews, audit, adc, env, lost>>

-----------------------------------------------------------------------------
(* Preflight: load, plan, ADC inventory and preview, one UPDATE *)

ApprovedRow(s, a, f) ==
  /\ rows[s] # None
  /\ rows[s].status = "approved"
  /\ rows[s].approval = a
  /\ rows[s].fp = f

PreflightLoad(q, s, a, f) ==
  /\ Idle(q) /\ ApprovedRow(s, a, f)
  /\ a \notin expired
  /\ Begin(q, [op |-> "preflight", at |-> "plan", set |-> s,
               content |-> rows[s].content, fp |-> f,
               catfp |-> rows[s].catfp, clean |-> FALSE,
               approval |-> a, preview |-> None])
  /\ UNCHANGED <<tables, adc, env, reviews, lost>>

\* The checks "Plan fingerprint", "Catalog integrity" and "Rule selection".
NoDrift(r, c) ==
  /\ Fingerprint(r.content, c) = r.fp
  /\ PlanStatus(r.content, c) = "draft"
  /\ c = r.catfp

PreflightPlan(q) ==
  /\ At(q, "preflight", "plan")
  /\ req' = [req EXCEPT ![q].clean = NoDrift(req[q], catalog),
                        ![q].at = "inventory"]
  /\ UNCHANGED <<tables, adc, env, reviews, lost>>

PreflightStatus(r) ==
  IF ~ r.clean \/ objects[r.content.name] # None THEN "drift-detected"
  ELSE IF writable THEN "ready-for-apply"
  ELSE "blocked-write-disabled"

PreflightPreview(q, v) ==
  /\ At(q, "preflight", "inventory")
  /\ previews[v] = None
  /\ previews' = [previews EXCEPT ![v] =
                    [set |-> req[q].set, approval |-> req[q].approval,
                     fp |-> req[q].fp, status |-> PreflightStatus(req[q])]]
  /\ req' = [req EXCEPT ![q].preview = v, ![q].at = "update"]
  /\ UNCHANGED <<rows, audit, adc, env, reviews, lost>>

\* preflight_status is always the status of the preview written with it.
PreflightUpdate(q) ==
  /\ At(q, "preflight", "update")
  /\ rows' = [rows EXCEPT ![req[q].set].preview = req[q].preview]
  /\ Finish(q)
  /\ UNCHANGED <<previews, audit, adc, env, reviews, lost>>

-----------------------------------------------------------------------------
(* Export and rollback: load the row and the preview the client names, check *)
(* again, hand the CLI transaction to the adapter, audit it, update the row. *)

Ready(v) == previews[v] # None /\ previews[v].status = "ready-for-apply"

WriteRequest(op, s, v) ==
  [op |-> op, at |-> "plan", set |-> s, content |-> rows[s].content,
   fp |-> rows[s].fp, catfp |-> None, clean |-> FALSE,
   approval |-> rows[s].approval, preview |-> v]

Send(q, kind) ==
  /\ commands' = commands \cup
       {[kind |-> kind, by |-> q, set |-> req[q].set, content |-> req[q].content,
         fp |-> req[q].fp, approval |-> req[q].approval,
         preview |-> req[q].preview]}
  /\ GoTo(q, "adc")

\* Mutant of ExportLoad: the preview the client names is not looked at.
ExportLoadAnyPreview(q, s, a, f, v) ==
  /\ Idle(q) /\ writable
  /\ ApprovedRow(s, a, f)
  /\ Begin(q, WriteRequest("export", s, v))
  /\ UNCHANGED <<tables, adc, env, reviews, lost>>

ExportLoad(q, s, a, f, v) ==
  /\ Idle(q) /\ writable
  /\ ApprovedRow(s, a, f) /\ Ready(v)
  /\ Begin(q, WriteRequest("export", s, v))
  /\ UNCHANGED <<tables, adc, env, reviews, lost>>

ExportPlan(q) ==
  /\ At(q, "export", "plan")
  /\ Fingerprint(req[q].content, catalog) = req[q].fp
  /\ PlanStatus(req[q].content, catalog) = "draft"
  /\ Send(q, "import")
  /\ UNCHANGED <<tables, objects, env, reviews, lost>>

RollbackFrom(statuses, q, s, a, f, v) ==
  /\ Idle(q) /\ writable
  /\ rows[s] # None /\ rows[s].status \in statuses
  /\ rows[s].approval = a /\ rows[s].fp = f /\ Ready(v)
  /\ Begin(q, WriteRequest("rollback", s, v))
  /\ UNCHANGED <<tables, adc, env, reviews, lost>>

\* Mutants of RollbackLoad: before the export, and a second time after it.
RollbackLoadUnexported(q, s, a, f, v) ==
  RollbackFrom({"exported", "approved"}, q, s, a, f, v)

RollbackLoadTwice(q, s, a, f, v) ==
  RollbackFrom({"exported", "rolled-back"}, q, s, a, f, v)

RollbackLoad(q, s, a, f, v) == RollbackFrom({"exported"}, q, s, a, f, v)

\* The reference check: the AppFW inventories are the ADC's own, so the
\* refusal (409) is one of the ways Refuse ends a request.
RollbackCheck(q) ==
  /\ At(q, "rollback", "plan")
  /\ Send(q, "rm")
  /\ UNCHANGED <<tables, objects, env, reviews, lost>>

Audit(q) ==
  /\ req[q] # None /\ req[q].at = "audit"
  /\ audit' = audit \cup {Entry(req[q])}
  /\ GoTo(q, "update")
  /\ UNCHANGED <<rows, previews, adc, env, reviews, lost>>

\* Mutant of ExportUpdate: the status word of the older signature-set workflow.
ExportUpdateApplied(q) ==
  /\ At(q, "export", "update")
  /\ rows' = [rows EXCEPT ![req[q].set].status = "applied",
                          ![req[q].set].applied = TRUE]
  /\ Finish(q)
  /\ UNCHANGED <<previews, audit, adc, env, reviews, lost>>

ExportUpdate(q) ==
  /\ At(q, "export", "update")
  /\ rows' = [rows EXCEPT ![req[q].set].status = "exported",
                          ![req[q].set].applied = TRUE]
  /\ Finish(q)
  /\ UNCHANGED <<previews, audit, adc, env, reviews, lost>>

RollbackUpdate(q) ==
  /\ At(q, "rollback", "update")
  /\ rows' = [rows EXCEPT ![req[q].set].status = "rolled-back",
                          ![req[q].set].applied = FALSE]
  /\ Finish(q)
  /\ UNCHANGED <<previews, audit, adc, env, reviews, lost>>

-----------------------------------------------------------------------------
(* The adapter and the ADC.  An import under a name that exists and the      *)
(* removal of an object that does not are rejected by the ADC CLI.           *)

Imported(c) ==
  [objects EXCEPT ![c.content.name] = [set |-> c.set, content |-> c.content,
                                       fp |-> c.fp, approval |-> c.approval,
                                       preview |-> c.preview]]

\* Mutant of Runs: the import is sent with -overwrite.
RunsOverwriting(c) ==
  /\ c \in commands /\ writable
  /\ commands' = commands \ {c}
  /\ \/ c.kind = "import" /\ objects' = Imported(c)
     \/ /\ c.kind = "rm" /\ objects[c.content.name] # None
        /\ objects' = [objects EXCEPT ![c.content.name] = None]

Runs(c) ==
  /\ c \in commands /\ writable
  /\ commands' = commands \ {c}
  /\ \/ /\ c.kind = "import" /\ objects[c.content.name] = None
        /\ objects' = Imported(c)
     \/ /\ c.kind = "rm" /\ objects[c.content.name] # None
        /\ objects' = [objects EXCEPT ![c.content.name] = None]

Lose(entries) ==
  /\ lost' = lost \cup entries
  /\ Cardinality(lost') <= MaxLost

\* Mutant of AdapterAnswers: the handler goes on to the UPDATE without the audit.
AdapterAnswersUnaudited(c) ==
  /\ Runs(c)
  /\ req' = IF c.by = None THEN req ELSE [req EXCEPT ![c.by].at = "update"]
  /\ UNCHANGED <<tables, env, reviews, lost>>

AdapterAnswers(c) ==
  /\ Runs(c)
  /\ req' = IF c.by = None THEN req ELSE [req EXCEPT ![c.by].at = "audit"]
  /\ UNCHANGED <<tables, env, reviews, lost>>

\* The object changed but a later command of the batch failed or its prompt
\* timed out: the adapter answers 502 and the handler records nothing.
AdapterFailsLate(c) ==
  /\ c.by # None /\ Runs(c)
  /\ Lose({Entry(req[c.by])})
  /\ Finish(c.by)
  /\ UNCHANGED <<tables, env, reviews>>

AdapterRejects(c) ==
  /\ c \in commands
  /\ commands' = commands \ {c}
  /\ req' = IF c.by = None THEN req ELSE [req EXCEPT ![c.by] = None]
  /\ UNCHANGED <<tables, objects, env, reviews, lost>>

-----------------------------------------------------------------------------
(* How requests end early *)

Writing(r) == r # None /\ r.op \in {"export", "rollback"} /\ r.at # "plan"

\* 4xx answers and failed reads or updates: nothing was changed.
Refuse(q) ==
  /\ ~ Idle(q) /\ ~ Writing(req[q])
  /\ Finish(q)
  /\ UNCHANGED <<tables, adc, env, reviews, lost>>

Orphaned(Q) ==
  { [c EXCEPT !.by = IF @ \in Q THEN None ELSE @] : c \in commands }

\* The adapter call times out, or the audit or the UPDATE fails: the request
\* ends with an error while its CLI transaction may still run.
GiveUp(q) ==
  /\ Writing(req[q])
  /\ Lose({Entry(req[q])})
  /\ commands' = Orphaned({q})
  /\ Finish(q)
  /\ UNCHANGED <<tables, objects, env, reviews>>

\* The control-api container is stopped or recreated, which is also how the
\* write flag changes.
Restart(flag) ==
  /\ Lose({Entry(req[q]) : q \in {p \in Requests : Writing(req[p])}})
  /\ req' = [q \in Requests |-> None]
  /\ commands' = Orphaned(Requests)
  /\ writable' = flag
  /\ UNCHANGED <<tables, objects, expired, catalog, reviews>>

-----------------------------------------------------------------------------
(* The environment: signature-sync publishes an index, time passes *)

CatalogChanges(c) ==
  /\ c # catalog
  /\ catalog' = c
  /\ UNCHANGED <<tables, adc, expired, writable, reviews, req, lost>>

Expire(a) ==
  /\ reviews[a] # None
  /\ expired' = expired \cup {a}
  /\ Cardinality(expired') <= MaxExpired
  /\ UNCHANGED <<tables, adc, catalog, writable, reviews, req, lost>>

Drafting ==
  \E s \in Sets, p \in Proposals :
    \/ Prepare(s, p)
    \/ \E source \in Sets : Promote(source, s, p) \/ Exception(source, s, p)

RequestStep(q) ==
  \/ \E s \in Sets, p \in Proposals : EditLoad(q, s, p)
  \/ EditPlan(q)
  \/ EditUpdate(q)
  \/ \E s \in Sets : rows[s] # None /\ ApproveLoad(q, s, rows[s].fp)
  \/ \E a \in Approvals : ApproveUpdate(q, a)
  \/ \E s \in Sets, a \in Approvals :
       rows[s] # None /\ PreflightLoad(q, s, a, rows[s].fp)
  \/ PreflightPlan(q)
  \/ \E v \in Previews : PreflightPreview(q, v)
  \/ PreflightUpdate(q)
  \/ \E s \in Sets, a \in Approvals, v \in Previews :
       rows[s] # None /\ (\/ ExportLoad(q, s, a, rows[s].fp, v)
                          \/ RollbackLoad(q, s, a, rows[s].fp, v))
  \/ ExportPlan(q)
  \/ RollbackCheck(q)
  \/ Audit(q)
  \/ ExportUpdate(q)
  \/ RollbackUpdate(q)
  \/ Refuse(q)
  \/ GiveUp(q)

AdapterStep ==
  \E c \in commands : AdapterAnswers(c) \/ AdapterFailsLate(c) \/ AdapterRejects(c)

Environment ==
  \/ \E flag \in WriteModes : Restart(flag)
  \/ \E c \in IndexStates : CatalogChanges(c)
  \/ \E a \in Approvals : Expire(a)

Next == Drafting \/ (\E q \in Requests : RequestStep(q)) \/ AdapterStep \/ Environment

Spec == Init /\ [][Next]_vars

-----------------------------------------------------------------------------
(* Properties *)

TypeOK ==
  /\ rows \in [Sets -> Rows \cup {None}]
  /\ previews \in [Previews -> PreviewRows \cup {None}]
  /\ audit \subseteq Entries
  /\ reviews \in [Approvals -> Reviews \cup {None}]
  /\ expired \subseteq Approvals
  /\ catalog \in Catalogs \cup {None}
  /\ writable \in BOOLEAN
  /\ objects \in [Names -> Objects \cup {None}]
  /\ commands \subseteq Commands
  /\ req \in [Requests -> InFlight \cup {None}]
  /\ lost \subseteq Entries

\* What an export must have behind it: an approval issued for this very set, a
\* preflight that came out ready, and a fingerprint that states exactly the
\* name, action and rules imported, all of them rules of the planned catalog.
Gated(r) ==
  /\ reviews[r.approval] # None /\ reviews[r.approval].set = r.set
  /\ previews[r.preview] # None /\ previews[r.preview].status = "ready-for-apply"
  /\ r.content.rules # {}
  /\ r.fp.catalog # None
  /\ Fingerprint(r.content, r.fp.catalog) = r.fp
  /\ r.content.rules \subseteq RulesIn[r.fp.catalog]

\* Every signature object on the ADC went through the gates of the export
\* handler, whatever other requests, restarts, timeouts and catalog updates did
\* while it ran, and late transactions included.
GatedExport ==
  \A n \in Names :
    objects[n] # None => objects[n].content.name = n /\ Gated(objects[n])

\* No silent write: an object on the ADC is accounted for by a row of the write
\* audit, by the request about to write that row, or by a request known to have
\* failed between the ADC's answer and the audit.
WritesAudited ==
  \A n \in Names : objects[n] # None =>
    LET e == [op |-> "export", set |-> objects[n].set,
              approval |-> objects[n].approval]
    IN  \/ e \in audit \cup lost
        \/ \E q \in Requests : At(q, "export", "audit") /\ Entry(req[q]) = e

\* The record never runs ahead of the audit: a set that says exported, or that
\* its changes are applied, has an audited export; one that says rolled-back has
\* an audited rollback; and no removal is sent or audited for a set whose export
\* was never audited.
Audited(op, s) == \E a \in Approvals : [op |-> op, set |-> s, approval |-> a] \in audit

HistoryAudited ==
  /\ \A s \in Sets : rows[s] # None =>
       /\ rows[s].status = "exported" => rows[s].applied
       /\ rows[s].applied => Audited("export", s)
       /\ rows[s].status = "rolled-back" => ~ rows[s].applied /\ Audited("rollback", s)
  /\ \A c \in commands : c.kind = "rm" => Audited("export", c.set)
  /\ \A e \in audit : e.op = "rollback" => Audited("export", e.set)

\* An approval covers what was reviewed: the fingerprint of a row that stands
\* approved is the one the approval was given for, and so is that of every
\* object exported under it.
ApprovalBindsContent ==
  /\ \A s \in Sets : rows[s] # None /\ rows[s].status = "approved" =>
       reviews[rows[s].approval] = [set |-> s, fp |-> rows[s].fp]
  /\ \A n \in Names : objects[n] # None =>
       reviews[objects[n].approval] = [set |-> objects[n].set, fp |-> objects[n].fp]

\* A rollback removes the object its own set exported, never an object another
\* set has put under the same name.
RollbackOnlyOwnObject ==
  \A c \in commands :
    c.kind = "rm" /\ objects[c.content.name] # None =>
      objects[c.content.name].set = c.set

-----------------------------------------------------------------------------
(* The abstraction: an item is a set together with a fingerprint.  What is    *)
(* deployed is stated from the imported content, not from the fingerprint.   *)

Reviewable ==
  {[set |-> s, fp |-> Fingerprint(p, c)] :
     s \in Sets, p \in Proposals, c \in IndexStates}

ReviewedItems == {reviews[a] : a \in {b \in Approvals : reviews[b] # None}}

DeployedItem(o) ==
  IF o = None THEN None
  ELSE [set |-> o.set,
        fp |-> [name |-> o.content.name, action |-> o.content.action,
                rules |-> o.content.rules, catalog |-> o.fp.catalog]]

ItemName(i) == i.fp.name

Deployment == INSTANCE ReviewedDeployment WITH
  Items <- Reviewable, NameOf <- ItemName, Empty <- None,
  reviewed <- ReviewedItems,
  deployed <- [n \in Names |-> DeployedItem(objects[n])]

\* While requests do not overlap, the workflow is a reviewed deployment: each of
\* its steps reviews, deploys or removes one item, or changes neither.
ImplementsReviewedDeployment == Deployment!Spec
=============================================================================
