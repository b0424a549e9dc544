--------------------------- MODULE AdcProtection ---------------------------
(***************************************************************************)
(* The one guarded write that creates AppFW protection: a new profile, a    *)
(* policy for it and the policy's binding to an LB vServer.  Operators      *)
(* approve a plan, preflight it and apply it through control-api; the       *)
(* adapter types the commands into an SSH shell of the ADC, undoes what a   *)
(* failed batch did, and can be asked to remove the protection again.       *)
(*                                                                          *)
(* Nothing locks the ADC: several batches, and administrators, interleave   *)
(* command by command.  control-api waits 20 s for a batch in which every   *)
(* command may take 30 s, so a batch outlives the request that asked for it.*)
(*                                                                          *)
(* An ADC object is <<kind, name>>; its entry says which request created it *)
(* and what it refers to.  A plan fingerprint hashes the plan with what was *)
(* read from the ADC; the plan is carried beside it, so it is modelled by   *)
(* what was read.  A row's identity is the request that inserted it.        *)
(***************************************************************************)
EXTENDS Naturals, Sequences, FiniteSets

CONSTANTS
  Plans,      \* duplicate plans: records [dest, sig, policy]
  Signatures, \* signature objects that plans name
  Approves, Preflights, Applies, Rollbacks,  \* requests, by endpoint
  WriteModes, \* the values NETSCALER_WRITE_ENABLED may have
  MaxOutside, \* bound on what administrators change
  MaxFaults,  \* bound on refused, lost and unanswered commands
  None

Writes == Applies \cup Rollbacks
Requests == Approves \cup Preflights \cup Writes

\* A plan without a policy has no binding either: the vServer of a plan is
\* part of its binding's name.
Obj(p, k) == CASE k = 1 -> <<"profile", p.dest>>
               [] k = 2 -> <<"policy", p.policy>>
               [] k = 3 -> <<"binding", p.policy>>
Size(p) == IF p.policy = None THEN 1 ELSE 3
Parts(p) == 1..Size(p)
ObjectsOf(p) == {Obj(p, k) : k \in Parts(p)}
SigObj(s) == <<"signatures", s>>
Objects == (UNION {ObjectsOf(p) : p \in Plans}) \cup {SigObj(s) : s \in Signatures}

Add(k) == [op |-> "add", k |-> k]
Rm(k) == [op |-> "rm", k |-> k]
Save == [op |-> "save", k |-> 0]

\* Who created an object: a request, or an administrator by the number of the change.
Owners == Writes \cup 0..MaxOutside

Statuses == {"drift-detected", "ready-for-apply", "blocked-write-disabled"}
Fingerprints == [src : Nat, check : {"not-requested", "passed", "failed"}]
Approvals == [plan : Plans, fp : Fingerprints]
Previews == [approval : Approves, status : Statuses]
Calls == [at : {"run", "cleanup", "applied", "failed", "error"},
          todo : Seq([op : {"add", "rm", "save"}, k : 0..3]), src : Nat,
          lost : BOOLEAN, clean : BOOLEAN, before : SUBSET (Objects \X Owners)]

\* Every request is of one endpoint; administrators are not requests.
ASSUME RequestAssumption ==
  /\ Approves \cap Preflights = {} /\ Approves \cap Writes = {}
  /\ Preflights \cap Writes = {} /\ Applies \cap Rollbacks = {}
  /\ \A q \in Requests : q \notin 0..MaxOutside
  /\ WriteModes \subseteq BOOLEAN
  /\ MaxOutside \in Nat /\ MaxFaults \in Nat
  /\ \A p \in Plans : p.sig \in Signatures \cup {None}

\* None is the missing row and the batch that nobody asked for.
ASSUME NoneAssumption == None \notin Approvals \cup Previews \cup Calls

VARIABLES
  running,   \* the ADC's configuration: object -> [owner, ref]
  saved,     \* what `save ns config` last wrote
  source,    \* the state of the source profile, counted
  writable,  \* NETSCALER_WRITE_ENABLED
  approvals, \* netscaler_plan_approvals, by the request that inserted it
  expired,   \* approvals whose expires_at has passed
  previews,  \* netscaler_change_previews, by the request that inserted it
  audit,     \* writes that have a row in netscaler_write_audit
  req,       \* the requests
  call,      \* the batches the adapter was asked for
  outside,   \* administrators' changes so far
  faults     \* faults so far

adc == <<running, saved, source>>
tables == <<approvals, previews, audit>>
bounds == <<outside, faults>>
vars == <<adc, writable, tables, expired, req, call, bounds>>

-----------------------------------------------------------------------------
(* The ADC's commands, as the order of the batches relies on them. *)

\* What part k refers to: the profile to a signature object, or to the state of
\* the source it was copied from; the policy to the profile, the binding to the
\* policy.
Ref(p, src, k) ==
  CASE k = 1 /\ p.sig # None -> SigObj(p.sig)
    [] k = 1 /\ p.sig = None -> <<"source", src>>
    [] OTHER                 -> Obj(p, k - 1)

Referenced(o) == \E x \in DOMAIN running : running[x].ref = o

Possible(p, src, c) ==
  CASE c.op = "add" ->
         /\ Obj(p, c.k) \notin DOMAIN running
         /\ Ref(p, src, c.k) \in DOMAIN running \cup {<<"source", src>>}
    [] c.op = "rm" -> Obj(p, c.k) \in DOMAIN running /\ ~ Referenced(Obj(p, c.k))
    [] c.op = "save" -> TRUE

With(f, o, e) == [x \in DOMAIN f \cup {o} |-> IF x = o THEN e ELSE f[x]]
Without(f, o) == [x \in DOMAIN f \ {o} |-> f[x]]

Execute(q, p, src, c) ==
  /\ running' = CASE c.op = "add" -> With(running, Obj(p, c.k),
                                          [owner |-> q, ref |-> Ref(p, src, c.k)])
                  [] c.op = "rm" -> Without(running, Obj(p, c.k))
                  [] OTHER -> running
  /\ saved' = IF c.op = "save" THEN running ELSE saved
  /\ UNCHANGED source

-----------------------------------------------------------------------------
(* control-api.  Handlers read the ADC through the adapter in two steps at    *)
(* least: the profiles, then the signature objects and vServers.              *)

At(q, step) == req[q].at = step
Idle(q) == At(q, "idle")
Begin(q, step, p, a, v) ==
  req' = [req EXCEPT ![q] = [at |-> step, plan |-> p, approval |-> a, preview |-> v,
                             src |-> 0]]
GoTo(q, step) == req' = [req EXCEPT ![q].at = step]
End(q) == req' = [req EXCEPT ![q] = [@ EXCEPT !.at = "ended", !.src = 0]]

Init ==
  /\ running = [o \in {SigObj(s) : s \in Signatures} |-> [owner |-> 0, ref |-> None]]
  /\ saved = running
  /\ source = 0
  /\ writable \in WriteModes
  /\ approvals = [a \in Approves |-> None]
  /\ expired = {}
  /\ previews = [v \in Preflights |-> None]
  /\ audit = {}
  /\ req = [q \in Requests |-> [at |-> "idle", plan |-> None, approval |-> None,
                                preview |-> None, src |-> 0]]
  /\ call = [q \in Writes |-> None]
  /\ outside = 0
  /\ faults = 0

Approve(q, p) ==
  /\ Idle(q)
  /\ Begin(q, "profiles", p, None, None)
  /\ UNCHANGED <<adc, writable, tables, expired, call, bounds>>

Valid(a) == approvals[a] # None /\ a \notin expired

Preflight(q, a) ==
  /\ Idle(q)
  /\ Valid(a)
  /\ Begin(q, "profiles", approvals[a].plan, a, None)
  /\ UNCHANGED <<adc, writable, tables, expired, call, bounds>>

\* The preview must be ready and of the same approval, job and fingerprint.
Apply(q, a, v) ==
  /\ Idle(q)
  /\ writable
  /\ Valid(a)
  /\ previews[v] # None
  /\ previews[v].status = "ready-for-apply"
  /\ previews[v].approval = a
  /\ Begin(q, "profiles", approvals[a].plan, a, v)
  /\ UNCHANGED <<adc, writable, tables, expired, call, bounds>>

\* Any approval of the plan, expired or not, and any ready preview.
Rollback(q, a, v) ==
  /\ Idle(q)
  /\ writable
  /\ approvals[a] # None
  /\ previews[v] # None
  /\ previews[v].status = "ready-for-apply"
  /\ Begin(q, "policies", approvals[a].plan, a, v)
  /\ UNCHANGED <<adc, writable, tables, expired, call, bounds>>

\* 409 when the destination is taken.
ReadProfiles(q) ==
  /\ At(q, "profiles")
  /\ req' = IF Obj(req[q].plan, 1) \in DOMAIN running
              THEN [req EXCEPT ![q].at = "ended"]
              ELSE [req EXCEPT ![q].at = "targets", ![q].src = source]
  /\ UNCHANGED <<adc, writable, tables, expired, call, bounds>>

SignatureCheck(p) ==
  CASE p.sig = None                      -> "not-requested"
    [] SigObj(p.sig) \in DOMAIN running -> "passed"
    [] OTHER                             -> "failed"

Fingerprint(q) == [src |-> req[q].src, check |-> SignatureCheck(req[q].plan)]

\* The row is inserted after the read; nothing can see it earlier.  Operators
\* may pass any fingerprint, but only the current one is stored.
SaveApproval(q) ==
  /\ q \in Approves
  /\ At(q, "targets")
  /\ approvals' = [approvals EXCEPT ![q] = [plan |-> req[q].plan, fp |-> Fingerprint(q)]]
  /\ End(q)
  /\ UNCHANGED <<adc, writable, previews, audit, expired, call, bounds>>

PreviewStatus(q) ==
  IF Fingerprint(q) # approvals[req[q].approval].fp \/ Fingerprint(q).check = "failed"
    THEN "drift-detected"
  ELSE IF writable THEN "ready-for-apply"
  ELSE "blocked-write-disabled"

SavePreview(q) ==
  /\ q \in Preflights
  /\ At(q, "targets")
  /\ previews' = [previews EXCEPT ![q] = [approval |-> req[q].approval,
                                          status |-> PreviewStatus(q)]]
  /\ End(q)
  /\ UNCHANGED <<adc, writable, approvals, audit, expired, call, bounds>>

\* Parts 1 to n, in the order they are made, and in the order they are removed.
Additions(n) == [i \in 1..n |-> Add(i)]
Removals(n) == [i \in 1..n |-> Rm(n + 1 - i)]

\* Mutant: the new protection is not saved.
CreateBatchUnsaved(p) == Additions(Size(p))

CreateBatch(p) == Append(Additions(Size(p)), Save)
RollbackBatch(p) == Append(Removals(Size(p)), Save)

\* The objects of the plan that are there before the batch, and whose they are.
Present(p) == {<<o, running[o].owner>> : o \in ObjectsOf(p) \cap DOMAIN running}

Ask(q, batch) ==
  call' = [call EXCEPT ![q] = [at |-> "run", todo |-> batch, src |-> req[q].src,
                               lost |-> FALSE, clean |-> TRUE,
                               before |-> Present(req[q].plan)]]

\* Mutant: the plan is not computed once more.
SendApplyUnchecked(q) ==
  /\ q \in Applies
  /\ At(q, "targets")
  /\ GoTo(q, "sent") /\ Ask(q, CreateBatch(req[q].plan))
  /\ UNCHANGED <<adc, writable, tables, expired, bounds>>

\* The plan is computed once more; what differs from the approved one is refused.
SendApply(q) ==
  /\ q \in Applies
  /\ At(q, "targets")
  /\ IF Fingerprint(q) = approvals[req[q].approval].fp
       THEN GoTo(q, "sent") /\ Ask(q, CreateBatch(req[q].plan))
       ELSE End(q) /\ UNCHANGED call
  /\ UNCHANGED <<adc, writable, tables, expired, bounds>>

UnexpectedReference(p) ==
  \E o \in DOMAIN running : /\ running[o].ref = Obj(p, 1)
                            /\ o # <<"policy", p.policy>>

SendRollback(q) ==
  /\ At(q, "policies")
  /\ IF UnexpectedReference(req[q].plan)
       THEN End(q) /\ UNCHANGED call
       ELSE GoTo(q, "sent") /\ Ask(q, RollbackBatch(req[q].plan))
  /\ UNCHANGED <<adc, writable, tables, expired, bounds>>

Ended(q) == call[q] # None /\ call[q].at \in {"applied", "failed", "error"}

Answer(q) ==
  /\ At(q, "sent")
  /\ Ended(q)
  /\ GoTo(q, IF call[q].at = "applied" THEN "audit" ELSE "ended")
  /\ UNCHANGED <<adc, writable, tables, expired, call, bounds>>

\* 503 after 20 s; the batch goes on in a thread of the adapter.
Timeout(q) ==
  /\ At(q, "sent")
  /\ ~ Ended(q)
  /\ End(q)
  /\ UNCHANGED <<adc, writable, tables, expired, call, bounds>>

Audit(q) ==
  /\ At(q, "audit")
  /\ audit' = audit \cup {q}
  /\ End(q)
  /\ UNCHANGED <<adc, writable, approvals, previews, expired, call, bounds>>

\* Reading the target or the INSERT fails, or control-api is stopped.
AuditFails(q) ==
  /\ At(q, "audit")
  /\ End(q)
  /\ UNCHANGED <<adc, writable, tables, expired, call, bounds>>

-----------------------------------------------------------------------------
(* The adapter: execute_cli_commands, and what its callers do when it raises. *)

Batch(q) == IF q \in Applies THEN CreateBatch(req[q].plan) ELSE RollbackBatch(req[q].plan)
Position(q) == Len(Batch(q)) - Len(call[q].todo) + 1

\* Mutant: an object is undone only when the command after the next one failed.
CleanupBatchesOffByOne(failed) == Removals(IF failed > 1 THEN failed - 2 ELSE 0)

\* What the commands before the failed one made.  The number of the refused command is
\* read from the error; every other error counts as a failure of the last command.
CleanupBatches(failed) == Removals(failed - 1)

\* What nothing needs any more is forgotten when a batch ends.
Over(c, outcome) == [c EXCEPT !.at = outcome, !.todo = <<>>, !.src = 0, !.before = {}]
Advance(c, outcome) ==
  IF Len(c.todo) = 1 THEN Over(c, outcome) ELSE [c EXCEPT !.todo = Tail(@)]

\* Mutant: the number of the refused command is not looked at.
RaisedAnywhere(q, failed, isLost) ==
  LET rest == IF q \in Applies
                THEN CleanupBatches(Len(Batch(q))) ELSE <<>>
      c == [call[q] EXCEPT !.todo = rest, !.lost = isLost]
  IN call' = [call EXCEPT ![q] = IF rest = <<>> THEN Over(c, "failed")
                                 ELSE [c EXCEPT !.at = "cleanup"]]

\* Mutant: nothing is undone.
RaisedOnly(q, failed, isLost) ==
  call' = [call EXCEPT ![q] = Over([@ EXCEPT !.lost = isLost], "failed")]

\* Only the creating call undoes what it did; a removal just fails.
Raised(q, failed, isLost) ==
  LET rest == IF q \in Applies THEN CleanupBatches(failed) ELSE <<>>
      c == [call[q] EXCEPT !.todo = rest, !.lost = isLost]
  IN call' = [call EXCEPT ![q] = IF rest = <<>> THEN Over(c, "failed")
                                 ELSE [c EXCEPT !.at = "cleanup"]]

Command(q) == Head(call[q].todo)
Can(q) == Possible(req[q].plan, call[q].src, Command(q))
Do(q) == Execute(q, req[q].plan, call[q].src, Command(q))
InBatch(q, step) == call[q] # None /\ call[q].at = step
Fault == faults < MaxFaults /\ faults' = faults + 1

Executed(q) ==
  /\ InBatch(q, "run")
  /\ Can(q)
  /\ Do(q)
  /\ call' = [call EXCEPT ![q] = Advance(@, "applied")]
  /\ UNCHANGED <<writable, tables, expired, req, bounds>>

Rejected(q) ==
  /\ InBatch(q, "run")
  /\ \/ ~ Can(q) /\ UNCHANGED faults
     \/ Can(q) /\ Fault
  /\ Raised(q, Position(q), FALSE)
  /\ UNCHANGED <<adc, writable, tables, expired, req, outside>>

\* The connection or the prompt is lost, before or after the command took effect.
Lost(q) ==
  /\ InBatch(q, "run")
  /\ Fault
  /\ \/ Can(q) /\ Do(q)
     \/ UNCHANGED adc
  /\ Raised(q, Len(Batch(q)), TRUE)
  /\ UNCHANGED <<writable, tables, expired, req, outside>>

\* paramiko's own exceptions are not among those that are caught.
SshError(q) ==
  /\ InBatch(q, "run")
  /\ Position(q) = 1
  /\ Fault
  /\ call' = [call EXCEPT ![q] = Over(@, "error")]
  /\ UNCHANGED <<adc, writable, tables, expired, req, outside>>

\* One batch of the cleanup, over a connection of its own; a failure is noted
\* and the next batch is tried.
Cleanup(q) ==
  /\ InBatch(q, "cleanup")
  /\ \E ok \in BOOLEAN :
       /\ \/ ok /\ Can(q) /\ Do(q) /\ UNCHANGED faults
          \/ ~ ok /\ ~ Can(q) /\ UNCHANGED <<adc, faults>>
          \/ ~ ok /\ Fault /\ (UNCHANGED adc \/ (Can(q) /\ Do(q)))
       /\ call' = [call EXCEPT ![q] = Advance([call[q] EXCEPT !.clean = @ /\ ok], "failed")]
  /\ UNCHANGED <<writable, tables, expired, req, outside>>

-----------------------------------------------------------------------------
(* The surroundings. *)

\* Only a preflight or an application looks at it: once none is to come it makes no
\* difference, and is left out to keep the states few.
Expire(a) ==
  /\ approvals[a] # None
  /\ \E q \in Preflights \cup Applies : Idle(q)
  /\ a \notin expired
  /\ expired' = expired \cup {a}
  /\ UNCHANGED <<adc, writable, tables, req, call, bounds>>

\* Administrators create profiles and policies of their own, under names that
\* plans ask for too, remove signature objects nothing refers to, and change the
\* source profile.
OutsideChange ==
  /\ outside < MaxOutside
  /\ outside' = outside + 1
  /\ \/ \E p \in Plans : \E k \in Parts(p) :
          /\ Possible(p, source, Add(k))
          /\ Execute(outside + 1, p, source, Add(k))
     \/ \E s \in Signatures :
          /\ SigObj(s) \in DOMAIN running
          /\ ~ Referenced(SigObj(s))
          /\ running' = Without(running, SigObj(s))
          /\ UNCHANGED <<saved, source>>
     \/ source' = source + 1 /\ UNCHANGED <<running, saved>>
  /\ UNCHANGED <<writable, tables, expired, req, call, faults>>

ControlApi(q) ==
  \/ ReadProfiles(q)
  \/ SaveApproval(q)
  \/ SavePreview(q)
  \/ SendApply(q)
  \/ SendRollback(q)
  \/ Audit(q)
  \/ AuditFails(q)
  \/ q \in Writes /\ (Answer(q) \/ Timeout(q))

Adapter(q) == Executed(q) \/ Rejected(q) \/ Lost(q) \/ SshError(q) \/ Cleanup(q)

Operators ==
  \/ \E q \in Approves : \E p \in Plans : Approve(q, p)
  \/ \E q \in Preflights : \E a \in Approves : Preflight(q, a)
  \/ \E q \in Applies : \E a \in Approves : \E v \in Preflights : Apply(q, a, v)
  \/ \E q \in Rollbacks : \E a \in Approves : \E v \in Preflights : Rollback(q, a, v)

Next ==
  \/ Operators
  \/ \E q \in Requests : ControlApi(q)
  \/ \E q \in Writes : Adapter(q)
  \/ \E a \in Approves : Expire(a)
  \/ OutsideChange

Spec == Init /\ [][Next]_vars

-----------------------------------------------------------------------------
\* Whatever a call created on the ADC belongs to a plan that was approved and came
\* out of its own preflight ready, and refers to just what the approved fingerprint
\* was computed from, however the ADC and the source changed in between
\* (apply_duplicate_profile, duplicate_appfw_profile_plan).
OnlyReviewed ==
  \A o \in DOMAIN running :
    LET q == running[o].owner IN
    q \in Writes =>
      LET r == req[q]
          a == approvals[r.approval]
          v == previews[r.preview]
      IN /\ a # None /\ v # None
         /\ v.status = "ready-for-apply" /\ v.approval = r.approval
         /\ \E k \in Parts(a.plan) : /\ o = Obj(a.plan, k)
                                     /\ running[o].ref = Ref(a.plan, a.fp.src, k)

\* A creation answered with 502 whose cleanup reported no failure has left nothing
\* of its own on the ADC, whichever command was refused or lost and whatever others
\* did meanwhile (write_appfw_profile_duplicate).
CleanFailure ==
  \A q \in Applies :
    (InBatch(q, "failed") /\ call[q].clean) =>
      \A o \in DOMAIN running : running[o].owner # q

Cleans(q) == InBatch(q, "cleanup") /\ call'[q] # call[q]

\* The cleanup after a refused command never removes what was on the ADC before the
\* call began: a request sent twice cannot undo the first
\* (write_appfw_profile_duplicate).
RejectionSparesOthers ==
  [][\A q \in Applies :
       (Cleans(q) /\ ~ call[q].lost) =>
         \A o \in DOMAIN running \ DOMAIN running' :
           <<o, running[o].owner>> \notin call[q].before]_vars

Disturbs(w, p) ==
  /\ call[w] # None
  /\ \E o \in ObjectsOf(p) : o \in ObjectsOf(req[w].plan)
  /\ w \in Rollbacks \/ call[w].lost

\* What the audit says was applied is on the ADC and in its saved configuration,
\* complete and created by that call, until a rollback of the same names, or a call
\* for them whose connection was lost (apply_duplicate_profile, execute_cli_commands).
AppliedStands ==
  \A q \in audit \cap Applies :
    \/ \A config \in {running, saved} : \A o \in ObjectsOf(req[q].plan) :
         o \in DOMAIN config /\ config[o].owner = q
    \/ \E w \in Writes \ {q} : Disturbs(w, req[q].plan)

\* A creation the operator was told is done or failed is not left half made: when
\* the ADC has one of its objects but not all, somebody else has interfered, the
\* cleanup failed, or nobody knows how it ended.
NoHalfProtection ==
  \A q \in Applies :
    (Ended(q) /\ \E o \in DOMAIN running : running[o].owner = q) =>
      \/ \A o \in ObjectsOf(req[q].plan) : o \in DOMAIN running /\ running[o].owner = q
      \/ ~ call[q].clean
      \/ \E w \in Writes \ {q} : Disturbs(w, req[q].plan)
=============================================================================
