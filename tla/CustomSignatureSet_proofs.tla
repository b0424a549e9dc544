---------------------- MODULE CustomSignatureSet_proofs ----------------------
(***************************************************************************)
(* The signature-set workflow for any sets, rules, catalogs, approvals and   *)
(* previews.  Whatever requests overlap: type correctness, the gates of the  *)
(* export and the write audit.  While they do not: what an approval covers,  *)
(* whose object a rollback removes, and the refinement of                    *)
(* ReviewedDeployment.                                                       *)
(***************************************************************************)
EXTENDS CustomSignatureSet, TLAPS

-----------------------------------------------------------------------------
(* The inductive invariant *)

IsWrite(r) == r.op \in {"export", "rollback"}

\* What the fields of a request hold, by handler and step.
Shaped(r) ==
  /\ r.op = "edit" => r.at \in {"plan", "update"}
  /\ r.op = "edit" /\ r.at = "update" => r.fp # None
  /\ r.op = "approve" => r.at = "update" /\ r.fp # None
  /\ r.op = "preflight" => /\ r.fp # None /\ r.approval # None
                           /\ r.at \in {"plan", "inventory", "update"}
  /\ IsWrite(r) => r.fp # None /\ r.approval # None /\ r.preview # None

\* A request works on a row that exists; no handler deletes one.
RequestRows == \A q \in Requests : req[q] # None => rows[req[q].set] # None

RequestShape == \A q \in Requests : req[q] # None => Shaped(req[q])

\* A request waits for at most one CLI transaction, which names it.
CommandOwners ==
  /\ \A c \in commands : c.by # None =>
       /\ req[c.by] # None /\ req[c.by].at = "adc" /\ IsWrite(req[c.by])
  /\ \A c, d \in commands : c.by # None /\ c.by = d.by => c = d

\* The approval of a row was issued for that row.
RowApprovals ==
  \A s \in Sets : rows[s] # None /\ rows[s].approval # None =>
    reviews[rows[s].approval] # None /\ reviews[rows[s].approval].set = s

\* A write request holds an approval of its own set and a ready preview.
WriteRequests ==
  \A q \in Requests : req[q] # None /\ IsWrite(req[q]) =>
    /\ reviews[req[q].approval] # None
    /\ reviews[req[q].approval].set = req[q].set
    /\ previews[req[q].preview] # None
    /\ previews[req[q].preview].status = "ready-for-apply"

\* A pending import has been through the gates.
ImportsGated == \A c \in commands : c.kind = "import" => Gated(c)

IInv ==
  /\ TypeOK
  /\ RequestShape
  /\ RequestRows
  /\ CommandOwners
  /\ RowApprovals
  /\ WriteRequests
  /\ ImportsGated
  /\ GatedExport

-----------------------------------------------------------------------------
(* Plans are well typed *)

LEMMA DraftType ==
  ASSUME NEW p \in Contents, NEW c \in Catalogs \cup {None}
  PROVE  /\ Fingerprint(p, c) \in Fingerprints
         /\ Draft(p, c) \in Rows
         /\ Draft(p, c).approval = None
<1>1. PlanStatus(p, c) \in RowStatuses
  BY DEF PlanStatus, RowStatuses
<1>2. p.rules \cap RulesIn[c] \in SUBSET Rules
  BY CatalogAssumption DEF Contents
<1>3. Selected(p, c) \in Contents
  BY <1>2 DEF Selected, Contents
<1>4. Fingerprint(p, c) \in Fingerprints
  BY <1>2 DEF Fingerprint, Fingerprints, Contents
<1> QED
  BY <1>1, <1>3, <1>4 DEF Draft, Rows

TypeInv == TypeOK /\ RequestShape /\ RequestRows /\ CommandOwners

USE NoneAssumption

LEMMA TypeInit == Init => TypeInv
  BY CatalogAssumption, InputAssumption
  DEF Init, TypeInv, TypeOK, RequestShape, RequestRows, CommandOwners, Entries

-----------------------------------------------------------------------------
(* Type correctness, one lemma for each way a step changes the requests *)

LEMMA TypeInsert ==
  ASSUME TypeInv, NEW s \in Sets, NEW p \in Proposals, Insert(s, p)
  PROVE  TypeInv'
<1>1. Draft(p, catalog) \in Rows
  BY DraftType, InputAssumption DEF TypeInv, TypeOK
<1> QED
  BY <1>1
  DEF Insert, TypeInv, TypeOK, RequestShape, RequestRows, CommandOwners, adc, env,
      InFlight

\* A request that does not wait for the adapter moves on, starts or ends.
LEMMA TypeRequest ==
  ASSUME TypeInv, NEW q \in Requests, NEW r \in InFlight \cup {None},
         r # None => Shaped(r) /\ r.at # "adc" /\ rows[r.set] # None,
         \A s \in Sets : rows[s] # None => rows'[s] # None,
         req[q] # None => req[q].at # "adc",
         req' = [req EXCEPT ![q] = r],
         commands' = commands
  PROVE  /\ req' \in [Requests -> InFlight \cup {None}]
         /\ RequestShape' /\ RequestRows' /\ CommandOwners'
<1>1. req' \in [Requests -> InFlight \cup {None}]
  BY DEF TypeInv, TypeOK
<1>2. \A p \in Requests : req'[p] = IF p = q THEN r ELSE req[p]
  BY DEF TypeInv, TypeOK
<1>3. RequestShape'
  BY <1>2 DEF TypeInv, RequestShape, Shaped, IsWrite
<1>4. CommandOwners'
  <2>1. \A c \in commands : c.by # None => c.by \in Requests /\ c.by # q
    BY DEF TypeInv, TypeOK, Commands, CommandOwners
  <2> QED BY <2>1, <1>2 DEF TypeInv, CommandOwners, IsWrite
<1>5. RequestRows'
  BY <1>2 DEF TypeInv, TypeOK, RequestRows, InFlight
<1> QED BY <1>1, <1>3, <1>4, <1>5

LEMMA TypeLoads ==
  ASSUME TypeInv, NEW q \in Requests, NEW s \in Sets,
         \/ \E p \in Proposals : EditLoad(q, s, p)
         \/ \E f \in Fingerprints : ApproveLoad(q, s, f)
         \/ \E a \in Approvals, f \in Fingerprints : PreflightLoad(q, s, a, f)
         \/ \E a \in Approvals, f \in Fingerprints, v \in Previews :
              ExportLoad(q, s, a, f, v) \/ RollbackLoad(q, s, a, f, v)
  PROVE  TypeInv'
<1>1. PICK r \in InFlight :
        /\ Shaped(r) /\ r.at # "adc" /\ req[q] = None /\ rows[r.set] # None
        /\ req' = [req EXCEPT ![q] = r]
        /\ UNCHANGED <<tables, adc, env, reviews, lost>>
  <2>1. CASE \E p \in Proposals : EditLoad(q, s, p)
    BY <2>1, InputAssumption
    DEF EditLoad, Begin, Idle, InFlight, Operations, Shaped, IsWrite
  <2>2. CASE \E f \in Fingerprints : ApproveLoad(q, s, f)
    BY <2>2
    DEF ApproveLoad, Begin, Idle, InFlight, Operations, Shaped, IsWrite,
        TypeInv, TypeOK, Rows
  <2>3. CASE \E a \in Approvals, f \in Fingerprints : PreflightLoad(q, s, a, f)
    BY ZenonT(60), <2>3
    DEF PreflightLoad, ApprovedRow, Begin, Idle, InFlight, Operations, Shaped,
        IsWrite, TypeInv, TypeOK, Rows
  <2>4. CASE \E a \in Approvals, f \in Fingerprints, v \in Previews :
               ExportLoad(q, s, a, f, v) \/ RollbackLoad(q, s, a, f, v)
    <3>1. PICK a \in Approvals, f \in Fingerprints, v \in Previews :
            ExportLoad(q, s, a, f, v) \/ RollbackLoad(q, s, a, f, v)
      BY <2>4
    <3>2. rows[s] \in Rows /\ rows[s].approval = a /\ rows[s].fp = f
      BY <3>1 DEF ExportLoad, RollbackLoad, RollbackFrom, ApprovedRow, TypeInv, TypeOK
    <3>3. PICK op \in {"export", "rollback"} :
            /\ req[q] = None /\ req' = [req EXCEPT ![q] = WriteRequest(op, s, v)]
            /\ UNCHANGED <<tables, adc, env, reviews, lost>>
      BY <3>1 DEF ExportLoad, RollbackLoad, RollbackFrom, Begin, Idle
    <3>4. WriteRequest(op, s, v) \in InFlight
      BY <3>2 DEF WriteRequest, InFlight, Operations, Rows
    <3>5. /\ Shaped(WriteRequest(op, s, v)) /\ WriteRequest(op, s, v).at # "adc"
          /\ WriteRequest(op, s, v).set = s /\ rows[s] # None
      BY <3>2 DEF WriteRequest, Shaped, IsWrite
    <3> QED BY <3>3, <3>4, <3>5
  <2> QED BY <2>1, <2>2, <2>3, <2>4
<1>2. /\ req' \in [Requests -> InFlight \cup {None}]
      /\ RequestShape' /\ RequestRows' /\ CommandOwners'
  BY <1>1, TypeRequest DEF adc, tables
<1> QED BY <1>1, <1>2 DEF TypeInv, TypeOK, tables, adc, env

\* Steps of the edit, approve and preflight handlers after the load.
LEMMA TypeEditPlan ==
  ASSUME TypeInv, NEW q \in Requests, EditPlan(q)
  PROVE  TypeInv'
<1> DEFINE r == [req[q] EXCEPT !.fp = Fingerprint(req[q].content, catalog),
                               !.at = "update"]
<1>1. req[q] \in InFlight
  BY DEF EditPlan, At, TypeInv, TypeOK
<1>2. Fingerprint(req[q].content, catalog) \in Fingerprints
  BY <1>1, DraftType DEF InFlight, TypeInv, TypeOK
<1>3. r \in InFlight /\ Shaped(r) /\ r.at # "adc"
  BY <1>1, <1>2 DEF EditPlan, At, InFlight, Shaped, IsWrite
<1>4. rows[r.set] # None
  BY <1>1 DEF EditPlan, At, InFlight, TypeInv, RequestRows
<1>5. req' = [req EXCEPT ![q] = r] /\ req[q].at # "adc"
  BY DEF EditPlan, At
<1>6. commands' = commands /\ UNCHANGED rows
  BY DEF EditPlan, adc, tables
<1> HIDE DEF r
<1>7. /\ req' \in [Requests -> InFlight \cup {None}]
      /\ RequestShape' /\ RequestRows' /\ CommandOwners'
  BY <1>3, <1>5, <1>4, <1>6, TypeRequest
<1> QED BY <1>7 DEF EditPlan, TypeInv, TypeOK, tables, adc, env

LEMMA TypeFinish ==
  ASSUME TypeInv, NEW q \in Requests, req[q] # None, req[q].at # "adc", Finish(q),
         \A s \in Sets : rows[s] # None => rows'[s] # None,
         commands' = commands
  PROVE  /\ req' \in [Requests -> InFlight \cup {None}]
         /\ RequestShape' /\ RequestRows' /\ CommandOwners'
  BY TypeRequest DEF Finish

LEMMA TypeUpdates ==
  ASSUME TypeInv, NEW q \in Requests,
         \/ EditUpdate(q) \/ PreflightUpdate(q) \/ ExportUpdate(q) \/ RollbackUpdate(q)
         \/ \E a \in Approvals : ApproveUpdate(q, a)
  PROVE  TypeInv'
<1> DEFINE s == req[q].set
<1>1. /\ req[q] \in InFlight /\ Shaped(req[q]) /\ req[q].at = "update"
      /\ s \in Sets /\ rows[s] \in Rows
      /\ Finish(q) /\ UNCHANGED <<previews, audit, adc, env, lost>>
  BY ZenonT(60) DEF EditUpdate, PreflightUpdate, ExportUpdate, RollbackUpdate, ApproveUpdate, At,
         TypeInv, TypeOK, RequestShape, RequestRows, InFlight
<1>2. PICK x \in Rows : rows' = [rows EXCEPT ![s] = x]
  <2>1. CASE EditUpdate(q)
    <3> DEFINE x == [rows[s] EXCEPT !.status = "edited", !.content = req[q].content,
                       !.fp = req[q].fp, !.approval = None, !.preview = None]
    <3>1. x \in Rows
      BY <1>1, <2>1 DEF EditUpdate, At, Rows, RowStatuses, InFlight, Shaped
    <3> QED BY <3>1, <2>1 DEF EditUpdate
  <2>2. CASE PreflightUpdate(q)
    <3>1. [rows[s] EXCEPT !.preview = req[q].preview] \in Rows
      BY <1>1 DEF Rows, InFlight
    <3> QED BY <3>1, <2>2 DEF PreflightUpdate
  <2>3. CASE ExportUpdate(q)
    <3>1. [rows[s] EXCEPT !.status = "exported", !.applied = TRUE] \in Rows
      BY <1>1 DEF Rows, RowStatuses
    <3> QED BY <3>1, <2>3 DEF ExportUpdate
  <2>4. CASE RollbackUpdate(q)
    <3>1. [rows[s] EXCEPT !.status = "rolled-back", !.applied = FALSE] \in Rows
      BY <1>1 DEF Rows, RowStatuses
    <3> QED BY <3>1, <2>4 DEF RollbackUpdate
  <2>5. ASSUME NEW a \in Approvals, ApproveUpdate(q, a)
        PROVE  \E x \in Rows : rows' = [rows EXCEPT ![s] = x]
    <3> DEFINE x == [rows[s] EXCEPT !.status = "approved", !.approval = a]
    <3>1. x \in Rows
      BY <1>1 DEF Rows, RowStatuses
    <3>2. rows' = [rows EXCEPT ![s] = x]
      BY <1>1, <2>5 DEF ApproveUpdate, TypeInv, TypeOK
    <3> QED BY <3>1, <3>2
  <2> QED BY <2>1, <2>2, <2>3, <2>4, <2>5
<1>3. /\ rows' \in [Sets -> Rows \cup {None}]
      /\ \A t \in Sets : rows[t] # None => rows'[t] # None
  BY <1>1, <1>2 DEF TypeInv, TypeOK
<1>4. /\ req' \in [Requests -> InFlight \cup {None}]
      /\ RequestShape' /\ RequestRows' /\ CommandOwners'
  BY <1>1, <1>3, TypeFinish DEF adc
<1>5. reviews' \in [Approvals -> Reviews \cup {None}]
  <2>1. ASSUME NEW a \in Approvals, ApproveUpdate(q, a)
        PROVE  reviews' \in [Approvals -> Reviews \cup {None}]
    <3>1. [set |-> req[q].set, fp |-> req[q].fp] \in Reviews
      BY <1>1, <2>1 DEF ApproveUpdate, At, Reviews, InFlight, Shaped
    <3> QED BY <3>1, <2>1 DEF ApproveUpdate, TypeInv, TypeOK
  <2>2. CASE reviews' = reviews
    BY <2>2 DEF TypeInv, TypeOK
  <2> QED
    BY <2>1, <2>2 DEF EditUpdate, PreflightUpdate, ExportUpdate, RollbackUpdate
<1> QED BY <1>1, <1>3, <1>4, <1>5 DEF TypeInv, TypeOK, adc, env

LEMMA TypePreflightPlan ==
  ASSUME TypeInv, NEW q \in Requests, PreflightPlan(q)
  PROVE  TypeInv'
<1> DEFINE r == [req[q] EXCEPT !.clean = NoDrift(req[q], catalog), !.at = "inventory"]
<1>1. req[q] \in InFlight /\ rows[req[q].set] # None
  BY DEF PreflightPlan, At, TypeInv, TypeOK, RequestRows
<1>2. r \in InFlight /\ Shaped(r) /\ r.at # "adc" /\ rows[r.set] # None
  BY <1>1 DEF PreflightPlan, At, InFlight, Shaped, IsWrite, NoDrift, TypeInv,
              RequestShape
<1>3. req' = [req EXCEPT ![q] = r] /\ req[q].at # "adc"
  BY DEF PreflightPlan, At
<1>4. commands' = commands /\ UNCHANGED rows
  BY DEF PreflightPlan, adc, tables
<1> HIDE DEF r
<1>5. /\ req' \in [Requests -> InFlight \cup {None}]
      /\ RequestShape' /\ RequestRows' /\ CommandOwners'
  BY <1>2, <1>3, <1>4, TypeRequest
<1> QED BY <1>5 DEF PreflightPlan, TypeInv, TypeOK, tables, adc, env

LEMMA TypePreflightPreview ==
  ASSUME TypeInv, NEW q \in Requests, NEW v \in Previews, PreflightPreview(q, v)
  PROVE  TypeInv'
<1> DEFINE r == [req[q] EXCEPT !.preview = v, !.at = "update"]
           x == [set |-> req[q].set, approval |-> req[q].approval,
                 fp |-> req[q].fp, status |-> PreflightStatus(req[q])]
<1>1. /\ req[q] \in InFlight /\ rows[req[q].set] # None
      /\ req[q].fp # None /\ req[q].approval # None
  BY DEF PreflightPreview, At, TypeInv, TypeOK, RequestRows, RequestShape, Shaped
<1>2. r \in InFlight /\ Shaped(r) /\ r.at # "adc" /\ rows[r.set] # None
  BY <1>1 DEF PreflightPreview, At, InFlight, Shaped, IsWrite
<1>3. req' = [req EXCEPT ![q] = r] /\ req[q].at # "adc"
  BY DEF PreflightPreview, At
<1>4. commands' = commands /\ UNCHANGED rows
  BY DEF PreflightPreview, adc
<1>5. previews' \in [Previews -> PreviewRows \cup {None}]
  <2>1. x \in PreviewRows
    BY <1>1 DEF InFlight, PreviewRows, PreflightStatus, PreviewStatuses
  <2>2. previews' = [previews EXCEPT ![v] = x]
    BY DEF PreflightPreview
  <2> QED BY <2>1, <2>2 DEF TypeInv, TypeOK
<1> HIDE DEF r
<1>6. /\ req' \in [Requests -> InFlight \cup {None}]
      /\ RequestShape' /\ RequestRows' /\ CommandOwners'
  BY <1>2, <1>3, <1>4, TypeRequest
<1> QED BY <1>5, <1>6 DEF PreflightPreview, TypeInv, TypeOK, adc, env

LEMMA TypeAudit ==
  ASSUME TypeInv, NEW q \in Requests, Audit(q)
  PROVE  TypeInv'
<1> DEFINE r == [req[q] EXCEPT !.at = "update"]
<1>1. /\ req[q] \in InFlight /\ rows[req[q].set] # None /\ Shaped(req[q])
      /\ req[q].at = "audit"
  BY DEF Audit, TypeInv, TypeOK, RequestRows, RequestShape
<1>2. IsWrite(req[q]) /\ req[q].approval # None
  BY <1>1 DEF Shaped, IsWrite, InFlight, Operations
<1>3. r \in InFlight /\ Shaped(r) /\ r.at # "adc" /\ rows[r.set] # None
  BY <1>1, <1>2 DEF InFlight, Shaped, IsWrite
<1>4. req' = [req EXCEPT ![q] = r] /\ req[q].at # "adc"
  BY <1>1 DEF Audit, GoTo
<1>5. commands' = commands /\ UNCHANGED rows
  BY DEF Audit, adc
<1>6. audit' \subseteq Entries
  BY <1>1, <1>2 DEF Audit, Entry, Entries, IsWrite, InFlight, TypeInv, TypeOK
<1> HIDE DEF r
<1>7. /\ req' \in [Requests -> InFlight \cup {None}]
      /\ RequestShape' /\ RequestRows' /\ CommandOwners'
  BY <1>3, <1>4, <1>5, TypeRequest
<1> QED BY <1>6, <1>7 DEF Audit, TypeInv, TypeOK, adc, env

LEMMA TypeRefuse ==
  ASSUME TypeInv, NEW q \in Requests, Refuse(q)
  PROVE  TypeInv'
<1>1. req[q] # None /\ req[q].at # "adc"
  BY DEF Refuse, Idle, Writing, TypeInv, TypeOK, RequestShape, Shaped, InFlight,
         Operations
<1>2. /\ req' \in [Requests -> InFlight \cup {None}]
      /\ RequestShape' /\ RequestRows' /\ CommandOwners'
  BY <1>1, TypeFinish DEF Refuse, tables, adc
<1> QED BY <1>2 DEF Refuse, TypeInv, TypeOK, tables, adc, env

-----------------------------------------------------------------------------
(* Steps that hand over, answer or orphan a CLI transaction *)

\* The CLI transaction that request q hands to the adapter.
Sent(q, kind) ==
  [kind |-> kind, by |-> q, set |-> req[q].set, content |-> req[q].content,
   fp |-> req[q].fp, approval |-> req[q].approval, preview |-> req[q].preview]

LEMMA TypeSend ==
  ASSUME TypeInv, NEW q \in Requests, NEW kind \in {"import", "rm"},
         req[q] # None, IsWrite(req[q]), req[q].at = "plan", Send(q, kind),
         UNCHANGED <<tables, objects, env, reviews, lost>>
  PROVE  TypeInv'
<1> DEFINE r == [req[q] EXCEPT !.at = "adc"]
<1>1. /\ req[q] \in InFlight /\ rows[req[q].set] # None
      /\ req[q].fp # None /\ req[q].approval # None /\ req[q].preview # None
  BY DEF TypeInv, TypeOK, RequestRows, RequestShape, Shaped
<1>2. r \in InFlight /\ Shaped(r) /\ IsWrite(r) /\ r.at = "adc" /\ r.set = req[q].set
  BY <1>1 DEF InFlight, Shaped, IsWrite
<1>3. Sent(q, kind) \in Commands /\ Sent(q, kind).by = q
  BY <1>1 DEF Sent, Commands, InFlight
<1>4. req' = [req EXCEPT ![q] = r] /\ commands' = commands \cup {Sent(q, kind)}
  BY DEF Send, GoTo, Sent
<1> HIDE DEF r
<1>5. /\ req' \in [Requests -> InFlight \cup {None}] /\ commands' \subseteq Commands
      /\ \A p \in Requests : req'[p] = IF p = q THEN r ELSE req[p]
  BY <1>2, <1>3, <1>4 DEF TypeInv, TypeOK
<1>6. RequestShape' /\ RequestRows'
  BY <1>1, <1>2, <1>5
  DEF TypeInv, RequestShape, RequestRows, Shaped, IsWrite, tables
<1>7. CommandOwners'
  <2>1. \A c \in commands : c.by # None => c.by \in Requests /\ c.by # q
    BY DEF TypeInv, TypeOK, Commands, CommandOwners
  <2> QED BY <2>1, <1>2, <1>3, <1>4, <1>5 DEF TypeInv, CommandOwners, IsWrite
<1> QED BY <1>5, <1>6, <1>7 DEF TypeInv, TypeOK, tables, env

\* The request that waited for a CLI transaction moves on or ends with it.
LEMMA TypeAnswer ==
  ASSUME TypeInv, NEW c \in commands, NEW r \in InFlight \cup {None},
         r # None => Shaped(r) /\ rows[r.set] # None,
         req' = IF c.by = None THEN req ELSE [req EXCEPT ![c.by] = r],
         commands' = commands \ {c}, UNCHANGED rows
  PROVE  /\ req' \in [Requests -> InFlight \cup {None}] /\ commands' \subseteq Commands
         /\ RequestShape' /\ RequestRows' /\ CommandOwners'
<1>1. c.by \in Requests \cup {None}
  BY DEF TypeInv, TypeOK, Commands
<1>2. /\ req' \in [Requests -> InFlight \cup {None}]
      /\ \A p \in Requests : req'[p] = IF p = c.by THEN r ELSE req[p]
  BY <1>1 DEF TypeInv, TypeOK
<1>3. RequestShape' /\ RequestRows'
  BY <1>2 DEF TypeInv, RequestShape, RequestRows, Shaped, IsWrite
<1>4. CommandOwners'
  <2>1. \A d \in commands' : d \in commands /\ d # c
    OBVIOUS
  <2>2. \A d \in commands' : d.by # None => d.by \in Requests /\ d.by # c.by
    BY <2>1 DEF TypeInv, TypeOK, Commands, CommandOwners
  <2> QED BY <1>2, <2>1, <2>2 DEF TypeInv, CommandOwners, IsWrite
<1> QED BY <1>2, <1>3, <1>4 DEF TypeInv, TypeOK

\* Requests that end take their names off the transactions they leave behind.
LEMMA TypeOrphan ==
  ASSUME TypeInv, NEW Q \in SUBSET Requests,
         req' = [p \in Requests |-> IF p \in Q THEN None ELSE req[p]],
         commands' = Orphaned(Q), UNCHANGED rows
  PROVE  /\ req' \in [Requests -> InFlight \cup {None}] /\ commands' \subseteq Commands
         /\ RequestShape' /\ RequestRows' /\ CommandOwners'
<1>1. /\ req' \in [Requests -> InFlight \cup {None}]
      /\ \A p \in Requests : req'[p] = IF p \in Q THEN None ELSE req[p]
  BY DEF TypeInv, TypeOK
<1>2. RequestShape' /\ RequestRows'
  BY <1>1 DEF TypeInv, RequestShape, RequestRows, Shaped, IsWrite
<1>3. commands' \subseteq Commands
  BY DEF TypeInv, TypeOK, Commands, Orphaned
<1>4. \A d \in commands' : d.by # None => d \in commands /\ d.by \notin Q
  <2>1. SUFFICES ASSUME NEW c \in commands, NEW d,
                        d = [c EXCEPT !.by = IF @ \in Q THEN None ELSE @],
                        d.by # None
                 PROVE  d \in commands /\ d.by \notin Q
    BY DEF Orphaned
  <2>2. c \in Commands
    BY DEF TypeInv, TypeOK
  <2>3. c.by \notin Q
    BY <2>1, <2>2 DEF Commands
  <2>4. d = c
    BY <2>1, <2>2, <2>3 DEF Commands
  <2> QED BY <2>3, <2>4
<1>5. CommandOwners'
  BY <1>1, <1>3, <1>4 DEF TypeInv, CommandOwners, IsWrite, Commands
<1> QED BY <1>1, <1>2, <1>3, <1>5

LEMMA TypeSends ==
  ASSUME TypeInv, NEW q \in Requests, ExportPlan(q) \/ RollbackCheck(q)
  PROVE  TypeInv'
<1>1. PICK kind \in {"import", "rm"} :
        /\ req[q] # None /\ IsWrite(req[q]) /\ req[q].at = "plan" /\ Send(q, kind)
        /\ UNCHANGED <<tables, objects, env, reviews, lost>>
  BY DEF ExportPlan, RollbackCheck, At, IsWrite
<1> QED BY <1>1, TypeSend

\* An entry written or lost for a request that writes is well typed.
LEMMA EntryType ==
  ASSUME TypeInv, NEW q \in Requests, Writing(req[q])
  PROVE  Entry(req[q]) \in Entries
<1>1. req[q] \in InFlight /\ IsWrite(req[q]) /\ req[q].approval # None
  BY DEF Writing, TypeInv, TypeOK, RequestShape, Shaped, IsWrite
<1> QED BY <1>1 DEF Entry, Entries, IsWrite, InFlight

LEMMA TypeGiveUp ==
  ASSUME TypeInv, NEW q \in Requests, GiveUp(q)
  PROVE  TypeInv'
<1>1. req' = [p \in Requests |-> IF p \in {q} THEN None ELSE req[p]]
  BY DEF GiveUp, Finish, TypeInv, TypeOK
<1>2. commands' = Orphaned({q}) /\ UNCHANGED rows
  BY DEF GiveUp, tables
<1>3. /\ req' \in [Requests -> InFlight \cup {None}] /\ commands' \subseteq Commands
      /\ RequestShape' /\ RequestRows' /\ CommandOwners'
  BY <1>1, <1>2, TypeOrphan
<1>4. lost' \subseteq Entries
  BY EntryType DEF GiveUp, Lose, TypeInv, TypeOK
<1> QED BY <1>3, <1>4 DEF GiveUp, TypeInv, TypeOK, tables, env

LEMMA TypeRestart ==
  ASSUME TypeInv, NEW flag \in WriteModes, Restart(flag)
  PROVE  TypeInv'
<1>1. req' = [p \in Requests |-> IF p \in Requests THEN None ELSE req[p]]
  BY DEF Restart
<1>2. commands' = Orphaned(Requests) /\ UNCHANGED rows
  BY DEF Restart, tables
<1>3. /\ req' \in [Requests -> InFlight \cup {None}] /\ commands' \subseteq Commands
      /\ RequestShape' /\ RequestRows' /\ CommandOwners'
  BY <1>1, <1>2, TypeOrphan
<1>4. lost' \subseteq Entries
  BY EntryType DEF Restart, Lose, TypeInv, TypeOK
<1> QED
  BY <1>3, <1>4, InputAssumption DEF Restart, TypeInv, TypeOK, tables, env

LEMMA TypeRuns ==
  ASSUME TypeInv, NEW c \in commands, Runs(c)
  PROVE  objects' \in [Names -> Objects \cup {None}]
<1>1. c \in Commands
  BY DEF TypeInv, TypeOK
<1>2. [set |-> c.set, content |-> c.content, fp |-> c.fp,
       approval |-> c.approval, preview |-> c.preview] \in Objects
  BY <1>1 DEF Commands, Objects
<1> QED BY <1>2 DEF Runs, Imported, TypeInv, TypeOK

LEMMA TypeAdapter ==
  ASSUME TypeInv, NEW c \in commands,
         AdapterAnswers(c) \/ AdapterFailsLate(c) \/ AdapterRejects(c)
  PROVE  TypeInv'
<1>1. /\ c \in Commands /\ c.by \in Requests \cup {None}
      /\ commands' = commands \ {c} /\ UNCHANGED <<tables, env, reviews>>
  BY DEF AdapterAnswers, AdapterFailsLate, AdapterRejects, Runs, Imported, TypeInv,
         TypeOK,
         Commands
<1>2. ASSUME c.by # None
      PROVE  /\ req[c.by] \in InFlight /\ Shaped(req[c.by]) /\ IsWrite(req[c.by])
             /\ req[c.by].at = "adc" /\ rows[req[c.by].set] # None
  BY <1>1, <1>2 DEF TypeInv, TypeOK, CommandOwners, RequestShape, RequestRows
<1>3. /\ req' \in [Requests -> InFlight \cup {None}] /\ commands' \subseteq Commands
      /\ RequestShape' /\ RequestRows' /\ CommandOwners'
  <2>1. CASE AdapterAnswers(c) /\ c.by # None
    <3> DEFINE r == [req[c.by] EXCEPT !.at = "audit"]
    <3>1. r \in InFlight /\ Shaped(r) /\ rows[r.set] # None
      BY <2>1, <1>2 DEF InFlight, Shaped, IsWrite
    <3>2. req' = IF c.by = None THEN req ELSE [req EXCEPT ![c.by] = r]
      BY <2>1 DEF AdapterAnswers
    <3> HIDE DEF r
    <3> QED BY <1>1, <3>1, <3>2, TypeAnswer DEF tables
  <2>2. CASE c.by = None \/ AdapterFailsLate(c) \/ AdapterRejects(c)
    <3>1. req' = IF c.by = None THEN req ELSE [req EXCEPT ![c.by] = None]
      BY <2>2 DEF AdapterAnswers, AdapterFailsLate, AdapterRejects, Finish
    <3> QED BY <1>1, <3>1, TypeAnswer DEF tables
  <2> QED BY <2>1, <2>2
<1>4. objects' \in [Names -> Objects \cup {None}]
  BY TypeRuns
  DEF AdapterAnswers, AdapterFailsLate, AdapterRejects, TypeInv, TypeOK
<1>5. lost' \subseteq Entries
  <2>1. CASE AdapterFailsLate(c)
    <3>1. Writing(req[c.by])
      BY <1>2, <2>1 DEF AdapterFailsLate, Writing, IsWrite
    <3> QED
      BY <1>1, <2>1, <3>1, EntryType DEF AdapterFailsLate, Lose, TypeInv, TypeOK
  <2>2. CASE lost' = lost
    BY <2>2 DEF TypeInv, TypeOK
  <2> QED BY <2>1, <2>2 DEF AdapterAnswers, AdapterRejects
<1> QED BY <1>1, <1>3, <1>4, <1>5 DEF TypeInv, TypeOK, tables, env

\* Steps that leave rows, requests and transactions alone.
LEMMA TypeElsewhere ==
  ASSUME TypeInv,
         \/ \E c \in IndexStates : CatalogChanges(c)
         \/ \E a \in Approvals : Expire(a)
         \/ UNCHANGED vars
  PROVE  TypeInv'
<1>1. UNCHANGED <<rows, commands, req>>
  BY DEF CatalogChanges, Expire, vars, tables, adc
<1>2. RequestShape' /\ RequestRows' /\ CommandOwners'
  BY <1>1 DEF TypeInv, RequestShape, RequestRows, CommandOwners
<1>3. TypeOK'
  BY InputAssumption
  DEF CatalogChanges, Expire, vars, tables, adc, env, TypeInv, TypeOK
<1> QED BY <1>2, <1>3 DEF TypeInv

LEMMA TypeNext == TypeInv /\ [Next]_vars => TypeInv'
<1> SUFFICES ASSUME TypeInv, [Next]_vars PROVE TypeInv'
  OBVIOUS
<1>1. CASE Drafting
  BY <1>1, TypeInsert DEF Drafting, Prepare, Promote, Exception
<1>2. ASSUME NEW q \in Requests, RequestStep(q)
      PROVE  TypeInv'
  <2>0. \A s \in Sets : rows[s] # None => rows[s].fp \in Fingerprints
    BY DEF TypeInv, TypeOK, Rows
  <2>1. ASSUME NEW s \in Sets, NEW p \in Proposals, EditLoad(q, s, p)
        PROVE  TypeInv'
    BY <2>1, TypeLoads
  <2>2. ASSUME NEW s \in Sets, rows[s] # None, ApproveLoad(q, s, rows[s].fp)
        PROVE  TypeInv'
    BY <2>0, <2>2, TypeLoads
  <2>3. ASSUME NEW s \in Sets, NEW a \in Approvals, rows[s] # None,
               PreflightLoad(q, s, a, rows[s].fp)
        PROVE  TypeInv'
    BY <2>0, <2>3, TypeLoads
  <2>4. ASSUME NEW s \in Sets, NEW a \in Approvals, NEW v \in Previews,
               rows[s] # None,
               \/ ExportLoad(q, s, a, rows[s].fp, v)
               \/ RollbackLoad(q, s, a, rows[s].fp, v)
        PROVE  TypeInv'
    BY <2>0, <2>4, TypeLoads
  <2>5. CASE \/ EditUpdate(q) \/ PreflightUpdate(q) \/ ExportUpdate(q)
             \/ RollbackUpdate(q) \/ \E a \in Approvals : ApproveUpdate(q, a)
    BY <2>5, TypeUpdates
  <2>6. CASE ExportPlan(q) \/ RollbackCheck(q)
    BY <2>6, TypeSends
  <2>7. CASE EditPlan(q)
    BY <2>7, TypeEditPlan
  <2>8. CASE PreflightPlan(q)
    BY <2>8, TypePreflightPlan
  <2>9. CASE \E v \in Previews : PreflightPreview(q, v)
    BY <2>9, TypePreflightPreview
  <2>10. CASE Audit(q)
    BY <2>10, TypeAudit
  <2>11. CASE Refuse(q)
    BY <2>11, TypeRefuse
  <2>12. CASE GiveUp(q)
    BY <2>12, TypeGiveUp
  <2> QED
    BY <1>2, <2>1, <2>2, <2>3, <2>4, <2>5, <2>6, <2>7, <2>8, <2>9, <2>10, <2>11, <2>12
    DEF RequestStep
<1>3. CASE AdapterStep
  BY <1>3, TypeAdapter DEF AdapterStep
<1>4. CASE Environment
  BY <1>4, TypeRestart, TypeElsewhere DEF Environment
<1>5. CASE UNCHANGED vars
  BY <1>5, TypeElsewhere
<1> QED BY <1>1, <1>2, <1>3, <1>4, <1>5 DEF Next

\* Every reachable state has the types the tables and records declare: in
\* particular an approved content is never lost between load and update.
THEOREM TypeCorrect == Spec => []TypeOK
<1>1. TypeInv => TypeOK
  BY DEF TypeInv
<1> QED BY <1>1, TypeInit, TypeNext, PTL DEF Spec

-----------------------------------------------------------------------------
(* What a step can do to each part of the state *)

\* Two stages of one write request.
SameWrite(r, t) ==
  /\ r.op = t.op /\ r.set = t.set /\ r.content = t.content /\ r.fp = t.fp
  /\ r.approval = t.approval /\ r.preview = t.preview

LoadsWrite(q) ==
  \E s \in Sets, a \in Approvals, v \in Previews :
    rows[s] # None /\ (\/ ExportLoad(q, s, a, rows[s].fp, v)
                       \/ RollbackLoad(q, s, a, rows[s].fp, v))

UpdatesRow(q) ==
  \/ EditUpdate(q) \/ PreflightUpdate(q) \/ ExportUpdate(q) \/ RollbackUpdate(q)
  \/ \E a \in Approvals : ApproveUpdate(q, a)

LEMMA RowSteps ==
  ASSUME [Next]_vars
  PROVE  \/ UNCHANGED rows
         \/ \E s \in Sets, p \in Proposals : Insert(s, p)
         \/ \E q \in Requests : UpdatesRow(q)
<1>1. CASE Drafting
  BY <1>1 DEF Drafting, Prepare, Promote, Exception
<1>2. ASSUME NEW q \in Requests, RequestStep(q)
      PROVE  UNCHANGED rows \/ UpdatesRow(q)
  BY <1>2
  DEF RequestStep, UpdatesRow, EditLoad, EditPlan, ApproveLoad, PreflightLoad,
      PreflightPlan, PreflightPreview, ExportLoad, ExportPlan, RollbackLoad,
      RollbackFrom,
      RollbackCheck, Audit, Refuse, GiveUp, tables
<1>3. CASE AdapterStep
  BY <1>3 DEF AdapterStep, AdapterAnswers, AdapterFailsLate, AdapterRejects, tables
<1>4. CASE Environment \/ UNCHANGED vars
  BY <1>4 DEF Environment, Restart, CatalogChanges, Expire, vars, tables
<1> QED BY <1>1, <1>2, <1>3, <1>4 DEF Next

\* An approval or a preview, once recorded, is never rewritten.
LEMMA RecordsKept ==
  ASSUME TypeInv, [Next]_vars
  PROVE  /\ \A a \in Approvals : reviews[a] # None => reviews'[a] = reviews[a]
         /\ \A v \in Previews : previews[v] # None => previews'[v] = previews[v]
<1>1. CASE Drafting
  BY <1>1 DEF Drafting, Prepare, Promote, Exception, Insert
<1>2. ASSUME NEW q \in Requests, RequestStep(q)
      PROVE  /\ \A a \in Approvals : reviews[a] # None => reviews'[a] = reviews[a]
             /\ \A v \in Previews : previews[v] # None => previews'[v] = previews[v]
  <2>1. CASE \E a \in Approvals : ApproveUpdate(q, a)
    BY <2>1 DEF ApproveUpdate, TypeInv, TypeOK
  <2>2. CASE \E v \in Previews : PreflightPreview(q, v)
    BY <2>2 DEF PreflightPreview, TypeInv, TypeOK
  <2>3. CASE UNCHANGED <<reviews, previews>>
    BY <2>3
  <2> QED
    BY <1>2, <2>1, <2>2, <2>3
    DEF RequestStep, EditLoad, EditPlan, EditUpdate, ApproveLoad, PreflightLoad,
        PreflightPlan, PreflightUpdate, ExportLoad, ExportPlan, RollbackLoad,
        RollbackFrom,
        RollbackCheck, Audit, ExportUpdate, RollbackUpdate, Refuse, GiveUp, tables
<1>3. CASE AdapterStep
  BY <1>3 DEF AdapterStep, AdapterAnswers, AdapterFailsLate, AdapterRejects, tables
<1>4. CASE Environment \/ UNCHANGED vars
  BY <1>4 DEF Environment, Restart, CatalogChanges, Expire, vars, tables
<1> QED BY <1>1, <1>2, <1>3, <1>4 DEF Next

\* A write request is a later stage of one in flight, or has just been loaded.
LEMMA WriteSteps ==
  ASSUME TypeInv, [Next]_vars, NEW q \in Requests, req'[q] # None, IsWrite(req'[q])
  PROVE  (req[q] # None /\ SameWrite(req[q], req'[q])) \/ LoadsWrite(q)
<1>0. req \in [Requests -> InFlight \cup {None}]
  BY DEF TypeInv, TypeOK
<1>1. CASE req'[q] = req[q]
  BY <1>1 DEF SameWrite
<1>2. CASE Drafting
  BY <1>1, <1>2 DEF Drafting, Prepare, Promote, Exception, Insert
<1>3. ASSUME NEW p \in Requests, RequestStep(p)
      PROVE  (req[q] # None /\ SameWrite(req[q], req'[q])) \/ LoadsWrite(q)
  <2>1. CASE \E s \in Sets, a \in Proposals : EditLoad(p, s, a)
    BY <1>0, <1>1, <2>1 DEF EditLoad, Begin, IsWrite
  <2>2. CASE \E s \in Sets : rows[s] # None /\ ApproveLoad(p, s, rows[s].fp)
    BY <1>0, <1>1, <2>2 DEF ApproveLoad, Begin, IsWrite
  <2>3. CASE \E s \in Sets, a \in Approvals :
               rows[s] # None /\ PreflightLoad(p, s, a, rows[s].fp)
    BY <1>0, <1>1, <2>3 DEF PreflightLoad, Begin, IsWrite
  <2>4. CASE LoadsWrite(p)
    <3>1. CASE p = q
      BY <2>4, <3>1
    <3>2. CASE p # q
      BY <1>0, <1>1, <2>4, <3>2 DEF LoadsWrite, ExportLoad, RollbackLoad,
                                    RollbackFrom, Begin
    <3> QED BY <3>1, <3>2
  <2>5. CASE \/ EditPlan(p) \/ PreflightPlan(p)
             \/ \E v \in Previews : PreflightPreview(p, v)
    <3>1. /\ req[p] # None /\ ~ IsWrite(req[p])
          /\ \A t \in Requests : t # p => req'[t] = req[t]
          /\ req'[p].op = req[p].op
      <4>1. CASE EditPlan(p)
        BY <1>0, <4>1 DEF EditPlan, At, IsWrite, InFlight
      <4>2. CASE PreflightPlan(p)
        BY <1>0, <4>2 DEF PreflightPlan, At, IsWrite, InFlight
      <4>3. CASE \E v \in Previews : PreflightPreview(p, v)
        BY <1>0, <4>3 DEF PreflightPreview, At, IsWrite, InFlight
      <4> QED BY <2>5, <4>1, <4>2, <4>3
    <3> QED BY <1>1, <3>1 DEF IsWrite
  <2>6. CASE ExportPlan(p) \/ RollbackCheck(p) \/ Audit(p)
    <3>1. req' = [req EXCEPT ![p].at = req'[p].at] /\ req[p] # None
      BY <1>0, <2>6
      DEF ExportPlan, RollbackCheck, Audit, At, Send, GoTo, InFlight
    <3> QED BY <1>0, <1>1, <3>1 DEF SameWrite, InFlight
  <2>7. CASE Finish(p)
    BY <1>0, <1>1, <2>7 DEF Finish
  <2> QED
    BY <1>3, <2>1, <2>2, <2>3, <2>4, <2>5, <2>6, <2>7
    DEF RequestStep, LoadsWrite, EditUpdate, ApproveUpdate, PreflightUpdate,
        ExportUpdate, RollbackUpdate, Refuse, GiveUp
<1>4. ASSUME NEW c \in commands,
             AdapterAnswers(c) \/ AdapterFailsLate(c) \/ AdapterRejects(c)
      PROVE  (req[q] # None /\ SameWrite(req[q], req'[q])) \/ LoadsWrite(q)
  <2>1. c.by = None \/ (c.by \in Requests /\ req[c.by] # None)
    BY DEF TypeInv, TypeOK, Commands, CommandOwners
  <2> QED
    BY <1>0, <1>1, <1>4, <2>1
    DEF AdapterAnswers, AdapterFailsLate, AdapterRejects, Finish, SameWrite, InFlight
<1>5. CASE Environment \/ UNCHANGED vars
  BY <1>1, <1>5 DEF Environment, Restart, CatalogChanges, Expire, vars
<1> QED BY <1>2, <1>3, <1>4, <1>5 DEF Next, AdapterStep

\* Two CLI transactions that differ at most in the request that waits for them.
SameCommand(c, d) ==
  /\ c.kind = d.kind /\ c.set = d.set /\ c.content = d.content /\ c.fp = d.fp
  /\ c.approval = d.approval /\ c.preview = d.preview

\* A pending transaction was pending before, or has just been handed over.
LEMMA CommandSteps ==
  ASSUME TypeInv, [Next]_vars, NEW d \in commands'
  PROVE  \/ \E c \in commands : SameCommand(c, d)
         \/ \E q \in Requests : ExportPlan(q) /\ d = Sent(q, "import")
         \/ \E q \in Requests : RollbackCheck(q) /\ d = Sent(q, "rm")
<1>1. CASE commands' \subseteq commands
  BY <1>1 DEF SameCommand
<1>2. ASSUME \E Q \in SUBSET Requests : commands' = Orphaned(Q)
      PROVE  \E c \in commands : SameCommand(c, d)
  <2>1. PICK c \in commands, Q \in SUBSET Requests :
          d = [c EXCEPT !.by = IF @ \in Q THEN None ELSE @]
    BY <1>2 DEF Orphaned
  <2> QED BY <2>1 DEF SameCommand, TypeInv, TypeOK, Commands
<1>3. CASE Drafting
  BY <1>1, <1>3 DEF Drafting, Prepare, Promote, Exception, Insert, adc
<1>4. ASSUME NEW q \in Requests, RequestStep(q)
      PROVE  \/ \E c \in commands : SameCommand(c, d)
             \/ ExportPlan(q) /\ d = Sent(q, "import")
             \/ RollbackCheck(q) /\ d = Sent(q, "rm")
  <2>1. \/ commands' \subseteq commands
        \/ commands' = Orphaned({q})
        \/ ExportPlan(q) /\ commands' = commands \cup {Sent(q, "import")}
        \/ RollbackCheck(q) /\ commands' = commands \cup {Sent(q, "rm")}
    BY <1>4
    DEF RequestStep, EditLoad, EditPlan, EditUpdate, ApproveLoad, ApproveUpdate,
        PreflightLoad, PreflightPlan, PreflightPreview, PreflightUpdate, ExportLoad,
        ExportPlan, RollbackLoad, RollbackFrom, RollbackCheck, Send, Sent, Audit,
        ExportUpdate,
        RollbackUpdate, Refuse, GiveUp, adc
  <2>2. CASE commands' = Orphaned({q})
    <3>1. \E Q \in SUBSET Requests : commands' = Orphaned(Q)
      BY <2>2
    <3> QED BY <1>2, <3>1
  <2>3. CASE d \in commands
    BY <2>3 DEF SameCommand
  <2> QED BY <2>1, <2>2, <2>3
<1>5. CASE AdapterStep
  BY <1>1, <1>5 DEF AdapterStep, AdapterAnswers, AdapterFailsLate, AdapterRejects,
                    Runs, Imported
<1>6. CASE Environment \/ UNCHANGED vars
  BY <1>1, <1>2, <1>6 DEF Environment, Restart, CatalogChanges, Expire, vars, adc
<1> QED BY <1>3, <1>4, <1>5, <1>6 DEF Next

\* Only the ADC's execution of a pending transaction changes an object.
LEMMA ObjectSteps ==
  ASSUME [Next]_vars
  PROVE  \/ UNCHANGED objects
         \/ \E c \in commands :
              Runs(c) /\ (AdapterAnswers(c) \/ (AdapterFailsLate(c) /\ c.by # None))
<1>1. CASE Drafting
  BY <1>1 DEF Drafting, Prepare, Promote, Exception, Insert, adc
<1>2. ASSUME NEW q \in Requests, RequestStep(q)
      PROVE  UNCHANGED objects
  BY <1>2
  DEF RequestStep, EditLoad, EditPlan, EditUpdate, ApproveLoad, ApproveUpdate,
      PreflightLoad, PreflightPlan, PreflightPreview, PreflightUpdate, ExportLoad,
      ExportPlan, RollbackLoad, RollbackFrom, RollbackCheck, Audit, ExportUpdate,
      RollbackUpdate,
      Refuse, GiveUp, adc
<1>3. CASE AdapterStep
  BY <1>3 DEF AdapterStep, AdapterAnswers, AdapterFailsLate, AdapterRejects
<1>4. CASE Environment \/ UNCHANGED vars
  BY <1>4 DEF Environment, Restart, CatalogChanges, Expire, vars, adc
<1> QED BY <1>1, <1>2, <1>3, <1>4 DEF Next

-----------------------------------------------------------------------------
(* The gates *)

\* What has been through the gates stays through them.
LEMMA GatedKept ==
  ASSUME TypeInv, [Next]_vars, NEW r, r.approval \in Approvals,
         r.preview \in Previews, Gated(r)
  PROVE  Gated(r)'
  BY RecordsKept DEF Gated, Fingerprint

LEMMA RowApprovalsNext ==
  ASSUME TypeInv, RowApprovals, [Next]_vars
  PROVE  RowApprovals'
<1>0. /\ rows \in [Sets -> Rows \cup {None}]
      /\ \A s \in Sets : rows[s] # None => rows[s].approval \in Approvals \cup {None}
      /\ \A a \in Approvals : reviews[a] # None => reviews'[a] = reviews[a]
  BY RecordsKept DEF TypeInv, TypeOK, Rows
<1>1. CASE \A s \in Sets : rows'[s] # None /\ rows'[s].approval # None =>
             rows[s] # None /\ rows'[s].approval = rows[s].approval
  BY <1>0, <1>1 DEF RowApprovals
<1>2. CASE \E s \in Sets, p \in Proposals : Insert(s, p)
  <2>1. PICK s \in Sets, p \in Proposals : Insert(s, p)
    BY <1>2
  <2>2. Draft(p, catalog).approval = None
    BY DEF Draft
  <2> QED BY <1>0, <1>1, <2>1, <2>2 DEF Insert
<1>3. ASSUME NEW q \in Requests, UpdatesRow(q)
      PROVE  RowApprovals'
  <2>1. /\ req[q] # None /\ req[q] \in InFlight
        /\ req[q].set \in Sets /\ rows[req[q].set] \in Rows
    BY ZenonT(60), <1>3
    DEF UpdatesRow, EditUpdate, PreflightUpdate, ExportUpdate, RollbackUpdate,
        ApproveUpdate, At, TypeInv, TypeOK, RequestRows, InFlight
  <2>2. CASE EditUpdate(q)
    <3>1. rows'[req[q].set].approval = None
      BY <1>0, <2>1, <2>2 DEF EditUpdate, Rows
    <3> QED BY <1>0, <1>1, <2>1, <2>2, <3>1 DEF EditUpdate
  <2>3. CASE PreflightUpdate(q) \/ ExportUpdate(q) \/ RollbackUpdate(q)
    <3>1. /\ rows'[req[q].set].approval = rows[req[q].set].approval
          /\ \A s \in Sets : s # req[q].set => rows'[s] = rows[s]
      BY <1>0, <2>1, <2>3 DEF PreflightUpdate, ExportUpdate, RollbackUpdate, Rows
    <3> QED BY <1>1, <2>1, <3>1
  <2>4. ASSUME NEW a \in Approvals, ApproveUpdate(q, a)
        PROVE  RowApprovals'
    <3>1. /\ rows'[req[q].set].approval = a
          /\ \A s \in Sets : s # req[q].set => rows'[s] = rows[s]
      BY <1>0, <2>1, <2>4 DEF ApproveUpdate, Rows
    <3>2. reviews'[a] = [set |-> req[q].set, fp |-> req[q].fp] /\ reviews'[a] \in Reviews
      BY <2>1, <2>4
      DEF ApproveUpdate, At, TypeInv, TypeOK, RequestShape, Shaped, InFlight, Reviews
    <3> QED BY <1>0, <3>1, <3>2 DEF RowApprovals
  <2> QED BY <1>3, <2>2, <2>3, <2>4 DEF UpdatesRow
<1> QED BY <1>0, <1>1, <1>2, <1>3, RowSteps

LEMMA WriteRequestsNext ==
  ASSUME TypeInv, RowApprovals, WriteRequests, [Next]_vars
  PROVE  WriteRequests'
<1> SUFFICES ASSUME NEW q \in Requests, req'[q] # None, IsWrite(req'[q])
             PROVE  /\ reviews'[req'[q].approval] # None
                    /\ reviews'[req'[q].approval].set = req'[q].set
                    /\ previews'[req'[q].preview] # None
                    /\ previews'[req'[q].preview].status = "ready-for-apply"
  BY DEF WriteRequests
<1>1. CASE req[q] # None /\ SameWrite(req[q], req'[q])
  <2>1. IsWrite(req[q]) /\ req[q].approval \in Approvals /\ req[q].preview \in Previews
    BY <1>1
    DEF SameWrite, IsWrite, TypeInv, TypeOK, RequestShape, Shaped, InFlight
  <2> QED BY <1>1, <2>1, RecordsKept DEF SameWrite, WriteRequests
<1>2. CASE LoadsWrite(q)
  <2>1. PICK s \in Sets, a \in Approvals, v \in Previews, op \in Operations :
          /\ rows[s] # None /\ rows[s].approval = a /\ Ready(v)
          /\ req' = [req EXCEPT ![q] = WriteRequest(op, s, v)]
    BY <1>2
    DEF LoadsWrite, ExportLoad, RollbackLoad, RollbackFrom, ApprovedRow, Begin,
        Operations
  <2>2. req'[q] = WriteRequest(op, s, v)
    BY <2>1 DEF TypeInv, TypeOK
  <2>3. reviews[a] # None /\ reviews[a].set = s
    BY <2>1 DEF RowApprovals
  <2>4. req'[q].approval = a /\ req'[q].set = s /\ req'[q].preview = v
    BY <2>1, <2>2 DEF WriteRequest
  <2> QED BY <2>1, <2>3, <2>4, RecordsKept DEF Ready
<1> QED BY <1>1, <1>2, WriteSteps

LEMMA ImportsGatedNext ==
  ASSUME TypeInv, WriteRequests, ImportsGated, [Next]_vars
  PROVE  ImportsGated'
<1> SUFFICES ASSUME NEW d \in commands', d.kind = "import"
             PROVE  Gated(d)'
  BY DEF ImportsGated
<1>1. d.approval \in Approvals /\ d.preview \in Previews
  BY TypeNext DEF TypeInv, TypeOK, Commands
<1>2. CASE \E c \in commands : SameCommand(c, d)
  <2>1. Gated(d)
    BY <1>2 DEF ImportsGated, SameCommand, Gated
  <2> QED BY <1>1, <2>1, GatedKept
<1>3. ASSUME NEW q \in Requests, ExportPlan(q), d = Sent(q, "import")
      PROVE  Gated(d)'
  <2>1. req[q] \in InFlight /\ IsWrite(req[q])
    BY <1>3 DEF ExportPlan, At, IsWrite, TypeInv, TypeOK
  <2>2. /\ reviews[d.approval] # None /\ reviews[d.approval].set = d.set
        /\ previews[d.preview] # None
        /\ previews[d.preview].status = "ready-for-apply"
    <3>1. /\ d.approval = req[q].approval
          /\ d.set = req[q].set /\ d.preview = req[q].preview
      BY <1>3 DEF Sent
    <3> QED BY <1>3, <2>1, <3>1 DEF WriteRequests, ExportPlan, At
  <2>3. /\ d.content = req[q].content /\ d.fp = req[q].fp
        /\ d.fp = Fingerprint(d.content, catalog)
        /\ PlanStatus(d.content, catalog) = "draft"
    BY <1>3 DEF ExportPlan, Sent
  <2>4. d.fp.catalog = catalog
    BY <2>3 DEF Fingerprint
  <2>5. catalog # None /\ d.content.rules # {} /\ d.content.rules \subseteq RulesIn[catalog]
    BY <2>3 DEF PlanStatus
  <2>6. Gated(d)
    BY <2>2, <2>3, <2>4, <2>5 DEF Gated
  <2> QED BY <1>1, <2>6, GatedKept
<1>4. ASSUME NEW q \in Requests, d = Sent(q, "rm")
      PROVE  Gated(d)'
  BY <1>4 DEF Sent
<1> QED BY <1>2, <1>3, <1>4, CommandSteps

LEMMA GatedExportNext ==
  ASSUME TypeInv, ImportsGated, GatedExport, [Next]_vars
  PROVE  GatedExport'
<1> SUFFICES ASSUME NEW n \in Names, NEW o, o = objects'[n], o # None
             PROVE  o.content.name = n /\ Gated(o)'
  BY DEF GatedExport, Gated
<1>1. o.approval \in Approvals /\ o.preview \in Previews
  BY TypeNext DEF TypeInv, TypeOK, Objects
<1>2. CASE o = objects[n]
  <2>1. o.content.name = n /\ Gated(o)
    BY <1>2 DEF GatedExport, Gated
  <2> QED BY <1>1, <2>1, GatedKept
<1>3. ASSUME NEW c \in commands, Runs(c), o # objects[n]
      PROVE  o.content.name = n /\ Gated(o)'
  <2>1. /\ c.kind = "import" /\ c.content.name = n
        /\ o = [set |-> c.set, content |-> c.content, fp |-> c.fp,
                approval |-> c.approval, preview |-> c.preview]
    BY <1>3 DEF Runs, Imported, TypeInv, TypeOK
  <2>2. Gated(c)
    BY <2>1 DEF ImportsGated
  <2>3. Gated(o)
    BY <2>1, <2>2 DEF Gated
  <2> QED BY <1>1, <2>1, <2>3, GatedKept
<1> QED BY <1>2, <1>3, ObjectSteps

LEMMA InvInit == Init => IInv
  BY TypeInit
  DEF Init, IInv, TypeInv, RowApprovals, WriteRequests, ImportsGated, GatedExport

LEMMA InvNext == IInv /\ [Next]_vars => IInv'
  BY TypeNext, RowApprovalsNext, WriteRequestsNext, ImportsGatedNext, GatedExportNext
  DEF IInv, TypeInv

\* Every signature object on the ADC went through the gates of the export
\* handler, whatever other requests, restarts, timeouts and catalog updates did
\* while it ran.
THEOREM GatedExportHolds == Spec => []GatedExport
<1>1. IInv => GatedExport
  BY DEF IInv
<1> QED BY <1>1, InvInit, InvNext, PTL DEF Spec

-----------------------------------------------------------------------------
(* The write audit *)

CommandEntry(c) ==
  [op |-> IF c.kind = "import" THEN "export" ELSE "rollback",
   set |-> c.set, approval |-> c.approval]

\* A pending transaction has a request that will audit it, or its request is
\* known to have failed.
CommandsAccounted ==
  \A c \in commands :
    /\ c.by # None => Entry(req[c.by]) = CommandEntry(c)
    /\ c.by = None => CommandEntry(c) \in lost

\* A rollback starts from an audited export; a write request reaches its UPDATE
\* only after its own audit row.
RequestsAudited ==
  \A q \in Requests : req[q] # None =>
    /\ req[q].op = "rollback" => Audited("export", req[q].set)
    /\ IsWrite(req[q]) /\ req[q].at = "update" => Entry(req[q]) \in audit

AInv ==
  /\ TypeInv
  /\ CommandsAccounted
  /\ RequestsAudited
  /\ WritesAudited
  /\ HistoryAudited

LEMMA AuditGrows ==
  ASSUME [Next]_vars
  PROVE  audit \subseteq audit' /\ lost \subseteq lost'
<1>1. CASE Drafting
  BY <1>1 DEF Drafting, Prepare, Promote, Exception, Insert
<1>2. ASSUME NEW q \in Requests, RequestStep(q)
      PROVE  audit \subseteq audit' /\ lost \subseteq lost'
  BY <1>2
  DEF RequestStep, EditLoad, EditPlan, EditUpdate, ApproveLoad, ApproveUpdate,
      PreflightLoad, PreflightPlan, PreflightPreview, PreflightUpdate, ExportLoad,
      ExportPlan, RollbackLoad, RollbackFrom, RollbackCheck, Audit, ExportUpdate,
      RollbackUpdate,
      Refuse, GiveUp, Lose, tables
<1>3. CASE AdapterStep
  BY <1>3
  DEF AdapterStep, AdapterAnswers, AdapterFailsLate, AdapterRejects, Lose, tables
<1>4. CASE Environment \/ UNCHANGED vars
  BY <1>4 DEF Environment, Restart, CatalogChanges, Expire, Lose, vars, tables
<1> QED BY <1>1, <1>2, <1>3, <1>4 DEF Next

\* The audit table is append-only, and only Audit appends.
LEMMA AuditSteps ==
  ASSUME [Next]_vars, NEW e \in audit'
  PROVE  e \in audit \/ \E q \in Requests : Audit(q) /\ e = Entry(req[q])
<1>1. CASE Drafting
  BY <1>1 DEF Drafting, Prepare, Promote, Exception, Insert
<1>2. ASSUME NEW q \in Requests, RequestStep(q)
      PROVE  UNCHANGED audit \/ Audit(q)
  BY <1>2
  DEF RequestStep, EditLoad, EditPlan, EditUpdate, ApproveLoad, ApproveUpdate,
      PreflightLoad, PreflightPlan, PreflightPreview, PreflightUpdate, ExportLoad,
      ExportPlan, RollbackLoad, RollbackFrom, RollbackCheck, ExportUpdate,
      RollbackUpdate, Refuse,
      GiveUp, tables
<1>3. CASE AdapterStep
  BY <1>3 DEF AdapterStep, AdapterAnswers, AdapterFailsLate, AdapterRejects, tables
<1>4. CASE Environment \/ UNCHANGED vars
  BY <1>4 DEF Environment, Restart, CatalogChanges, Expire, vars, tables
<1>5. CASE \E q \in Requests : Audit(q)
  BY <1>5 DEF Audit
<1> QED BY <1>1, <1>2, <1>3, <1>4, <1>5 DEF Next

\* A handler's step moves its own request only and, unless it hands over or gives
\* up a transaction, has none pending.
LEMMA OwnStep ==
  ASSUME TypeInv, NEW q \in Requests, RequestStep(q)
  PROVE  /\ \A p \in Requests : p # q => req'[p] = req[p]
         /\ \/ commands' = commands /\ (req[q] = None \/ req[q].at # "adc")
            \/ ExportPlan(q) \/ RollbackCheck(q) \/ GiveUp(q)
<1>1. \A p \in Requests : p # q => req'[p] = req[p]
  BY ZenonT(60) DEF RequestStep, EditLoad, EditPlan, EditUpdate, ApproveLoad, ApproveUpdate,
         PreflightLoad, PreflightPlan, PreflightPreview, PreflightUpdate, ExportLoad,
         ExportPlan, RollbackLoad, RollbackFrom, RollbackCheck, Send, Audit,
         ExportUpdate,
         RollbackUpdate, Refuse, GiveUp, Begin, GoTo, Finish, TypeInv, TypeOK
<1>2. Refuse(q) => req[q].at # "adc"
  BY DEF Refuse, Idle, Writing, TypeInv, TypeOK, RequestShape, Shaped, InFlight,
         Operations
<1>3. \/ commands' = commands /\ (req[q] = None \/ req[q].at # "adc")
      \/ ExportPlan(q) \/ RollbackCheck(q) \/ GiveUp(q)
  BY <1>2
  DEF RequestStep, EditLoad, EditPlan, EditUpdate, ApproveLoad, ApproveUpdate,
      PreflightLoad, PreflightPlan, PreflightPreview, PreflightUpdate, ExportLoad,
      RollbackLoad, RollbackFrom, Audit, ExportUpdate, RollbackUpdate, Refuse,
      Idle, At, adc
<1> QED BY <1>1, <1>3

\* The answer to a transaction moves the request that waits for it only.
LEMMA OwnAnswer ==
  ASSUME TypeInv, NEW c \in commands,
         AdapterAnswers(c) \/ AdapterFailsLate(c) \/ AdapterRejects(c)
  PROVE  /\ commands' = commands \ {c}
         /\ \A p \in Requests : p # c.by => req'[p] = req[p]
         /\ \A d \in commands' : d.by # None => d.by \in Requests /\ d.by # c.by
<1>1. commands' = commands \ {c}
  BY DEF AdapterAnswers, AdapterFailsLate, AdapterRejects, Runs, Imported
<1>2. \A p \in Requests : p # c.by => req'[p] = req[p]
  BY DEF AdapterAnswers, AdapterFailsLate, AdapterRejects, Finish, TypeInv, TypeOK
<1>3. \A d \in commands' : d.by # None => d.by \in Requests /\ d.by # c.by
  BY <1>1 DEF TypeInv, TypeOK, Commands, CommandOwners
<1> QED BY <1>1, <1>2, <1>3

LEMMA CommandsAccountedNext ==
  ASSUME TypeInv, CommandsAccounted, [Next]_vars
  PROVE  CommandsAccounted'
<1>1. \A c \in commands : /\ c \in Commands
                          /\ c.by # None => c.by \in Requests /\ Writing(req[c.by])
                                            /\ req[c.by].at = "adc"
  BY DEF TypeInv, TypeOK, Commands, CommandOwners, Writing, IsWrite
<1>2. CASE /\ commands' \subseteq commands
           /\ \A c \in commands' : c.by # None => req'[c.by] = req[c.by]
  BY <1>1, <1>2, AuditGrows DEF CommandsAccounted, CommandEntry, Entry
<1>3. ASSUME NEW Q \in SUBSET Requests, commands' = Orphaned(Q),
             \A p \in Requests \ Q : req'[p] = req[p],
             \A p \in Q : Writing(req[p]) => Entry(req[p]) \in lost'
      PROVE  CommandsAccounted'
  <2> SUFFICES ASSUME NEW c \in commands, NEW d,
                      d = [c EXCEPT !.by = IF @ \in Q THEN None ELSE @]
               PROVE  /\ d.by # None => Entry(req'[d.by]) = CommandEntry(d)
                      /\ d.by = None => CommandEntry(d) \in lost'
    BY <1>3 DEF CommandsAccounted, Orphaned, CommandEntry, Entry
  <2>1. /\ CommandEntry(d) = CommandEntry(c)
        /\ d.by = IF c.by \in Q THEN None ELSE c.by
    BY <1>1 DEF CommandEntry, Commands
  <2>2. CASE c.by = None
    BY <2>1, <2>2, AuditGrows DEF CommandsAccounted
  <2>3. CASE c.by # None /\ c.by \in Q
    BY <1>1, <1>3, <2>1, <2>3 DEF CommandsAccounted
  <2>4. CASE c.by # None /\ c.by \notin Q
    BY <1>1, <1>3, <2>1, <2>4 DEF CommandsAccounted
  <2> QED BY <2>2, <2>3, <2>4
<1>4. CASE Drafting
  BY <1>2, <1>4 DEF Drafting, Prepare, Promote, Exception, Insert, adc
<1>5. ASSUME NEW q \in Requests, RequestStep(q)
      PROVE  CommandsAccounted'
  <2>1. \A p \in Requests : p # q => req'[p] = req[p]
    BY <1>5, OwnStep
  <2>2. CASE commands' = commands /\ (req[q] = None \/ req[q].at # "adc")
    <3>1. \A c \in commands : c.by # q
      BY <1>1, <2>2 DEF Writing
    <3> QED BY <1>1, <1>2, <2>1, <2>2, <3>1
  <2>3. ASSUME NEW kind \in {"import", "rm"}, Send(q, kind), At(q, req[q].op, "plan"),
               req[q].op = IF kind = "import" THEN "export" ELSE "rollback",
               lost' = lost
        PROVE  CommandsAccounted'
    <3>1. commands' = commands \cup {Sent(q, kind)}
      BY <2>3 DEF Send, Sent
    <3>2. \A c \in commands : c.by # q
      BY <1>1, <2>3 DEF At
    <3>3. Entry(req'[q]) = CommandEntry(Sent(q, kind)) /\ Sent(q, kind).by = q
      BY <2>3 DEF Send, GoTo, Sent, CommandEntry, Entry, TypeInv, TypeOK, InFlight
    <3>4. \A c \in commands :
            /\ c.by # None => Entry(req'[c.by]) = CommandEntry(c)
            /\ c.by = None => CommandEntry(c) \in lost'
      BY <1>1, <2>1, <2>3, <3>2 DEF CommandsAccounted
    <3>5. \A c \in commands' :
            /\ c.by # None => Entry(req'[c.by]) = CommandEntry(c)
            /\ c.by = None => CommandEntry(c) \in lost'
      BY <3>1, <3>3, <3>4
    <3> QED BY <3>5 DEF CommandsAccounted, CommandEntry, Entry
  <2>4. CASE ExportPlan(q)
    BY <2>3, <2>4 DEF ExportPlan, At
  <2>5. CASE RollbackCheck(q)
    BY <2>3, <2>5 DEF RollbackCheck, At
  <2>6. CASE GiveUp(q)
    <3>1. Entry(req[q]) \in lost' /\ commands' = Orphaned({q})
      BY <2>6 DEF GiveUp, Lose
    <3> QED BY <1>3, <2>1, <3>1
  <2> QED BY <1>5, <2>2, <2>4, <2>5, <2>6, OwnStep
<1>6. CASE AdapterStep
  <2>1. PICK c \in commands :
          AdapterAnswers(c) \/ AdapterFailsLate(c) \/ AdapterRejects(c)
    BY <1>6 DEF AdapterStep
  <2> QED BY <1>2, <2>1, OwnAnswer
<1>7. ASSUME NEW flag \in WriteModes, Restart(flag)
      PROVE  CommandsAccounted'
  <2>1. \A p \in Requests : Writing(req[p]) => Entry(req[p]) \in lost'
    BY <1>7 DEF Restart, Lose
  <2> QED BY <1>3, <1>7, <2>1 DEF Restart
<1>8. CASE UNCHANGED <<commands, req>>
  BY <1>2, <1>8
<1> QED
  BY <1>4, <1>5, <1>6, <1>7, <1>8
  DEF Next, Environment, CatalogChanges, Expire, vars, adc

\* A write request is at its UPDATE because it was there or has just been audited.
LEMMA UpdateStage ==
  ASSUME TypeInv, [Next]_vars, NEW q \in Requests, req'[q] # None, IsWrite(req'[q]),
         req'[q].at = "update"
  PROVE  req'[q] = req[q] \/ (Audit(q) /\ Entry(req'[q]) = Entry(req[q]))
<1>0. req \in [Requests -> InFlight \cup {None}]
  BY DEF TypeInv, TypeOK
<1>1. ASSUME NEW p \in Requests, RequestStep(p), p = q
      PROVE  req'[q] = req[q] \/ (Audit(q) /\ Entry(req'[q]) = Entry(req[q]))
  <2>1. CASE \E s \in Sets, x \in Proposals : EditLoad(q, s, x)
    BY <1>0, <2>1 DEF EditLoad, Begin
  <2>2. CASE \E s \in Sets : rows[s] # None /\ ApproveLoad(q, s, rows[s].fp)
    BY <1>0, <2>2 DEF ApproveLoad, Begin, IsWrite
  <2>3. CASE \E s \in Sets, a \in Approvals :
               rows[s] # None /\ PreflightLoad(q, s, a, rows[s].fp)
    BY <1>0, <2>3 DEF PreflightLoad, Begin
  <2>4. CASE LoadsWrite(q)
    BY <1>0, <2>4 DEF LoadsWrite, ExportLoad, RollbackLoad, RollbackFrom,
                      WriteRequest, Begin
  <2>5. CASE EditPlan(q) \/ PreflightPlan(q)
    BY <1>0, <2>5 DEF EditPlan, PreflightPlan, At, IsWrite, InFlight
  <2>6. CASE \E v \in Previews : PreflightPreview(q, v)
    BY <1>0, <2>6 DEF PreflightPreview, At, IsWrite, InFlight
  <2>7. CASE ExportPlan(q) \/ RollbackCheck(q)
    BY <1>0, <2>7 DEF ExportPlan, RollbackCheck, At, Send, GoTo, InFlight
  <2>8. CASE Audit(q)
    BY <1>0, <2>8 DEF Audit, GoTo, Entry, InFlight
  <2>9. CASE Finish(q)
    BY <1>0, <2>9 DEF Finish
  <2> QED
    BY <1>1, <2>1, <2>2, <2>3, <2>4, <2>5, <2>6, <2>7, <2>8, <2>9
    DEF RequestStep, LoadsWrite, EditUpdate, ApproveUpdate, PreflightUpdate,
        ExportUpdate, RollbackUpdate, Refuse, GiveUp
<1>2. ASSUME NEW p \in Requests, RequestStep(p), p # q
      PROVE  req'[q] = req[q]
  BY <1>2, OwnStep
<1>3. ASSUME NEW c \in commands,
             AdapterAnswers(c) \/ AdapterFailsLate(c) \/ AdapterRejects(c)
      PROVE  req'[q] = req[q]
  <2>1. CASE c.by = q
    BY <1>0, <1>3, <2>1
    DEF AdapterAnswers, AdapterFailsLate, AdapterRejects, Finish, InFlight,
        TypeInv, CommandOwners
  <2> QED BY <1>3, <2>1, OwnAnswer
<1>4. CASE Drafting \/ Environment \/ UNCHANGED vars
  BY <1>0, <1>4
  DEF Drafting, Prepare, Promote, Exception, Insert, Environment, Restart,
      CatalogChanges, Expire, vars
<1> QED BY <1>1, <1>2, <1>3, <1>4 DEF Next, AdapterStep

LEMMA RequestsAuditedNext ==
  ASSUME TypeInv, RequestsAudited, HistoryAudited, [Next]_vars
  PROVE  RequestsAudited'
<1> SUFFICES ASSUME NEW q \in Requests, req'[q] # None
             PROVE  /\ req'[q].op = "rollback" =>
                         \E a \in Approvals :
                           [op |-> "export", set |-> req'[q].set, approval |-> a]
                             \in audit'
                    /\ IsWrite(req'[q]) /\ req'[q].at = "update" =>
                         Entry(req'[q]) \in audit'
  BY DEF RequestsAudited, IsWrite, Entry, Audited
<1>1. ASSUME req'[q].op = "rollback"
      PROVE  \E a \in Approvals :
               [op |-> "export", set |-> req'[q].set, approval |-> a] \in audit'
  <2>1. CASE req[q] # None /\ SameWrite(req[q], req'[q])
    <3>1. req[q].set \in Sets /\ Audited("export", req[q].set)
      BY <1>1, <2>1 DEF SameWrite, RequestsAudited, TypeInv, TypeOK, InFlight
    <3>2. req'[q].set = req[q].set
      BY <2>1 DEF SameWrite
    <3> QED BY <3>1, <3>2, AuditGrows DEF Audited
  <2>2. CASE LoadsWrite(q)
    <3>1. PICK s \in Sets, a \in Approvals, v \in Previews, op \in Operations :
            /\ rows[s] # None /\ req' = [req EXCEPT ![q] = WriteRequest(op, s, v)]
            /\ op = "rollback" => rows[s].status = "exported"
      BY <2>2
      DEF LoadsWrite, ExportLoad, RollbackLoad, RollbackFrom, Begin, Operations
    <3>2. req'[q].op = op /\ req'[q].set = s
      BY <3>1 DEF WriteRequest, TypeInv, TypeOK
    <3>3. Audited("export", s)
      BY <1>1, <3>1, <3>2 DEF HistoryAudited
    <3> QED BY <3>2, <3>3, AuditGrows DEF Audited
  <2> QED BY <1>1, <2>1, <2>2, WriteSteps DEF IsWrite
<1>2. ASSUME IsWrite(req'[q]), req'[q].at = "update"
      PROVE  Entry(req'[q]) \in audit'
  <2>1. CASE req'[q] = req[q]
    BY <1>2, <2>1, AuditGrows DEF RequestsAudited
  <2>2. CASE Audit(q) /\ Entry(req'[q]) = Entry(req[q])
    BY <2>2 DEF Audit
  <2> QED BY <1>2, <2>1, <2>2, UpdateStage
<1> QED BY <1>1, <1>2

\* A request that owes the audit its row writes it, keeps owing it, or is known
\* to have failed.
LEMMA AuditStage ==
  ASSUME TypeInv, [Next]_vars, NEW q \in Requests, At(q, "export", "audit")
  PROVE  req'[q] = req[q] \/ Entry(req[q]) \in audit' \cup lost'
<1>1. CASE Drafting \/ UNCHANGED vars
  BY <1>1 DEF Drafting, Prepare, Promote, Exception, Insert, vars
<1>2. ASSUME NEW p \in Requests, RequestStep(p)
      PROVE  req'[q] = req[q] \/ Entry(req[q]) \in audit' \cup lost'
  <2>1. CASE p # q
    BY <1>2, <2>1, OwnStep
  <2>2. CASE p = q
    <3>1. Audit(q) \/ GiveUp(q)
      BY <1>2, <2>2
      DEF RequestStep, EditLoad, EditPlan, EditUpdate, ApproveLoad, ApproveUpdate,
          PreflightLoad, PreflightPlan, PreflightPreview, PreflightUpdate, ExportLoad,
          ExportPlan, RollbackLoad, RollbackFrom, RollbackCheck, ExportUpdate,
          RollbackUpdate,
          Refuse, Writing, Idle, At
    <3> QED BY <3>1 DEF Audit, GiveUp, Lose
  <2> QED BY <2>1, <2>2
<1>3. ASSUME NEW c \in commands,
             AdapterAnswers(c) \/ AdapterFailsLate(c) \/ AdapterRejects(c)
      PROVE  req'[q] = req[q]
  <2>1. c.by # q
    BY DEF TypeInv, CommandOwners, At
  <2> QED BY <1>3, <2>1, OwnAnswer
<1>4. CASE Environment
  BY <1>4 DEF Environment, Restart, Lose, CatalogChanges, Expire, Writing, At
<1> QED BY <1>1, <1>2, <1>3, <1>4 DEF Next, AdapterStep

LEMMA WritesAuditedNext ==
  ASSUME TypeInv, CommandsAccounted, WritesAudited, [Next]_vars
  PROVE  WritesAudited'
<1> DEFINE Import(o) == [op |-> "export", set |-> o.set, approval |-> o.approval]
<1> SUFFICES ASSUME NEW n \in Names, NEW o, o = objects'[n], o # None
             PROVE  \/ Import(o) \in audit' \cup lost'
                    \/ \E q \in Requests :
                         /\ req'[q] # None /\ req'[q].op = "export"
                         /\ req'[q].at = "audit" /\ Entry(req'[q]) = Import(o)
  BY DEF WritesAudited, At, Entry
<1>1. CASE o = objects[n]
  <2>1. CASE Import(o) \in audit \cup lost
    BY <2>1, AuditGrows
  <2>2. CASE \E q \in Requests : At(q, "export", "audit") /\ Entry(req[q]) = Import(o)
    <3>1. PICK q \in Requests : At(q, "export", "audit") /\ Entry(req[q]) = Import(o)
      BY <2>2
    <3> HIDE DEF Import
    <3> QED BY <3>1, AuditStage DEF At
  <2> QED BY <1>1, <2>1, <2>2 DEF WritesAudited
<1>2. ASSUME NEW c \in commands, o # objects[n],
             AdapterAnswers(c) \/ (AdapterFailsLate(c) /\ c.by # None)
      PROVE  \/ Import(o) \in audit' \cup lost'
             \/ \E q \in Requests :
                  /\ req'[q] # None /\ req'[q].op = "export"
                  /\ req'[q].at = "audit" /\ Entry(req'[q]) = Import(o)
  <2>1. Runs(c)
    BY <1>2 DEF AdapterAnswers, AdapterFailsLate
  <2>2. c.kind = "import" /\ o.set = c.set /\ o.approval = c.approval
    BY <1>2, <2>1 DEF Runs, Imported, TypeInv, TypeOK
  <2>3. Import(o) = CommandEntry(c)
    BY <2>2 DEF CommandEntry
  <2>4. CASE c.by = None
    BY <2>3, <2>4, AuditGrows DEF CommandsAccounted
  <2>5. CASE c.by # None /\ AdapterFailsLate(c)
    BY <2>3, <2>5 DEF CommandsAccounted, AdapterFailsLate, Lose
  <2>6. CASE c.by # None /\ AdapterAnswers(c)
    <3>1. /\ c.by \in Requests /\ req[c.by] \in InFlight
          /\ Entry(req[c.by]) = CommandEntry(c)
      BY <2>6 DEF TypeInv, TypeOK, Commands, CommandOwners, CommandsAccounted
    <3>2. req[c.by].op = "export"
      BY <2>2, <3>1 DEF Entry, CommandEntry
    <3>3. /\ req'[c.by] # None /\ req'[c.by].op = "export" /\ req'[c.by].at = "audit"
          /\ Entry(req'[c.by]) = Entry(req[c.by])
      BY <2>6, <3>1, <3>2 DEF AdapterAnswers, Entry, TypeInv, TypeOK, InFlight
    <3> QED BY <2>3, <3>1, <3>3
  <2> QED BY <1>2, <2>4, <2>5, <2>6
<1> HIDE DEF Import
<1> QED BY <1>1, <1>2, ObjectSteps

LEMMA HistoryAuditedNext ==
  ASSUME TypeInv, RequestsAudited, HistoryAudited, [Next]_vars
  PROVE  HistoryAudited'
<1> DEFINE Exported(s) == \E a \in Approvals :
                            [op |-> "export", set |-> s, approval |-> a] \in audit'
           RolledBack(s) == \E a \in Approvals :
                              [op |-> "rollback", set |-> s, approval |-> a] \in audit'
           Backed(x, s) == /\ x.status = "exported" => x.applied
                           /\ x.applied => Exported(s)
                           /\ x.status = "rolled-back" => ~ x.applied /\ RolledBack(s)
<1>1. \A s \in Sets : /\ Audited("export", s) => Exported(s)
                      /\ Audited("rollback", s) => RolledBack(s)
  BY AuditGrows DEF Audited
<1>2. \A s \in Sets : rows[s] # None => Backed(rows[s], s)
  BY <1>1 DEF HistoryAudited
<1>3. \A q \in Requests : req[q] # None /\ req[q].op = "rollback" => Exported(req[q].set)
  BY <1>1 DEF RequestsAudited, TypeInv, TypeOK, InFlight
<1>4. ASSUME NEW s \in Sets, rows'[s] # None
      PROVE  Backed(rows'[s], s)
  <2>0. rows \in [Sets -> Rows \cup {None}]
    BY DEF TypeInv, TypeOK
  <2>1. CASE rows'[s] = rows[s]
    BY <1>2, <1>4, <2>1
  <2>2. ASSUME NEW t \in Sets, NEW p \in Proposals, Insert(t, p)
        PROVE  Backed(rows'[s], s)
    <3>1. CASE s = t
      <4>1. rows'[s] = Draft(p, catalog)
        BY <2>0, <2>2, <3>1 DEF Insert
      <4> QED BY <4>1 DEF Draft, PlanStatus
    <3>2. CASE s # t
      BY <2>0, <2>1, <2>2, <3>2 DEF Insert
    <3> QED BY <3>1, <3>2
  <2>3. ASSUME NEW q \in Requests, UpdatesRow(q)
        PROVE  Backed(rows'[s], s)
    <3>1. CASE s # req[q].set
      BY <2>0, <2>1, <2>3, <3>1
      DEF UpdatesRow, EditUpdate, PreflightUpdate, ExportUpdate, RollbackUpdate,
          ApproveUpdate
    <3>2. CASE s = req[q].set
      <4>1. /\ req[q] # None /\ rows[s] # None /\ rows[s] \in Rows
            /\ Backed(rows[s], s) /\ req[q] \in InFlight /\ req[q].at = "update"
        BY <1>2, <2>0, <2>3, <3>2
        DEF UpdatesRow, EditUpdate, PreflightUpdate, ExportUpdate, RollbackUpdate,
            ApproveUpdate, At, TypeInv, TypeOK, RequestRows
      <4>2. CASE EditUpdate(q)
        <5>1. rows'[s].status = "edited" /\ rows'[s].applied = rows[s].applied
          BY <2>0, <3>2, <4>1, <4>2 DEF EditUpdate, Rows
        <5> QED BY <4>1, <5>1
      <4>3. ASSUME NEW a \in Approvals, ApproveUpdate(q, a)
            PROVE  Backed(rows'[s], s)
        <5>1. rows'[s].status = "approved" /\ rows'[s].applied = rows[s].applied
          BY <2>0, <3>2, <4>1, <4>3 DEF ApproveUpdate, Rows
        <5> QED BY <4>1, <5>1
      <4>4. CASE PreflightUpdate(q)
        <5>1. rows'[s].status = rows[s].status /\ rows'[s].applied = rows[s].applied
          BY <2>0, <3>2, <4>1, <4>4 DEF PreflightUpdate, Rows
        <5> QED BY <4>1, <5>1
      <4>5. CASE ExportUpdate(q)
        <5>1. rows'[s].status = "exported" /\ rows'[s].applied = TRUE
          BY <2>0, <3>2, <4>1, <4>5 DEF ExportUpdate, Rows
        <5>2. Audited("export", s)
          BY <3>2, <4>1, <4>5
          DEF ExportUpdate, At, RequestsAudited, IsWrite, Entry, Audited, TypeInv,
              RequestShape, Shaped, InFlight
        <5> QED BY <1>1, <5>1, <5>2
      <4>6. CASE RollbackUpdate(q)
        <5>1. rows'[s].status = "rolled-back" /\ rows'[s].applied = FALSE
          BY <2>0, <3>2, <4>1, <4>6 DEF RollbackUpdate, Rows
        <5>2. Audited("rollback", s)
          BY <3>2, <4>1, <4>6
          DEF RollbackUpdate, At, RequestsAudited, IsWrite, Entry, Audited, TypeInv,
              RequestShape, Shaped, InFlight
        <5> QED BY <1>1, <5>1, <5>2
      <4> QED BY <2>3, <4>2, <4>3, <4>4, <4>5, <4>6 DEF UpdatesRow
    <3> QED BY <3>1, <3>2
  <2>4. CASE UNCHANGED rows
    BY <2>1, <2>4
  <2> QED BY <2>2, <2>3, <2>4, RowSteps
<1>5. ASSUME NEW d \in commands', d.kind = "rm"
      PROVE  Exported(d.set)
  <2>1. CASE \E c \in commands : SameCommand(c, d)
    BY <1>1, <1>5, <2>1 DEF SameCommand, HistoryAudited, TypeInv, TypeOK, Commands
  <2>2. ASSUME NEW q \in Requests, RollbackCheck(q), d = Sent(q, "rm")
        PROVE  Exported(d.set)
    BY <1>3, <2>2 DEF RollbackCheck, At, Sent
  <2>3. ASSUME NEW q \in Requests, d = Sent(q, "import")
        PROVE  Exported(d.set)
    BY <1>5, <2>3 DEF Sent
  <2> QED BY <2>1, <2>2, <2>3, CommandSteps
<1>6. ASSUME NEW e \in audit', e.op = "rollback"
      PROVE  Exported(e.set)
  <2>1. CASE e \in audit
    BY <1>1, <1>6, <2>1 DEF HistoryAudited, TypeInv, TypeOK, Entries
  <2>2. ASSUME NEW q \in Requests, Audit(q), e = Entry(req[q])
        PROVE  Exported(e.set)
    BY <1>3, <1>6, <2>2 DEF Audit, Entry
  <2> QED BY <2>1, <2>2, AuditSteps
<1> QED BY <1>4, <1>5, <1>6 DEF HistoryAudited, Audited

-----------------------------------------------------------------------------
LEMMA AuditInit == Init => AInv
  BY TypeInit
  DEF Init, AInv, CommandsAccounted, RequestsAudited, WritesAudited, HistoryAudited

LEMMA AuditNext == AInv /\ [Next]_vars => AInv'
  BY TypeNext, CommandsAccountedNext, RequestsAuditedNext, WritesAuditedNext,
     HistoryAuditedNext
  DEF AInv

\* No silent write: an object on the ADC is accounted for by a row of the write
\* audit, by the request about to write that row, or by a request known to have
\* failed between the ADC's answer and the audit.
THEOREM WritesAuditedHolds == Spec => []WritesAudited
<1>1. AInv => WritesAudited
  BY DEF AInv
<1> QED BY <1>1, AuditInit, AuditNext, PTL DEF Spec

\* The record never runs ahead of the audit: exported, applied and rolled-back
\* rows have their audit rows, and only audited exports are rolled back.
THEOREM HistoryAuditedHolds == Spec => []HistoryAudited
<1>1. AInv => HistoryAudited
  BY DEF AInv
<1> QED BY <1>1, AuditInit, AuditNext, PTL DEF Spec

-----------------------------------------------------------------------------
(* While requests do not overlap.  ApproveLoad and ApproveUpdate are two steps, and *)
(* so are the load of a rollback and its removal: an approval may be recorded for a *)
(* row that another request has edited.  What follows holds as long as a request    *)
(* ends before the next one starts, whatever the ADC, the catalog and the clock do.  *)

Serial == \A p, q \in Requests : req[p] # None /\ req[q] # None => p = q

\* The approval r names was given for the set and the fingerprint r has.
Bound(r) == reviews[r.approval] = [set |-> r.set, fp |-> r.fp]

\* A row that stands approved was reviewed as it stands.
RowBound(s) == /\ rows[s].approval # None
               /\ reviews[rows[s].approval] = [set |-> s, fp |-> rows[s].fp]

RowsBound == \A s \in Sets : rows[s] # None /\ rows[s].status = "approved" => RowBound(s)

\* The row an operator is about to approve is the one that was compared.
ApprovingCurrent == \A q \in Requests : req[q] # None /\ req[q].op = "approve" =>
                      rows[req[q].set].fp = req[q].fp

\* An export carries what was reviewed, from the row to the object.
ExportsBound ==
  /\ \A q \in Requests : req[q] # None /\ req[q].op = "export" => Bound(req[q])
  /\ \A c \in commands : c.kind = "import" => Bound(c)
  /\ \A n \in Names : objects[n] # None => Bound(objects[n])

BInv == /\ TypeInv /\ RowApprovals
        /\ RowsBound /\ ApprovingCurrent /\ ExportsBound

\* A row stands while a request is in flight that does not end with this step.
LEMMA RowStands ==
  ASSUME TypeInv, Serial, [Next]_vars, NEW q \in Requests, req[q] # None, req'[q] # None
  PROVE  \A s \in Sets : rows[s] # None => rows'[s] = rows[s]
<1>1. CASE \E s \in Sets, p \in Proposals : Insert(s, p)
  BY <1>1 DEF Insert, TypeInv, TypeOK
<1>2. ASSUME NEW p \in Requests, UpdatesRow(p)
      PROVE  FALSE
  <2>1. req[p] # None /\ req' = [req EXCEPT ![p] = None]
    BY <1>2
    DEF UpdatesRow, EditUpdate, PreflightUpdate, ExportUpdate, RollbackUpdate,
        ApproveUpdate, At, Finish
  <2>2. p = q
    BY <2>1 DEF Serial
  <2> QED BY <2>1, <2>2 DEF TypeInv, TypeOK
<1> QED BY <1>1, <1>2, RowSteps

\* A request to edit or to approve was in flight before, or has just been loaded.
LEMMA EarlySteps ==
  ASSUME TypeInv, [Next]_vars, NEW q \in Requests, req'[q] # None,
         req'[q].op \in {"edit", "approve"}
  PROVE  \/ req'[q] = req[q]
         \/ EditPlan(q)
         \/ \E s \in Sets : rows[s] # None /\ ApproveLoad(q, s, rows[s].fp)
         \/ \E s \in Sets, p \in Proposals : EditLoad(q, s, p)
<1>0. req \in [Requests -> InFlight \cup {None}]
  BY DEF TypeInv, TypeOK
<1>1. CASE Drafting
  BY <1>1 DEF Drafting, Prepare, Promote, Exception, Insert
<1>2. ASSUME NEW p \in Requests, RequestStep(p), p # q
      PROVE  req'[q] = req[q]
  BY <1>2, OwnStep
<1>3. CASE RequestStep(q)
  <2>1. CASE \E s \in Sets, a \in Approvals :
               rows[s] # None /\ PreflightLoad(q, s, a, rows[s].fp)
    BY <1>0, <2>1 DEF PreflightLoad, Begin
  <2>2. CASE LoadsWrite(q)
    BY <1>0, <2>2 DEF LoadsWrite, ExportLoad, RollbackLoad, RollbackFrom, Begin, WriteRequest
  <2>3. CASE PreflightPlan(q)
    BY <1>0, <2>3 DEF PreflightPlan, At, InFlight
  <2>4. CASE \E v \in Previews : PreflightPreview(q, v)
    BY <1>0, <2>4 DEF PreflightPreview, At, InFlight
  <2>5. CASE ExportPlan(q) \/ RollbackCheck(q)
    <3>1. req' = [req EXCEPT ![q].at = "adc"] /\ req[q] # None /\ IsWrite(req[q])
      BY <2>5 DEF ExportPlan, RollbackCheck, At, Send, GoTo, IsWrite
    <3> QED BY <1>0, <3>1 DEF IsWrite, InFlight
  <2>6. CASE Audit(q)
    <3>1. req' = [req EXCEPT ![q].at = "update"] /\ req[q] # None /\ IsWrite(req[q])
      BY <2>6 DEF Audit, GoTo, IsWrite, TypeInv, TypeOK, RequestShape, Shaped, InFlight, Operations
    <3> QED BY <1>0, <3>1 DEF IsWrite, InFlight
  <2>7. CASE Finish(q)
    BY <1>0, <2>7 DEF Finish
  <2> QED
    BY <1>3, <2>1, <2>2, <2>3, <2>4, <2>5, <2>6, <2>7
    DEF RequestStep, LoadsWrite, EditUpdate, ApproveUpdate, PreflightUpdate,
        ExportUpdate, RollbackUpdate, Refuse, GiveUp
<1>4. ASSUME NEW c \in commands,
             AdapterAnswers(c) \/ AdapterFailsLate(c) \/ AdapterRejects(c)
      PROVE  req'[q] = req[q]
  <2>1. CASE c.by # q
    BY <1>4, <2>1, OwnAnswer
  <2>2. CASE c.by = q
    <3>1. req[q] # None /\ IsWrite(req[q]) /\ q # None
      BY <2>2 DEF TypeInv, CommandOwners
    <3>2. req'[q] = None \/ req'[q] = [req[q] EXCEPT !.at = "audit"]
      BY <1>0, <1>4, <2>2, <3>1
      DEF AdapterAnswers, AdapterFailsLate, AdapterRejects, Finish
    <3> QED BY <1>0, <3>1, <3>2 DEF IsWrite, InFlight
  <2> QED BY <2>1, <2>2
<1>5. CASE Environment \/ UNCHANGED vars
  BY <1>5 DEF Environment, Restart, CatalogChanges, Expire, vars
<1> QED BY <1>1, <1>2, <1>3, <1>4, <1>5 DEF Next, AdapterStep

LEMMA ApprovingCurrentNext ==
  ASSUME TypeInv, Serial, ApprovingCurrent, [Next]_vars
  PROVE  ApprovingCurrent'
<1> SUFFICES ASSUME NEW q \in Requests, req'[q] # None, req'[q].op = "approve"
             PROVE  rows'[req'[q].set].fp = req'[q].fp
  BY DEF ApprovingCurrent
<1>0. req \in [Requests -> InFlight \cup {None}]
  BY DEF TypeInv, TypeOK
<1>1. CASE req'[q] = req[q]
  <2>1. req[q] # None /\ req[q].set \in Sets /\ rows[req[q].set] # None
    BY <1>0, <1>1 DEF TypeInv, RequestRows, InFlight
  <2>2. rows'[req[q].set] = rows[req[q].set]
    BY <2>1, RowStands
  <2> QED BY <1>1, <2>1, <2>2 DEF ApprovingCurrent
<1>2. ASSUME NEW s \in Sets, ApproveLoad(q, s, rows[s].fp)
      PROVE  rows'[req'[q].set].fp = req'[q].fp
  BY <1>0, <1>2 DEF ApproveLoad, Begin, tables
<1>3. CASE EditPlan(q)
  BY <1>0, <1>3 DEF EditPlan, At, InFlight
<1>4. ASSUME NEW s \in Sets, NEW p \in Proposals, EditLoad(q, s, p)
      PROVE  FALSE
  BY <1>0, <1>4 DEF EditLoad, Begin
<1> QED BY <1>1, <1>2, <1>3, <1>4, EarlySteps

LEMMA EditedStatus ==
  ASSUME rows \in [Sets -> Rows \cup {None}], NEW q \in Requests, EditUpdate(q),
         req[q].set \in Sets, rows[req[q].set] \in Rows
  PROVE  rows'[req[q].set].status = "edited"
<1> DEFINE s == req[q].set
           r1 == [rows EXCEPT ![s].status = "edited"]
           r2 == [r1 EXCEPT ![s].content = req[q].content]
           r3 == [r2 EXCEPT ![s].fp = req[q].fp]
           r4 == [r3 EXCEPT ![s].approval = None]
           r5 == [r4 EXCEPT ![s].preview = None]
           Ok(r) == s \in DOMAIN r /\ "status" \in DOMAIN r[s] /\ r[s].status = "edited"
<1>1. rows' = r5
  BY DEF EditUpdate
<1>2. Ok(r1)
  BY DEF Rows
<1> HIDE DEF r1
<1>3. Ok(r2)
  BY <1>2
<1> HIDE DEF r2
<1>4. Ok(r3)
  BY <1>3
<1> HIDE DEF r3
<1>5. Ok(r4)
  BY <1>4
<1> HIDE DEF r4
<1>6. Ok(r5)
  BY <1>5
<1> QED BY <1>1, <1>6

LEMMA RowsBoundNext ==
  ASSUME TypeInv, RowApprovals, RowsBound, ApprovingCurrent, [Next]_vars
  PROVE  RowsBound'
<1> SUFFICES ASSUME NEW s \in Sets, rows'[s] # None, rows'[s].status = "approved"
             PROVE  RowBound(s)'
  BY DEF RowsBound, RowBound
<1>0. rows \in [Sets -> Rows \cup {None}]
  BY DEF TypeInv, TypeOK
<1>1. ASSUME rows[s] # None, rows[s].status = "approved",
             rows'[s].approval = rows[s].approval, rows'[s].fp = rows[s].fp
      PROVE  RowBound(s)'
  <2>1. RowBound(s)
    BY <1>1 DEF RowsBound
  <2>2. [set |-> s, fp |-> rows[s].fp] \in Reviews
    BY <1>0, <1>1 DEF Rows, Reviews
  <2>3. rows[s].approval \in Approvals
    BY <1>0, <1>1, <2>1 DEF Rows, RowBound
  <2>4. reviews[rows[s].approval] # None
    BY <2>1, <2>2 DEF RowBound
  <2> QED BY <1>1, <2>1, <2>3, <2>4, RecordsKept DEF RowBound
<1>2. CASE rows'[s] = rows[s]
  BY <1>1, <1>2 DEF RowBound
<1>3. ASSUME NEW t \in Sets, NEW p \in Proposals, Insert(t, p), rows'[s] # rows[s]
      PROVE  FALSE
  <2>1. rows'[s] = Draft(p, catalog)
    BY <1>0, <1>3 DEF Insert
  <2> QED BY <2>1 DEF Draft, PlanStatus
<1>4. ASSUME NEW q \in Requests, UpdatesRow(q), rows'[s] # rows[s]
      PROVE  RowBound(s)'
  <2>0. req[q] # None
    BY <1>4
    DEF UpdatesRow, EditUpdate, PreflightUpdate, ExportUpdate, RollbackUpdate,
        ApproveUpdate, At
  <2>1. /\ req[q] # None /\ req[q].set \in Sets /\ rows[req[q].set] \in Rows
        /\ rows[req[q].set] # None
    BY <1>0, <2>0 DEF TypeInv, TypeOK, RequestRows, InFlight
  <2>2. s = req[q].set
    BY <1>0, <1>4, <2>1
    DEF UpdatesRow, EditUpdate, PreflightUpdate, ExportUpdate, RollbackUpdate, ApproveUpdate
  <2>3. CASE EditUpdate(q) \/ ExportUpdate(q) \/ RollbackUpdate(q)
    <3>1. rows'[s].status # "approved"
      <4>1. EditUpdate(q) => rows'[s].status = "edited"
        BY <1>0, <2>1, <2>2, EditedStatus
      <4>2. ExportUpdate(q) => rows'[s].status = "exported"
        BY <1>0, <2>1, <2>2 DEF ExportUpdate, Rows
      <4>3. RollbackUpdate(q) => rows'[s].status = "rolled-back"
        BY <1>0, <2>1, <2>2 DEF RollbackUpdate, Rows
      <4> QED BY <2>3, <4>1, <4>2, <4>3
    <3> QED BY <3>1
  <2>4. CASE PreflightUpdate(q)
    <3>1. /\ rows'[s].approval = rows[s].approval /\ rows'[s].fp = rows[s].fp
          /\ rows[s].status = "approved"
      BY <1>0, <2>1, <2>2, <2>4 DEF PreflightUpdate, Rows
    <3> QED BY <1>1, <2>1, <2>2, <3>1
  <2>5. ASSUME NEW a \in Approvals, ApproveUpdate(q, a)
        PROVE  RowBound(s)'
    <3>1. rows'[s].approval = a /\ rows'[s].fp = rows[s].fp
      BY <1>0, <2>1, <2>2, <2>5 DEF ApproveUpdate, Rows
    <3>2. rows[s].fp = req[q].fp
      BY <2>1, <2>2, <2>5 DEF ApprovingCurrent, ApproveUpdate, At
    <3>3. reviews'[a] = [set |-> s, fp |-> req[q].fp]
      BY <2>2, <2>5 DEF ApproveUpdate, TypeInv, TypeOK
    <3>4. a # None
      OBVIOUS
    <3> QED BY <3>1, <3>2, <3>3, <3>4 DEF RowBound
  <2> QED BY <1>4, <2>3, <2>4, <2>5 DEF UpdatesRow
<1> QED BY <1>2, <1>3, <1>4, RowSteps

\* What was reviewed stays reviewed.
LEMMA BoundKept ==
  ASSUME TypeInv, [Next]_vars, NEW r, r.approval \in Approvals, r.set \in Sets,
         r.fp \in Fingerprints, Bound(r)
  PROVE  Bound(r)'
<1>1. [set |-> r.set, fp |-> r.fp] \in Reviews
  BY DEF Reviews
<1>2. reviews[r.approval] # None
  BY <1>1 DEF Bound
<1> QED BY <1>2, RecordsKept DEF Bound

LEMMA ExportsBoundNext ==
  ASSUME TypeInv, RowsBound, ExportsBound, [Next]_vars
  PROVE  ExportsBound'
<1>0. TypeInv'
  BY TypeNext
<1>1. ASSUME NEW q \in Requests, NEW r, r = req'[q], r # None, r.op = "export"
      PROVE  Bound(r)'
  <2>0. r.approval \in Approvals /\ r.set \in Sets /\ r.fp \in Fingerprints
    BY <1>0, <1>1 DEF TypeInv, TypeOK, RequestShape, Shaped, IsWrite, InFlight
  <2>1. CASE req[q] # None /\ SameWrite(req[q], r)
    <3>1. Bound(req[q])
      BY <1>1, <2>1 DEF SameWrite, ExportsBound
    <3>2. Bound(r)
      BY <2>1, <3>1 DEF SameWrite, Bound
    <3> QED BY <2>0, <3>2, BoundKept
  <2>2. CASE LoadsWrite(q)
    <3>1. PICK s \in Sets, v \in Previews :
            /\ rows[s] # None /\ rows[s].status = "approved"
            /\ req' = [req EXCEPT ![q] = WriteRequest("export", s, v)]
      BY <1>1, <2>2
      DEF LoadsWrite, ExportLoad, RollbackLoad, RollbackFrom, ApprovedRow, Begin,
          WriteRequest, TypeInv, TypeOK
    <3>2. r = WriteRequest("export", s, v)
      BY <1>1, <3>1 DEF TypeInv, TypeOK
    <3>3. r.approval = rows[s].approval /\ r.set = s /\ r.fp = rows[s].fp
      BY <3>2 DEF WriteRequest
    <3>4. Bound(r)
      BY <3>1, <3>3 DEF RowsBound, RowBound, Bound
    <3> QED BY <2>0, <3>4, BoundKept
  <2> QED BY <1>1, <2>1, <2>2, WriteSteps DEF IsWrite
<1>2. ASSUME NEW d \in commands', d.kind = "import"
      PROVE  Bound(d)'
  <2>0. d.approval \in Approvals /\ d.set \in Sets /\ d.fp \in Fingerprints
    BY <1>0 DEF TypeInv, TypeOK, Commands
  <2>1. CASE \E c \in commands : SameCommand(c, d)
    <3>1. Bound(d)
      BY <1>2, <2>1 DEF ExportsBound, SameCommand, Bound
    <3> QED BY <2>0, <3>1, BoundKept
  <2>2. ASSUME NEW q \in Requests, ExportPlan(q), d = Sent(q, "import")
        PROVE  Bound(d)'
    <3>1. Bound(req[q])
      BY <2>2 DEF ExportPlan, At, ExportsBound
    <3>2. d.approval = req[q].approval /\ d.set = req[q].set /\ d.fp = req[q].fp
      BY <2>2 DEF Sent
    <3>3. Bound(d)
      BY <3>1, <3>2 DEF Bound
    <3> QED BY <2>0, <3>3, BoundKept
  <2>3. ASSUME NEW q \in Requests, d = Sent(q, "rm")
        PROVE  FALSE
    BY <1>2, <2>3 DEF Sent
  <2> QED BY <2>1, <2>2, <2>3, CommandSteps
<1>3. ASSUME NEW n \in Names, NEW o, o = objects'[n], o # None
      PROVE  Bound(o)'
  <2>0. o.approval \in Approvals /\ o.set \in Sets /\ o.fp \in Fingerprints
    BY <1>0, <1>3 DEF TypeInv, TypeOK, Objects
  <2>1. CASE o = objects[n]
    BY <1>3, <2>0, <2>1, BoundKept DEF ExportsBound
  <2>2. ASSUME NEW c \in commands, Runs(c), o # objects[n]
        PROVE  Bound(o)'
    <3>1. /\ c.kind = "import"
          /\ o.approval = c.approval /\ o.set = c.set /\ o.fp = c.fp
      BY <1>3, <2>2 DEF Runs, Imported, TypeInv, TypeOK
    <3>2. Bound(o)
      BY <3>1 DEF ExportsBound, Bound
    <3> QED BY <2>0, <3>2, BoundKept
  <2> QED BY <1>3, <2>1, <2>2, ObjectSteps
<1> QED BY <1>1, <1>2, <1>3 DEF ExportsBound, Bound

LEMMA BindInit == Init => BInv
  BY TypeInit DEF Init, BInv, RowApprovals, RowsBound, ApprovingCurrent, ExportsBound

LEMMA BindNext == BInv /\ Serial /\ [Next]_vars => BInv'
  BY TypeNext, RowApprovalsNext, RowsBoundNext, ApprovingCurrentNext, ExportsBoundNext
  DEF BInv

LEMMA AlwaysBound == Spec /\ []Serial => []BInv
  BY BindInit, BindNext, PTL DEF Spec

\* An approval covers what was reviewed, row and object alike, while a request ends
\* before the next starts (approve_custom_signature_set, export_custom_signature_set).
THEOREM ApprovalBindsContentHolds == Spec /\ []Serial => []ApprovalBindsContent
<1>1. BInv => ApprovalBindsContent
  BY DEF BInv, RowsBound, RowBound, ExportsBound, Bound, ApprovalBindsContent
<1> QED BY <1>1, AlwaysBound, PTL

-----------------------------------------------------------------------------
(* The refinement of ReviewedDeployment *)

Planned == {Fingerprint(p, c) : p \in Proposals, c \in IndexStates}

\* Whatever is reviewed was planned from a proposal and a state of the index.
PInv ==
  /\ catalog \in IndexStates
  /\ \A s \in Sets : rows[s] # None => rows[s].fp \in Planned
  /\ \A q \in Requests : req[q] # None /\ req[q].op = "edit" =>
       /\ req[q].content \in Proposals
       /\ req[q].at = "update" => req[q].fp \in Planned

LEMMA CatalogStep == [Next]_vars => catalog' = catalog \/ catalog' \in IndexStates
<1> SUFFICES ASSUME [Next]_vars PROVE catalog' = catalog \/ catalog' \in IndexStates
  OBVIOUS
<1>1. CASE Drafting
  BY <1>1 DEF Drafting, Prepare, Promote, Exception, Insert, env
<1>2. ASSUME NEW q \in Requests, RequestStep(q) PROVE catalog' = catalog
  BY <1>2
  DEF RequestStep, EditLoad, EditPlan, EditUpdate, ApproveLoad, ApproveUpdate,
      PreflightLoad, PreflightPlan, PreflightPreview, PreflightUpdate, ExportLoad,
      ExportPlan, RollbackLoad, RollbackFrom, RollbackCheck, Audit, ExportUpdate,
      RollbackUpdate, Refuse, GiveUp, env
<1>3. CASE AdapterStep
  BY <1>3 DEF AdapterStep, AdapterAnswers, AdapterFailsLate, AdapterRejects, env
<1>4. CASE Environment \/ UNCHANGED vars
  BY <1>4 DEF Environment, Restart, CatalogChanges, Expire, vars, env
<1> QED BY <1>1, <1>2, <1>3, <1>4 DEF Next

LEMMA PlannedNext ==
  ASSUME TypeInv, PInv, [Next]_vars
  PROVE  PInv'
<1>0. /\ rows \in [Sets -> Rows \cup {None}]
      /\ req \in [Requests -> InFlight \cup {None}]
  BY DEF TypeInv, TypeOK
<1>1. catalog' \in IndexStates
  BY CatalogStep DEF PInv
<1>2. ASSUME NEW s \in Sets, rows'[s] # None
      PROVE  rows'[s].fp \in Planned
  <2>1. CASE rows'[s] = rows[s]
    BY <1>2, <2>1 DEF PInv
  <2>2. ASSUME NEW t \in Sets, NEW p \in Proposals, Insert(t, p), rows'[s] # rows[s]
        PROVE  rows'[s].fp \in Planned
    <3>1. rows'[s] = Draft(p, catalog)
      BY <1>0, <2>2 DEF Insert
    <3>2. rows'[s].fp = Fingerprint(p, catalog)
      BY <3>1 DEF Draft
    <3> QED BY <3>2 DEF PInv, Planned
  <2>3. ASSUME NEW q \in Requests, UpdatesRow(q), rows'[s] # rows[s]
        PROVE  rows'[s].fp \in Planned
    <3>1. req[q] # None
      BY <2>3
      DEF UpdatesRow, EditUpdate, PreflightUpdate, ExportUpdate, RollbackUpdate,
          ApproveUpdate, At
    <3>2. req[q].set \in Sets /\ rows[req[q].set] \in Rows /\ rows[req[q].set] # None
      BY <1>0, <3>1 DEF TypeInv, RequestRows, InFlight
    <3>3. s = req[q].set
      BY <1>0, <2>3, <3>2
      DEF UpdatesRow, EditUpdate, PreflightUpdate, ExportUpdate, RollbackUpdate,
          ApproveUpdate
    <3>4. CASE EditUpdate(q)
      <4>1. rows'[s].fp = req[q].fp
        BY <1>0, <3>2, <3>3, <3>4 DEF EditUpdate, Rows
      <4> QED BY <3>4, <4>1 DEF EditUpdate, At, PInv
    <3>5. ASSUME ~ EditUpdate(q)
          PROVE  rows'[s].fp \in Planned
      <4>1. rows'[s].fp = rows[s].fp
        <5>1. PreflightUpdate(q) => rows'[s].fp = rows[s].fp
          BY <1>0, <3>2, <3>3 DEF PreflightUpdate, Rows
        <5>2. ExportUpdate(q) => rows'[s].fp = rows[s].fp
          BY <1>0, <3>2, <3>3 DEF ExportUpdate, Rows
        <5>3. RollbackUpdate(q) => rows'[s].fp = rows[s].fp
          BY <1>0, <3>2, <3>3 DEF RollbackUpdate, Rows
        <5>4. ASSUME NEW a \in Approvals, ApproveUpdate(q, a)
              PROVE  rows'[s].fp = rows[s].fp
          BY <1>0, <3>2, <3>3, <5>4 DEF ApproveUpdate, Rows
        <5> QED BY <2>3, <3>5, <5>1, <5>2, <5>3, <5>4 DEF UpdatesRow
      <4> QED BY <3>2, <3>3, <4>1 DEF PInv
    <3> QED BY <3>4, <3>5
  <2> QED BY <2>1, <2>2, <2>3, RowSteps
<1>3. ASSUME NEW q \in Requests, req'[q] # None, req'[q].op = "edit"
      PROVE  /\ req'[q].content \in Proposals
             /\ req'[q].at = "update" => req'[q].fp \in Planned
  <2>1. CASE req'[q] = req[q]
    BY <1>3, <2>1 DEF PInv
  <2>2. CASE EditPlan(q)
    <3>1. req[q] # None /\ req[q] \in InFlight /\ req[q].op = "edit"
      BY <1>0, <2>2 DEF EditPlan, At
    <3>2. /\ req'[q].content = req[q].content
          /\ req'[q].fp = Fingerprint(req[q].content, catalog)
      BY <1>0, <2>2, <3>1 DEF EditPlan, InFlight
    <3> QED BY <3>1, <3>2 DEF PInv, Planned
  <2>3. ASSUME NEW s \in Sets, ApproveLoad(q, s, rows[s].fp) PROVE FALSE
    BY <1>0, <1>3, <2>3 DEF ApproveLoad, Begin
  <2>4. ASSUME NEW s \in Sets, NEW p \in Proposals, EditLoad(q, s, p)
        PROVE  /\ req'[q].content \in Proposals
               /\ req'[q].at = "update" => req'[q].fp \in Planned
    BY <1>0, <2>4 DEF EditLoad, Begin
  <2> QED BY <1>3, <2>1, <2>2, <2>3, <2>4, EarlySteps
<1> QED BY <1>1, <1>2, <1>3 DEF PInv

LEMMA ReviewSteps ==
  ASSUME [Next]_vars
  PROVE  UNCHANGED reviews \/ \E q \in Requests, a \in Approvals : ApproveUpdate(q, a)
<1>1. CASE Drafting
  BY <1>1 DEF Drafting, Prepare, Promote, Exception, Insert
<1>2. ASSUME NEW q \in Requests, RequestStep(q)
      PROVE  UNCHANGED reviews \/ \E a \in Approvals : ApproveUpdate(q, a)
  BY <1>2
  DEF RequestStep, EditLoad, EditPlan, EditUpdate, ApproveLoad,
      PreflightLoad, PreflightPlan, PreflightPreview, PreflightUpdate, ExportLoad,
      ExportPlan, RollbackLoad, RollbackFrom, RollbackCheck, Audit, ExportUpdate,
      RollbackUpdate, Refuse, GiveUp
<1>3. CASE AdapterStep
  BY <1>3 DEF AdapterStep, AdapterAnswers, AdapterFailsLate, AdapterRejects
<1>4. CASE Environment \/ UNCHANGED vars
  BY <1>4 DEF Environment, Restart, CatalogChanges, Expire, vars
<1> QED BY <1>1, <1>2, <1>3, <1>4 DEF Next

RInv == IInv /\ BInv /\ PInv

\* An approval reviews one item; what is deployed stays.
LEMMA ApproveReviews ==
  ASSUME RInv, NEW q \in Requests, NEW a \in Approvals, ApproveUpdate(q, a)
  PROVE  Deployment!Next
<1> DEFINE i == [set |-> req[q].set, fp |-> req[q].fp]
<1>1. /\ req[q] # None /\ req[q].op = "approve" /\ req[q].set \in Sets
      /\ rows[req[q].set] # None
  BY DEF ApproveUpdate, At, RInv, BInv, TypeInv, TypeOK, RequestRows, InFlight
<1>2. req[q].fp = rows[req[q].set].fp
  BY <1>1 DEF RInv, BInv, ApprovingCurrent
<1>3. req[q].fp \in Planned
  BY <1>1, <1>2 DEF RInv, PInv
<1>4. i \in Reviewable
  BY <1>1, <1>3 DEF Reviewable, Planned
<1>5. i # None
  BY <1>1, <1>3, DraftType, InputAssumption, NoneAssumption
  DEF Planned, Reviews
<1>6. reviews' = [reviews EXCEPT ![a] = i] /\ reviews[a] = None /\ UNCHANGED objects
  BY DEF ApproveUpdate, adc
<1>7. reviews \in [Approvals -> Reviews \cup {None}]
  BY DEF RInv, BInv, TypeInv, TypeOK
<1> HIDE DEF i
<1>8. ReviewedItems' = ReviewedItems \cup {i}
  BY <1>5, <1>6, <1>7 DEF ReviewedItems
<1>9. UNCHANGED [n \in Names |-> DeployedItem(objects[n])]
  BY <1>6
<1> QED BY <1>4, <1>8, <1>9 DEF Deployment!Next, Deployment!Review

\* An object is an item; none is none.
LEMMA ItemTyped ==
  ASSUME NEW o \in Objects
  PROVE  DeployedItem(o) # None /\ DeployedItem(None) = None
<1>1. o # None
  OBVIOUS
<1>2. DeployedItem(o) \in Reviews
  BY <1>1 DEF DeployedItem, Objects, Contents, Fingerprints, Reviews
<1> QED BY <1>2 DEF DeployedItem

\* The ADC deploys a reviewed item under its own free name, or removes one.
LEMMA RunDeploys ==
  ASSUME RInv, NEW c \in commands, Runs(c), UNCHANGED reviews
  PROVE  Deployment!Next
<1> DEFINE D == [n \in Names |-> DeployedItem(objects[n])]
           m == c.content.name
<1>0. /\ c \in Commands /\ m \in Names /\ objects \in [Names -> Objects \cup {None}]
      /\ reviews \in [Approvals -> Reviews \cup {None}]
  BY DEF RInv, BInv, TypeInv, TypeOK, Commands, Contents
<1>1. UNCHANGED ReviewedItems
  BY DEF ReviewedItems
<1>2. CASE c.kind = "import"
  <2> DEFINE o == [set |-> c.set, content |-> c.content, fp |-> c.fp,
                   approval |-> c.approval, preview |-> c.preview]
             i == reviews[c.approval]
  <2>1. objects[m] = None /\ objects' = [objects EXCEPT ![m] = o]
    BY <1>2 DEF Runs, Imported
  <2>2. Gated(c) /\ Bound(c)
    BY <1>2 DEF RInv, IInv, BInv, ImportsGated, ExportsBound
  <2>3. o \in Objects
    BY <1>0 DEF Commands, Objects
  <2>4. /\ c.content \in Contents
        /\ [name |-> c.content.name, action |-> c.content.action,
            rules |-> c.content.rules, catalog |-> c.fp.catalog] = c.fp
    <3>1. c.content.rules \cap RulesIn[c.fp.catalog] = c.content.rules
      BY <2>2 DEF Gated
    <3> QED BY <1>0, <2>2, <3>1 DEF Gated, Fingerprint, Commands
  <2>5. DeployedItem(o) = i
    BY <2>2, <2>3, <2>4 DEF DeployedItem, Bound
  <2>6. i \in ReviewedItems /\ i.fp = c.fp
    BY <1>0, <2>2 DEF ReviewedItems, Gated, Bound, Commands
  <2>7. ItemName(i) = m
    BY <2>4, <2>6 DEF ItemName
  <2> HIDE DEF o, i, m
  <2>8. D[m] = None
    BY <1>0, <2>1 DEF DeployedItem
  <2>9. D' = [D EXCEPT ![m] = i]
    BY <1>0, <2>1, <2>5
  <2>10. Deployment!Deploy(m)
    BY <1>1, <2>6, <2>7, <2>8, <2>9 DEF Deployment!Deploy
  <2> QED BY <1>0, <2>10 DEF Deployment!Next
<1>3. CASE c.kind = "rm"
  <2>1. objects[m] # None /\ objects' = [objects EXCEPT ![m] = None]
    BY <1>3 DEF Runs
  <2> HIDE DEF m
  <2>2. D[m] # None /\ D' = [D EXCEPT ![m] = None]
    BY <1>0, <2>1, ItemTyped
  <2>3. Deployment!Remove(m)
    BY <1>1, <2>2 DEF Deployment!Remove
  <2> QED BY <1>0, <2>3 DEF Deployment!Next
<1> QED BY <1>2, <1>3 DEF Runs

LEMMA StepRefines == RInv /\ [Next]_vars => [Deployment!Next]_(Deployment!avars)
<1> SUFFICES ASSUME RInv, [Next]_vars PROVE [Deployment!Next]_(Deployment!avars)
  OBVIOUS
<1>1. CASE UNCHANGED <<objects, reviews>>
  BY <1>1 DEF Deployment!avars, ReviewedItems
<1>2. CASE \E q \in Requests, a \in Approvals : ApproveUpdate(q, a)
  BY <1>2, ApproveReviews
<1>3. ASSUME NEW c \in commands, Runs(c),
             AdapterAnswers(c) \/ AdapterFailsLate(c)
      PROVE  Deployment!Next
  BY <1>3, RunDeploys DEF AdapterAnswers, AdapterFailsLate
<1> QED BY <1>1, <1>2, <1>3, ReviewSteps, ObjectSteps

\* Requests that do not overlap implement a reviewed deployment, whatever becomes of
\* their answers: each step of theirs reviews, deploys or removes one item, or changes
\* neither (approve_custom_signature_set, export_custom_signature_set).
THEOREM ImplementsReviewedDeploymentHolds ==
  Spec /\ []Serial => ImplementsReviewedDeployment
<1>1. Init => RInv /\ Deployment!Init
  <2> SUFFICES ASSUME Init PROVE RInv /\ Deployment!Init
    OBVIOUS
  <2>1. IInv /\ BInv
    BY InvInit, BindInit
  <2>2. PInv
    BY DEF Init, PInv
  <2>3. ReviewedItems = {} /\ [n \in Names |-> DeployedItem(objects[n])] = [n \in Names |-> None]
    BY DEF Init, ReviewedItems, DeployedItem
  <2> QED BY <2>1, <2>2, <2>3 DEF RInv, Deployment!Init
<1>2. RInv /\ Serial /\ [Next]_vars => RInv'
  BY BindNext, InvNext, PlannedNext DEF RInv, BInv
<1> QED BY <1>1, <1>2, StepRefines, PTL
    DEF Spec, ImplementsReviewedDeployment, Deployment!Spec
-----------------------------------------------------------------------------
(* Rollbacks: the removal names an object, and ADC objects carry no set.  It is the *)
(* set's own as long as requests do not overlap and no write is lost track of.      *)

Calm == Serial /\ lost = {}

Owns(s, n) == objects[n] # None /\ objects[n].set = s

\* The request has its answer from the ADC and is recording it.
Answered(q) == req[q] # None /\ IsWrite(req[q]) /\ req[q].at \in {"audit", "update"}

Removed(s) == \E q \in Requests : Answered(q) /\ req[q].op = "rollback" /\ req[q].set = s

\* A write request has the row as it is.
WritesCurrent ==
  \A q \in Requests : req[q] # None /\ IsWrite(req[q]) =>
    /\ rows[req[q].set].content = req[q].content
    /\ rows[req[q].set].status = IF req[q].op = "export" THEN "approved" ELSE "exported"

\* A transaction has the content of the request that waits for it.
CommandsCurrent == \A c \in commands : c.by # None => c.content = req[c.by].content

\* The answer to an export says that the object is there.
ExportsOwn ==
  \A q \in Requests : Answered(q) /\ req[q].op = "export" =>
    Owns(req[q].set, req[q].content.name)

\* A set that says exported has its object, until the removal is answered.
ExportedOwns ==
  \A s \in Sets : rows[s] # None /\ rows[s].status = "exported" /\ ~ Removed(s) =>
    Owns(s, rows[s].content.name)

OInv == AInv /\ WritesCurrent /\ CommandsCurrent /\ ExportsOwn /\ ExportedOwns

\* A pending transaction has the one request in flight behind it.
LEMMA CalmCommand ==
  ASSUME AInv, Calm, NEW c \in commands
  PROVE  /\ c \in Commands /\ c.by \in Requests /\ c.by # None
         /\ req[c.by] # None /\ IsWrite(req[c.by]) /\ req[c.by].at = "adc"
         /\ req[c.by].op = (IF c.kind = "import" THEN "export" ELSE "rollback")
         /\ req[c.by].set = c.set
         /\ \A q \in Requests : req[q] # None => q = c.by
<1>1. c \in Commands
  BY DEF AInv, TypeInv, TypeOK
<1>2. c.by # None
  BY DEF AInv, CommandsAccounted, Calm
<1>3. c.by \in Requests /\ req[c.by] # None /\ IsWrite(req[c.by]) /\ req[c.by].at = "adc"
  BY <1>1, <1>2 DEF AInv, TypeInv, CommandOwners, Commands
<1>4. /\ req[c.by].op = (IF c.kind = "import" THEN "export" ELSE "rollback")
      /\ req[c.by].set = c.set
  BY <1>2 DEF AInv, CommandsAccounted, Entry, CommandEntry
<1>5. \A q \in Requests : req[q] # None => q = c.by
  BY <1>3 DEF Calm, Serial
<1> QED BY <1>1, <1>2, <1>3, <1>4, <1>5

LEMMA OwnRemovals == OInv /\ Calm => RollbackOnlyOwnObject
<1> SUFFICES ASSUME OInv, Calm, NEW c \in commands, c.kind = "rm",
                    objects[c.content.name] # None
             PROVE  objects[c.content.name].set = c.set
  BY DEF RollbackOnlyOwnObject
<1>1. /\ c \in Commands /\ c.by \in Requests /\ c.by # None /\ req[c.by] # None
      /\ IsWrite(req[c.by]) /\ req[c.by].at = "adc" /\ req[c.by].op = "rollback"
      /\ req[c.by].set = c.set /\ \A q \in Requests : req[q] # None => q = c.by
  BY CalmCommand DEF OInv
<1>2. /\ c.content = req[c.by].content /\ rows[c.set].content = c.content
      /\ rows[c.set].status = "exported"
  BY <1>1 DEF OInv, CommandsCurrent, WritesCurrent
<1>3. ~ Removed(c.set)
  BY <1>1 DEF Removed, Answered
<1>4. c.set \in Sets /\ rows[c.set] # None
  BY <1>1 DEF OInv, AInv, TypeInv, RequestRows, Commands
<1> QED BY <1>2, <1>3, <1>4 DEF OInv, ExportedOwns, Owns

LEMMA WritesCurrentNext ==
  ASSUME TypeInv, Serial, WritesCurrent, [Next]_vars
  PROVE  WritesCurrent'
<1> SUFFICES ASSUME NEW q \in Requests, NEW r, r = req'[q], r # None, IsWrite(r)
             PROVE  /\ rows'[r.set].content = r.content
                    /\ rows'[r.set].status = IF r.op = "export" THEN "approved" ELSE "exported"
  BY DEF WritesCurrent, IsWrite
<1>0. req \in [Requests -> InFlight \cup {None}] /\ rows \in [Sets -> Rows \cup {None}]
  BY DEF TypeInv, TypeOK
<1>1. CASE req[q] # None /\ SameWrite(req[q], r)
  <2>1. r.set \in Sets /\ rows[r.set] # None /\ IsWrite(req[q])
    BY <1>0, <1>1 DEF SameWrite, TypeInv, RequestRows, InFlight, IsWrite
  <2>2. rows'[r.set] = rows[r.set]
    BY <1>1, <2>1, RowStands
  <2> QED BY <1>1, <2>1, <2>2 DEF WritesCurrent, SameWrite
<1>2. CASE LoadsWrite(q)
  <2>1. PICK s \in Sets, v \in Previews, op \in {"export", "rollback"} :
          /\ rows[s].status = IF op = "export" THEN "approved" ELSE "exported"
          /\ req' = [req EXCEPT ![q] = WriteRequest(op, s, v)]
          /\ UNCHANGED rows
    BY <1>2
    DEF LoadsWrite, ExportLoad, RollbackLoad, RollbackFrom, ApprovedRow, Begin, tables
  <2>2. r = WriteRequest(op, s, v)
    BY <1>0, <2>1
  <2>3. r.set = s /\ r.op = op /\ r.content = rows[s].content
    BY <2>2 DEF WriteRequest
  <2> QED BY <2>1, <2>3
<1> QED BY <1>1, <1>2, WriteSteps

\* A transaction somebody waits for was pending, or is handed over by this step.
LEMMA WaitingSteps ==
  ASSUME TypeInv, [Next]_vars, NEW d \in commands', d.by # None
  PROVE  \/ d \in commands
         \/ \E q \in Requests : (ExportPlan(q) \/ RollbackCheck(q)) /\ req'[q] # None
                                /\ d.by = q /\ d.content = req[q].content
                                /\ req'[q].content = req[q].content
<1>0. req \in [Requests -> InFlight \cup {None}]
  BY DEF TypeInv, TypeOK
<1>1. ASSUME NEW Q \in SUBSET Requests, commands' = Orphaned(Q)
      PROVE  d \in commands
  <2>1. PICK c \in commands : d = [c EXCEPT !.by = IF @ \in Q THEN None ELSE @]
    BY <1>1 DEF Orphaned
  <2>2. c \in Commands
    BY DEF TypeInv, TypeOK
  <2>3. d.by = c.by
    BY <2>1, <2>2 DEF Commands
  <2>4. d = c
    BY <2>1, <2>2, <2>3 DEF Commands
  <2> QED BY <2>4
<1>2. CASE Drafting
  BY <1>2 DEF Drafting, Prepare, Promote, Exception, Insert, adc
<1>3. ASSUME NEW q \in Requests, RequestStep(q), d \notin commands
      PROVE  /\ ExportPlan(q) \/ RollbackCheck(q)
             /\ req'[q] # None /\ d.by = q /\ d.content = req[q].content
             /\ req'[q].content = req[q].content
  <2>1. ExportPlan(q) \/ RollbackCheck(q)
    BY <1>1, <1>3, OwnStep DEF GiveUp
  <2>2. /\ req[q] # None /\ req[q] \in InFlight
        /\ \E kind \in {"import", "rm"} : commands' = commands \cup {Sent(q, kind)}
        /\ req' = [req EXCEPT ![q].at = "adc"]
    BY <1>0, <2>1 DEF ExportPlan, RollbackCheck, Send, Sent, GoTo, At
  <2>3. PICK kind \in {"import", "rm"} : d = Sent(q, kind)
    BY <1>3, <2>2
  <2>4. d.by = q /\ d.content = req[q].content
    BY <2>3 DEF Sent
  <2>5. req'[q] = [req[q] EXCEPT !.at = "adc"]
    BY <1>0, <2>2
  <2>6. req'[q] # None /\ req'[q].content = req[q].content
    BY <2>2, <2>5 DEF InFlight
  <2> QED BY <2>1, <2>4, <2>6
<1>4. CASE AdapterStep
  BY <1>4, OwnAnswer DEF AdapterStep
<1>5. CASE Environment \/ UNCHANGED vars
  BY <1>1, <1>5 DEF Environment, Restart, CatalogChanges, Expire, vars, adc
<1> QED BY <1>2, <1>3, <1>4, <1>5 DEF Next

LEMMA CommandsCurrentNext ==
  ASSUME TypeInv, CommandsCurrent, [Next]_vars
  PROVE  CommandsCurrent'
<1> SUFFICES ASSUME NEW d \in commands', d.by # None
             PROVE  d.content = req'[d.by].content
  BY DEF CommandsCurrent
<1>1. CASE d \in commands
  <2>1. d.by \in Requests /\ req[d.by] # None /\ req[d.by].at = "adc"
    BY <1>1 DEF TypeInv, TypeOK, CommandOwners, Commands
  <2>2. req'[d.by] # None /\ IsWrite(req'[d.by])
    BY TypeNext DEF TypeInv, CommandOwners
  <2>3. ~ LoadsWrite(d.by)
    BY <2>1 DEF LoadsWrite, ExportLoad, RollbackLoad, RollbackFrom, Idle
  <2>4. req'[d.by].content = req[d.by].content
    BY <2>1, <2>2, <2>3, WriteSteps DEF SameWrite
  <2> QED BY <1>1, <2>4 DEF CommandsCurrent
<1> QED BY <1>1, WaitingSteps

\* Who is answered was answered before, or the ADC answers now.
LEMMA AnsweredSteps ==
  ASSUME TypeInv, [Next]_vars, NEW q \in Requests, Answered(q)'
  PROVE  /\ req[q] # None /\ SameWrite(req[q], req'[q])
         /\ Answered(q) \/ \E c \in commands : AdapterAnswers(c) /\ c.by = q
<1>0. req \in [Requests -> InFlight \cup {None}]
  BY DEF TypeInv, TypeOK
<1>1. req'[q] # None /\ IsWrite(req'[q]) /\ req'[q].at \in {"audit", "update"}
  BY DEF Answered, IsWrite
<1>2. ~ LoadsWrite(q)
  BY <1>0, <1>1 DEF LoadsWrite, ExportLoad, RollbackLoad, RollbackFrom, Begin, WriteRequest
<1>3. req[q] # None /\ SameWrite(req[q], req'[q]) /\ IsWrite(req[q])
  BY <1>1, <1>2, WriteSteps DEF SameWrite, IsWrite
<1>4. ASSUME req'[q] = req[q] PROVE Answered(q)
  BY <1>1, <1>3, <1>4 DEF Answered
<1>5. CASE Drafting \/ UNCHANGED vars
  BY <1>3, <1>4, <1>5 DEF Drafting, Prepare, Promote, Exception, Insert, vars
<1>6. ASSUME NEW p \in Requests, RequestStep(p)
      PROVE  Answered(q)
  <2>1. CASE p # q
    BY <1>4, <1>6, <2>1, OwnStep
  <2>2. CASE p = q
    <3>1. Audit(q) \/ ExportPlan(q) \/ RollbackCheck(q) \/ Finish(q)
      BY <1>3, <1>6, <2>2
      DEF RequestStep, EditLoad, EditPlan, EditUpdate, ApproveLoad, ApproveUpdate,
          PreflightLoad, PreflightPlan, PreflightPreview, PreflightUpdate, ExportLoad,
          RollbackLoad, RollbackFrom, ExportUpdate, RollbackUpdate, Refuse, GiveUp,
          Idle, At, IsWrite
    <3>2. ~ Finish(q)
      BY <1>0, <1>1 DEF Finish
    <3>3. ~ (ExportPlan(q) \/ RollbackCheck(q))
      BY <1>0, <1>1, <1>3 DEF ExportPlan, RollbackCheck, Send, GoTo, InFlight
    <3> QED BY <1>3, <3>1, <3>2, <3>3 DEF Audit, Answered
  <2> QED BY <2>1, <2>2
<1>7. ASSUME NEW c \in commands,
             AdapterAnswers(c) \/ AdapterFailsLate(c) \/ AdapterRejects(c)
      PROVE  Answered(q) \/ (AdapterAnswers(c) /\ c.by = q)
  <2>1. CASE c.by # q
    BY <1>4, <1>7, <2>1, OwnAnswer
  <2>2. CASE c.by = q
    <3>1. q # None
      BY <1>0
    <3>2. ~ (AdapterFailsLate(c) \/ AdapterRejects(c))
      BY <1>0, <1>1, <2>2, <3>1 DEF AdapterFailsLate, AdapterRejects, Finish
    <3> QED BY <1>7, <2>2, <3>2
  <2> QED BY <2>1, <2>2
<1>8. CASE Environment
  BY <1>0, <1>1, <1>3, <1>4, <1>8 DEF Environment, Restart, CatalogChanges, Expire
<1> QED BY <1>3, <1>5, <1>6, <1>7, <1>8 DEF Next, AdapterStep

\* Who is answered goes on until its row says so, unless it is lost track of.
LEMMA AnsweredGoesOn ==
  ASSUME TypeInv, [Next]_vars, lost = {}, lost' = {}, NEW q \in Requests, Answered(q)
  PROVE  Answered(q)' \/ ExportUpdate(q) \/ RollbackUpdate(q)
<1>0. req \in [Requests -> InFlight \cup {None}] /\ req[q] # None /\ IsWrite(req[q])
  BY DEF TypeInv, TypeOK, Answered
<1>1. CASE req'[q] = req[q]
  BY <1>1 DEF Answered, IsWrite
<1>2. CASE Drafting \/ UNCHANGED vars
  BY <1>1, <1>2 DEF Drafting, Prepare, Promote, Exception, Insert, vars
<1>3. ASSUME NEW p \in Requests, RequestStep(p)
      PROVE  Answered(q)' \/ ExportUpdate(q) \/ RollbackUpdate(q)
  <2>1. CASE p # q
    BY <1>1, <1>3, <2>1, OwnStep
  <2>2. CASE p = q
    <3>1. Audit(q) \/ GiveUp(q) \/ ExportUpdate(q) \/ RollbackUpdate(q)
      BY <1>0, <1>3, <2>2
      DEF RequestStep, EditLoad, EditPlan, EditUpdate, ApproveLoad, ApproveUpdate,
          PreflightLoad, PreflightPlan, PreflightPreview, PreflightUpdate, ExportLoad,
          ExportPlan, RollbackLoad, RollbackFrom, RollbackCheck, Refuse, Writing, Idle,
          At, IsWrite, Answered
    <3>2. ~ GiveUp(q)
      BY DEF GiveUp, Lose
    <3>3. Audit(q) => Answered(q)'
      <4> SUFFICES ASSUME Audit(q) PROVE Answered(q)'
        OBVIOUS
      <4>1. req'[q] = [req[q] EXCEPT !.at = "update"]
        BY <1>0 DEF Audit, GoTo
      <4> QED BY <1>0, <4>1 DEF Answered, IsWrite, InFlight
    <3> QED BY <3>1, <3>2, <3>3
  <2> QED BY <2>1, <2>2
<1>4. ASSUME NEW c \in commands,
             AdapterAnswers(c) \/ AdapterFailsLate(c) \/ AdapterRejects(c)
      PROVE  req'[q] = req[q]
  <2>1. c.by # q
    BY <1>0 DEF TypeInv, CommandOwners, Answered
  <2> QED BY <1>4, <2>1, OwnAnswer
<1>5. CASE Environment
  <2>1. ~ \E flag \in WriteModes : Restart(flag)
    BY <1>0 DEF Restart, Lose, Writing, Answered, IsWrite
  <2> QED BY <1>1, <1>5, <2>1 DEF Environment, CatalogChanges, Expire
<1> QED BY <1>1, <1>2, <1>3, <1>4, <1>5 DEF Next, AdapterStep

\* No write is lost track of: nothing runs without being answered.
LEMMA CalmRuns ==
  ASSUME [Next]_vars, lost = {}, lost' = {}
  PROVE  UNCHANGED objects \/ \E c \in commands : Runs(c) /\ AdapterAnswers(c)
<1>1. \A c \in commands : ~ AdapterFailsLate(c)
  BY DEF AdapterFailsLate, Lose
<1> QED BY <1>1, ObjectSteps

\* A request that is being recorded has no transaction left.
LEMMA NothingPending ==
  ASSUME AInv, Calm, NEW q \in Requests, req[q] # None, req[q].at # "adc"
  PROVE  commands = {}
  BY CalmCommand

LEMMA ExportsOwnNext ==
  ASSUME AInv, Calm, CommandsCurrent, ExportsOwn, [Next]_vars, lost' = {}
  PROVE  ExportsOwn'
<1> SUFFICES ASSUME NEW q \in Requests, NEW r, r = req'[q], Answered(q)', r.op = "export"
             PROVE  objects'[r.content.name] # None /\ objects'[r.content.name].set = r.set
  BY DEF ExportsOwn, Owns
<1>0. /\ TypeInv /\ objects \in [Names -> Objects \cup {None}] /\ lost = {}
      /\ req \in [Requests -> InFlight \cup {None}]
  BY DEF AInv, TypeInv, TypeOK, Calm
<1>1. /\ req[q] # None /\ req[q].op = "export" /\ r.set = req[q].set
      /\ r.content = req[q].content
  BY <1>0, AnsweredSteps DEF SameWrite
<1>2. CASE Answered(q)
  <2>1. commands = {}
    BY <1>2, NothingPending DEF Answered
  <2>2. UNCHANGED objects
    BY <1>0, <2>1, CalmRuns
  <2> QED BY <1>1, <1>2, <2>2 DEF ExportsOwn, Owns
<1>3. ASSUME NEW c \in commands, AdapterAnswers(c), c.by = q
      PROVE  objects'[r.content.name] # None /\ objects'[r.content.name].set = r.set
  <2>1. /\ c \in Commands /\ c.by # None /\ c.kind = "import" /\ c.set = req[q].set
    BY <1>1, <1>3, CalmCommand DEF Commands
  <2>2. c.content = req[q].content /\ c.content.name \in Names
    BY <1>3, <2>1 DEF CommandsCurrent, Commands, Contents
  <2> DEFINE o == [set |-> c.set, content |-> c.content, fp |-> c.fp,
                   approval |-> c.approval, preview |-> c.preview]
  <2>3. o \in Objects /\ o.set = c.set
    BY <2>1 DEF Commands, Objects
  <2>4. objects' = [objects EXCEPT ![c.content.name] = o]
    BY <1>3, <2>1 DEF AdapterAnswers, Runs, Imported
  <2> HIDE DEF o
  <2>5. objects'[c.content.name] = o
    BY <1>0, <2>2, <2>4
  <2> QED BY <1>1, <2>1, <2>2, <2>3, <2>5
<1> QED BY <1>0, <1>2, <1>3, AnsweredSteps

\* A set whose row says exported in both states keeps its object, unless that is
\* removed for the set itself.
LEMMA OwnStands ==
  ASSUME OInv, Calm, [Next]_vars, lost' = {}, NEW s \in Sets, NEW n \in Names, Owns(s, n),
         rows[s] # None, rows[s].status = "exported", rows[s].content.name = n,
         ~ Removed(s)'
  PROVE  Owns(s, n)'
<1>0. /\ AInv /\ TypeInv /\ objects \in [Names -> Objects \cup {None}] /\ lost = {}
      /\ req \in [Requests -> InFlight \cup {None}]
  BY DEF OInv, AInv, TypeInv, TypeOK, Calm
<1>1. CASE UNCHANGED objects
  BY <1>1 DEF Owns
<1>2. ASSUME NEW c \in commands, Runs(c), AdapterAnswers(c)
      PROVE  Owns(s, n)'
  <2>1. CASE c.kind = "import"
    <3>1. c.content.name # n /\ objects'[n] = objects[n]
      BY <1>0, <1>2, <2>1 DEF Runs, Imported, Owns
    <3> QED BY <3>1 DEF Owns
  <2>2. CASE c.kind = "rm"
    <3>1. objects[c.content.name] # None /\ objects' = [objects EXCEPT ![c.content.name] = None]
      BY <1>2, <2>2 DEF Runs
    <3>2. objects[c.content.name].set = c.set
      BY <2>2, <3>1, OwnRemovals DEF RollbackOnlyOwnObject
    <3>3. CASE c.content.name # n
      BY <1>0, <3>1, <3>3 DEF Owns
    <3>4. CASE c.content.name = n
      <4>1. c.set = s
        BY <3>2, <3>4 DEF Owns
      <4>2. /\ c.by \in Requests /\ c.by # None /\ req[c.by] # None /\ IsWrite(req[c.by])
            /\ req[c.by].op = "rollback" /\ req[c.by].set = s
        BY <1>0, <2>2, <4>1, CalmCommand
      <4>3. req'[c.by] = [req[c.by] EXCEPT !.at = "audit"]
        BY <1>0, <1>2, <4>2 DEF AdapterAnswers
      <4>4. /\ req'[c.by] # None /\ req'[c.by].op = "rollback" /\ req'[c.by].set = s
            /\ req'[c.by].at = "audit"
        BY <1>0, <4>2, <4>3 DEF InFlight
      <4> QED BY <4>2, <4>4 DEF Removed, Answered, IsWrite
    <3> QED BY <3>3, <3>4
  <2> QED BY <1>2, <2>1, <2>2 DEF Runs
<1> QED BY <1>0, <1>1, <1>2, CalmRuns

LEMMA ExportedOwnsNext ==
  ASSUME OInv, Calm, [Next]_vars, lost' = {}
  PROVE  ExportedOwns'
<1> SUFFICES ASSUME NEW s \in Sets, NEW r, r = rows'[s], r # None, r.status = "exported",
                    ~ Removed(s)'
             PROVE  objects'[r.content.name] # None /\ objects'[r.content.name].set = s
  BY DEF ExportedOwns, Owns
<1>0. /\ TypeInv /\ rows \in [Sets -> Rows \cup {None}] /\ lost = {}
      /\ req \in [Requests -> InFlight \cup {None}]
  BY DEF OInv, AInv, TypeInv, TypeOK, Calm
<1>1. ASSUME rows[s] # None, rows[s].status = "exported", r.content = rows[s].content
      PROVE  objects'[r.content.name] # None /\ objects'[r.content.name].set = s
  <2>1. ~ Removed(s)
    <3> SUFFICES ASSUME NEW q \in Requests, Answered(q), req[q].op = "rollback",
                        req[q].set = s
                 PROVE  FALSE
      BY DEF Removed
    <3>1. CASE Answered(q)'
      <4>1. SameWrite(req[q], req'[q])
        BY <1>0, <3>1, AnsweredSteps
      <4> QED BY <3>1, <4>1 DEF SameWrite, Removed
    <3>2. ~ ExportUpdate(q)
      BY DEF ExportUpdate, At
    <3>3. CASE RollbackUpdate(q)
      <4>1. r.status = "rolled-back"
        BY <1>0, <1>1, <3>3 DEF RollbackUpdate, Rows
      <4> QED BY <4>1
    <3> QED BY <1>0, <3>1, <3>2, <3>3, AnsweredGoesOn
  <2>2. r.content.name \in Names
    BY <1>0, <1>1 DEF Rows, Contents
  <2>3. Owns(s, r.content.name)
    BY <1>1, <2>1 DEF OInv, ExportedOwns
  <2> DEFINE n == r.content.name
  <2> HIDE DEF n
  <2>4. n \in Names /\ Owns(s, n) /\ rows[s].content.name = n
    BY <1>1, <2>2, <2>3 DEF n
  <2>5. objects'[n] # None /\ objects'[n].set = s
    BY <1>1, <2>4, OwnStands DEF Owns
  <2> QED BY <2>5 DEF n
<1>2. CASE rows'[s] = rows[s]
  BY <1>1, <1>2
<1>3. ASSUME NEW t \in Sets, NEW p \in Proposals, Insert(t, p), rows'[s] # rows[s]
      PROVE  FALSE
  <2>1. r = Draft(p, catalog)
    BY <1>0, <1>3 DEF Insert
  <2> QED BY <2>1 DEF Draft, PlanStatus
<1>4. ASSUME NEW q \in Requests, UpdatesRow(q), rows'[s] # rows[s]
      PROVE  objects'[r.content.name] # None /\ objects'[r.content.name].set = s
  <2>0. req[q] # None
    BY <1>4
    DEF UpdatesRow, EditUpdate, PreflightUpdate, ExportUpdate, RollbackUpdate,
        ApproveUpdate, At
  <2>1. req[q].set \in Sets /\ rows[req[q].set] \in Rows /\ rows[req[q].set] # None
    BY <1>0, <2>0 DEF TypeInv, RequestRows, InFlight
  <2>2. s = req[q].set
    BY <1>0, <1>4, <2>1
    DEF UpdatesRow, EditUpdate, PreflightUpdate, ExportUpdate, RollbackUpdate, ApproveUpdate
  <2>3. ~ EditUpdate(q)
    <3>1. EditUpdate(q) => rows'[s].status = "edited"
      BY <1>0, <2>1, <2>2, EditedStatus
    <3> QED BY <3>1
  <2>4. ~ RollbackUpdate(q)
    <3>1. RollbackUpdate(q) => rows'[s].status = "rolled-back"
      BY <1>0, <2>1, <2>2 DEF RollbackUpdate, Rows
    <3> QED BY <3>1
  <2>5. ASSUME NEW a \in Approvals, ApproveUpdate(q, a) PROVE FALSE
    <3>1. rows'[s].status = "approved"
      BY <1>0, <2>1, <2>2, <2>5 DEF ApproveUpdate, Rows
    <3> QED BY <3>1
  <2>6. CASE PreflightUpdate(q)
    <3>1. r.status = rows[s].status /\ r.content = rows[s].content
      BY <1>0, <2>1, <2>2, <2>6 DEF PreflightUpdate, Rows
    <3> QED BY <1>1, <2>1, <2>2, <3>1
  <2>7. CASE ExportUpdate(q)
    <3>1. r.content = rows[s].content /\ UNCHANGED objects
      BY <1>0, <2>1, <2>2, <2>7 DEF ExportUpdate, Rows, adc
    <3>2. req[q].op = "export" /\ IsWrite(req[q]) /\ Answered(q)
      BY <2>7 DEF ExportUpdate, At, IsWrite, Answered
    <3>3. rows[s].content = req[q].content
      BY <2>0, <2>2, <3>2 DEF OInv, WritesCurrent
    <3> QED BY <2>2, <3>1, <3>2, <3>3 DEF OInv, ExportsOwn, Owns
  <2> QED BY <1>4, <2>3, <2>4, <2>5, <2>6, <2>7 DEF UpdatesRow
<1> QED BY <1>2, <1>3, <1>4, RowSteps

LEMMA OwnInit == Init => OInv
  BY AuditInit
  DEF Init, OInv, WritesCurrent, CommandsCurrent, ExportsOwn, ExportedOwns, Answered

LEMMA OwnNext == OInv /\ Calm /\ [Next]_vars /\ Calm' => OInv'
<1> SUFFICES ASSUME OInv, Calm, [Next]_vars, lost' = {} PROVE OInv'
  BY DEF Calm
<1>1. AInv /\ TypeInv /\ Serial
  BY DEF OInv, AInv, Calm
<1>2. AInv'
  BY <1>1, AuditNext
<1>3. WritesCurrent' /\ CommandsCurrent'
  BY <1>1, WritesCurrentNext, CommandsCurrentNext DEF OInv
<1>4. ExportsOwn' /\ ExportedOwns'
  BY <1>1, ExportsOwnNext, ExportedOwnsNext DEF OInv
<1> QED BY <1>2, <1>3, <1>4 DEF OInv

\* A rollback removes the object its own set exported, while a request ends before the
\* next starts and no request is lost after the ADC was asked
\* (rollback_custom_signature_set).
THEOREM RollbackOnlyOwnObjectHolds == Spec /\ []Calm => []RollbackOnlyOwnObject
  BY OwnInit, OwnNext, OwnRemovals, PTL DEF Spec
=============================================================================
