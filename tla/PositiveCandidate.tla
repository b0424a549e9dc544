------------------------- MODULE PositiveCandidate -------------------------
(***************************************************************************)
(* The review of a positive-model candidate: control-api keeps it in        *)
(* positive_model_candidates with a version, and one audit row for every    *)
(* version.  The tabs of the operator load it, edit their copies and send   *)
(* them back.                                                               *)
(*                                                                          *)
(* A handler runs one transaction without awaiting, so it is one step; the  *)
(* transaction may fail, and its answer may be lost.  Candidates share      *)
(* nothing but the sessions: one is enough.  A model is what the reviewer   *)
(* sees of it; its lifecycle, which the status decides, is kept beside it.  *)
(***************************************************************************)
EXTENDS OperatorSession, Sequences

CONSTANTS
  Models,      \* the models tabs send
  MaxVersion   \* bound on the saved versions

Statuses == {"draft", "accepted", "rejected"}
Closed == {"accepted", "rejected"}

Rows == [status : Statuses, model : Models, lifecycle : {"reviewed", "discovered"},
         version : 1..MaxVersion, reviewed : BOOLEAN]
Docs == [status : Statuses, model : Models]

ASSUME CandidateAssumption == /\ MaxVersion \in Nat \ {0}
                              /\ None \notin Rows \cup Docs

VARIABLES
  row,    \* the row of positive_model_candidates
  audit,  \* positive_model_candidate_audit
  view,   \* what a tab last loaded or was answered
  fusing  \* tabs whose draft is being put together from a discovery job

candidateVars == <<row, audit, view, fusing>>
vars == <<sessionVars, candidateVars>>

\* _candidate_model_for_status.
Lifecycle(status) == IF status = "accepted" THEN "reviewed" ELSE "discovered"

Row(status, model, version) ==
  [status |-> status, model |-> model, lifecycle |-> Lifecycle(status),
   version |-> version, reviewed |-> status \in Closed]

Entry(action, prior, status, version) ==
  [action |-> action, prior |-> prior, new |-> status, version |-> version]

Init ==
  /\ SessionInit
  /\ row = None
  /\ audit = <<>>
  /\ view = [t \in Tabs |-> None]
  /\ fusing = {}

\* The answer shows the new row, or never arrives.
Answered(t) == view' \in {view, [view EXCEPT ![t] = row']}

\* Both rows are inserted in one transaction.
Insert(t) ==
  /\ row = None
  /\ \E m \in Models : row' = Row("draft", m, 1)
  /\ audit' = <<Entry("created", None, "draft", 1)>>
  /\ Answered(t)
  /\ UNCHANGED sessionVars

Create(t) ==
  /\ MayChange(t)
  /\ Insert(t)
  /\ UNCHANGED fusing

\* A draft fused from the results of a discovery job: four services are asked between
\* the check of the session and the insertion, and any of them may fail.
Fuse(t) ==
  /\ MayChange(t)
  /\ row = None /\ fusing = {}
  /\ fusing' = {t}
  /\ UNCHANGED <<sessionVars, row, audit, view>>

Fused(t) ==
  /\ t \in fusing
  /\ fusing' = fusing \ {t}
  /\ Insert(t) \/ UNCHANGED <<sessionVars, row, audit, view>>

\* list, get and compile-preview.
Load(t) ==
  /\ MayRead
  /\ row # None
  /\ view' = [view EXCEPT ![t] = row]
  /\ UNCHANGED <<sessionVars, row, audit, fusing>>

\* Mutant: the version of the copy is not compared.
CurrentBlindly(t) == view[t] # None

\* 409 when the candidate was saved since the tab loaded it.
Current(t) == view[t] # None /\ view[t].version = row.version

\* 409 when the model of a candidate is sent that is, and stays, accepted or rejected.
MayReplace(new) == row.status \notin Closed \/ new = "draft"

\* Mutant: a change of the status alone leaves the version as it is.
NextVersionOf(model) == IF model = None THEN row.version ELSE row.version + 1
NextVersion(model) == row.version + 1

\* Mutant: only changes of the status are noted.
NotedStatus(action, new, version) ==
  IF new = row.status THEN audit ELSE Append(audit, Entry(action, row.status, new, version))

Noted(action, new, version) == Append(audit, Entry(action, row.status, new, version))

\* What the body leaves out stays.  SELECT FOR UPDATE, UPDATE and INSERT are one
\* transaction.
Update(t, status, model) ==
  /\ MayChange(t)
  /\ row # None
  /\ Current(t)
  /\ row.version < MaxVersion
  /\ LET new == IF status = None THEN row.status ELSE status
         m == IF model = None THEN row.model ELSE model
         action == IF model = None THEN "review_status_updated" ELSE "model_updated"
     IN /\ model # None => MayReplace(new)
        /\ row' = Row(new, m, NextVersion(model))
        /\ audit' = Noted(action, new, NextVersion(model))
  /\ Answered(t)
  /\ UNCHANGED <<sessionVars, fusing>>

Next ==
  \/ SessionNext /\ UNCHANGED candidateVars
  \/ \E t \in Tabs : Create(t) \/ Fuse(t) \/ Fused(t) \/ Load(t)
  \/ \E t \in Tabs : \E s \in Statuses \cup {None} : \E m \in Models \cup {None} :
       Update(t, s, m)

Spec == Init /\ [][Next]_vars

-----------------------------------------------------------------------------
\* Between two successes a peer has its password compared Limit times at most in
\* any window, also when attempts fail for other reasons and refused ones are not
\* counted (operator_login).
GuessesLimited ==
  \A p \in Peers : \A c \in checks[p] :
    Cardinality({d \in checks[p] : d.at \in c.at..(c.at + Window - 1)}) <= Limit

\* A version names one content: tabs that show the same version show the same
\* candidate, and a copy with the row's version is the row (update_positive_candidate).
VersionNamesContent ==
  \A t \in Tabs : view[t] # None =>
    /\ row # None /\ view[t].version <= row.version
    /\ view[t].version = row.version => view[t] = row
    /\ \A u \in Tabs :
         (view[u] # None /\ view[u].version = view[t].version) => view[u] = view[t]

\* The audit tells how the candidate came to be what it is: one row for every
\* version, each begins where the one before it ended, and the last one ends with
\* the candidate (create_positive_candidate, update_positive_candidate).
AuditTellsHistory ==
  /\ row = None <=> audit = <<>>
  /\ row # None => /\ Len(audit) = row.version
                   /\ audit[Len(audit)].new = row.status
  /\ \A i \in DOMAIN audit :
       /\ audit[i].version = i
       /\ i > 1 => audit[i].prior = audit[i - 1].new

\* Whatever is saved was sent within the time of a login and with the key of today,
\* from a tab that knows that login: not from one a later login has replaced, nor
\* after the key was changed.  Only a draft that is being fused may outlast its
\* session (require_operator_session, verify_session).
ChangesInSession ==
  [][(row' # row /\ fusing' = fusing) =>
       /\ cookie # None
       /\ now < cookie.exp /\ cookie.key = key
       /\ \E t \in Tabs : csrf[t] = cookie.csrf]_vars

Aware == {t \in Tabs : view[t] # None /\ row # None /\ view[t].version = row.version}
Doc == IF row = None THEN None ELSE [status |-> row.status, model |-> row.model]

Register == INSTANCE ReviewRegister WITH doc <- Doc, aware <- Aware, NoDoc <- None

\* Versions and transactions implement the register: nobody's change is lost, and a
\* decided candidate keeps its model (update_positive_candidate).
ImplementsRegister == Register!Spec
=============================================================================
