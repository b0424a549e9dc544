---------------------- MODULE PositiveCandidate_proofs ----------------------
(***************************************************************************)
(* The review of a candidate, for any number of tabs, models and versions:  *)
(* versions name contents, the audit tells the history, changes belong to a *)
(* session, and the whole implements ReviewRegister.  Then what LearnedModel *)
(* promises of the models that are reviewed, for any site.                  *)
(***************************************************************************)
EXTENDS PositiveCandidate, LearnedModel, FiniteSetTheorems, TLAPS

Entries == [action : {"created", "review_status_updated", "model_updated"},
            prior : Statuses \cup {None}, new : Statuses, version : Nat]

\* What is kept and shown are rows; the audit is a list of entries.
Typed ==
  /\ row \in {None} \cup Rows
  /\ view \in [Tabs -> {None} \cup Rows]
  /\ audit \in Seq(Entries)

IInv == Typed /\ VersionNamesContent /\ AuditTellsHistory

USE CandidateAssumption DEF CandidateAssumption

LEMMA InitIInv == Init => IInv
  BY DEF Init, IInv, Typed, VersionNamesContent, AuditTellsHistory

\* A row of a status and a model is a row, and never None.
LEMMA RowTyped ==
  ASSUME NEW s \in Statuses, NEW m \in Models, NEW n \in 1..MaxVersion
  PROVE  /\ Row(s, m, n) \in Rows
         /\ Row(s, m, n) # None
         /\ Row(s, m, n).version = n
         /\ Row(s, m, n).status = s
         /\ Row(s, m, n).model = m
<1>1. Lifecycle(s) \in {"reviewed", "discovered"}
  BY DEF Lifecycle
<1>2. (s \in Closed) \in BOOLEAN
  OBVIOUS
<1>3. Row(s, m, n) = [status |-> s, model |-> m, lifecycle |-> Lifecycle(s), version |-> n,
                     reviewed |-> s \in Closed]
  BY DEF Row
<1>4. Row(s, m, n) \in Rows
  BY <1>1, <1>2, <1>3 DEF Rows
<1>5. Row(s, m, n) # None
  BY <1>4
<1> QED BY <1>3, <1>4, <1>5

\* The first row: nobody has seen another one, whoever sees this one.
LEMMA InsertKeeps ==
  ASSUME IInv, NEW t \in Tabs, Insert(t)
  PROVE  IInv'
<1>1. PICK m \in Models : row' = Row("draft", m, 1)
  BY DEF Insert
<1>2. row' \in Rows /\ row' # None /\ row'.version = 1 /\ row'.status = "draft"
  BY <1>1, RowTyped DEF Statuses
<1>3. \A u \in Tabs : view[u] = None
  BY DEF IInv, VersionNamesContent, Insert
<1>4. view' \in [Tabs -> {None} \cup Rows] /\ \A u \in Tabs : view'[u] \in {None, row'}
  BY <1>2, <1>3 DEF IInv, Typed, Insert, Answered
<1>5. audit' = <<Entry("created", None, "draft", 1)>>
  BY DEF Insert
<1>6. Typed'
  BY <1>2, <1>4, <1>5 DEF Typed, Entry, Entries, Statuses
<1>7. VersionNamesContent'
  BY <1>2, <1>4 DEF VersionNamesContent, Rows
<1>8. AuditTellsHistory'
  BY <1>2, <1>5 DEF AuditTellsHistory, Entry
<1> QED BY <1>6, <1>7, <1>8 DEF IInv

LEMMA LoadKeeps ==
  ASSUME IInv, NEW t \in Tabs, Load(t)
  PROVE  IInv'
<1>1. view' = [view EXCEPT ![t] = row] /\ row \in Rows /\ UNCHANGED <<row, audit>>
  BY DEF Load, IInv, Typed
<1>2. Typed' /\ AuditTellsHistory'
  BY <1>1 DEF IInv, Typed, AuditTellsHistory
<1>3. VersionNamesContent'
  BY <1>1 DEF IInv, Typed, VersionNamesContent, Rows
<1> QED BY <1>2, <1>3 DEF IInv

\* What an update makes of the row: the next version of something.
LEMMA UpdatedRow ==
  ASSUME IInv, NEW t \in Tabs, NEW s \in Statuses \cup {None}, NEW m \in Models \cup {None},
         Update(t, s, m)
  PROVE  \E new \in Statuses : \E n \in Models :
           /\ row \in Rows
           /\ row' = Row(new, n, row.version + 1)
           /\ row' \in Rows /\ row' # None
           /\ row'.version = row.version + 1 /\ row'.status = new /\ row'.model = n
           /\ row.status \in Closed /\ new # "draft" => n = row.model
           /\ \E action \in {"review_status_updated", "model_updated"} :
                audit' = Append(audit, Entry(action, row.status, new, row.version + 1))
<1> DEFINE new == IF s = None THEN row.status ELSE s
           n == IF m = None THEN row.model ELSE m
<1>1. row \in Rows /\ row.version + 1 \in 1..MaxVersion
  BY DEF Update, IInv, Typed, Rows
<1>2. new \in Statuses /\ n \in Models
  BY <1>1 DEF Rows
<1>3. /\ row' = Row(new, n, row.version + 1)
      /\ m # None => MayReplace(new)
      /\ \E action \in {"review_status_updated", "model_updated"} :
           audit' = Append(audit, Entry(action, row.status, new, row.version + 1))
  BY DEF Update, NextVersion, Noted
<1>4. row.status \in Closed /\ new # "draft" => n = row.model
  BY <1>3 DEF MayReplace
<1> QED BY <1>1, <1>2, <1>3, <1>4, RowTyped

LEMMA UpdateKeeps ==
  ASSUME IInv, NEW t \in Tabs, NEW s \in Statuses \cup {None}, NEW m \in Models \cup {None},
         Update(t, s, m)
  PROVE  IInv'
<1>1. PICK new \in Statuses, n \in Models :
        /\ row \in Rows
        /\ row' \in Rows /\ row' # None
        /\ row'.version = row.version + 1 /\ row'.status = new
        /\ \E action \in {"review_status_updated", "model_updated"} :
             audit' = Append(audit, Entry(action, row.status, new, row.version + 1))
  BY UpdatedRow
<1>2. PICK action \in {"review_status_updated", "model_updated"} :
        audit' = Append(audit, Entry(action, row.status, new, row.version + 1))
  BY <1>1
<1>3. view' \in [Tabs -> {None} \cup Rows] /\ \A u \in Tabs : view'[u] \in {view[u], row'}
  BY <1>1 DEF Update, Answered, IInv, Typed
<1>4. row # None /\ row.version \in Nat /\ row.status \in Statuses
  BY <1>1 DEF Rows
<1>5. Entry(action, row.status, new, row.version + 1) \in Entries
  BY <1>4 DEF Entry, Entries
<1>6. Typed'
  BY <1>1, <1>2, <1>3, <1>5 DEF Typed, IInv
<1>7. VersionNamesContent'
  <2>1. \A u \in Tabs : view[u] # None => /\ view[u] \in Rows
                                          /\ view[u].version <= row.version
    BY <1>4 DEF IInv, Typed, VersionNamesContent
  <2> QED BY SMTT(30), <1>1, <1>3, <1>4, <2>1 DEF VersionNamesContent, IInv, Rows
<1>8. AuditTellsHistory'
  <2>1. /\ audit \in Seq(Entries) /\ Len(audit) = row.version
        /\ audit[Len(audit)].new = row.status
        /\ \A i \in DOMAIN audit : /\ audit[i].version = i
                                   /\ i > 1 => audit[i].prior = audit[i - 1].new
    BY <1>4 DEF IInv, Typed, AuditTellsHistory
  <2>2. /\ Len(audit') = Len(audit) + 1
        /\ audit' # <<>>
        /\ \A i \in 1..Len(audit) : audit'[i] = audit[i]
        /\ audit'[Len(audit) + 1] = Entry(action, row.status, new, row.version + 1)
    BY <1>2, <1>5, <2>1
  <2>3. \A i \in DOMAIN audit' : /\ audit'[i].version = i
                                 /\ i > 1 => audit'[i].prior = audit'[i - 1].new
    <3> TAKE i \in DOMAIN audit'
    <3> Len(audit) \in Nat /\ DOMAIN audit = 1..Len(audit)
      BY <2>1
    <3>1. CASE i \in 1..Len(audit)
      <4>1. audit'[i] = audit[i] /\ i \in DOMAIN audit
        BY <3>1, <2>2
      <4>2. i > 1 => i - 1 \in 1..Len(audit) /\ audit'[i - 1] = audit[i - 1]
        BY <3>1, <2>2
      <4> QED BY <4>1, <4>2, <2>1
    <3>2. CASE i = Len(audit) + 1
      <4>1. audit'[i].version = row.version + 1 /\ audit'[i].prior = row.status
        BY <3>2, <2>2 DEF Entry
      <4>2. i > 1 => audit'[i - 1] = audit[Len(audit)]
        BY <3>2, <2>2
      <4> QED BY <4>1, <4>2, <3>2, <2>1
    <3>3. i \in 1..(Len(audit) + 1)
      BY <2>2, <1>6 DEF Typed
    <3> QED BY <3>1, <3>2, <3>3, <2>1
  <2>4. row' # None /\ Len(audit') = row'.version /\ audit'[Len(audit')].new = row'.status
    BY <1>1, <2>1, <2>2, <1>4 DEF Entry
  <2> QED BY <2>2, <2>3, <2>4 DEF AuditTellsHistory
<1> QED BY <1>6, <1>7, <1>8 DEF IInv

LEMMA NextIInv == IInv /\ [Next]_vars => IInv'
<1> SUFFICES ASSUME IInv, [Next]_vars PROVE IInv'
  OBVIOUS
<1> USE DEF candidateVars
<1>1. CASE UNCHANGED candidateVars
  BY <1>1 DEF IInv, Typed, VersionNamesContent, AuditTellsHistory
<1>2. ASSUME NEW t \in Tabs, Create(t) PROVE IInv'
  BY <1>2, InsertKeeps DEF Create
<1>3. ASSUME NEW t \in Tabs, Fuse(t) PROVE IInv'
  BY <1>3 DEF Fuse, IInv, Typed, VersionNamesContent, AuditTellsHistory
<1>4. ASSUME NEW t \in Tabs, Fused(t) PROVE IInv'
  <2>1. CASE Insert(t)
    BY <2>1, InsertKeeps
  <2>2. CASE UNCHANGED <<row, audit, view>>
    BY <2>2 DEF IInv, Typed, VersionNamesContent, AuditTellsHistory
  <2> QED BY <1>4, <2>1, <2>2 DEF Fused
<1>5. ASSUME NEW t \in Tabs, Load(t) PROVE IInv'
  BY <1>5, LoadKeeps
<1>6. ASSUME NEW t \in Tabs, NEW s \in Statuses \cup {None}, NEW m \in Models \cup {None},
             Update(t, s, m)
      PROVE  IInv'
  BY <1>6, UpdateKeeps
<1> QED BY <1>1, <1>2, <1>3, <1>4, <1>5, <1>6 DEF Next, vars

LEMMA AlwaysIInv == Spec => []IInv
  BY InitIInv, NextIInv, PTL DEF Spec

-----------------------------------------------------------------------------
\* Two tabs that show the same version show the same candidate, and the row is the
\* one of its version (update_positive_candidate).
THEOREM VersionNamesContentHolds == Spec => []VersionNamesContent
<1>1. IInv => VersionNamesContent
  BY DEF IInv
<1> QED BY <1>1, AlwaysIInv, PTL

\* The audit has one entry for every version, and they are a chain that ends with the
\* candidate (create_positive_candidate, update_positive_candidate).
THEOREM AuditTellsHistoryHolds == Spec => []AuditTellsHistory
<1>1. IInv => AuditTellsHistory
  BY DEF IInv
<1> QED BY <1>1, AlwaysIInv, PTL

\* A candidate changes in a session only, whatever became of logins, restarts and
\* configurations before (require_operator_session).
THEOREM ChangesInSessionHolds == Spec => ChangesInSession
<1> DEFINE P == (row' # row /\ fusing' = fusing) =>
                  /\ cookie # None
                  /\ now < cookie.exp /\ cookie.key = key
                  /\ \E t \in Tabs : csrf[t] = cookie.csrf
<1>1. [Next]_vars => [P]_vars
  <2> SUFFICES ASSUME [Next]_vars, row' # row, fusing' = fusing
      PROVE  P
    OBVIOUS
  <2>1. ASSUME NEW t \in Tabs, MayChange(t) PROVE P
    BY <2>1 DEF MayChange, Verified
  <2>2. ASSUME NEW t \in Tabs PROVE Create(t) \/ (\E s, m : Update(t, s, m)) => MayChange(t)
    BY DEF Create, Update
  <2>3. ASSUME NEW t \in Tabs PROVE ~ (Fuse(t) \/ Load(t) \/ Fused(t))
    BY DEF Fuse, Load, Fused
  <2> QED BY <2>1, <2>2, <2>3 DEF Next, vars, candidateVars
<1> QED BY <1>1, PTL DEF Spec, ChangesInSession

-----------------------------------------------------------------------------
(* Refinement: the tabs that have the current version are those that have the *)
(* current state.                                                             *)

LEMMA DocTyped ==
  ASSUME row \in Rows
  PROVE  Doc = [status |-> row.status, model |-> row.model] /\ Doc # None
  BY DEF Doc, Rows, Docs

LEMMA InsertCreates ==
  ASSUME IInv, NEW t \in Tabs, Insert(t)
  PROVE  Register!Create(t)
<1>1. PICK m \in Models : row' = Row("draft", m, 1)
  BY DEF Insert
<1>2. row' # None /\ row'.status = "draft" /\ row'.model = m
  BY <1>1, RowTyped DEF Statuses
<1>3. Doc = None /\ Doc' = [status |-> "draft", model |-> m]
  BY <1>2 DEF Doc, Insert
<1>4. \A u \in Tabs : view[u] = None
  BY DEF IInv, VersionNamesContent, Insert
<1>5. Aware' \in SUBSET {t}
  BY <1>4 DEF Aware, Insert, Answered, IInv, Typed
<1> QED BY <1>3, <1>5 DEF Register!Create

LEMMA LoadLearns ==
  ASSUME IInv, NEW t \in Tabs, Load(t)
  PROVE  Register!Learn(t)
<1>1. row \in Rows /\ row # None /\ view' = [view EXCEPT ![t] = row] /\ UNCHANGED row
  BY DEF Load, IInv, Typed
<1>2. Doc # None /\ UNCHANGED Doc
  BY <1>1, DocTyped DEF Doc
<1>3. Aware' = Aware \cup {t}
  BY <1>1 DEF Aware, IInv, Typed
<1> QED BY <1>2, <1>3 DEF Register!Learn

LEMMA UpdateChanges ==
  ASSUME IInv, NEW t \in Tabs, NEW s \in Statuses \cup {None}, NEW m \in Models \cup {None},
         Update(t, s, m)
  PROVE  Register!Change(t)
<1>1. PICK new \in Statuses, n \in Models :
        /\ row \in Rows
        /\ row' \in Rows /\ row' # None
        /\ row'.version = row.version + 1 /\ row'.status = new /\ row'.model = n
        /\ row.status \in Closed /\ new # "draft" => n = row.model
  BY UpdatedRow
<1>2. t \in Aware
  BY DEF Update, Current, Aware
<1>3. Doc = [status |-> row.status, model |-> row.model] /\ Doc' = [status |-> new, model |-> n]
  BY <1>1 DEF Doc, Rows
<1>4. \A u \in Tabs : view[u] # None => view[u].version \in Nat /\ view[u].version <= row.version
  BY DEF IInv, Typed, VersionNamesContent, Rows
<1>5. Aware' \in SUBSET {t}
  BY <1>1, <1>4 DEF Aware, Update, Answered, IInv, Typed, Rows
<1> QED BY <1>1, <1>2, <1>3, <1>5 DEF Register!Change, Register!Statuses, Register!Decided,
                                       Statuses, Closed

LEMMA StepRefines == IInv /\ [Next]_vars => [Register!Next]_<<Doc, Aware>>
<1> SUFFICES ASSUME IInv, [Next]_vars PROVE [Register!Next]_<<Doc, Aware>>
  OBVIOUS
<1>1. CASE UNCHANGED <<row, view>>
  BY <1>1 DEF Doc, Aware
<1>2. ASSUME NEW t \in Tabs, Insert(t) PROVE Register!Next
  BY <1>2, InsertCreates DEF Register!Next
<1>3. ASSUME NEW t \in Tabs, Load(t) PROVE Register!Next
  BY <1>3, LoadLearns DEF Register!Next
<1>4. ASSUME NEW t \in Tabs, NEW s \in Statuses \cup {None}, NEW m \in Models \cup {None},
             Update(t, s, m)
      PROVE  Register!Next
  BY <1>4, UpdateChanges DEF Register!Next
<1> QED BY <1>1, <1>2, <1>3, <1>4 DEF Next, vars, candidateVars, Create, Fuse, Fused

\* Versions and transactions implement the register: nobody's change is lost, and a
\* decided candidate keeps its model (update_positive_candidate).
THEOREM ImplementsRegisterHolds == Spec => ImplementsRegister
<1>1. Init => Register!Init
  BY DEF Init, Register!Init, Doc, Aware
<1> QED BY <1>1, AlwaysIInv, StepRefines, PTL DEF Spec, ImplementsRegister, Register!Spec
-----------------------------------------------------------------------------
(* The limit of the login: a password that was compared less than a window ago is *)
(* one of the attempts the list still holds, so no window has more of them than    *)
(* the list allowed (operator_login).                                              *)

Attempts == [at : Nat, nth : Nat]

\* The passwords of a peer that were compared in the window from a time on.
Within(p, first) == {d \in checks[p] : d.at \in first..(first + Window - 1)}

\* The attempts of a peer are in the past, and the next one is told from those of the
\* same time; an attempt whose password was compared stays in the list for a window.
Counting(p) ==
  /\ IsFiniteSet(attempts[p]) /\ IsFiniteSet(checks[p])
  /\ \A a \in attempts[p] \cup checks[p] : a.at <= now
  /\ \A a \in attempts[p] : a.at = now => a.nth < Cardinality(Recent(p))
  /\ \A c \in checks[p] : now - c.at < Window => c \in attempts[p]
  /\ \A first \in Nat : Cardinality(Within(p, first)) <= Limit

GInv ==
  /\ now \in Nat
  /\ attempts \in [Peers -> SUBSET Attempts]
  /\ checks \in [Peers -> SUBSET Attempts]
  /\ \A p \in Peers : Counting(p)

USE SessionAssumption DEF SessionAssumption

\* What is still counted is finite, and an attempt is none of it.
LEMMA RecentCounted ==
  ASSUME GInv, NEW p \in Peers
  PROVE  /\ IsFiniteSet(Recent(p)) /\ Cardinality(Recent(p)) \in Nat
         /\ Recent(p) \subseteq attempts[p]
         /\ Attempt(p) \in Attempts /\ Attempt(p).at = now
         /\ Attempt(p).nth = Cardinality(Recent(p))
         /\ Attempt(p) \notin attempts[p] \cup checks[p]
<1>1. Recent(p) \subseteq attempts[p] /\ IsFiniteSet(attempts[p])
  BY DEF GInv, Counting, Recent
<1>2. IsFiniteSet(Recent(p)) /\ Cardinality(Recent(p)) \in Nat
  BY <1>1, FS_Subset, FS_CardinalityType
<1>3. /\ Attempt(p) \in Attempts /\ Attempt(p).at = now
      /\ Attempt(p).nth = Cardinality(Recent(p))
  BY <1>2 DEF Attempt, Attempts, GInv
<1>4. Attempt(p) \notin attempts[p]
  BY <1>2, <1>3 DEF GInv, Counting
<1>5. Attempt(p) \notin checks[p]
  BY <1>3, <1>4 DEF GInv, Counting
<1> QED BY <1>1, <1>2, <1>3, <1>4, <1>5

\* One more password is compared: in a window that reaches until now, the others of the
\* window are still counted.
LEMMA OneMoreWithin ==
  ASSUME GInv, NEW p \in Peers, ~ Refused(p), NEW first \in Nat
  PROVE  Cardinality({d \in checks[p] \cup {Attempt(p)} : d.at \in first..(first + Window - 1)})
           <= Limit
<1> DEFINE W == {d \in checks[p] \cup {Attempt(p)} : d.at \in first..(first + Window - 1)}
<1>1. /\ Attempt(p).at = now /\ now \in Nat /\ IsFiniteSet(Recent(p))
      /\ Cardinality(Recent(p)) \in Nat /\ Cardinality(Recent(p)) < Limit
  BY RecentCounted DEF GInv, Refused
<1>2. CASE now \notin first..(first + Window - 1)
  <2>1. W = Within(p, first)
    BY <1>1, <1>2 DEF Within
  <2> QED BY <2>1 DEF GInv, Counting
<1>3. CASE now \in first..(first + Window - 1)
  <2>1. \A d \in checks[p] : d.at \in first..(first + Window - 1) => d \in Recent(p)
    BY <1>1, <1>3 DEF GInv, Counting, Recent, Attempts
  <2>2. W \subseteq Recent(p) \cup {Attempt(p)}
    BY <2>1
  <2>3. /\ IsFiniteSet(Recent(p) \cup {Attempt(p)})
        /\ Cardinality(Recent(p) \cup {Attempt(p)}) <= Cardinality(Recent(p)) + 1
    BY <1>1, FS_AddElement
  <2>4. /\ Cardinality(W) <= Cardinality(Recent(p) \cup {Attempt(p)})
        /\ Cardinality(W) \in Nat /\ Cardinality(Recent(p) \cup {Attempt(p)}) \in Nat
    BY <2>2, <2>3, FS_Subset, FS_CardinalityType
  <2> QED BY <1>1, <2>3, <2>4
<1> QED BY <1>2, <1>3

\* An attempt that fails is counted, its password perhaps not compared.
LEMMA LoginFailsCounts ==
  ASSUME GInv, NEW p \in Peers, LoginFails(p)
  PROVE  GInv'
<1> DEFINE a == Attempt(p)
<1>1. /\ ~ Refused(p) /\ now' = now
      /\ attempts' = [attempts EXCEPT ![p] = Recent(p) \cup {a}]
      /\ checks' = [checks EXCEPT ![p] = @ \cup {a}] \/ checks' = checks
  BY DEF LoginFails
<1>2. /\ IsFiniteSet(Recent(p)) /\ Cardinality(Recent(p)) \in Nat
      /\ Recent(p) \subseteq attempts[p]
      /\ a \in Attempts /\ a.at = now /\ a.nth = Cardinality(Recent(p))
      /\ a \notin attempts[p]
  BY RecentCounted
<1> HIDE DEF a
<1>3. /\ now' \in Nat /\ attempts' \in [Peers -> SUBSET Attempts]
      /\ checks' \in [Peers -> SUBSET Attempts]
      /\ attempts'[p] = Recent(p) \cup {a}
      /\ checks'[p] = checks[p] \cup {a} \/ checks'[p] = checks[p]
  BY <1>1, <1>2 DEF GInv
<1>4. Recent(p)' = Recent(p) \cup {a}
  BY <1>1, <1>2, <1>3 DEF Recent, GInv
<1>5. Cardinality(Recent(p)') = Cardinality(Recent(p)) + 1
  BY <1>2, <1>4, FS_AddElement
<1>6. IsFiniteSet(attempts'[p]) /\ IsFiniteSet(checks'[p])
  <2>1. IsFiniteSet(Recent(p) \cup {a})
    BY <1>2, FS_AddElement
  <2>2. IsFiniteSet(checks[p])
    BY DEF GInv, Counting
  <2>3. IsFiniteSet(checks[p] \cup {a})
    BY <2>2, FS_AddElement
  <2> QED BY <1>3, <2>1, <2>2, <2>3
<1>7. \A b \in attempts'[p] \cup checks'[p] : b.at <= now'
  BY <1>1, <1>2, <1>3 DEF GInv, Counting
<1>8. \A b \in attempts'[p] : b.at = now' => b.nth < Cardinality(Recent(p)')
  <2> SUFFICES ASSUME NEW b \in attempts'[p], b.at = now'
               PROVE  b.nth < Cardinality(Recent(p)')
    OBVIOUS
  <2>1. CASE b = a
    BY <1>2, <1>5, <2>1
  <2>2. CASE b \in attempts[p]
    <3>1. b.nth < Cardinality(Recent(p)) /\ b.nth \in Nat
      BY <1>1, <2>2 DEF GInv, Counting, Attempts
    <3> QED BY <1>2, <1>5, <3>1
  <2> QED BY <1>2, <1>3, <2>1, <2>2
<1>9. \A c \in checks'[p] : now' - c.at < Window => c \in attempts'[p]
  BY <1>1, <1>2, <1>3 DEF GInv, Counting, Recent
<1>10. \A first \in Nat : Cardinality(Within(p, first)') <= Limit
  <2> SUFFICES ASSUME NEW first \in Nat PROVE Cardinality(Within(p, first)') <= Limit
    OBVIOUS
  <2>1. CASE checks'[p] = checks[p]
    <3>1. Within(p, first)' = Within(p, first)
      BY <2>1 DEF Within
    <3> QED BY <3>1 DEF GInv, Counting
  <2>2. CASE checks'[p] = checks[p] \cup {a}
    <3>1. Within(p, first)'
            = {d \in checks[p] \cup {Attempt(p)} : d.at \in first..(first + Window - 1)}
      BY <2>2 DEF Within, a
    <3> QED BY <1>1, <3>1, OneMoreWithin
  <2> QED BY <1>3, <2>1, <2>2
<1>11. Counting(p)'
  BY <1>6, <1>7, <1>8, <1>9, <1>10 DEF Counting
<1>12. \A q \in Peers \ {p} : Counting(q)'
  <2> SUFFICES ASSUME NEW q \in Peers \ {p} PROVE Counting(q)'
    OBVIOUS
  <2>1. attempts'[q] = attempts[q] /\ checks'[q] = checks[q] /\ now' = now
    BY <1>1 DEF GInv
  <2>2. Recent(q)' = Recent(q) /\ \A first : Within(q, first)' = Within(q, first)
    BY <2>1 DEF Recent, Within
  <2> QED BY <2>1, <2>2 DEF GInv, Counting
<1> QED BY <1>3, <1>11, <1>12 DEF GInv

\* Peers whose attempts are forgotten, or kept, are counted as before.
LEMMA ForgottenOrKept ==
  ASSUME GInv, UNCHANGED now,
         NEW P \in SUBSET Peers,
         attempts' = [p \in Peers |-> IF p \in P THEN {} ELSE attempts[p]],
         checks' = [p \in Peers |-> IF p \in P THEN {} ELSE checks[p]]
  PROVE  GInv'
<1>1. ASSUME NEW p \in Peers PROVE Counting(p)'
  <2>1. CASE p \in P
    <3>1. attempts'[p] = {} /\ checks'[p] = {}
      BY <2>1
    <3>2. \A first : Within(p, first)' = {}
      BY <3>1 DEF Within
    <3>3. IsFiniteSet({}) /\ Cardinality({}) = 0
      BY FS_EmptySet
    <3>4. \A first \in Nat : Cardinality(Within(p, first)') <= Limit
      BY <3>2, <3>3
    <3> QED BY <3>1, <3>3, <3>4 DEF Counting
  <2>2. CASE p \notin P
    <3>1. attempts'[p] = attempts[p] /\ checks'[p] = checks[p]
      BY <2>2
    <3>2. Recent(p)' = Recent(p) /\ \A first : Within(p, first)' = Within(p, first)
      BY <3>1 DEF Recent, Within
    <3> QED BY <3>1, <3>2 DEF GInv, Counting
  <2> QED BY <2>1, <2>2
<1> QED BY <1>1 DEF GInv

\* The clock goes on: nothing is of the new time yet, and less is recent.
LEMMA TickCounts ==
  ASSUME GInv, Tick
  PROVE  GInv'
<1>1. now' = now + 1 /\ now \in Nat /\ UNCHANGED <<attempts, checks>>
  BY DEF Tick, GInv
<1>2. ASSUME NEW p \in Peers PROVE Counting(p)'
  <2>1. /\ attempts[p] \subseteq Attempts /\ checks[p] \subseteq Attempts
        /\ \A a \in attempts[p] \cup checks[p] : a.at \in Nat /\ a.at <= now
    BY DEF GInv, Counting, Attempts
  <2>2. \A first : Within(p, first)' = Within(p, first)
    BY <1>1 DEF Within
  <2> QED BY <1>1, <2>1, <2>2 DEF GInv, Counting
<1> QED BY <1>1, <1>2 DEF GInv

LEMMA GInit == Init => GInv
<1> SUFFICES ASSUME Init PROVE GInv
  OBVIOUS
<1>1. /\ now = 0 /\ attempts = [p \in Peers |-> {}] /\ checks = [p \in Peers |-> {}]
  BY DEF Init, SessionInit
<1>2. \A p \in Peers : Recent(p) = {} /\ \A first : Within(p, first) = {}
  BY <1>1 DEF Recent, Within
<1> QED BY <1>1, <1>2, FS_EmptySet DEF GInv, Counting

LEMMA GNext == GInv /\ [Next]_vars => GInv'
<1> SUFFICES ASSUME GInv, [Next]_vars PROVE GInv'
  OBVIOUS
<1>1. ASSUME UNCHANGED <<now, attempts, checks>> PROVE GInv'
  <2>1. \A p \in Peers : Recent(p)' = Recent(p) /\ \A first : Within(p, first)' = Within(p, first)
    BY <1>1 DEF Recent, Within
  <2> QED BY <1>1, <2>1 DEF GInv, Counting
<1>2. ASSUME NEW t \in Tabs, NEW p \in Peers, Login(t, p) PROVE GInv'
  <2>1. /\ UNCHANGED now
        /\ attempts' = [q \in Peers |-> IF q \in {p} THEN {} ELSE attempts[q]]
        /\ checks' = [q \in Peers |-> IF q \in {p} THEN {} ELSE checks[q]]
    BY <1>2 DEF Login, GInv
  <2> QED BY <2>1, ForgottenOrKept
<1>3. CASE Restart
  <2>1. /\ UNCHANGED now
        /\ attempts' = [q \in Peers |-> IF q \in Peers THEN {} ELSE attempts[q]]
        /\ checks' = [q \in Peers |-> IF q \in Peers THEN {} ELSE checks[q]]
    BY <1>3 DEF Restart
  <2> QED BY <2>1, ForgottenOrKept
<1>4. ASSUME NEW p \in Peers, LoginRefused(p) PROVE GInv'
  BY <1>1, <1>4 DEF LoginRefused, sessionVars
<1>5. ASSUME NEW t \in Tabs, AskSession(t) \/ Logout(t) PROVE GInv'
  BY <1>1, <1>5 DEF AskSession, Logout
<1>6. CASE Configure
  BY <1>1, <1>6 DEF Configure
<1>7. CASE SessionNext
  BY <1>2, <1>3, <1>4, <1>5, <1>6, <1>7, LoginFailsCounts, TickCounts DEF SessionNext
<1>8. ASSUME NEW t \in Tabs, Create(t) \/ Fuse(t) \/ Fused(t) \/ Load(t) PROVE GInv'
  BY <1>1, <1>8 DEF Create, Fuse, Fused, Load, Insert, sessionVars
<1>9. ASSUME NEW t \in Tabs, NEW s \in Statuses \cup {None}, NEW m \in Models \cup {None},
             Update(t, s, m)
      PROVE  GInv'
  BY <1>1, <1>9 DEF Update, sessionVars
<1>10. CASE UNCHANGED vars
  BY <1>1, <1>10 DEF vars, sessionVars
<1> QED BY <1>7, <1>8, <1>9, <1>10 DEF Next

\* Between two successes a peer has its password compared Limit times at most in any
\* window, whatever fails in between and however time passes (operator_login).
THEOREM GuessesLimitedHolds == Spec => []GuessesLimited
<1>1. GInv => GuessesLimited
  <2> SUFFICES ASSUME GInv, NEW p \in Peers, NEW c \in checks[p]
               PROVE  Cardinality({d \in checks[p] : d.at \in c.at..(c.at + Window - 1)}) <= Limit
    BY DEF GuessesLimited
  <2>1. c.at \in Nat
    BY DEF GInv, Attempts
  <2>2. Cardinality(Within(p, c.at)) <= Limit
    BY <2>1 DEF GInv, Counting
  <2> QED BY <2>2 DEF Within
<1> QED BY <1>1, GInit, GNext, PTL DEF Spec

-----------------------------------------------------------------------------
(***************************************************************************)
(* LearnedModel, the candidate's model, for any site: any requests, answers, *)
(* paths, names and cookies that SiteAssumption allows, any number of them,  *)
(* and any of the sizes at which things are cut.                             *)
(***************************************************************************)
Observations ==
  {o \in [request : Requests, via : {"guided_browser", "passive_crawl", "runtime_inspection"},
          answer : Answers \cup {Unset}, same : BOOLEAN, label : Labels] :
     o.via = "guided_browser" => o.same}

\* A session's requests are its own.
Listed == {o \in Observations : source = "guided" => o.via = "guided_browser"}

\* What may have become of a request: a session's may have been answered.
Later(o, p) ==
  \/ p = o
  \/ /\ o.via = "guided_browser" /\ o.answer = Unset
     /\ \E a \in Answers : p = [o EXCEPT !.answer = a]

\* All but the first d requests are still there.
Remains(old, new, d) ==
  \A i \in DOMAIN old : i > d => i - d \in DOMAIN new /\ Later(old[i], new[i - d])

EvidenceTyped ==
  /\ observed \in Seq(Listed)
  /\ label \in Labels
  /\ jar \subseteq Cookies
  /\ edited \in BOOLEAN

HandedTyped ==
  /\ handed.requests \in Seq(Observations)
  /\ handed.cookies \subseteq Cookies
  /\ cut \in Nat

\* What was built stands until it is edited, and what it was built from is known: but for
\* what was cut, it is still there.
LInv ==
  /\ EvidenceTyped
  /\ HandedTyped
  /\ Remains(handed.requests, observed, cut)
  /\ candidate.state \in {"none", "model", "refused"}
  /\ edited => IsModel(candidate)
  /\ \/ candidate.state = "none" \/ edited
     \/ candidate = Learn(handed.requests, handed.cookies, handed.names)

LEMMA ListedObservations == ASSUME NEW s \in Seq(Listed) PROVE s \in Seq(Observations)
<1>1. Listed \subseteq Observations
  BY DEF Listed
<1> QED BY <1>1

LEMMA LInit == ASSUME LearningInit PROVE LInv
<1>1. /\ observed = <<>> /\ candidate.state = "none" /\ jar = {} /\ edited = FALSE /\ cut = 0
      /\ label \in Labels /\ handed.requests = <<>> /\ handed.cookies = {}
  BY DEF LearningInit, Labels, Nothing
<1>2. Remains(handed.requests, observed, cut)
  BY <1>1 DEF Remains
<1>3. EvidenceTyped
  <2>1. observed \in Seq(Listed)
    BY <1>1
  <2>2. jar \subseteq Cookies /\ edited \in BOOLEAN
    BY <1>1
  <2> QED BY <1>1, <2>1, <2>2 DEF EvidenceTyped
<1>4. HandedTyped
  BY <1>1 DEF HandedTyped
<1> QED BY <1>1, <1>2, <1>3, <1>4 DEF LInv

\* The greater of two numbers.
LEMMA MaxOfTwo ==
  ASSUME NEW m \in Int, NEW n \in Int
  PROVE  Max({m, n}) = IF m >= n THEN m ELSE n
<1>1. PICK x \in {m, n} : \A y \in {m, n} : x >= y
  <2>1. CASE m >= n
    BY <2>1
  <2>2. CASE ~ (m >= n)
    BY <2>2
  <2> QED BY <2>1, <2>2
<1>2. Max({m, n}) \in {m, n} /\ \A y \in {m, n} : Max({m, n}) >= y
  BY <1>1 DEF Max
<1> QED BY <1>2

\* The newest entries are the last ones, in their order.
LEMMA NewestIs ==
  ASSUME NEW S, NEW s \in Seq(S), NEW n \in Nat \ {0}
  PROVE  LET kept == Newest(s, n)
             gone == Len(s) - Len(kept)
         IN /\ kept \in Seq(S) /\ gone \in Nat
            /\ \A i \in DOMAIN s : i > gone => i - gone \in DOMAIN kept /\ kept[i - gone] = s[i]
<1> DEFINE from == Max({1, Len(s) - n + 1})
<1>1. Len(s) \in Nat /\ Len(s) - n + 1 \in Int
  OBVIOUS
<1>2. from = IF 1 >= Len(s) - n + 1 THEN 1 ELSE Len(s) - n + 1
  BY <1>1, MaxOfTwo
<1>3. from \in Nat /\ 1 <= from /\ from <= Len(s) + 1
  BY <1>1, <1>2
<1> HIDE DEF from
<1>4. /\ SubSeq(s, from, Len(s)) \in Seq(S)
      /\ Len(SubSeq(s, from, Len(s))) = Len(s) - from + 1
      /\ \A i \in 1..(Len(s) - from + 1) : SubSeq(s, from, Len(s))[i] = s[from + i - 1]
  BY <1>1, <1>3
<1>5. Newest(s, n) = SubSeq(s, from, Len(s))
  BY DEF Newest, from
<1>6. Len(s) - Len(Newest(s, n)) = from - 1
  BY <1>1, <1>3, <1>4, <1>5
<1>7. ASSUME NEW i \in DOMAIN s, i > from - 1
      PROVE  i - (from - 1) \in DOMAIN Newest(s, n) /\ Newest(s, n)[i - (from - 1)] = s[i]
  <2>1. i - (from - 1) \in 1..(Len(s) - from + 1) /\ from + (i - (from - 1)) - 1 = i
    BY <1>1, <1>3, <1>7
  <2>2. DOMAIN Newest(s, n) = 1..(Len(s) - from + 1)
    BY <1>4, <1>5
  <2> QED BY <1>4, <1>5, <2>1, <2>2
<1>8. Newest(s, n) \in Seq(S)
  BY <1>4, <1>5
<1> DEFINE kept == Newest(s, n)
           gone == Len(s) - Len(kept)
<1>9. gone = from - 1
  BY <1>6
<1> HIDE DEF gone, kept
<1>10. /\ kept \in Seq(S) /\ gone \in Nat
       /\ \A i \in DOMAIN s : i > gone => i - gone \in DOMAIN kept /\ kept[i - gone] = s[i]
  BY <1>3, <1>7, <1>8, <1>9 DEF kept
<1> QED BY <1>10 DEF gone, kept

\* What is left is left when nothing but an answer came, or when the first went and
\* another request came.
LEMMA RemainsLater ==
  ASSUME NEW old \in Seq(Observations), NEW new \in Seq(Observations),
         NEW newer \in Seq(Observations), NEW d \in Nat, NEW m \in Nat,
         Remains(old, new, d), Remains(new, newer, m)
  PROVE  Remains(old, newer, d + m)
<1> SUFFICES ASSUME NEW i \in DOMAIN old, i > d + m
             PROVE  i - (d + m) \in DOMAIN newer /\ Later(old[i], newer[i - (d + m)])
  BY DEF Remains
<1>1. i \in Nat /\ i > d /\ i - d > m /\ (i - d) - m = i - (d + m)
  OBVIOUS
<1>2. i - d \in DOMAIN new /\ Later(old[i], new[i - d])
  BY <1>1 DEF Remains
<1>3. i - (d + m) \in DOMAIN newer /\ Later(new[i - d], newer[i - (d + m)])
  BY <1>1, <1>2 DEF Remains
<1>4. \A o, p, q : o \in Observations /\ Later(o, p) /\ Later(p, q) => Later(o, q)
  <2> SUFFICES ASSUME NEW o \in Observations, NEW p, NEW q, Later(o, p), Later(p, q), p # o, q # p
               PROVE  FALSE
    BY DEF Later
  <2>1. PICK a \in Answers : p = [o EXCEPT !.answer = a]
    BY DEF Later
  <2>2. p.answer # Unset
    <3>1. a # Unset
      BY SiteAssumption DEF Site
    <3>2. p.answer = a
      BY <2>1 DEF Observations
    <3> QED BY <3>1, <3>2
  <2> QED BY <2>2 DEF Later
<1> QED BY <1>2, <1>3, <1>4

\* New evidence leaves the candidate as it is, and what is left of what it was built from.
LEMMA LEvidence ==
  ASSUME LInv, UNCHANGED <<candidate, handed, edited>>,
         jar' \subseteq Cookies, label' \in Labels, observed' \in Seq(Listed), source' = source,
         NEW m \in Nat, cut' = cut + m, Remains(observed, observed', m)
  PROVE  LInv'
<1>1. Remains(handed.requests, observed', cut + m)
  <2>1. observed \in Seq(Observations) /\ observed' \in Seq(Observations)
    BY ListedObservations DEF LInv, EvidenceTyped
  <2> QED BY <2>1, RemainsLater DEF LInv, HandedTyped
<1>2. Remains(handed.requests, observed, cut)'
  BY <1>1
<1>3. EvidenceTyped' /\ HandedTyped'
  <2>1. Listed' = Listed
    BY DEF Listed
  <2> QED BY <2>1 DEF LInv, EvidenceTyped, HandedTyped
<1> QED BY <1>2, <1>3 DEF LInv, IsModel

\* What was not touched remains.
LEMMA AllRemains ==
  ASSUME NEW s \in Seq(Observations)
  PROVE  Remains(s, s, 0)
<1> SUFFICES ASSUME NEW i \in DOMAIN s PROVE i - 0 \in DOMAIN s /\ Later(s[i], s[i - 0])
  BY DEF Remains
<1>1. i - 0 = i
  OBVIOUS
<1> QED BY <1>1 DEF Later

LEMMA LBuild == ASSUME LInv, Build PROVE LInv'
<1>1. PICK cookies \in SUBSET jar :
        handed' = [requests |-> observed, cookies |-> cookies, names |-> UNION Range(interactions)]
  BY DEF Build, kSubset
<1>2. /\ candidate' = Learn(handed'.requests, handed'.cookies, handed'.names)
      /\ cut' = 0 /\ edited' = FALSE
      /\ UNCHANGED <<source, observed, label, jar>>
  BY DEF Build, evidence, session
<1>3. candidate'.state \in {"model", "refused"}
  BY <1>2 DEF Learn
<1>4. EvidenceTyped' /\ HandedTyped'
  <2>1. Listed' = Listed
    BY <1>2 DEF Listed
  <2> QED BY <1>1, <1>2, <2>1, ListedObservations DEF LInv, EvidenceTyped, HandedTyped
<1>5. Remains(handed.requests, observed, cut)'
  <2>1. Remains(observed, observed, 0)
    BY AllRemains, ListedObservations DEF LInv, EvidenceTyped
  <2> QED BY <1>1, <1>2, <2>1
<1> QED BY <1>2, <1>3, <1>4, <1>5 DEF LInv

LEMMA LObserve ==
  ASSUME LInv, NEW r \in Requests, Observe(r)
  PROVE  LInv'
<1> DEFINE o == [request |-> r, via |-> "guided_browser", answer |-> Unset, same |-> TRUE,
                 label |-> label]
           all == Append(observed, o)
           m == Len(all) - Len(observed')
<1>1. /\ observed' = Newest(all, KeepRequests) /\ cut' = cut + Len(all) - Len(observed')
      /\ UNCHANGED <<source, label, jar, candidate, handed, edited>>
  BY DEF Observe, Happens, session
<1>2. o \in Listed
  BY DEF Listed, Observations, LInv, EvidenceTyped
<1>3. observed \in Seq(Listed) /\ KeepRequests \in Nat \ {0} /\ cut \in Nat
  BY SiteAssumption DEF LInv, EvidenceTyped, HandedTyped, Site
<1> HIDE DEF o
<1>4. /\ all \in Seq(Listed) /\ DOMAIN observed \subseteq DOMAIN all
      /\ \A i \in DOMAIN observed : all[i] = observed[i]
  BY <1>2, <1>3
<1> HIDE DEF all
<1>5. /\ observed' \in Seq(Listed) /\ m \in Nat
      /\ \A i \in DOMAIN all : i > m => i - m \in DOMAIN observed' /\ observed'[i - m] = all[i]
  BY <1>1, <1>3, <1>4, NewestIs
<1>6. Remains(observed, observed', m)
  BY <1>4, <1>5 DEF Remains, Later
<1>7. cut' = cut + m
  <2>1. Len(all) \in Nat /\ Len(observed') \in Nat
    BY <1>4, <1>5
  <2> QED BY <1>1, <1>3, <2>1
<1> HIDE DEF m
<1>8. m \in Nat
  BY <1>5
<1>9. jar' \subseteq Cookies /\ label' \in Labels
  BY <1>1 DEF LInv, EvidenceTyped
<1> QED BY <1>1, <1>5, <1>6, <1>7, <1>8, <1>9, LEvidence

LEMMA LRespond ==
  ASSUME LInv, NEW i \in DOMAIN observed, NEW a \in Answers, Respond(i, a)
  PROVE  LInv'
<1> DEFINE p == [observed[i] EXCEPT !.answer = a]
<1>1. /\ observed[i].answer = Unset /\ observed' = [observed EXCEPT ![i] = p]
      /\ source = "guided" /\ UNCHANGED <<source, label, jar, candidate, handed, edited, cut>>
  BY DEF Respond, Happens, session
<1>2. observed \in Seq(Listed) /\ observed[i] \in Listed /\ observed[i].via = "guided_browser"
  BY <1>1 DEF LInv, EvidenceTyped, Listed
<1>3. p \in Listed /\ Later(observed[i], p)
  BY <1>1, <1>2 DEF Listed, Observations, Later
<1> HIDE DEF p
<1>4. /\ observed' \in Seq(Listed) /\ DOMAIN observed' = DOMAIN observed
      /\ \A j \in DOMAIN observed : Later(observed[j], observed'[j]) /\ j - 0 = j
  BY <1>1, <1>2, <1>3 DEF Later
<1>5. Remains(observed, observed', 0)
  BY <1>4 DEF Remains
<1>6. cut' = cut + 0 /\ jar' \subseteq Cookies /\ label' \in Labels
  BY <1>1 DEF LInv, EvidenceTyped, HandedTyped
<1> QED BY <1>1, <1>4, <1>5, <1>6, LEvidence

LEMMA LListRow ==
  ASSUME LInv, NEW r \in Requests, ListRow(r)
  PROVE  LInv'
<1>1. PICK o \in Listed : observed' = Append(observed, o)
  <2>1. PICK via \in {"passive_crawl", "runtime_inspection"}, a \in Answers \cup {Unset},
             same \in BOOLEAN :
          observed' = Append(observed, [request |-> r, via |-> via, answer |-> a, same |-> same,
                                        label |-> label])
    BY DEF ListRow
  <2>2. label \in Labels /\ source = "discovery"
    BY DEF LInv, EvidenceTyped, ListRow, Happens
  <2> QED BY <2>1, <2>2 DEF Listed, Observations
<1>2. UNCHANGED <<source, label, jar, candidate, handed, edited, cut>>
  BY DEF ListRow, Happens, session
<1>3. observed' \in Seq(Listed) /\ Remains(observed, observed', 0)
  <2>1. observed \in Seq(Listed)
    BY DEF LInv, EvidenceTyped
  <2>2. \A i \in DOMAIN observed : i \in DOMAIN observed' /\ observed'[i] = observed[i] /\ i - 0 = i
    BY <1>1, <2>1
  <2> QED BY <1>1, <2>1, <2>2 DEF Remains, Later
<1>4. cut' = cut + 0 /\ jar' \subseteq Cookies /\ label' \in Labels
  BY <1>2 DEF LInv, EvidenceTyped, HandedTyped
<1> QED BY <1>2, <1>3, <1>4, LEvidence

\* Cookies and interactions come and go, and a login changes the label.
LEMMA LSession ==
  ASSUME LInv, UNCHANGED <<source, observed, candidate, handed, edited, cut>>,
         jar' \subseteq Cookies, label' \in Labels
  PROVE  LInv'
<1>1. Remains(observed, observed, 0)
  BY AllRemains, ListedObservations DEF LInv, EvidenceTyped
<1>2. cut' = cut + 0 /\ observed' \in Seq(Listed)
  BY DEF LInv, EvidenceTyped, HandedTyped
<1> QED BY <1>1, <1>2, LEvidence

LEMMA LTighten ==
  ASSUME LInv, IsModel(candidate), NEW e, NEW f, Tighten(e, f)
  PROVE  LInv'
<1>1. UNCHANGED <<source, observed, label, jar, handed, cut>> /\ edited' = TRUE
  BY DEF Tighten, evidence, session
<1>2. candidate'.state = "model"
  <2>1. PICK es : candidate' = [candidate EXCEPT !.endpoints = es]
    BY DEF Tighten
  <2>2. candidate.state = "model"
    BY DEF IsModel
  <2> QED BY <2>1, <2>2
<1> QED BY <1>1, <1>2 DEF LInv, EvidenceTyped, HandedTyped, Listed, IsModel

LEMMA LNext ==
  ASSUME LInv, [LearningNext]_learning
  PROVE  LInv'
<1>1. CASE UNCHANGED learning
  <2>1. UNCHANGED <<source, observed, label, jar, candidate, handed, edited, cut>>
    BY <1>1 DEF learning, evidence, session
  <2> QED BY <2>1 DEF LInv, EvidenceTyped, HandedTyped, Listed, IsModel
<1>2. ASSUME NEW r \in Requests, Observe(r) PROVE LInv'
  BY <1>2, LObserve
<1>3. ASSUME NEW i \in DOMAIN observed, NEW a \in Answers, Respond(i, a) PROVE LInv'
  BY <1>3, LRespond
<1>4. ASSUME NEW r \in Requests, ListRow(r) PROVE LInv'
  BY <1>4, LListRow
<1>5. ASSUME NEW c \in Cookies, SetCookie(c) PROVE LInv'
  BY <1>5, LSession DEF SetCookie, Happens, LInv, EvidenceTyped
<1>6. ASSUME NEW c \in jar, DropCookie(c) PROVE LInv'
  BY <1>6, LSession DEF DropCookie, Happens, LInv, EvidenceTyped
<1>7. CASE SignIn
  BY <1>7, LSession DEF SignIn, Happens, LInv, EvidenceTyped, Labels
<1>8. CASE Interact
  BY <1>8, LSession DEF Interact, Happens, LInv, EvidenceTyped
<1>9. ASSUME NEW k \in DOMAIN interactions, Correlate(k) PROVE LInv'
  BY <1>9, LSession DEF Correlate, Happens, LInv, EvidenceTyped
<1>10. CASE Build
  BY <1>10, LBuild
<1>11. ASSUME IsModel(candidate), NEW e, NEW f, Tighten(e, f) PROVE LInv'
  BY <1>11, LTighten
<1> QED BY <1>1, <1>2, <1>3, <1>4, <1>5, <1>6, <1>7, <1>8, <1>9, <1>10, <1>11 DEF LearningNext

LEMMA LInvariance == LearningSpec => []LInv
<1>1. LearningInit => LInv
  BY LInit
<1>2. LInv /\ [LearningNext]_learning => LInv'
  BY LNext
<1> QED BY <1>1, <1>2, PTL DEF LearningSpec

-----------------------------------------------------------------------------
(* What learning gives *)

LEMMA MinOfTwo ==
  ASSUME NEW m \in Int, NEW n \in Int
  PROVE  Min({m, n}) = IF m <= n THEN m ELSE n
<1>1. PICK x \in {m, n} : \A y \in {m, n} : x <= y
  <2>1. CASE m <= n
    BY <2>1
  <2>2. CASE ~ (m <= n)
    BY <2>2
  <2> QED BY <2>1, <2>2
<1>2. Min({m, n}) \in {m, n} /\ \A y \in {m, n} : Min({m, n}) <= y
  BY <1>1 DEF Min
<1> QED BY <1>2

\* A template has the segments of its path, or what hides them; only discovery cuts it.
LEMMA TemplateTyped ==
  ASSUME Site, NEW o \in Observations
  PROVE  LET path == o.request.path
             template == Template(o)
         IN /\ path \in Seq(DOMAIN Kind) /\ Len(path) \in Nat \ {0}
            /\ DOMAIN path = 1..Len(path)
            /\ DOMAIN template = 1..Len(template) /\ Len(template) \in 1..Len(path)
            /\ o.via = "guided_browser" => Len(template) = Len(path)
            /\ o.via # "guided_browser" => Len(template) <= MaxSegments
            /\ Len(path) <= MaxSegments => Len(template) = Len(path)
            /\ \A i \in 1..Len(template) :
                 \/ template[i] = path[i]
                 \/ /\ o.via = "guided_browser" /\ template[i] = Kind[path[i]]
                    /\ Kind[path[i]] \in {"int", "uuid", "token"}
<1> DEFINE path == o.request.path
           hidden == [i \in DOMAIN path |->
                        IF Kind[path[i]] = "literal" THEN path[i] ELSE Kind[path[i]]]
<1>1. /\ path \in Seq(DOMAIN Kind) /\ path # <<>>
      /\ \A s \in DOMAIN Kind : Kind[s] \in {"literal", "int", "uuid", "token"}
      /\ MaxSegments \in Nat \ {0}
  BY DEF Observations, Site
<1>2. Len(path) \in Nat \ {0} /\ DOMAIN path = 1..Len(path)
      /\ \A i \in 1..Len(path) : path[i] \in DOMAIN Kind
  BY <1>1
<1>3. CASE o.via = "guided_browser"
  <2>1. Template(o) = hidden
    BY <1>3 DEF Template, Hidden
  <2>2. DOMAIN hidden = 1..Len(path) /\ Len(hidden) = Len(path)
    BY <1>2
  <2>3. \A i \in 1..Len(path) :
          \/ hidden[i] = path[i]
          \/ hidden[i] = Kind[path[i]] /\ Kind[path[i]] \in {"int", "uuid", "token"}
    BY <1>1, <1>2
  <2> HIDE DEF hidden, path
  <2> QED BY <1>1, <1>2, <1>3, <2>1, <2>2, <2>3 DEF path
<1>4. CASE o.via # "guided_browser"
  <2> DEFINE n == Min({Len(path), MaxSegments})
  <2>1. Template(o) = SubSeq(path, 1, n)
    BY <1>4 DEF Template
  <2>2. n = IF Len(path) <= MaxSegments THEN Len(path) ELSE MaxSegments
    BY <1>1, <1>2, MinOfTwo
  <2>3. n \in 1..Len(path) /\ n <= MaxSegments /\ (Len(path) <= MaxSegments => n = Len(path))
    BY <1>1, <1>2, <2>2
  <2> HIDE DEF n, path
  <2>4. /\ Len(SubSeq(path, 1, n)) = n /\ DOMAIN SubSeq(path, 1, n) = 1..n
        /\ \A i \in 1..n : SubSeq(path, 1, n)[i] = path[i]
    BY <1>1, <2>3
  <2> QED BY <1>1, <1>2, <1>4, <2>1, <2>3, <2>4 DEF path
<1> QED BY <1>3, <1>4

LEMMA LearnedModelIs ==
  ASSUME NEW obs, NEW cookies, NEW links, candidate = Learn(obs, cookies, links)
  PROVE  /\ IsModel(candidate) =>
              candidate.endpoints = {Endpoint(obs, route, cookies, links) : route \in Keys(obs)}
         /\ candidate.state = "refused" =>
              \E i \in Counted(obs) : ~ ValidEndpoint(Endpoint(obs, KeyOf(obs[i]), cookies, links))
BY DEF Learn, IsModel, Keys

\* The requests of an endpoint were made of this host, are what the endpoint was built
\* from, and have its key.
LEMMA OfEndpoint ==
  ASSUME LInv, NEW route, NEW i \in Of(handed.requests, route)
  PROVE  LET o == handed.requests[i]
         IN /\ i \in DOMAIN handed.requests /\ i \in Counted(handed.requests)
            /\ o \in Observations /\ o \in Range(handed.requests)
            /\ o.same /\ (o.via = "guided_browser" \/ o.answer # Unset)
            /\ o.via # "guided_browser" => OriginRelative(o.request.path)
            /\ Template(o) = route.template /\ o.request.method = route.method
<1>1. handed.requests \in Seq(Observations)
  BY DEF LInv, HandedTyped
<1>2. /\ i \in DOMAIN handed.requests /\ i \in Counted(handed.requests)
      /\ Usable(handed.requests[i]) /\ KeyOf(handed.requests[i]) = route
  BY DEF Of, Counted
<1>3. handed.requests[i] \in Observations
  BY <1>1, <1>2
<1> QED BY <1>2, <1>3 DEF Usable, KeyOf, Range, Observations

\* A field comes from a name of one of the endpoint's requests, from a cookie one of
\* them may have carried, or from what the template hides.
LEMMA NamedFieldIs ==
  ASSUME NEW obs, NEW is, NEW links, NEW f \in NamedFields(obs, is, links)
  PROVE  \E loc \in Locations, i \in is :
           \E n \in NamesSeen(obs[i], loc) : \E samples :
             f = Field(loc, n, {}, samples, links, "unknown")
BY DEF NamedFields, FieldsAt

LEMMA PathFieldIs ==
  ASSUME NEW obs, NEW is, NEW template, NEW links,
         NEW f \in PathFields(obs, is, template, links)
  PROVE  \E k \in Parameters(template) : \E samples, type :
           f = Field("path", ParameterNames[Number(template, k)], {}, samples, links, type)
BY DEF PathFields

LEMMA CookieFieldIs ==
  ASSUME NEW obs, NEW is, NEW cookies, NEW links, NEW f \in CookieFields(obs, is, cookies, links)
  PROVE  \E c \in cookies, i \in is :
           /\ Carries(obs[i], c) /\ c.name \in Safe
           /\ f = Field("request_cookie", c.name, {c}, Cardinality(Carrying(c, obs, is)), links,
                        "unknown")
BY DEF CookieFields

LEMMA FieldIs ==
  ASSUME NEW loc, NEW name, NEW of, NEW samples, NEW links, NEW type
  PROVE  LET f == Field(loc, name, of, samples, links, type)
         IN f.location = loc /\ f.name = name /\ f.of = of /\ f.type = type /\ ~ f.required
            /\ f.max = Unset
BY DEF Field

\* The names of a request and of an answer.
LEMMA NamesTyped ==
  ASSUME Site, NEW o \in Observations, NEW loc \in Locations
  PROVE  /\ NamesOf(o, loc) \subseteq DOMAIN Fold /\ IsFiniteSet(NamesOf(o, loc))
         /\ loc = "query" => NamesOf(o, loc) \subseteq o.request.names["query"] \cup o.request.flags
         /\ loc = "request_header" => NamesOf(o, loc) \subseteq o.request.names["request_header"]
         /\ loc = "response_header" /\ NamesOf(o, loc) # {} =>
              o.answer # Unset /\ NamesOf(o, loc) \subseteq o.answer.headers
<1>1. /\ o.request \in Requests /\ o.answer \in Answers \cup {Unset}
      /\ o.request.names \in [{"query", "request_header"} -> SUBSET DOMAIN Fold]
      /\ o.request.flags \subseteq DOMAIN Fold
  BY DEF Observations, Site
<1>2. /\ o.request.names["query"] \subseteq DOMAIN Fold
      /\ o.request.names["request_header"] \subseteq DOMAIN Fold
      /\ DOMAIN o.request.names = {"query", "request_header"}
  BY <1>1
<1>3. /\ IsFiniteSet(o.request.names["query"]) /\ IsFiniteSet(o.request.flags)
      /\ IsFiniteSet(o.request.names["request_header"])
  BY <1>1, <1>2 DEF Site
<1>4. o.answer # Unset => o.answer.headers \subseteq DOMAIN Fold /\ IsFiniteSet(o.answer.headers)
  BY <1>1 DEF Site
<1>5. IsFiniteSet({}) /\ IsFiniteSet(o.request.names["query"] \cup o.request.flags)
      /\ IsFiniteSet(o.request.names["query"] \cup {})
  BY <1>3, FS_EmptySet, FS_Union
<1>6. CASE loc = "query"
  BY <1>1, <1>2, <1>5, <1>6 DEF NamesOf
<1>7. CASE loc = "request_header"
  BY <1>2, <1>3, <1>5, <1>7 DEF NamesOf
<1>8. CASE loc = "response_header"
  BY <1>4, <1>5, <1>8 DEF NamesOf
<1> QED BY <1>6, <1>7, <1>8 DEF Locations

\* A name that was seen is a name of the request or the answer, in lower case but for
\* query keys.
LEMMA NameSeenIs ==
  ASSUME Site, NEW o \in Observations, NEW loc \in Locations, NEW n \in NamesSeen(o, loc)
  PROVE  /\ n \in DOMAIN Fold
         /\ \E m \in NamesOf(o, loc) : n = Kept(loc, m) /\ Fold[n] = Fold[m]
         /\ loc = "query" => n \in NamesOf(o, loc)
         /\ loc # "query" => Fold[n] = n
<1>1. PICK m \in NamesOf(o, loc) \cap Safe : n = Kept(loc, m)
  BY DEF NamesSeen
<1>2. m \in DOMAIN Fold
  BY <1>1, NamesTyped
<1>3. Fold[m] \in DOMAIN Fold /\ Fold[Fold[m]] = Fold[m]
  BY <1>2 DEF Site
<1> QED BY <1>1, <1>2, <1>3 DEF Kept

-----------------------------------------------------------------------------
\* The requests seen of an endpoint, and those of them that were answered.
Seen(e) ==
  {o \in Range(handed.requests) : /\ o.same /\ Template(o) = e.template
                                  /\ o.request.method = e.method
                                  /\ o.via = "guided_browser" \/ o.answer # Unset}
SeenAnswered(e) == {o \in Seen(e) : o.answer # Unset}

LEMMA ModelEndpoint ==
  ASSUME LInv, IsModel(candidate), ~ edited
  PROVE  /\ candidate = Learn(handed.requests, handed.cookies, handed.names)
         /\ candidate.endpoints =
              {Endpoint(handed.requests, route, handed.cookies, handed.names) :
                 route \in Keys(handed.requests)}
<1>1. candidate = Learn(handed.requests, handed.cookies, handed.names)
  BY DEF LInv, IsModel
<1> QED BY <1>1, LearnedModelIs

\* A cookie that may have been carried was sent on a path that its own path begins.
LEMMA CarriedPrefix ==
  ASSUME Site, NEW o \in Observations, NEW c \in Cookies, Carries(o, c)
  PROVE  /\ o.request.cookie /\ (c.secure => o.request.scheme = "https")
         /\ \A k \in DOMAIN c.path : k \in DOMAIN Template(o) /\ Template(o)[k] = c.path[k]
<1> DEFINE t == Template(o)
<1>1. /\ o.request.cookie /\ (c.secure => o.request.scheme = "https")
      /\ Len(c.path) <= Len(t) /\ SubSeq(c.path, 1, Len(c.path)) = SubSeq(t, 1, Len(c.path))
  BY DEF Carries, IsPrefix
<1>2. c.path \in Seq(DOMAIN Kind)
  BY DEF Site
<1>3. DOMAIN t = 1..Len(t) /\ Len(t) \in Nat
  BY TemplateTyped
<1> HIDE DEF t
<1>4. \A k \in 1..Len(c.path) : /\ SubSeq(c.path, 1, Len(c.path))[k] = c.path[k]
                                /\ SubSeq(t, 1, Len(c.path))[k] = t[k]
                                /\ k \in 1..Len(t)
  BY <1>1, <1>2, <1>3
<1> QED BY <1>1, <1>2, <1>3, <1>4 DEF t

\* What is asked of a field of an endpoint.
WasSeen(e, f) ==
  CASE f.location = "path" ->
         \E i \in DOMAIN e.template : e.template[i] \in {"int", "uuid"}
    [] f.location = "request_cookie" ->
         \E c \in handed.cookies : \E o \in Seen(e) :
           /\ c.name = f.name /\ o.request.cookie
           /\ c.secure => o.request.scheme = "https"
           /\ \A k \in DOMAIN c.path : k \in DOMAIN e.template /\ e.template[k] = c.path[k]
    [] f.location = "response_header" ->
         \E o \in SeenAnswered(e) : \E n \in o.answer.headers : Fold[n] = Fold[f.name]
    [] f.location = "request_header" ->
         \E o \in Seen(e) : \E n \in o.request.names["request_header"] : Fold[n] = Fold[f.name]
    [] OTHER ->
         \E o \in Seen(e) : f.name \in o.request.names["query"] \cup o.request.flags

LEMMA NothingUnseenState ==
  ASSUME Site, LInv
  PROVE  NothingUnseen
<1> SUFFICES ASSUME IsModel(candidate), ~ edited, NEW e \in candidate.endpoints
             PROVE  /\ Seen(e) # {}
                    /\ \A type \in e.types : \E o \in SeenAnswered(e) : o.answer.type = type
                    /\ \A f \in e.fields : WasSeen(e, f)
  BY DEF NothingUnseen, Seen, SeenAnswered, WasSeen
<1> DEFINE obs == handed.requests
<1>1. PICK i0 \in Counted(obs) : e = Endpoint(obs, KeyOf(obs[i0]), handed.cookies, handed.names)
  BY ModelEndpoint DEF Keys
<1> DEFINE route == KeyOf(obs[i0])
           is == Of(obs, route)
           links == handed.names
<1>2. i0 \in is /\ e = Endpoint(obs, route, handed.cookies, links)
  BY <1>1 DEF Of
<1> HIDE DEF route
<1>3. /\ e.template = route.template /\ e.method = route.method
      /\ e.types = TypesSeen(obs, is)
      /\ e.fields = NamedFields(obs, is, links) \cup CookieFields(obs, is, handed.cookies, links)
                      \cup PathFields(obs, is, route.template, links)
  BY <1>2 DEF Endpoint
<1>4. \A i \in is : obs[i] \in Seen(e) /\ obs[i] \in Observations
  BY <1>3, OfEndpoint DEF Seen
<1> HIDE DEF is, links, obs
<1>5. \A type \in e.types : \E o \in SeenAnswered(e) : o.answer.type = type
  <2> TAKE type \in e.types
  <2>1. PICK i \in is : obs[i].answer # Unset /\ obs[i].answer.type = type
    BY <1>3 DEF TypesSeen
  <2> QED BY <1>4, <2>1 DEF SeenAnswered
<1>6. ASSUME NEW f \in NamedFields(obs, is, links)
      PROVE  WasSeen(e, f)
  <2>1. PICK loc \in Locations, i \in is :
          \E n \in NamesSeen(obs[i], loc) : \E samples :
            f = Field(loc, n, {}, samples, links, "unknown")
    BY <1>6, NamedFieldIs
  <2>2. PICK n \in NamesSeen(obs[i], loc) : f.location = loc /\ f.name = n
    BY <2>1, FieldIs
  <2>3. /\ \E m \in NamesOf(obs[i], loc) : Fold[n] = Fold[m]
        /\ loc = "query" => n \in NamesOf(obs[i], loc)
    BY <1>4, <2>2, NameSeenIs
  <2>4. CASE loc = "query"
    <3>1. f.name \in obs[i].request.names["query"] \cup obs[i].request.flags
      BY <1>4, <2>2, <2>3, <2>4, NamesTyped
    <3> QED BY <1>4, <2>2, <2>4, <3>1 DEF WasSeen
  <2>5. CASE loc = "request_header"
    <3>1. \E m \in obs[i].request.names["request_header"] : Fold[m] = Fold[f.name]
      BY <1>4, <2>2, <2>3, <2>5, NamesTyped
    <3> QED BY <1>4, <2>2, <2>5, <3>1 DEF WasSeen
  <2>6. CASE loc = "response_header"
    <3>1. obs[i].answer # Unset /\ \E m \in obs[i].answer.headers : Fold[m] = Fold[f.name]
      BY <1>4, <2>2, <2>3, <2>6, NamesTyped
    <3>2. obs[i] \in SeenAnswered(e)
      BY <1>4, <3>1 DEF SeenAnswered
    <3> QED BY <2>2, <2>6, <3>1, <3>2 DEF WasSeen
  <2> QED BY <2>4, <2>5, <2>6 DEF Locations
<1>7. ASSUME NEW f \in CookieFields(obs, is, handed.cookies, links)
      PROVE  WasSeen(e, f)
  <2>1. PICK c \in handed.cookies, i \in is :
          /\ Carries(obs[i], c)
          /\ f = Field("request_cookie", c.name, {c}, Cardinality(Carrying(c, obs, is)), links,
                       "unknown")
    BY <1>7 DEF CookieFields
  <2>2. f.location = "request_cookie" /\ f.name = c.name
    BY <2>1, FieldIs
  <2>3. c \in Cookies
    BY <2>1 DEF LInv, HandedTyped
  <2>4. obs[i] \in Seen(e) /\ Template(obs[i]) = e.template
    BY <1>4 DEF Seen
  <2>5. /\ obs[i].request.cookie /\ (c.secure => obs[i].request.scheme = "https")
        /\ \A k \in DOMAIN c.path : k \in DOMAIN Template(obs[i]) /\ Template(obs[i])[k] = c.path[k]
    BY <1>4, <2>1, <2>3, CarriedPrefix
  <2> QED BY <2>2, <2>4, <2>5 DEF WasSeen
<1>8. ASSUME NEW f \in PathFields(obs, is, route.template, links)
      PROVE  WasSeen(e, f)
  <2>1. PICK k \in Parameters(route.template) : f.location = "path"
    BY <1>8, PathFieldIs, FieldIs
  <2> QED BY <1>3, <2>1 DEF Parameters, WasSeen
<1>9. Seen(e) # {}
  BY <1>2, <1>4
<1>10. \A f \in e.fields : WasSeen(e, f)
  BY <1>3, <1>6, <1>7, <1>8
<1> QED BY <1>5, <1>9, <1>10


-----------------------------------------------------------------------------
(* The dry run of what was learned *)

\* A template matches every path it was made of.
LEMMA TemplateMatches ==
  ASSUME Site, NEW o \in Observations, Describable(o.request.path)
  PROVE  RouteMatches(Template(o), o.request.path)
<1> DEFINE path == o.request.path
           template == Template(o)
<1>1. /\ path \in Seq(DOMAIN Kind) /\ DOMAIN path = 1..Len(path)
      /\ DOMAIN template = 1..Len(path)
      /\ \A i \in 1..Len(path) :
           \/ template[i] = path[i]
           \/ template[i] = Kind[path[i]] /\ Kind[path[i]] \in {"int", "uuid", "token"}
  <2>1. Len(path) <= MaxSegments
    BY DEF Describable
  <2> QED BY <2>1, TemplateTyped
<1>2. Kind[""] = "literal"
  BY DEF Site
<1> HIDE DEF path, template
<1>3. ASSUME NEW i \in 1..Len(path)
      PROVE  \/ template[i] = path[i]
             \/ template[i] = "token" /\ path[i] # ""
             \/ template[i] \in {"int", "uuid"} /\ Kind[path[i]] = template[i]
  BY <1>1, <1>2
<1>4. RouteMatches(template, path)
  BY <1>1, <1>3 DEF RouteMatches, Segment
<1> QED BY <1>4 DEF path, template

\* The login states of the requests of an endpoint that is not public to one of them,
\* and known, are two.
LEMMA SeenBothWays ==
  ASSUME NEW labels, NEW l \in labels, l \in Labels,
         Differ(Authentication(labels), Context(l))
  PROVE  Authentication(labels) = "optional"
<1>1. CASE labels = {"anonymous"}
  BY <1>1 DEF Authentication, Context, Differ
<1>2. CASE labels = {"role-specific"}
  BY <1>2 DEF Authentication, Context, Differ
<1> QED BY <1>1, <1>2 DEF Authentication, Differ

\* A field that nobody restricted finds nothing wrong with a transaction that says
\* nothing of types.
LEMMA Unrestricted ==
  ASSUME NEW f, NEW t, ~ f.required, f.max = Unset, t.type = "unknown"
  PROVE  FieldFindings(f, t) = {}
BY DEF FieldFindings, When, Differ

\* The transaction of an observed request, as the dry run sees it.
OwnHeaders(o) == IF o.via = "guided_browser" THEN o.request.names["request_header"] ELSE {}

LEMMA OwnTransactionIs ==
  ASSUME Site, NEW o \in Observations
  PROVE  LET t == OwnTransaction(o)
         IN /\ t.method = o.request.method /\ t.path = o.request.path
            /\ t.authentication = Context(o.label) /\ t.type = "unknown"
            /\ t.keys = {<<"query", Fold[n]>> : n \in o.request.names["query"] \cup o.request.flags}
                 \cup {<<"request_header", Fold[n]>> : n \in OwnHeaders(o)}
                 \cup {<<"request_cookie", Fold[c.name]>> : c \in Carried(o)}
<1> DEFINE r == [o.request EXCEPT !.names["request_header"] =
                   IF o.via = "guided_browser" THEN @ ELSE {}]
<1>1. /\ o.request \in [method : STRING, path : Seq(DOMAIN Kind), scheme : {"http", "https"},
                        resource : STRING, cookie : BOOLEAN,
                        names : [{"query", "request_header"} -> SUBSET DOMAIN Fold],
                        flags : SUBSET DOMAIN Fold]
  BY DEF Observations, Site
<1>2. /\ r.method = o.request.method /\ r.path = o.request.path /\ r.flags = o.request.flags
      /\ r.names["query"] = o.request.names["query"]
      /\ r.names["request_header"] = OwnHeaders(o)
  BY <1>1 DEF OwnHeaders
<1> HIDE DEF r
<1>3. OwnTransaction(o) = Transaction(r, o.label, Carried(o), "unknown", 1)
  BY DEF OwnTransaction, r
<1> QED BY <1>2, <1>3 DEF Transaction

\* What the dry run may say of the own traffic.
Allowed(o) == (IF Unlearnable(o) THEN {"unexpected_field"} ELSE {})
                \cup {"authentication_context_mismatch"}

\* An endpoint and one of the requests it was learned from.
Agrees(e, o) ==
  /\ \A f \in e.fields : ~ f.required /\ f.max = Unset
  /\ ~ Unlearnable(o) => OwnTransaction(o).keys \subseteq {FieldKey(f) : f \in e.fields}
  /\ Differ(e.authentication, Context(o.label)) => e.authentication = "optional"

LEMMA AgreesFindings ==
  ASSUME Site, NEW o \in Observations, NEW e, Agrees(e, o), NEW model
  PROVE  LET found == FindingsAt(model, e, OwnTransaction(o)) IN
         /\ found \subseteq Allowed(o) \cup {"ambiguous_model_route"}
         /\ "authentication_context_mismatch" \in found => e.authentication = "optional"
         /\ Matching(model, OwnTransaction(o)) = {e} => "ambiguous_model_route" \notin found
<1> DEFINE t == OwnTransaction(o)
           keys == {FieldKey(f) : f \in e.fields}
           mine == When(Matching(model, t) # {e}, "ambiguous_model_route")
           login == When(Differ(e.authentication, t.authentication),
                         "authentication_context_mismatch")
           fields == UNION {FieldFindings(f, t) : f \in e.fields}
           more == When(~ (t.keys \subseteq keys), "unexpected_field")
<1>1. fields = {}
  BY OwnTransactionIs, Unrestricted DEF Agrees
<1>2. t.authentication = Context(o.label) /\ (~ Unlearnable(o) => t.keys \subseteq keys)
  BY OwnTransactionIs DEF Agrees
<1> HIDE DEF t
<1>3. FindingsAt(model, e, t) = mine \cup login \cup fields \cup more
  BY DEF FindingsAt
<1> HIDE DEF fields, keys
<1>4. mine \subseteq {"ambiguous_model_route"} /\ (Matching(model, t) = {e} => mine = {})
  BY DEF When
<1>5. /\ login \subseteq {"authentication_context_mismatch"}
      /\ login # {} => e.authentication = "optional"
  BY <1>2 DEF When, Agrees
<1>6. more \subseteq {"unexpected_field"} /\ (~ Unlearnable(o) => more = {})
  BY <1>2 DEF When
<1> HIDE DEF mine, login, more
<1>7. /\ FindingsAt(model, e, t) \subseteq Allowed(o) \cup {"ambiguous_model_route"}
      /\ "authentication_context_mismatch" \in FindingsAt(model, e, t) => e.authentication = "optional"
      /\ Matching(model, t) = {e} => "ambiguous_model_route" \notin FindingsAt(model, e, t)
  BY <1>1, <1>3, <1>4, <1>5, <1>6 DEF Allowed
<1> QED BY <1>7 DEF t

LEMMA FieldOrigin ==
  ASSUME NEW obs, NEW route, NEW cookies, NEW links,
         NEW f \in Endpoint(obs, route, cookies, links).fields
  PROVE  \E loc, name, of, samples, type :
           f = Field(loc, name, of, samples, links, type)
<1> DEFINE is == Of(obs, route)
<1>1. \/ f \in NamedFields(obs, is, links)
      \/ f \in CookieFields(obs, is, cookies, links)
      \/ f \in PathFields(obs, is, route.template, links)
  BY DEF Endpoint
<1> HIDE DEF is
<1>2. CASE f \in NamedFields(obs, is, links)
  BY <1>2, NamedFieldIs
<1>3. CASE f \in CookieFields(obs, is, cookies, links)
  BY <1>3 DEF CookieFields
<1>4. CASE f \in PathFields(obs, is, route.template, links)
  BY <1>4, PathFieldIs
<1> QED BY <1>1, <1>2, <1>3, <1>4

LEMMA FieldsUnrestricted ==
  ASSUME NEW obs, NEW route, NEW cookies, NEW links,
         NEW f \in Endpoint(obs, route, cookies, links).fields
  PROVE  ~ f.required /\ f.max = Unset
BY FieldOrigin, FieldIs

\* A name that was seen of a request of an endpoint is one of its fields.
LEMMA SeenIsField ==
  ASSUME NEW obs, NEW route, NEW cookies, NEW links,
         NEW i \in Of(obs, route),
         NEW loc \in Locations, NEW n \in NamesSeen(obs[i], loc)
  PROVE  <<loc, Fold[n]>> \in {FieldKey(f) : f \in Endpoint(obs, route, cookies, links).fields}
<1> DEFINE is == Of(obs, route)
           samples == Cardinality(Having(n, loc, obs, is))
           f == Field(loc, n, {}, samples, links, "unknown")
<1>1. n \in UNION {NamesSeen(obs[j], loc) : j \in is}
  OBVIOUS
<1> HIDE DEF is
<1>2. f \in NamedFields(obs, is, links)
  <2>1. f \in FieldsAt(loc, obs, is, links)
    BY <1>1 DEF FieldsAt
  <2> HIDE DEF f
  <2> QED BY <2>1 DEF NamedFields
<1>3. f.location = loc /\ f.name = n
  BY DEF Field
<1>4. f \in Endpoint(obs, route, cookies, links).fields
  BY <1>2 DEF Endpoint, is
<1> HIDE DEF f
<1> QED BY <1>3, <1>4 DEF FieldKey

\* So is a cookie that one of them may have carried.
LEMMA CarriedIsField ==
  ASSUME NEW obs, NEW route, NEW cookies, NEW links,
         NEW i \in Of(obs, route), NEW c \in cookies, c.name \in Safe, Carries(obs[i], c)
  PROVE  <<"request_cookie", Fold[c.name]>> \in
           {FieldKey(f) : f \in Endpoint(obs, route, cookies, links).fields}
<1> DEFINE is == Of(obs, route)
           f == Field("request_cookie", c.name, {c}, Cardinality(Carrying(c, obs, is)), links,
                      "unknown")
<1>1. c \in {x \in cookies : x.name \in Safe /\ \E j \in is : Carries(obs[j], x)}
  OBVIOUS
<1> HIDE DEF is
<1>2. f \in CookieFields(obs, is, cookies, links)
  BY <1>1 DEF CookieFields
<1>3. f.location = "request_cookie" /\ f.name = c.name
  BY DEF Field
<1>4. f \in Endpoint(obs, route, cookies, links).fields
  BY <1>2 DEF Endpoint, is
<1> HIDE DEF f
<1> QED BY <1>3, <1>4 DEF FieldKey

\* What the source says of a request that has nothing unlearnable is all of it.
LEMMA AllSeen ==
  ASSUME Site, NEW o \in Observations, ~ Unlearnable(o)
  PROVE  /\ \A n \in o.request.names["query"] \cup o.request.flags : n \in NamesSeen(o, "query")
         /\ \A n \in OwnHeaders(o) :
              Fold[n] \in NamesSeen(o, "request_header") /\ Fold[Fold[n]] = Fold[n]
         /\ \A c \in Carried(o) : c \in handed.cookies /\ c.name \in Safe /\ Carries(o, c)
<1>1. /\ o.request.names["query"] \cup o.request.flags \subseteq Safe
      /\ o.via = "guided_browser" => o.request.names["request_header"] \subseteq Safe
      /\ o.via = "guided_browser" => o.request.flags = {}
      /\ \A c \in Carried(o) : c.name \in Safe /\ IsPrefix(c.path, Template(o))
  BY DEF Unlearnable
<1>2. \A n \in o.request.names["query"] \cup o.request.flags : n \in NamesSeen(o, "query")
  <2> TAKE n \in o.request.names["query"] \cup o.request.flags
  <2>1. n \in NamesOf(o, "query") \cap Safe
    BY <1>1 DEF NamesOf
  <2>2. n = Kept("query", n)
    BY DEF Kept
  <2> QED BY <2>1, <2>2 DEF NamesSeen
<1>3. \A n \in OwnHeaders(o) :
        Fold[n] \in NamesSeen(o, "request_header") /\ Fold[Fold[n]] = Fold[n]
  <2> TAKE n \in OwnHeaders(o)
  <2>1. n \in NamesOf(o, "request_header") \cap Safe
    BY <1>1 DEF NamesOf, OwnHeaders
  <2>2. Kept("request_header", n) = Fold[n]
    BY DEF Kept
  <2>3. n \in DOMAIN Fold
    BY <2>1, NamesTyped DEF Locations
  <2> QED BY <2>1, <2>2, <2>3 DEF NamesSeen, Site
<1>4. \A c \in Carried(o) : c \in handed.cookies /\ c.name \in Safe /\ Carries(o, c)
  BY <1>1 DEF Carried, Carries
<1> QED BY <1>2, <1>3, <1>4

LEMMA OwnAgrees ==
  ASSUME Site, LInv, NEW route, NEW links, NEW i \in Of(handed.requests, route)
  PROVE  Agrees(Endpoint(handed.requests, route, handed.cookies, links), handed.requests[i])
<1> DEFINE obs == handed.requests
           e == Endpoint(obs, route, handed.cookies, links)
           o == obs[i]
           labels == {obs[j].label : j \in Of(obs, route)}
           keys == {FieldKey(f) : f \in e.fields}
<1>1. o \in Observations /\ o.label \in Labels
  BY OfEndpoint DEF Observations
<1>2. \A f \in e.fields : ~ f.required /\ f.max = Unset
  BY FieldsUnrestricted
<1>3. e.authentication = Authentication(labels) /\ o.label \in labels
  BY DEF Endpoint
<1>4. \A loc \in Locations : \A n \in NamesSeen(o, loc) : <<loc, Fold[n]>> \in keys
  BY SeenIsField
<1>5. \A c \in handed.cookies :
        c.name \in Safe /\ Carries(o, c) => <<"request_cookie", Fold[c.name]>> \in keys
  BY CarriedIsField
<1>6. "query" \in Locations /\ "request_header" \in Locations
  BY DEF Locations
<1> HIDE DEF o, labels, keys
<1>7. ~ Unlearnable(o) => OwnTransaction(o).keys \subseteq keys
  <2> HAVE ~ Unlearnable(o)
  <2>1. \A n \in o.request.names["query"] \cup o.request.flags : <<"query", Fold[n]>> \in keys
    BY <1>1, <1>4, <1>6, AllSeen
  <2>2. \A n \in OwnHeaders(o) : <<"request_header", Fold[n]>> \in keys
    <3> TAKE n \in OwnHeaders(o)
    <3>1. Fold[n] \in NamesSeen(o, "request_header") /\ Fold[Fold[n]] = Fold[n]
      BY <1>1, AllSeen
    <3>2. <<"request_header", Fold[Fold[n]]>> \in keys
      BY <1>4, <1>6, <3>1
    <3> QED BY <3>1, <3>2
  <2>3. \A c \in Carried(o) : <<"request_cookie", Fold[c.name]>> \in keys
    BY <1>1, <1>5, AllSeen
  <2> DEFINE t == OwnTransaction(o)
  <2>4. t.keys = {<<"query", Fold[n]>> : n \in o.request.names["query"] \cup o.request.flags}
                   \cup {<<"request_header", Fold[n]>> : n \in OwnHeaders(o)}
                   \cup {<<"request_cookie", Fold[c.name]>> : c \in Carried(o)}
    BY <1>1, OwnTransactionIs
  <2> HIDE DEF t
  <2>5. t.keys \subseteq keys
    BY <2>1, <2>2, <2>3, <2>4
  <2> QED BY <2>5 DEF t
<1>8. Differ(e.authentication, Context(o.label)) => e.authentication = "optional"
  BY <1>1, <1>3, SeenBothWays
<1>9. Agrees(e, o)
  BY <1>2, <1>7, <1>8 DEF Agrees, keys
<1> QED BY <1>9 DEF o

LEMMA OwnTrafficState ==
  ASSUME Site, LInv
  PROVE  OwnTrafficPasses
<1> SUFFICES ASSUME IsModel(candidate), ~ edited, NEW i \in Own
             PROVE  LET o == handed.requests[i]
                        t == OwnTransaction(o)
                        mine == {e \in candidate.endpoints :
                                   e.template = Template(o) /\ e.method = o.request.method}
                    IN /\ \A found \in Findings(candidate.endpoints, t) :
                            "ambiguous_model_route" \in found \/ found \subseteq Allowed(o)
                       /\ \A e \in mine :
                            /\ FindingsAt(candidate.endpoints, e, t) \subseteq
                                 Allowed(o) \cup {"ambiguous_model_route"}
                            /\ "authentication_context_mismatch" \in
                                   FindingsAt(candidate.endpoints, e, t) =>
                                 e.authentication = "optional"
  BY DEF OwnTrafficPasses, Allowed
<1> DEFINE obs == handed.requests
           o == obs[i]
           t == OwnTransaction(o)
           model == candidate.endpoints
           mine == {e \in model : e.template = Template(o) /\ e.method = o.request.method}
           key0 == KeyOf(o)
           E(route) == Endpoint(obs, route, handed.cookies, handed.names)
<1>1. model = {E(route) : route \in Keys(obs)}
  BY ModelEndpoint
<1>2. i \in Of(obs, key0) /\ key0 \in Keys(obs) /\ Describable(o.request.path)
  BY DEF Of, Own, Keys
<1>3. o \in Observations /\ key0.template = Template(o) /\ key0.method = o.request.method
  BY <1>2, OfEndpoint
<1>4. \A route : E(route).template = route.template /\ E(route).method = route.method
  BY DEF Endpoint
<1>5. Agrees(E(key0), o)
  BY <1>2, OwnAgrees
<1>6. \A route \in Keys(obs) :
        route.template = key0.template /\ route.method = key0.method => route = key0
  BY DEF Keys, KeyOf
<1> HIDE DEF E, o, key0, obs
<1>7. E(key0) \in mine /\ \A e \in mine : e = E(key0)
  BY <1>1, <1>2, <1>3, <1>4, <1>6
<1> HIDE DEF model
<1>8. \A e \in mine : e \in Matching(model, t)
  <2>1. RouteMatches(Template(o), o.request.path)
    BY <1>2, <1>3, TemplateMatches
  <2>2. t.method = o.request.method /\ t.path = o.request.path
    BY <1>3, OwnTransactionIs
  <2> HIDE DEF t
  <2> QED BY <2>1, <2>2 DEF Matching, Routes
<1> HIDE DEF mine
<1>9. \A e \in mine :
        /\ FindingsAt(model, e, t) \subseteq Allowed(o) \cup {"ambiguous_model_route"}
        /\ "authentication_context_mismatch" \in FindingsAt(model, e, t) =>
             e.authentication = "optional"
  BY <1>3, <1>5, <1>7, AgreesFindings
<1>10. ASSUME NEW found \in Findings(model, t)
       PROVE  "ambiguous_model_route" \in found \/ found \subseteq Allowed(o)
  <2>1. PICK e \in Matching(model, t) : found = FindingsAt(model, e, t)
    BY <1>7, <1>8 DEF Findings
  <2>2. CASE Matching(model, t) # {e}
    BY <2>1, <2>2 DEF FindingsAt, When
  <2>3. CASE Matching(model, t) = {e}
    <3>1. e = E(key0)
      BY <1>7, <1>8, <2>3
    <3>2. found \subseteq Allowed(o) \cup {"ambiguous_model_route"} /\ "ambiguous_model_route" \notin found
      BY <1>3, <1>5, <2>1, <2>3, <3>1, AgreesFindings
    <3> QED BY <3>2
  <2> QED BY <2>2, <2>3
<1> QED BY <1>9, <1>10 DEF model, o, mine, obs

-----------------------------------------------------------------------------
(* What an operator's restriction does *)

LEMMA NotMissed ==
  ASSUME NEW f, NEW t, ~ f.required, FieldKey(f) \notin t.keys
  PROVE  FieldFindings(f, t) = {}
BY DEF FieldFindings, When

LEMMA RestrictedField ==
  ASSUME NEW loc, NEW name, NEW of, NEW samples, NEW links, NEW type, NEW f, NEW t,
         f = Field(loc, name, of, samples, links, type),
         NEW g \in Restrictions(f)
  PROVE  /\ FieldKey(g) = FieldKey(f)
         /\ FieldFindings(f, t) \subseteq FieldFindings(g, t)
<1>1. /\ g.location = f.location /\ g.name = f.name
      /\ g.type = f.type \/ f.type = "unknown"
      /\ ~ f.required /\ f.max = Unset
  BY DEF Restrictions, Field
<1>2. FieldKey(g) = FieldKey(f)
  BY <1>1 DEF FieldKey
<1>3. FieldFindings(f, t) \subseteq When(Differ(f.type, t.type),
                                                         "field_type_mismatch")
  BY <1>1 DEF FieldFindings, When
<1>4. CASE FieldKey(f) \notin t.keys
  BY <1>1, <1>2, <1>4, NotMissed
<1>5. CASE FieldKey(f) \in t.keys
  BY <1>1, <1>2, <1>3, <1>5 DEF FieldFindings, When, Differ
<1> QED BY <1>2, <1>4, <1>5

IsField(f) == \E loc, name, of, samples, links, type :
                f = Field(loc, name, of, samples, links, type)
IsEndpoint(e) ==
  \E template, method, authentication, types, fields, score :
    e = [template |-> template, method |-> method, authentication |-> authentication,
         types |-> types, fields |-> fields, score |-> score]

\* Endpoints that nobody edited are told apart by template and method.
LEMMA UneditedModel ==
  ASSUME LInv, IsModel(candidate), ~ edited
  PROVE  /\ \A d, e \in candidate.endpoints :
              d.template = e.template /\ d.method = e.method => d = e
         /\ \A e \in candidate.endpoints : IsEndpoint(e) /\ \A f \in e.fields : IsField(f)
<1> DEFINE obs == handed.requests
           E(i) == Endpoint(obs, KeyOf(obs[i]), handed.cookies, handed.names)
<1>1. candidate.endpoints =
        {Endpoint(obs, route, handed.cookies, handed.names) : route \in Keys(obs)}
  BY ModelEndpoint
<1>2. \A e \in candidate.endpoints : \E i \in Counted(obs) : e = E(i)
  BY <1>1 DEF Keys
<1>3. \A i : E(i).template = KeyOf(obs[i]).template
             /\ E(i).method = KeyOf(obs[i]).method
  BY DEF Endpoint
<1>4. ASSUME NEW d \in candidate.endpoints, NEW e \in candidate.endpoints,
             d.template = e.template, d.method = e.method
      PROVE  d = e
  <2>1. PICK i, j : d = E(i) /\ e = E(j)
    BY <1>2
  <2>2. KeyOf(obs[i]) = KeyOf(obs[j])
    BY <1>3, <1>4, <2>1 DEF KeyOf
  <2> QED BY <2>1, <2>2
<1>5. \A i : IsEndpoint(E(i))
  BY DEF Endpoint, IsEndpoint
<1>6. \A i : \A f \in E(i).fields : IsField(f)
  BY FieldOrigin DEF IsField
<1> HIDE DEF E, obs
<1> QED BY <1>2, <1>4, <1>5, <1>6

LEMMA RestrictedEndpoint ==
  ASSUME NEW e, NEW f \in e.fields, NEW g \in Restrictions(f), NEW t,
         NEW model, NEW model2, NEW e2, IsField(f),
         e2.authentication = e.authentication, e2.fields = (e.fields \ {f}) \cup {g},
         Matching(model, t) # {e} => Matching(model2, t) # {e2}
  PROVE  FindingsAt(model, e, t) \subseteq FindingsAt(model2, e2, t)
<1>1. e2.authentication = e.authentication /\ e2.fields = (e.fields \ {f}) \cup {g}
  OBVIOUS
<1>2. /\ FieldKey(g) = FieldKey(f)
      /\ FieldFindings(f, t) \subseteq FieldFindings(g, t)
  BY RestrictedField DEF IsField
<1>3. {FieldKey(h) : h \in e2.fields} = {FieldKey(h) : h \in e.fields}
  BY <1>1, <1>2
<1>4. UNION {FieldFindings(h, t) : h \in e.fields} \subseteq
        UNION {FieldFindings(h, t) : h \in e2.fields}
  BY <1>1, <1>2
<1> QED BY <1>1, <1>3, <1>4 DEF FindingsAt, When

LEMMA OtherEndpoint ==
  ASSUME NEW e, NEW t, NEW model, NEW model2,
         Matching(model, t) # {e} => Matching(model2, t) # {e}
  PROVE  FindingsAt(model, e, t) \subseteq FindingsAt(model2, e, t)
BY DEF FindingsAt, When

LEMMA RestrictionAdds ==
  ASSUME LInv, IsModel(candidate), NEW e \in candidate.endpoints, NEW f \in e.fields,
         Tighten(e, f), NEW t, NEW found \in Findings(candidate'.endpoints, t)
  PROVE  \E before \in Findings(candidate.endpoints, t) : before \subseteq found
<1> DEFINE model == candidate.endpoints
           model2 == candidate'.endpoints
<1>1. PICK g \in Restrictions(f) :
        candidate' = [candidate EXCEPT !.endpoints =
                        (@ \ {e}) \cup {[e EXCEPT !.fields = (@ \ {f}) \cup {g}]}]
  BY DEF Tighten
<1>2. ~ edited
  BY DEF Tighten
<1>3. PICK e2 : e2 = [e EXCEPT !.fields = (@ \ {f}) \cup {g}]
  OBVIOUS
<1>4. model2 = (model \ {e}) \cup {e2}
  <2>1. "endpoints" \in DOMAIN candidate
    BY <1>2, ModelEndpoint DEF Learn
  <2> QED BY <1>1, <1>3, <2>1
<1>5. /\ \A d, x \in model : d.template = x.template /\ d.method = x.method => d = x
      /\ IsEndpoint(e) /\ IsField(f)
  BY <1>2, UneditedModel
<1>6. /\ e2.template = e.template /\ e2.method = e.method
      /\ e2.authentication = e.authentication /\ e2.fields = (e.fields \ {f}) \cup {g}
  BY <1>3, <1>5 DEF IsEndpoint
<1> HIDE DEF model2
<1>7. \A x \in model : x # e => x # e2
  BY <1>5, <1>6
\* The restricted endpoint is where the other one was.
<1>8. \A x : x \in Matching(model2, t) <=>
               \/ x \in Matching(model, t) /\ x # e
               \/ x = e2 /\ e \in Matching(model, t)
  BY <1>4, <1>6 DEF Matching, Routes
<1>9. Routes(model, t) = {} <=> Routes(model2, t) = {}
  BY <1>4, <1>6 DEF Routes
<1> HIDE DEF model
<1>10. CASE Matching(model2, t) = {}
  <2>1. Matching(model, t) = {}
    BY <1>8, <1>10
  <2>2. Findings(model, t) = Findings(model2, t)
    BY <1>9, <1>10, <2>1 DEF Findings
  <2> QED BY <2>2 DEF model, model2
<1>11. CASE Matching(model2, t) # {}
  <2>1. PICK d2 \in Matching(model2, t) : found = FindingsAt(model2, d2, t)
    BY <1>11 DEF Findings, model2
  <2>2. CASE d2 = e2
    <3>1. e \in Matching(model, t)
      BY <1>7, <1>8, <2>1, <2>2 DEF model, Matching, Routes
    <3>2. Matching(model, t) # {e} => Matching(model2, t) # {e2}
      BY <1>7, <1>8, <3>1 DEF Matching, Routes
    <3>3. FindingsAt(model, e, t) \subseteq FindingsAt(model2, e2, t)
      BY <1>5, <1>6, <3>2, RestrictedEndpoint
    <3>4. FindingsAt(model, e, t) \in Findings(model, t)
      BY <3>1 DEF Findings
    <3> QED BY <2>1, <2>2, <3>3, <3>4 DEF model
  <2>3. CASE d2 # e2
    <3>1. d2 \in Matching(model, t) /\ d2 # e
      BY <1>8, <2>1, <2>3
    <3>2. Matching(model, t) # {d2} => Matching(model2, t) # {d2}
      <4>1. ASSUME NEW x \in Matching(model, t), x # d2
            PROVE  \E y \in Matching(model2, t) : y # d2
        <5>1. CASE x = e
          BY <1>8, <2>3, <4>1, <5>1
        <5>2. CASE x # e
          BY <1>8, <4>1, <5>2
        <5> QED BY <5>1, <5>2
      <4> QED BY <3>1, <4>1
    <3>3. FindingsAt(model, d2, t) \subseteq FindingsAt(model2, d2, t)
      BY <3>2, OtherEndpoint
    <3>4. FindingsAt(model, d2, t) \in Findings(model, t)
      BY <3>1 DEF Findings
    <3> QED BY <2>1, <3>3, <3>4 DEF model
  <2> QED BY <2>2, <2>3
<1> QED BY <1>10, <1>11

\* Nothing but an operator's change makes a candidate an edited one.
LEMMA Editing ==
  ASSUME LInv, [LearningNext]_learning, ~ edited, edited'
  PROVE  /\ IsModel(candidate)
         /\ \E e \in candidate.endpoints : \E f \in e.fields : Tighten(e, f)
<1>1. ~ UNCHANGED learning
  BY DEF learning
<1>2. \A kind : ~ Happens(kind)
  BY DEF Happens
<1>3. /\ \A r \in Requests : ~ Observe(r) /\ ~ ListRow(r)
      /\ \A i \in DOMAIN observed : \A a \in Answers : ~ Respond(i, a)
  BY <1>2 DEF Observe, ListRow, Respond
<1>4. /\ \A c \in Cookies : ~ SetCookie(c)
      /\ \A c \in jar : ~ DropCookie(c)
      /\ \A k \in DOMAIN interactions : ~ Correlate(k)
  BY <1>2 DEF SetCookie, DropCookie, Correlate
<1>5. ~ SignIn /\ ~ Interact /\ ~ Build
  BY <1>2 DEF SignIn, Interact, Build
<1> QED BY <1>1, <1>3, <1>4, <1>5 DEF LearningNext

-----------------------------------------------------------------------------
(* Counting: what becomes of samples and scores *)

\* The requests S of one candidate are among the requests T of the next, d places
\* further to the front, and have at most been answered since.
Follow(obs, S, more, T, d) ==
  /\ S \subseteq Nat /\ IsFiniteSet(T)
  /\ \A i \in S : i - d \in T /\ obs[i] \in Observations /\ Later(obs[i], more[i - d])

LEMMA FollowersCounted ==
  ASSUME NEW d \in Nat, NEW S \in SUBSET Nat, NEW T, IsFiniteSet(T), \A i \in S : i - d \in T
  PROVE  /\ Cardinality(S) \in Nat /\ Cardinality(T) \in Nat
         /\ Cardinality(S) <= Cardinality(T)
<1> DEFINE shift == [i \in S |-> i - d]
<1>1. shift \in [S -> T]
  OBVIOUS
<1>2. \A i, j \in S : shift[i] = shift[j] => i = j
  <2> TAKE i, j \in S
  <2>1. i \in Nat /\ j \in Nat
    OBVIOUS
  <2> QED BY <2>1
<1>3. shift \in Injection(S, T)
  BY <1>1, <1>2 DEF Injection, IsInjective
<1>4. IsFiniteSet(S) /\ Cardinality(S) <= Cardinality(T)
  BY <1>3, FS_Injection
<1> QED BY <1>4, FS_CardinalityType

LEMMA MoreCounted ==
  ASSUME NEW S, NEW T, S \subseteq T, IsFiniteSet(T)
  PROVE  /\ Cardinality(S) \in Nat /\ Cardinality(T) \in Nat
         /\ Cardinality(S) <= Cardinality(T)
BY FS_Subset, FS_CardinalityType

LEMMA ConfidenceGrows ==
  ASSUME NEW m \in Nat, NEW n \in Nat, m <= n, NEW p \in BOOLEAN, NEW q \in BOOLEAN, p => q
  PROVE  /\ Confidence(m, p) \in Int /\ Confidence(n, q) \in Int
         /\ Confidence(m, p) <= Confidence(n, q)
<1> DEFINE part(k) == CASE k < 1 -> 20 [] k > 6 -> 45 [] OTHER -> 15 + 5 * k
           bonus(s) == IF s THEN 5 ELSE 0
<1>1. \A k \in Nat : part(k) = IF k < 1 THEN 20 ELSE IF k > 6 THEN 45 ELSE 15 + 5 * k
  OBVIOUS
<1>2. part(m) \in Int /\ part(n) \in Int /\ part(m) <= part(n)
  BY <1>1
<1>3. bonus(p) \in Int /\ bonus(q) \in Int /\ bonus(p) <= bonus(q)
  OBVIOUS
<1>4. Confidence(m, p) = part(m) + bonus(p)
      /\ Confidence(n, q) = part(n) + bonus(q)
  BY DEF Confidence
<1> HIDE DEF part, bonus
<1> QED BY <1>2, <1>3, <1>4

LEMMA Capped ==
  ASSUME NEW m \in Int, NEW n \in Int, m <= n
  PROVE  /\ Min({65, m}) \in Int /\ Min({65, n}) \in Int
         /\ Min({65, m}) <= Min({65, n})
<1>1. \A k \in Int : Min({65, k}) = IF 65 <= k THEN 65 ELSE k
  BY MinOfTwo
<1> QED BY <1>1

\* An answer takes nothing from what is known of a request.
LEMMA LaterIs ==
  ASSUME Site, NEW o \in Observations, NEW p, Later(o, p)
  PROVE  /\ KeyOf(p) = KeyOf(o) /\ p.via = o.via /\ (p # o => o.via = "guided_browser")
         /\ Usable(o) => Usable(p)
         /\ \A loc \in Locations : NamesSeen(o, loc) \subseteq NamesSeen(p, loc)
         /\ \A c : Carries(p, c) <=> Carries(o, c)
<1>1. CASE p = o
  BY <1>1
<1>2. CASE p # o
  <2>1. PICK a \in Answers : p = [o EXCEPT !.answer = a] /\ o.via = "guided_browser"
                             /\ o.answer = Unset
    BY <1>2 DEF Later
  <2>2. p.request = o.request /\ p.via = o.via /\ p.same = o.same
    BY <2>1 DEF Observations
  <2>3. Template(p) = Template(o)
    BY <2>2 DEF Template
  <2>4. \A loc \in Locations : NamesOf(o, loc) \subseteq NamesOf(p, loc)
    BY <2>1, <2>2 DEF NamesOf, Locations
  <2>5. \A loc \in Locations : NamesSeen(o, loc) \subseteq NamesSeen(p, loc)
    BY <2>4 DEF NamesSeen
  <2>6. \A c : Carries(p, c) <=> Carries(o, c)
    BY <2>2, <2>3 DEF Carries
  <2> QED BY <2>1, <2>2, <2>3, <2>5, <2>6 DEF KeyOf, Usable
<1> QED BY <1>1, <1>2

\* What counted still counts, for the same endpoint.
LEMMA CountedRemains ==
  ASSUME Site, NEW old \in Seq(Observations), NEW new \in Seq(Observations), NEW d \in Nat,
         Remains(old, new, d), NEW i \in Counted(old), i > d
  PROVE  i - d \in Counted(new) /\ KeyOf(new[i - d]) = KeyOf(old[i])
<1>1. /\ i \in DOMAIN old /\ Usable(old[i]) /\ ~ Repeated(old, i)
      /\ old[i] \in Observations /\ i \in Nat /\ DOMAIN old = 1..Len(old)
  BY DEF Counted
<1>2. i - d \in DOMAIN new /\ Later(old[i], new[i - d])
  BY <1>1 DEF Remains
<1>3. /\ Usable(new[i - d]) /\ KeyOf(new[i - d]) = KeyOf(old[i])
      /\ new[i - d].via = old[i].via
  BY <1>1, <1>2, LaterIs
<1>4. ASSUME Repeated(new, i - d)
      PROVE  FALSE
  <2>1. PICK j \in 1..(i - d - 1) :
          Usable(new[j]) /\ new[j].via = "runtime_inspection" /\ KeyOf(new[j]) = KeyOf(new[i - d])
    BY <1>4 DEF Repeated
  <2>2. /\ j + d \in 1..(i - 1) /\ j + d \in DOMAIN old /\ j + d > d /\ (j + d) - d = j
    BY <1>1, <2>1
  <2>3. Later(old[j + d], new[j]) /\ old[j + d] \in Observations
    BY <2>2 DEF Remains
  <2>4. new[j] = old[j + d]
    BY <2>1, <2>3, LaterIs
  <2>5. old[i].via = "runtime_inspection"
    BY <1>3, <1>4 DEF Repeated
  <2>6. Repeated(old, i)
    BY <1>3, <2>1, <2>2, <2>4, <2>5 DEF Repeated
  <2> QED BY <1>1, <2>6
<1> QED BY <1>2, <1>3, <1>4 DEF Counted

LEMMA OfFollows ==
  ASSUME Site, NEW old \in Seq(Observations), NEW new \in Seq(Observations), NEW d \in Nat,
         Remains(old, new, d), NEW route, \A i \in Of(old, route) : i > d
  PROVE  Follow(old, Of(old, route), new, Of(new, route), d)
<1>1. /\ Of(old, route) \subseteq Counted(old) /\ Counted(old) \subseteq DOMAIN old
      /\ DOMAIN old = 1..Len(old) /\ Len(old) \in Nat
      /\ Of(new, route) \subseteq DOMAIN new /\ DOMAIN new = 1..Len(new) /\ Len(new) \in Nat
  BY DEF Of, Counted
<1>2. IsFiniteSet(Of(new, route))
  <2>1. IsFiniteSet(1..Len(new))
    BY <1>1, FS_Interval
  <2>2. Of(new, route) \subseteq 1..Len(new)
    BY <1>1
  <2> QED BY <2>1, <2>2, FS_Subset
<1>3. ASSUME NEW i \in Of(old, route)
      PROVE  i - d \in Of(new, route) /\ old[i] \in Observations /\ Later(old[i], new[i - d])
  <2>1. i \in Counted(old) /\ i \in DOMAIN old /\ i > d /\ KeyOf(old[i]) = route
    BY <1>1, <1>3 DEF Of
  <2>2. i - d \in Counted(new) /\ KeyOf(new[i - d]) = KeyOf(old[i])
    BY <2>1, CountedRemains
  <2> QED BY <2>1, <2>2 DEF Of, Remains
<1> QED BY <1>1, <1>2, <1>3 DEF Follow

\* A field of some requests is a field of those that follow, with no less confidence as
\* long as the interactions that named something are known.
Grows(f, g, links, links2) ==
  FieldKey(g) = FieldKey(f) /\ (links \subseteq links2 => g.score >= f.score)

LEMMA FieldGrows ==
  ASSUME NEW loc, NEW name, NEW of, NEW type, NEW S, NEW T,
         Cardinality(S) \in Nat, Cardinality(T) \in Nat, Cardinality(S) <= Cardinality(T),
         NEW links, NEW links2
  PROVE  Grows(Field(loc, name, of, Cardinality(S), links, type),
               Field(loc, name, of, Cardinality(T), links2, type), links, links2)
<1> DEFINE f == Field(loc, name, of, Cardinality(S), links, type)
           g == Field(loc, name, of, Cardinality(T), links2, type)
<1>1. f.score = Confidence(Cardinality(S), Fold[name] \in links)
      /\ g.score = Confidence(Cardinality(T), Fold[name] \in links2)
  BY DEF Field
<1>2. f.location = g.location /\ f.name = g.name
  BY DEF Field
<1>3. ASSUME links \subseteq links2
      PROVE  g.score >= f.score
  <2>1. (Fold[name] \in links) \in BOOLEAN /\ (Fold[name] \in links2) \in BOOLEAN
        /\ (Fold[name] \in links => Fold[name] \in links2)
    BY <1>3
  <2>2. /\ Confidence(Cardinality(S), Fold[name] \in links) \in Int
        /\ Confidence(Cardinality(T), Fold[name] \in links2) \in Int
        /\ Confidence(Cardinality(S), Fold[name] \in links)
             <= Confidence(Cardinality(T), Fold[name] \in links2)
    BY <2>1, ConfidenceGrows
  <2>3. f.score \in Int /\ g.score \in Int /\ f.score <= g.score
    BY <1>1, <2>2
  <2> HIDE DEF f, g
  <2> QED BY <2>3
<1> HIDE DEF f, g
<1>4. Grows(f, g, links, links2)
  BY <1>2, <1>3 DEF FieldKey, Grows
<1> QED BY <1>4 DEF f, g

\* The requests with something, if what follows has it too.
LEMMA PartFollows ==
  ASSUME NEW obs, NEW more, NEW S, NEW T, NEW d \in Nat, Follow(obs, S, more, T, d),
         NEW A \in SUBSET S, NEW B \in SUBSET T, \A i \in A : i - d \in B
  PROVE  /\ Cardinality(A) \in Nat /\ Cardinality(B) \in Nat
         /\ Cardinality(A) <= Cardinality(B)
<1>1. A \in SUBSET Nat /\ IsFiniteSet(T)
  BY DEF Follow
<1>2. IsFiniteSet(B)
  BY <1>1, FS_Subset
<1> QED BY <1>1, <1>2, FollowersCounted

LEMMA NamedFieldsGrow ==
  ASSUME Site, NEW obs, NEW more, NEW S, NEW T, NEW d \in Nat, Follow(obs, S, more, T, d),
         NEW links, NEW links2, NEW f \in NamedFields(obs, S, links)
  PROVE  \E g \in NamedFields(more, T, links2) : Grows(f, g, links, links2)
<1>1. PICK loc \in Locations : f \in FieldsAt(loc, obs, S, links)
  BY DEF NamedFields
<1>2. PICK n \in UNION {NamesSeen(obs[i], loc) : i \in S} :
        f = Field(loc, n, {}, Cardinality(Having(n, loc, obs, S)), links, "unknown")
  BY <1>1 DEF FieldsAt
<1>3. \A i \in S : i - d \in T /\ NamesSeen(obs[i], loc) \subseteq NamesSeen(more[i - d], loc)
  BY LaterIs DEF Follow
<1>4. n \in UNION {NamesSeen(more[i], loc) : i \in T}
  BY <1>2, <1>3
<1>5. /\ Having(n, loc, obs, S) \in SUBSET S /\ Having(n, loc, more, T) \in SUBSET T
      /\ \A i \in Having(n, loc, obs, S) : i - d \in Having(n, loc, more, T)
  BY <1>3 DEF Having
<1> DEFINE g == Field(loc, n, {}, Cardinality(Having(n, loc, more, T)), links2, "unknown")
<1>6. g \in FieldsAt(loc, more, T, links2)
  BY <1>4 DEF FieldsAt
<1>7. Grows(f, g, links, links2)
  <2>1. /\ Cardinality(Having(n, loc, obs, S)) \in Nat
        /\ Cardinality(Having(n, loc, more, T)) \in Nat
        /\ Cardinality(Having(n, loc, obs, S)) <= Cardinality(Having(n, loc, more, T))
    BY <1>5, PartFollows
  <2> QED BY <1>2, <2>1, FieldGrows
<1> HIDE DEF g
<1> QED BY <1>6, <1>7 DEF NamedFields

LEMMA CookieFieldsGrow ==
  ASSUME Site, NEW obs, NEW more, NEW S, NEW T, NEW d \in Nat, Follow(obs, S, more, T, d),
         NEW cookies, NEW cookies2, NEW links, NEW links2,
         NEW f \in CookieFields(obs, S, cookies, links), f.of \subseteq cookies2
  PROVE  \E g \in CookieFields(more, T, cookies2, links2) : Grows(f, g, links, links2)
<1>1. PICK c \in {x \in cookies : x.name \in Safe /\ \E i \in S : Carries(obs[i], x)} :
        f = Field("request_cookie", c.name, {c}, Cardinality(Carrying(c, obs, S)), links,
                  "unknown")
  BY DEF CookieFields
<1>2. \A i \in S : i - d \in T /\ (Carries(obs[i], c) => Carries(more[i - d], c))
  BY LaterIs DEF Follow
<1>3. c \in cookies2
  <2>1. f.of = {c}
    BY <1>1, FieldIs
  <2> QED BY <2>1
<1>4. c \in {x \in cookies2 : x.name \in Safe /\ \E i \in T : Carries(more[i], x)}
  BY <1>1, <1>2, <1>3
<1>5. /\ Carrying(c, obs, S) \in SUBSET S /\ Carrying(c, more, T) \in SUBSET T
      /\ \A i \in Carrying(c, obs, S) : i - d \in Carrying(c, more, T)
  BY <1>2 DEF Carrying
<1> DEFINE g == Field("request_cookie", c.name, {c}, Cardinality(Carrying(c, more, T)), links2,
                      "unknown")
<1>6. g \in CookieFields(more, T, cookies2, links2)
  BY <1>4 DEF CookieFields
<1>7. Grows(f, g, links, links2)
  <2>1. /\ Cardinality(Carrying(c, obs, S)) \in Nat
        /\ Cardinality(Carrying(c, more, T)) \in Nat
        /\ Cardinality(Carrying(c, obs, S)) <= Cardinality(Carrying(c, more, T))
    BY <1>5, PartFollows
  <2> QED BY <1>1, <2>1, FieldGrows
<1> QED BY <1>6, <1>7

LEMMA PathFieldsGrow ==
  ASSUME NEW obs, NEW more, NEW S, NEW T, NEW d \in Nat, Follow(obs, S, more, T, d),
         NEW template, NEW links, NEW links2, NEW f \in PathFields(obs, S, template, links)
  PROVE  \E g \in PathFields(more, T, template, links2) : Grows(f, g, links, links2)
<1> DEFINE name(k) == ParameterNames[Number(template, k)]
           type(k) == IF template[k] = "int" THEN "integer" ELSE "string"
<1>1. PICK k \in Parameters(template) :
        f = Field("path", name(k), {}, Cardinality(S), links, type(k))
  BY DEF PathFields
<1> DEFINE g == Field("path", name(k), {}, Cardinality(T), links2, type(k))
<1>2. g \in PathFields(more, T, template, links2)
  BY DEF PathFields
<1> HIDE DEF name, type
<1>3. Grows(f, g, links, links2)
  <2>1. /\ Cardinality(S) \in Nat /\ Cardinality(T) \in Nat /\ Cardinality(S) <= Cardinality(T)
    BY PartFollows DEF Follow
  <2> QED BY <1>1, <2>1, FieldGrows
<1> HIDE DEF g
<1> QED BY <1>2, <1>3

\* An endpoint and what became of it.
NoLess(e, d, cookies2, links, links2) ==
  /\ d.template = e.template /\ d.method = e.method
  /\ d.score >= e.score
  /\ \A f \in e.fields :
       f.of \subseteq cookies2 => \E g \in d.fields : Grows(f, g, links, links2)

LEMMA EndpointGrows ==
  ASSUME Site, NEW obs, NEW more, NEW route, NEW n \in Nat,
         Follow(obs, Of(obs, route), more, Of(more, route), n),
         NEW cookies, NEW cookies2, NEW links, NEW links2
  PROVE  NoLess(Endpoint(obs, route, cookies, links), Endpoint(more, route, cookies2, links2),
                cookies2, links, links2)
<1> DEFINE S == Of(obs, route)
           T == Of(more, route)
           e == Endpoint(obs, route, cookies, links)
           d == Endpoint(more, route, cookies2, links2)
           vias == {obs[i].via : i \in S}
           vias2 == {more[i].via : i \in T}
           sum == Confidence(Cardinality(S), FALSE) + 5 * (Cardinality(vias) - 1)
           sum2 == Confidence(Cardinality(T), FALSE) + 5 * (Cardinality(vias2) - 1)
<1>1. Follow(obs, S, more, T, n) /\ IsFiniteSet(T)
  BY DEF Follow
<1>2. /\ e.template = route.template /\ d.template = route.template
      /\ e.method = route.method /\ d.method = route.method
      /\ e.score = Min({65, sum}) /\ d.score = Min({65, sum2})
      /\ e.fields = NamedFields(obs, S, links) \cup CookieFields(obs, S, cookies, links)
                      \cup PathFields(obs, S, route.template, links)
      /\ d.fields = NamedFields(more, T, links2) \cup CookieFields(more, T, cookies2, links2)
                      \cup PathFields(more, T, route.template, links2)
  BY DEF Endpoint
<1> HIDE DEF S, T, e, d
<1>3. vias \subseteq vias2 /\ IsFiniteSet(vias2)
  <2>1. \A i \in S : i - n \in T /\ more[i - n].via = obs[i].via
    BY <1>1, LaterIs DEF Follow
  <2>2. vias \subseteq vias2
    BY <2>1
  <2> DEFINE via == [i \in T |-> more[i].via]
  <2>3. via \in Surjection(T, vias2)
    BY DEF Surjection
  <2> QED BY <1>1, <2>2, <2>3, FS_Surjection
<1>4. /\ Cardinality(S) \in Nat /\ Cardinality(T) \in Nat
      /\ Cardinality(S) <= Cardinality(T)
  BY <1>1, PartFollows DEF Follow
<1>5. /\ Cardinality(vias) \in Nat /\ Cardinality(vias2) \in Nat
      /\ Cardinality(vias) <= Cardinality(vias2)
  BY <1>3, MoreCounted
<1>6. /\ Confidence(Cardinality(S), FALSE) \in Int
      /\ Confidence(Cardinality(T), FALSE) \in Int
      /\ Confidence(Cardinality(S), FALSE) <= Confidence(Cardinality(T), FALSE)
  BY <1>4, ConfidenceGrows
<1>7. sum \in Int /\ sum2 \in Int /\ sum <= sum2
  <2>1. \A a \in Int, b \in Int, k \in Nat, m \in Nat :
          a <= b /\ k <= m =>
            /\ a + 5 * (k - 1) \in Int /\ b + 5 * (m - 1) \in Int
            /\ a + 5 * (k - 1) <= b + 5 * (m - 1)
    OBVIOUS
  <2> HIDE DEF vias, vias2
  <2> QED BY <1>5, <1>6, <2>1
<1>8. d.score >= e.score
  <2> HIDE DEF sum, sum2
  <2>1. /\ Min({65, sum}) \in Int /\ Min({65, sum2}) \in Int
        /\ Min({65, sum}) <= Min({65, sum2})
    BY <1>7, Capped
  <2> QED BY <1>2, <2>1
<1> HIDE DEF vias, vias2, sum, sum2
<1>9. ASSUME NEW f \in e.fields, f.of \subseteq cookies2
      PROVE  \E g \in d.fields : Grows(f, g, links, links2)
  <2>1. CASE f \in NamedFields(obs, S, links)
    <3>1. \E g \in NamedFields(more, T, links2) : Grows(f, g, links, links2)
      BY <1>1, <2>1, NamedFieldsGrow
    <3> QED BY <1>2, <3>1
  <2>2. CASE f \in CookieFields(obs, S, cookies, links)
    <3>1. \E g \in CookieFields(more, T, cookies2, links2) : Grows(f, g, links, links2)
      BY <1>1, <1>9, <2>2, CookieFieldsGrow
    <3> QED BY <1>2, <3>1
  <2>3. CASE f \in PathFields(obs, S, route.template, links)
    <3>1. \E g \in PathFields(more, T, route.template, links2) : Grows(f, g, links, links2)
      BY <1>1, <2>3, PathFieldsGrow
    <3> QED BY <1>2, <3>1
  <2> QED BY <1>2, <1>9, <2>1, <2>2, <2>3
<1>10. NoLess(e, d, cookies2, links, links2)
  BY <1>2, <1>8, <1>9 DEF NoLess
<1> QED BY <1>10 DEF e, d

\* Only building changes a candidate that was not edited and is not edited then.
LEMMA Unbuilt ==
  ASSUME [LearningNext]_learning, ~ edited'
  PROVE  Build \/ UNCHANGED <<candidate, handed>>
<1>1. CASE UNCHANGED learning
  BY <1>1 DEF learning
<1>2. \A kind : Happens(kind) => UNCHANGED <<candidate, handed>>
  BY DEF Happens
<1>3. \/ \E r \in Requests : Observe(r) \/ ListRow(r)
      \/ \E i \in DOMAIN observed : \E a \in Answers : Respond(i, a)
      \/ \E c : SetCookie(c) \/ DropCookie(c)
      \/ SignIn \/ Interact \/ \E k \in DOMAIN interactions : Correlate(k)
      => UNCHANGED <<candidate, handed>>
  BY <1>2 DEF Observe, ListRow, Respond, SetCookie, DropCookie, SignIn, Interact, Correlate
<1>4. \A e : \A f : ~ Tighten(e, f)
  BY DEF Tighten
<1> QED BY <1>1, <1>3, <1>4 DEF LearningNext

\* An endpoint none of whose requests was cut.
Uncut(e) ==
  \A i \in Counted(handed.requests) :
    KeyOf(handed.requests[i]) = [template |-> e.template, method |-> e.method] => i > cut

LEMMA BuildNoLess ==
  ASSUME Site, LInv, LInv', [LearningNext]_learning, IsModel(candidate),
         IsModel(candidate'), ~ edited, ~ edited', NEW e \in candidate.endpoints, Uncut(e)
  PROVE  \E d \in candidate'.endpoints :
           NoLess(e, d, handed'.cookies, handed.names, handed'.names)
<1> DEFINE obs == handed.requests
           more == handed'.requests
<1>1. PICK i0 \in Counted(obs) : e = Endpoint(obs, KeyOf(obs[i0]), handed.cookies, handed.names)
  BY ModelEndpoint DEF Keys
<1> DEFINE route == KeyOf(obs[i0])
<1>2. i0 \in Of(obs, route) /\ i0 \in Counted(obs) /\ i0 \in DOMAIN obs /\ i0 \in Nat
  <2>1. obs \in Seq(Observations)
    BY DEF LInv, HandedTyped
  <2> QED BY <2>1 DEF Of, Counted
<1>3. /\ obs \in Seq(Observations) /\ more \in Seq(Observations)
      /\ candidate' = Learn(more, handed'.cookies, handed'.names)
  BY DEF LInv, HandedTyped, IsModel
<1>4. PICK d \in Nat : Remains(obs, more, d) /\ \A i \in Of(obs, route) : i > d
  <2>1. CASE Build
    <3>1. more = observed
      BY <2>1 DEF Build
    <3>2. Remains(obs, more, cut) /\ cut \in Nat
      BY <3>1 DEF LInv, HandedTyped
    <3>3. \A i \in Of(obs, route) : i > cut
      <4>1. e.template = route.template /\ e.method = route.method
        BY <1>1 DEF Endpoint
      <4>2. [template |-> e.template, method |-> e.method] = route
        BY <4>1 DEF KeyOf
      <4> QED BY <4>2 DEF Of, Uncut
    <3> QED BY <3>2, <3>3
  <2>2. CASE UNCHANGED <<candidate, handed>>
    <3>1. Remains(obs, more, 0)
      BY <1>3, <2>2, AllRemains
    <3>2. \A i \in Of(obs, route) : i > 0
      <4>1. DOMAIN obs = 1..Len(obs)
        BY <1>3
      <4> QED BY <4>1 DEF Of, Counted
    <3> QED BY <3>1, <3>2
  <2> QED BY <2>1, <2>2, Unbuilt
<1> DEFINE e2 == Endpoint(more, route, handed'.cookies, handed'.names)
<1>5. Follow(obs, Of(obs, route), more, Of(more, route), d)
  BY <1>3, <1>4, OfFollows
<1>6. NoLess(e, e2, handed'.cookies, handed.names, handed'.names)
  BY <1>1, <1>5, EndpointGrows
<1>7. e2 \in candidate'.endpoints
  <2>1. i0 - d \in Of(more, route)
    BY <1>2, <1>5 DEF Follow
  <2>2. route \in Keys(more)
    BY <2>1 DEF Of, Keys
  <2>3. candidate'.endpoints = {Endpoint(more, k, handed'.cookies, handed'.names) : k \in Keys(more)}
    BY <1>3 DEF Learn, IsModel
  <2> QED BY <2>2, <2>3
<1> QED BY <1>6, <1>7

-----------------------------------------------------------------------------
(* Why a candidate is refused *)

LEMMA FiniteImage ==
  ASSUME NEW F, IsFiniteSet(DOMAIN F)
  PROVE  IsFiniteSet({F[x] : x \in DOMAIN F})
<1> DEFINE T == {F[x] : x \in DOMAIN F}
           G == [x \in DOMAIN F |-> F[x]]
<1>1. G \in Surjection(DOMAIN F, T)
  BY DEF Surjection
<1> QED BY <1>1, FS_Surjection

\* The names of an endpoint's fields, and so its fields, are finitely many.
LEMMA NamesFinite ==
  ASSUME Site, NEW o \in Observations, NEW loc \in Locations
  PROVE  IsFiniteSet(NamesSeen(o, loc))
<1> DEFINE names == NamesOf(o, loc) \cap Safe
           F == [n \in names |-> Kept(loc, n)]
<1>1. IsFiniteSet(names)
  <2>1. IsFiniteSet(NamesOf(o, loc))
    BY NamesTyped
  <2> QED BY <2>1, FS_Subset
<1> HIDE DEF names
<1>2. IsFiniteSet({F[n] : n \in DOMAIN F})
  BY <1>1, FiniteImage
<1>3. {F[n] : n \in DOMAIN F} = NamesSeen(o, loc)
  BY DEF NamesSeen, names
<1> QED BY <1>2, <1>3

LEMMA NamedFieldsFinite ==
  ASSUME Site, NEW obs, NEW is, IsFiniteSet(is), \A i \in is : obs[i] \in Observations,
         NEW links
  PROVE  IsFiniteSet(NamedFields(obs, is, links))
<1>1. ASSUME NEW loc \in Locations
      PROVE  IsFiniteSet(FieldsAt(loc, obs, is, links))
  <2> DEFINE seen == [i \in is |-> NamesSeen(obs[i], loc)]
             names == UNION {NamesSeen(obs[i], loc) : i \in is}
             field == [n \in names |->
                         Field(loc, n, {},
                                       Cardinality(Having(n, loc, obs, is)),
                                       links, "unknown")]
  <2>1. IsFiniteSet({seen[i] : i \in DOMAIN seen})
    BY FiniteImage
  <2>2. \A T \in {seen[i] : i \in DOMAIN seen} : IsFiniteSet(T)
    BY <1>1, NamesFinite
  <2>3. names = UNION {seen[i] : i \in DOMAIN seen}
    OBVIOUS
  <2>4. IsFiniteSet(names)
    BY <2>1, <2>2, <2>3, FS_UNION
  <2> HIDE DEF names
  <2>5. IsFiniteSet({field[n] : n \in DOMAIN field})
    BY <2>4, FiniteImage
  <2>6. {field[n] : n \in DOMAIN field} = FieldsAt(loc, obs, is, links)
    BY DEF FieldsAt, names
  <2> QED BY <2>5, <2>6
<1> DEFINE at == [loc \in Locations |-> FieldsAt(loc, obs, is, links)]
<1>2. IsFiniteSet(Locations)
  <2>1. IsFiniteSet({}) /\ IsFiniteSet({} \cup {"query"})
        /\ IsFiniteSet(({} \cup {"query"}) \cup {"request_header"})
        /\ IsFiniteSet((({} \cup {"query"}) \cup {"request_header"}) \cup {"response_header"})
    BY FS_EmptySet, FS_AddElement
  <2>2. Locations = (({} \cup {"query"}) \cup {"request_header"}) \cup {"response_header"}
    BY DEF Locations
  <2> QED BY <2>1, <2>2
<1>3. IsFiniteSet({at[loc] : loc \in DOMAIN at})
  BY <1>2, FiniteImage
<1>4. \A T \in {at[loc] : loc \in DOMAIN at} : IsFiniteSet(T)
  BY <1>1
<1>5. NamedFields(obs, is, links) = UNION {at[loc] : loc \in DOMAIN at}
  BY DEF NamedFields
<1> QED BY <1>3, <1>4, <1>5, FS_UNION

LEMMA CookieFieldsFinite ==
  ASSUME NEW obs, NEW is, NEW cookies, IsFiniteSet(cookies), NEW links
  PROVE  IsFiniteSet(CookieFields(obs, is, cookies, links))
<1> DEFINE carried == {x \in cookies : x.name \in Safe /\ \E i \in is : Carries(obs[i], x)}
           field == [c \in carried |->
                       Field("request_cookie", c.name, {c},
                                     Cardinality(Carrying(c, obs, is)),
                                     links, "unknown")]
<1>1. IsFiniteSet(carried)
  BY FS_Subset
<1>2. IsFiniteSet({field[c] : c \in DOMAIN field})
  BY <1>1, FiniteImage
<1>3. {field[c] : c \in DOMAIN field} = CookieFields(obs, is, cookies, links)
  BY DEF CookieFields
<1> QED BY <1>2, <1>3

\* The template of a request has finitely many parameters, and no more than there are
\* names for them: discovery hides nothing.
LEMMA FewParameters ==
  ASSUME Site, NEW o \in Observations
  PROVE  LET parameters == Parameters(Template(o)) IN
         /\ IsFiniteSet(parameters) /\ parameters \subseteq Nat
         /\ Cardinality(parameters) <= Len(ParameterNames)
<1> DEFINE template == Template(o)
           parameters == Parameters(template)
<1>1. /\ DOMAIN template = 1..Len(template) /\ Len(template) \in Nat
      /\ \A i \in 1..Len(template) :
           o.via # "guided_browser" => template[i] \in DOMAIN Kind
  <2>1. o.request.path \in Seq(DOMAIN Kind) /\ DOMAIN o.request.path = 1..Len(o.request.path)
        /\ DOMAIN template = 1..Len(template) /\ Len(template) \in 1..Len(o.request.path)
        /\ \A i \in 1..Len(template) :
             o.via # "guided_browser" => template[i] = o.request.path[i]
    BY TemplateTyped
  <2> HIDE DEF template
  <2>2. \A i \in 1..Len(template) : o.request.path[i] \in DOMAIN Kind
    BY <2>1
  <2> QED BY <2>1, <2>2
<1>2. parameters \subseteq 1..Len(template)
  BY <1>1 DEF Parameters
<1>3. IsFiniteSet(parameters) /\ parameters \subseteq Nat
  <2> HIDE DEF parameters, template
  <2>1. IsFiniteSet(1..Len(template))
    BY <1>1, FS_Interval
  <2>2. IsFiniteSet(parameters)
    BY <1>2, <2>1, FS_Subset
  <2> QED BY <1>1, <1>2, <2>2
<1>4. CASE o.via = "guided_browser"
  <2>1. template = Hidden(o.request.path) /\ o.request \in Requests
    BY <1>4 DEF Template, Observations
  <2>2. Cardinality(Parameters(Hidden(o.request.path))) <= Len(ParameterNames)
    BY <2>1 DEF Site
  <2>3. Cardinality(parameters) <= Len(ParameterNames)
    BY <2>1, <2>2
  <2> QED BY <1>3, <2>3
<1>5. CASE o.via # "guided_browser"
  <2>1. parameters = {}
    <3>1. "int" \notin DOMAIN Kind /\ "uuid" \notin DOMAIN Kind
      BY DEF Site
    <3> QED BY <1>1, <1>5, <3>1 DEF Parameters
  <2>2. Cardinality(parameters) = 0
    BY <2>1, FS_EmptySet
  <2>3. Len(ParameterNames) = 3
    BY DEF ParameterNames
  <2> HIDE DEF parameters
  <2> QED BY <1>3, <2>2, <2>3 DEF parameters
<1> QED BY <1>3, <1>4, <1>5

\* Parameters are numbered apart.
LEMMA NumberedApart ==
  ASSUME NEW template, NEW j \in Parameters(template),
         NEW k \in Parameters(template),
         IsFiniteSet(Parameters(template)), Parameters(template) \subseteq Nat,
         Cardinality(Parameters(template)) <= Len(ParameterNames),
         j < k
  PROVE  /\ Number(template, j) \in 1..3 /\ Number(template, k) \in 1..3
         /\ Number(template, j) < Number(template, k)
<1> DEFINE P == Parameters(template)
           upto(x) == {y \in P : y <= x}
<1>1. Len(ParameterNames) = 3
  BY DEF ParameterNames
<1>2. j \in P /\ k \in P /\ IsFiniteSet(P) /\ P \subseteq Nat /\ Cardinality(P) <= 3
  BY <1>1
<1>3. \A x : Number(template, x) = Cardinality(upto(x))
  BY DEF Number
<1> HIDE DEF P
<1>4. upto(j) \subseteq upto(k) /\ upto(k) \subseteq P /\ k \in upto(k) /\ k \notin upto(j)
      /\ j \in upto(j)
  <2>1. j \in Nat /\ k \in Nat /\ j < k /\ \A y \in P : y \in Nat
    BY <1>2
  <2>2. j <= j /\ k <= k /\ ~ (k <= j) /\ \A y \in Nat : y <= j => y <= k
    BY <2>1
  <2> QED BY <1>2, <2>1, <2>2
<1> HIDE DEF upto
<1>5. /\ IsFiniteSet(upto(k)) /\ Cardinality(upto(k)) <= Cardinality(P)
  BY <1>2, <1>4, FS_Subset
<1>6. /\ IsFiniteSet(upto(j)) /\ Cardinality(upto(j)) <= Cardinality(upto(k))
      /\ Cardinality(upto(j)) # Cardinality(upto(k))
  BY <1>4, <1>5, FS_Subset
<1>7. Cardinality(P) \in Nat /\ Cardinality(upto(j)) \in Nat /\ Cardinality(upto(k)) \in Nat
  BY <1>2, <1>5, <1>6, FS_CardinalityType
<1>8. Cardinality(upto(j)) # 0
  BY <1>4, <1>6, FS_EmptySet
<1>9. Cardinality(upto(j)) \in 1..3 /\ Cardinality(upto(k)) \in 1..3
      /\ Cardinality(upto(j)) < Cardinality(upto(k))
  BY <1>2, <1>5, <1>6, <1>7, <1>8
<1> QED BY <1>3, <1>9

LEMMA ParametersApart ==
  ASSUME Site, NEW o \in Observations,
         NEW j \in Parameters(Template(o)),
         NEW k \in Parameters(Template(o)),
         LET name(x) == ParameterNames[Number(Template(o), x)]
         IN Fold[name(j)] = Fold[name(k)]
  PROVE  j = k
<1> DEFINE template == Template(o)
           m == Number(template, j)
           n == Number(template, k)
<1>1. /\ IsFiniteSet(Parameters(template)) /\ Parameters(template) \subseteq Nat
      /\ Cardinality(Parameters(template)) <= Len(ParameterNames)
  BY FewParameters
<1>2. Fold[ParameterNames[m]] = Fold[ParameterNames[n]]
  OBVIOUS
<1>3. SUFFICES ASSUME j # k PROVE FALSE
  OBVIOUS
<1>4. j \in Nat /\ k \in Nat /\ (j < k \/ k < j)
  BY <1>1, <1>3
<1>5. m \in 1..3 /\ n \in 1..3 /\ m # n
  <2>1. CASE j < k
    <3>1. m \in 1..3 /\ n \in 1..3 /\ m < n
      BY <1>1, <2>1, NumberedApart
    <3> QED BY <3>1
  <2>2. CASE k < j
    <3>1. m \in 1..3 /\ n \in 1..3 /\ n < m
      BY <1>1, <2>2, NumberedApart
    <3> QED BY <3>1
  <2> QED BY <1>4, <2>1, <2>2
<1> HIDE DEF m, n
<1>6. \A p \in 1..3 : Fold[ParameterNames[p]] = ParameterNames[p]
  <2>1. \A p \in DOMAIN ParameterNames : Fold[ParameterNames[p]] = ParameterNames[p]
    BY DEF Site
  <2>2. DOMAIN ParameterNames = 1..3
    BY DEF ParameterNames
  <2> QED BY <2>1, <2>2
<1>7. ParameterNames[m] = ParameterNames[n]
  BY <1>2, <1>5, <1>6
<1> QED BY <1>5, <1>7 DEF ParameterNames

LEMMA PathFieldsFinite ==
  ASSUME NEW obs, NEW is, NEW template, NEW links, IsFiniteSet(Parameters(template))
  PROVE  IsFiniteSet(PathFields(obs, is, template, links))
<1> DEFINE field == [k \in Parameters(template) |->
             Field("path", ParameterNames[Number(template, k)], {},
                           Cardinality(is), links,
                           IF template[k] = "int" THEN "integer" ELSE "string")]
<1>1. IsFiniteSet({field[k] : k \in DOMAIN field})
  BY FiniteImage
<1>2. {field[k] : k \in DOMAIN field} = PathFields(obs, is, template, links)
  BY DEF PathFields
<1> QED BY <1>1, <1>2

\* An endpoint with finitely many fields, no two of one key, has as many keys as fields.
LEMMA TwoOfOneKey ==
  ASSUME NEW fields, IsFiniteSet(fields),
         Cardinality({FieldKey(f) : f \in fields}) # Cardinality(fields)
  PROVE  \E f, g \in fields : f # g /\ FieldKey(f) = FieldKey(g)
<1> DEFINE keys == {FieldKey(f) : f \in fields}
           route == [f \in fields |-> FieldKey(f)]
<1>1. SUFFICES ASSUME \A f, g \in fields : FieldKey(f) = FieldKey(g) => f = g
               PROVE  Cardinality(keys) = Cardinality(fields)
  OBVIOUS
<1>2. route \in Surjection(fields, keys) /\ route \in Injection(fields, keys)
  BY <1>1 DEF Surjection, Injection, IsInjective
<1> QED BY <1>2, FS_Surjection

\* Two fields of one key are of two query keys, or of two cookies.
LEMMA TwoNamed ==
  ASSUME Site, NEW obs, NEW is, NEW links, \A i \in is : obs[i] \in Observations,
         NEW f \in NamedFields(obs, is, links),
         NEW g \in NamedFields(obs, is, links),
         f # g, FieldKey(f) = FieldKey(g)
  PROVE  \E i, j \in is : \E m \in NamesOf(obs[i], "query") :
           \E n \in NamesOf(obs[j], "query") : m # n /\ Fold[m] = Fold[n]
<1> DEFINE field(loc, n) ==
             Field(loc, n, {}, Cardinality(Having(n, loc, obs, is)),
                           links, "unknown")
<1>1. \A x \in NamedFields(obs, is, links) :
        \E loc \in Locations : \E i \in is : \E n \in NamesSeen(obs[i], loc) :
          x = field(loc, n)
  BY DEF NamedFields, FieldsAt
<1>2. \A loc, n : field(loc, n).location = loc /\ field(loc, n).name = n
  BY FieldIs
<1> HIDE DEF field
<1>3. PICK loc \in Locations, i \in is : \E n \in NamesSeen(obs[i], loc) :
        f = field(loc, n)
  BY <1>1
<1>4. PICK m \in NamesSeen(obs[i], loc) : f = field(loc, m)
  BY <1>3
<1>5. PICK loc2 \in Locations, j \in is : \E n \in NamesSeen(obs[j], loc2) :
        g = field(loc2, n)
  BY <1>1
<1>6. PICK n \in NamesSeen(obs[j], loc2) : g = field(loc2, n)
  BY <1>5
<1>7. loc = loc2 /\ Fold[m] = Fold[n]
  <2>1. FieldKey(f) = <<loc, Fold[m]>> /\ FieldKey(g) = <<loc2, Fold[n]>>
    BY <1>2, <1>4, <1>6 DEF FieldKey
  <2>2. <<loc, Fold[m]>> = <<loc2, Fold[n]>>
    BY <2>1
  <2> QED BY <2>2
<1>8. m # n
  BY <1>4, <1>6, <1>7
<1>9. loc = "query"
  <2>1. (loc # "query" => Fold[m] = m) /\ (loc # "query" => Fold[n] = n)
    BY <1>7, NameSeenIs
  <2> QED BY <1>7, <1>8, <2>1
<1>10. m \in NamesOf(obs[i], "query") /\ n \in NamesOf(obs[j], "query")
  BY <1>7, <1>9, NameSeenIs
<1> QED BY <1>7, <1>8, <1>10

LEMMA TwoCarried ==
  ASSUME NEW obs, NEW is, NEW cookies, NEW links,
         NEW f \in CookieFields(obs, is, cookies, links),
         NEW g \in CookieFields(obs, is, cookies, links),
         f # g, FieldKey(f) = FieldKey(g)
  PROVE  \E i, j \in is : \E c, d \in cookies :
           /\ c # d /\ Fold[c.name] = Fold[d.name]
           /\ Carries(obs[i], c) /\ Carries(obs[j], d)
<1> DEFINE field(c) ==
             Field("request_cookie", c.name, {c},
                           Cardinality(Carrying(c, obs, is)), links, "unknown")
<1>1. \A x \in CookieFields(obs, is, cookies, links) :
        \E c \in cookies : \E i \in is : Carries(obs[i], c) /\ x = field(c)
  BY DEF CookieFields
<1>2. \A c : field(c).name = c.name
  BY FieldIs
<1> HIDE DEF field
<1>3. PICK c \in cookies, i \in is : Carries(obs[i], c) /\ f = field(c)
  BY <1>1
<1>4. PICK d \in cookies, j \in is : Carries(obs[j], d) /\ g = field(d)
  BY <1>1
<1>5. c # d /\ Fold[c.name] = Fold[d.name]
  BY <1>2, <1>3, <1>4 DEF FieldKey
<1> QED BY <1>3, <1>4, <1>5

LEMMA NoTwoNumbered ==
  ASSUME Site, NEW o \in Observations, NEW obs, NEW is, NEW links,
         NEW f \in PathFields(obs, is, Template(o), links),
         NEW g \in PathFields(obs, is, Template(o), links),
         FieldKey(f) = FieldKey(g)
  PROVE  f = g
<1> DEFINE template == Template(o)
           name(k) == ParameterNames[Number(template, k)]
           field(k) == Field("path", name(k), {}, Cardinality(is), links,
                                     IF template[k] = "int" THEN "integer" ELSE "string")
<1>1. PICK j \in Parameters(template) : f = field(j)
  BY DEF PathFields
<1>2. PICK k \in Parameters(template) : g = field(k)
  BY DEF PathFields
<1>3. f.name = name(j) /\ g.name = name(k)
  BY <1>1, <1>2, FieldIs
<1>4. Fold[name(j)] = Fold[name(k)]
  <2> HIDE DEF name, field
  <2> QED BY <1>3 DEF FieldKey
<1>5. j = k
  BY <1>4, ParametersApart
<1> QED BY <1>1, <1>2, <1>5

\* A query key or a header, a cookie and a part of the path are told apart.
LEMMA FieldLocations ==
  ASSUME NEW obs, NEW is, NEW template, NEW cookies, NEW links
  PROVE  /\ \A f \in NamedFields(obs, is, links) : f.location \in Locations
         /\ \A f \in CookieFields(obs, is, cookies, links) :
              f.location = "request_cookie"
         /\ \A f \in PathFields(obs, is, template, links) : f.location = "path"
<1>1. \A f \in NamedFields(obs, is, links) : f.location \in Locations
  <2> TAKE f \in NamedFields(obs, is, links)
  <2>1. PICK loc \in Locations : \E n, samples :
          f = Field(loc, n, {}, samples, links, "unknown")
    BY NamedFieldIs
  <2> QED BY <2>1, FieldIs
<1>2. \A f \in CookieFields(obs, is, cookies, links) : f.location = "request_cookie"
  <2> TAKE f \in CookieFields(obs, is, cookies, links)
  <2>1. \E c, samples : f = Field("request_cookie", c.name, {c}, samples, links, "unknown")
    BY DEF CookieFields
  <2> QED BY <2>1, FieldIs
<1>3. \A f \in PathFields(obs, is, template, links) : f.location = "path"
  BY PathFieldIs, FieldIs
<1> QED BY <1>1, <1>2, <1>3

\* A template is no template of an endpoint only when its path is none, and discovery
\* gives none such.
LEMMA DescribableTemplate ==
  ASSUME Site, NEW o \in Observations, Usable(o), ~ Describable(Template(o))
  PROVE  o.via = "guided_browser" /\ ~ Describable(o.request.path)
<1> DEFINE path == o.request.path
           template == Template(o)
<1>1. /\ path \in Seq(DOMAIN Kind) /\ Len(path) \in Nat \ {0}
      /\ Len(template) \in 1..Len(path)
      /\ o.via = "guided_browser" => Len(template) = Len(path)
      /\ o.via # "guided_browser" => Len(template) <= MaxSegments
      /\ 1 \in 1..Len(template)
      /\ \/ template[1] = path[1]
         \/ /\ o.via = "guided_browser" /\ template[1] = Kind[path[1]]
            /\ Kind[path[1]] \in {"int", "uuid", "token"}
  BY TemplateTyped
<1>2. o.via # "guided_browser" => OriginRelative(path)
  BY DEF Usable
<1>3. ~ Describable(template)
  OBVIOUS
<1> HIDE DEF path, template
<1>4. MaxSegments \in Nat
  BY DEF Site
<1>5. OriginRelative(path) => OriginRelative(template)
  <2>1. template[1] = "" => path[1] = ""
    BY <1>1
  <2>2. Len(template) > 1 => Len(path) > 1
    BY <1>1
  <2> QED BY <2>1, <2>2 DEF OriginRelative
<1>6. o.via = "guided_browser"
  BY <1>1, <1>2, <1>3, <1>5 DEF Describable
<1>7. ~ Describable(path)
  BY <1>1, <1>3, <1>5, <1>6 DEF Describable
<1> QED BY <1>6, <1>7 DEF path

LEMMA RefusedState ==
  ASSUME Site, LInv
  PROVE  RefusedForCause
<1> DEFINE obs == handed.requests
           links == handed.names
           cookies == handed.cookies
<1> SUFFICES ASSUME candidate.state = "refused"
             PROVE  \/ \E o \in Range(obs) : o.via = "guided_browser" /\ ~ Describable(o.request.path)
                    \/ \E i \in Counted(obs) :
                         \/ Cardinality(TypesSeen(obs, Of(obs, KeyOf(obs[i])))) > MaxTypes
                         \/ Cardinality(Endpoint(obs, KeyOf(obs[i]), cookies, links).fields) > MaxFields
                    \/ \E i, j \in Counted(obs) :
                         /\ KeyOf(obs[i]) = KeyOf(obs[j])
                         /\ \/ \E m \in NamesOf(obs[i], "query") : \E n \in NamesOf(obs[j], "query") :
                                 m # n /\ Fold[m] = Fold[n]
                            \/ \E c, d \in cookies : /\ c # d /\ Fold[c.name] = Fold[d.name]
                                                    /\ Carries(obs[i], c) /\ Carries(obs[j], d)
  BY DEF RefusedForCause
<1>1. candidate = Learn(obs, cookies, links)
  BY DEF LInv, IsModel
<1>2. PICK i0 \in Counted(obs) : ~ ValidEndpoint(Endpoint(obs, KeyOf(obs[i0]), cookies, links))
  BY <1>1, LearnedModelIs
<1> DEFINE route == KeyOf(obs[i0])
           is == Of(obs, route)
           e == Endpoint(obs, route, cookies, links)
           o == obs[i0]
<1>3. i0 \in is
  BY DEF Of
<1>4. /\ e.fields = NamedFields(obs, is, links) \cup CookieFields(obs, is, cookies, links)
                      \cup PathFields(obs, is, route.template, links)
      /\ e.types = TypesSeen(obs, is) /\ e.template = route.template
  BY DEF Endpoint
<1>5. o \in Observations /\ Usable(o) /\ o \in Range(obs) /\ route.template = Template(o)
  BY <1>3, OfEndpoint DEF Counted, KeyOf
<1>6. \A i \in is : i \in Counted(obs) /\ obs[i] \in Observations /\ KeyOf(obs[i]) = route
  BY OfEndpoint DEF Of
<1>7. IsFiniteSet(is) /\ IsFiniteSet(cookies)
  <2>1. obs \in Seq(Observations) /\ cookies \subseteq Cookies
    BY DEF LInv, HandedTyped
  <2>2. Len(obs) \in Nat /\ is \subseteq 1..Len(obs)
    BY <2>1 DEF Of, Counted
  <2>3. IsFiniteSet(1..Len(obs))
    BY <2>2, FS_Interval
  <2>4. IsFiniteSet(Cookies)
    BY DEF Site
  <2> QED BY <2>1, <2>2, <2>3, <2>4, FS_Subset
<1>8. ~ ValidEndpoint(e)
  BY <1>2
<1> HIDE DEF is, e, o, route, cookies, links
<1>9. IsFiniteSet(e.fields)
  <2>1. IsFiniteSet(NamedFields(obs, is, links))
    BY <1>6, <1>7, NamedFieldsFinite
  <2>2. IsFiniteSet(CookieFields(obs, is, cookies, links))
    BY <1>7, CookieFieldsFinite
  <2>3. IsFiniteSet(PathFields(obs, is, route.template, links))
    BY <1>5, FewParameters, PathFieldsFinite
  <2>4. IsFiniteSet(NamedFields(obs, is, links) \cup CookieFields(obs, is, cookies, links))
    BY <2>1, <2>2, FS_Union
  <2> QED BY <1>4, <2>3, <2>4, FS_Union
<1>10. IsFiniteSet(e.types)
  <2> DEFINE type == [j \in {x \in is : obs[x].answer # Unset} |-> obs[j].answer.type]
  <2>1. IsFiniteSet({x \in is : obs[x].answer # Unset})
    BY <1>7, FS_Subset
  <2>2. IsFiniteSet({type[j] : j \in DOMAIN type})
    BY <2>1, FiniteImage
  <2>3. e.types \subseteq {type[j] : j \in DOMAIN type}
    BY <1>4 DEF TypesSeen
  <2> QED BY <2>2, <2>3, FS_Subset
<1>11. CASE ~ Describable(e.template)
  BY <1>4, <1>5, <1>11, DescribableTemplate
<1>12. CASE ~ (Cardinality(e.types) <= MaxTypes)
  <2>1. Cardinality(e.types) > MaxTypes
    <3>1. Cardinality(e.types) \in Nat /\ MaxTypes \in Nat
      BY <1>10, FS_CardinalityType DEF Site
    <3> QED BY <1>12, <3>1
  <2>2. i0 \in Counted(obs) /\ Cardinality(TypesSeen(obs, Of(obs, KeyOf(obs[i0])))) > MaxTypes
    BY <1>4, <2>1 DEF is, route
  <2> QED BY <2>2
<1>13. CASE ~ (Cardinality(e.fields) <= MaxFields)
  <2>1. Cardinality(e.fields) > MaxFields
    <3>1. Cardinality(e.fields) \in Nat /\ MaxFields \in Nat
      BY <1>9, FS_CardinalityType DEF Site
    <3> QED BY <1>13, <3>1
  <2>2. i0 \in Counted(obs) /\ Cardinality(Endpoint(obs, KeyOf(obs[i0]), cookies, links).fields) > MaxFields
    BY <2>1 DEF e, route
  <2> QED BY <2>2
<1>14. CASE Cardinality({FieldKey(f) : f \in e.fields}) # Cardinality(e.fields)
  <2>1. PICK f \in e.fields, g \in e.fields : f # g /\ FieldKey(f) = FieldKey(g)
    BY <1>9, <1>14, TwoOfOneKey
  <2>2. f.location = g.location
    BY <2>1 DEF FieldKey
  <2>3. "path" \notin Locations /\ "request_cookie" \notin Locations
    BY DEF Locations
  <2>4. /\ \A x \in NamedFields(obs, is, links) : x.location \in Locations
        /\ \A x \in CookieFields(obs, is, cookies, links) : x.location = "request_cookie"
        /\ \A x \in PathFields(obs, is, route.template, links) : x.location = "path"
    BY FieldLocations
  <2>5. CASE f \in NamedFields(obs, is, links)
    <3>1. g \in NamedFields(obs, is, links)
      BY <1>4, <2>2, <2>3, <2>4, <2>5
    <3>2. PICK i \in is, j \in is : \E m \in NamesOf(obs[i], "query") :
            \E n \in NamesOf(obs[j], "query") : m # n /\ Fold[m] = Fold[n]
      BY <1>6, <2>1, <2>5, <3>1, TwoNamed
    <3>3. i \in Counted(obs) /\ j \in Counted(obs) /\ KeyOf(obs[i]) = KeyOf(obs[j])
      BY <1>6
    <3> QED BY <3>2, <3>3
  <2>6. CASE f \in CookieFields(obs, is, cookies, links)
    <3>1. g \in CookieFields(obs, is, cookies, links)
      BY <1>4, <2>2, <2>3, <2>4, <2>6
    <3>2. PICK i \in is, j \in is : \E c, d \in cookies :
            /\ c # d /\ Fold[c.name] = Fold[d.name]
            /\ Carries(obs[i], c) /\ Carries(obs[j], d)
      BY <2>1, <2>6, <3>1, TwoCarried
    <3>3. i \in Counted(obs) /\ j \in Counted(obs) /\ KeyOf(obs[i]) = KeyOf(obs[j])
      BY <1>6
    <3> QED BY <3>2, <3>3
  <2>7. CASE f \in PathFields(obs, is, route.template, links)
    <3>1. g \in PathFields(obs, is, route.template, links)
      BY <1>4, <2>2, <2>3, <2>4, <2>7
    <3> QED BY <1>5, <2>1, <2>7, <3>1, NoTwoNumbered
  <2> QED BY <1>4, <2>1, <2>5, <2>6, <2>7
<1> QED BY <1>8, <1>11, <1>12, <1>13, <1>14 DEF ValidEndpoint

-----------------------------------------------------------------------------
\* Nothing is in a model that was not seen, whatever a site is asked and answers or leaves
\* unanswered, and whatever of it is cut: every endpoint was requested, every field was a
\* name of one of its requests or of an answer to one, a part of its path or a cookie in
\* reach (build_guided_candidate, build_discovery_candidate).
THEOREM NothingUnseenHolds == LearningSpec => []NothingUnseen
<1>1. LInv => NothingUnseen
  BY NothingUnseenState, SiteAssumption
<1> QED BY <1>1, LInvariance, PTL

\* What the next candidate lacks of the last one was taken away, for any of the sizes at
\* which requests, interactions and cookies are cut: an endpoint whose requests are
\* all left stays, and so do its fields but for cookies that are gone, with no less
\* confidence as long as the interactions are left (_confidence, build_guided_candidate).
THEOREM MoreNeverLessHolds == LearningSpec => MoreNeverLess
<1>1. LInv /\ LInv' /\ [LearningNext]_learning =>
        [(IsModel(candidate) /\ IsModel(candidate') /\ ~ edited /\ ~ edited') =>
           \A e \in candidate.endpoints :
             (\A i \in Counted(handed.requests) :
                KeyOf(handed.requests[i]) = [template |-> e.template, method |-> e.method] => i > cut)
             => \E d \in candidate'.endpoints :
                  /\ d.template = e.template /\ d.method = e.method
                  /\ d.score >= e.score
                  /\ \A f \in e.fields :
                       f.of \subseteq handed'.cookies =>
                         \E g \in d.fields :
                           /\ FieldKey(g) = FieldKey(f)
                           /\ handed.names \subseteq handed'.names => g.score >= f.score]_learning
  BY BuildNoLess, SiteAssumption DEF NoLess, Grows, Uncut
<1> QED BY <1>1, LInvariance, PTL DEF LearningSpec, MoreNeverLess

\* Whatever an operator restricts in a model, what was found of a transaction is still
\* found (validate_transaction).
THEOREM RestrictionsOnlyAddHolds == LearningSpec => RestrictionsOnlyAdd
<1>1. LInv /\ [LearningNext]_learning =>
        [(~ edited /\ edited') =>
           \A t \in Probes :
             \A found \in Findings(candidate'.endpoints, t) :
               \E before \in Findings(candidate.endpoints, t) :
                 before \subseteq found]_learning
  BY Editing, RestrictionAdds
<1> QED BY <1>1, LInvariance, PTL DEF LearningSpec, RestrictionsOnlyAdd

\* A model passes the traffic it was learned from, of any site, but for templates that
\* match one path, endpoints seen with and without a login, and what the candidate cannot
\* learn: unsafe names, query keys without a value of a session, and cookies below a
\* segment that the template hides (validate_transaction, guided_candidate_source).
THEOREM OwnTrafficPassesHolds == LearningSpec => []OwnTrafficPasses
<1>1. LInv => OwnTrafficPasses
  BY OwnTrafficState, SiteAssumption
<1> QED BY <1>1, LInvariance, PTL

\* A candidate is refused for a path of a session that is no template, for more types or
\* fields than there is room for, for two query keys that differ in case, or for two
\* cookies of one name in reach, of any site, and for nothing else (EndpointModel).
THEOREM RefusedForCauseHolds == LearningSpec => []RefusedForCause
<1>1. LInv => RefusedForCause
  BY RefusedState, SiteAssumption
<1> QED BY <1>1, LInvariance, PTL
=============================================================================
