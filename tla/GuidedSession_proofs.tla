------------------------- MODULE GuidedSession_proofs -------------------------
(***************************************************************************)
(* The login of guided sessions, for any number of sessions, requests and   *)
(* faults: one POST at most, reports that stay true, labels that follow it. *)
(***************************************************************************)
EXTENDS GuidedSession, FiniteSetTheorems, TLAPS

States == {"anonymous", "unknown", "role-specific"}
Results == {"not-attempted", "attempt-started", "login-controls-unavailable",
            "login-attempt-failed", "login-post-not-observed", "login-response-unobserved",
            "login-rejected-or-error", "login-submitted-unconfirmed", "likely-authenticated"}
Answers == {None, "ok", "error"}
Auth == [attempted : BOOLEAN, pending : BOOLEAN, used : BOOLEAN, status : Answers,
         state : States, result : Results, start : {None} \cup Nat]
Seen == [after : BOOLEAN, label : States]

Typed ==
  /\ lock \in {None} \cup Holder
  /\ table \subseteq Sessions
  /\ stale \subseteq Sessions
  /\ shifted \subseteq Sessions
  /\ auth \in [Sessions -> Auth]
  /\ seq \in [Sessions -> Seq(Seen)]
  /\ login \in [Sessions -> [posts : {0, 1}, answer : Answers]]

LoginSteps == {"check", "submit", "wait", "judge"}
AwaitSteps == {"submit", "wait", "judge"}

\* Who holds the lock at a step of the login has been asked to log in; a stop has one step.
LockInv ==
  lock # None => /\ lock.at \in LoginSteps => lock.op = "authenticate"
                 /\ lock.op = "stop" <=> lock.at = "stop"

\* The permission is open only while the handler submits or waits, and is used up by
\* the POST; what is reported is what the browser did.
LoginInv(s) ==
  LET a == auth[s]
      l == login[s]
  IN /\ a.used <=> l.posts = 1
     /\ a.status = l.answer
     /\ l.answer # None => a.used
     /\ a.used \/ Awaiting(s) => a.attempted
     /\ a.result = "not-attempted" <=> ~ a.attempted
     /\ a.pending => /\ ~ a.used /\ a.attempted /\ a.result = "attempt-started"
                     /\ lock # None /\ lock.s = s /\ lock.at \in {"submit", "wait"}
     /\ a.result = "login-post-not-observed" => ~ a.used
     /\ a.result = "login-response-unobserved" => a.used
     /\ a.result = "login-rejected-or-error" => a.status = "error"
     /\ a.result \in {"login-submitted-unconfirmed", "likely-authenticated"} => a.status = "ok"

\* What was seen after the login begins at the place the login noted, unless the
\* sequence was cut while it was awaited; nothing is relabelled before the judgement.
LabelInv(s) ==
  LET a == auth[s]
      q == seq[s]
  IN /\ \A i \in DOMAIN q : ~ q[i].after => q[i].label = "anonymous"
     /\ ~ a.used => a.state = "anonymous" /\ \A i \in DOMAIN q : ~ q[i].after
     /\ a.used => a.start \in Nat /\ \A i \in DOMAIN q : i > a.start => q[i].after
     /\ Awaiting(s) => /\ a.state = "anonymous"
                       /\ \A i \in DOMAIN q : q[i].label = "anonymous"
                       /\ (a.used /\ s \notin shifted) =>
                            /\ a.start <= Len(q)
                            /\ \A i \in DOMAIN q : q[i].after => i > a.start
     /\ (~ Awaiting(s) /\ s \notin shifted) =>
          \A i \in DOMAIN q : q[i].after => q[i].label = a.state

IInv == Typed /\ LockInv /\ \A s \in Sessions : LoginInv(s) /\ LabelInv(s)

USE SessionAssumption DEF SessionAssumption

LEMMA InitIInv == Init => IInv
<1> SUFFICES ASSUME Init PROVE IInv
  OBVIOUS
<1>1. NoAuth \in Auth /\ NoLogin \in [posts : {0, 1}, answer : Answers]
  BY DEF NoAuth, NoLogin, Auth, Answers, States, Results
<1>2. Typed /\ LockInv
  BY <1>1 DEF Init, Typed, LockInv
<1>3. ASSUME NEW s \in Sessions PROVE LoginInv(s)
  BY DEF Init, LoginInv, NoAuth, NoLogin, Awaiting
<1>4. ASSUME NEW s \in Sessions PROVE LabelInv(s)
  BY DEF Init, LabelInv, NoAuth, Awaiting
<1> QED BY <1>2, <1>3, <1>4 DEF IInv

-----------------------------------------------------------------------------
(* How the parts of the invariant are kept. *)

\* Nobody awaits a login before or after a step.
Quiet == /\ lock # None => lock.at \notin AwaitSteps
         /\ lock' # None => lock'.at \notin AwaitSteps

\* A handler that logs nobody in leaves the sessions' logins as they are.
LEMMA QuietKeeps ==
  ASSUME IInv, Quiet, UNCHANGED pages, NEW s \in Sessions
  PROVE  LoginInv(s)' /\ LabelInv(s)'
<1>1. /\ auth' = auth /\ seq' = seq /\ login' = login /\ shifted' = shifted
  BY DEF pages
<1>2. ~ auth[s].pending /\ ~ Awaiting(s) /\ ~ Awaiting(s)'
  BY DEF Quiet, AwaitSteps, Awaiting, IInv, LoginInv
<1>3. LoginInv(s)'
  BY <1>1, <1>2 DEF IInv, LoginInv
<1>4. LabelInv(s)'
  BY <1>1, <1>2 DEF IInv, LabelInv
<1> QED BY <1>3, <1>4

\* A session that is closed is as if it were new.
LEMMA CloseKeeps ==
  ASSUME IInv, Quiet, NEW t \in Sessions, Close(t)
  PROVE  /\ auth' \in [Sessions -> Auth]
         /\ seq' \in [Sessions -> Seq(Seen)]
         /\ login' \in [Sessions -> [posts : {0, 1}, answer : Answers]]
         /\ shifted' \subseteq Sessions
         /\ \A s \in Sessions : LoginInv(s)' /\ LabelInv(s)'
<1>1. NoAuth \in Auth /\ NoLogin \in [posts : {0, 1}, answer : Answers]
  BY DEF NoAuth, NoLogin, Auth, Answers, States, Results
<1>2. /\ auth' \in [Sessions -> Auth]
      /\ seq' \in [Sessions -> Seq(Seen)]
      /\ login' \in [Sessions -> [posts : {0, 1}, answer : Answers]]
      /\ shifted' \subseteq Sessions
  BY <1>1 DEF Close, IInv, Typed
<1>3. /\ auth'[t] = NoAuth /\ seq'[t] = <<>> /\ login'[t] = NoLogin
  BY DEF Close, IInv, Typed
<1>4. ASSUME NEW s \in Sessions, s # t
      PROVE  /\ auth'[s] = auth[s] /\ seq'[s] = seq[s] /\ login'[s] = login[s]
             /\ s \in shifted' <=> s \in shifted
  BY <1>4 DEF Close, IInv, Typed
<1>5. ASSUME NEW s \in Sessions PROVE ~ auth[s].pending /\ ~ Awaiting(s) /\ ~ Awaiting(s)'
  BY DEF Quiet, AwaitSteps, Awaiting, IInv, LoginInv
<1>6. LoginInv(t)' /\ LabelInv(t)'
  BY <1>3, <1>5 DEF LoginInv, LabelInv, NoAuth, NoLogin
<1>7. ASSUME NEW s \in Sessions, s # t PROVE LoginInv(s)'
  BY <1>4, <1>5, <1>7 DEF IInv, LoginInv
<1>8. ASSUME NEW s \in Sessions, s # t PROVE LabelInv(s)'
  BY <1>4, <1>5, <1>8 DEF IInv, LabelInv
<1> QED BY <1>2, <1>6, <1>7, <1>8

\* A handler that goes to another step stays who it is.
LEMMA GoToType ==
  ASSUME IInv, NEW step \in Steps, lock # None, GoTo(step)
  PROVE  /\ lock' \in Holder /\ lock' # None
         /\ lock'.at = step /\ lock'.op = lock.op /\ lock'.s = lock.s
         /\ lock'.expired = lock.expired
<1>1. lock \in Holder /\ lock' = [lock EXCEPT !.at = step]
  BY DEF GoTo, IInv, Typed
<1>2. lock' \in Holder /\ lock'.at = step /\ lock'.op = lock.op /\ lock'.s = lock.s
      /\ lock'.expired = lock.expired
  BY <1>1 DEF Holder
<1> QED BY <1>2

\* The handlers that log nobody in.
QuietHandler == \/ Expire \/ Stop \/ NewContext \/ Register \/ Goto \/ Abandon
                \/ Lookup \/ Snapshot \/ Interact \/ Source

LEMMA AcquireKeeps ==
  ASSUME IInv, NEW op \in Operations, NEW s \in Sessions, Acquire(op, s)
  PROVE  IInv'
<1>1. /\ lock = None /\ lock' \in Holder
      /\ lock'.at \in {"expire", "stop"} /\ (op = "stop" <=> lock'.at = "stop") /\ lock'.op = op
  <2>1. (IF op = "stop" THEN {} ELSE stale \cap table) \in SUBSET Sessions
    BY DEF IInv, Typed
  <2> QED BY <2>1 DEF Acquire, Holder, Steps
<1>2. Quiet /\ UNCHANGED <<pages, table, stale>>
  BY <1>1 DEF Quiet, AwaitSteps, Acquire
<1>3. Typed' /\ LockInv'
  BY <1>1, <1>2 DEF IInv, Typed, LockInv, LoginSteps, pages
<1> QED BY <1>2, <1>3, QuietKeeps DEF IInv

LEMMA QuietHandlerKeeps == IInv /\ QuietHandler => IInv'
<1> SUFFICES ASSUME IInv, QuietHandler PROVE IInv'
  OBVIOUS
<1>1. lock # None /\ lock \in Holder /\ lock.at \notin AwaitSteps
  BY DEF QuietHandler, Expire, Stop, NewContext, Register, Goto, Abandon, Lookup, Snapshot,
         Interact, Source, Holds, HoldsAt, AwaitSteps, IInv, Typed
<1>2. lock' \in {None} \cup Holder /\ LockInv' /\ Quiet
  <2>1. ASSUME NEW step \in Steps \ (LoginSteps \cup {"stop"}), GoTo(step), lock.at # "stop"
        PROVE  lock' \in {None} \cup Holder /\ LockInv' /\ Quiet
    BY <1>1, <2>1, GoToType DEF LockInv, Quiet, IInv, LoginSteps, AwaitSteps
  <2>2. CASE Leave
    BY <1>1, <2>2 DEF Leave, LockInv, Quiet
  <2>3. CASE Expire
    <3>1. CASE \E x \in lock.expired : lock' = [lock EXCEPT !.expired = @ \ {x}]
      <4>1. lock' \in Holder /\ lock'.at = lock.at /\ lock'.op = lock.op
        BY <1>1, <3>1 DEF Holder
      <4> QED BY <1>1, <4>1 DEF LockInv, Quiet, IInv
    <3> QED BY <2>2, <2>3, <3>1 DEF Expire
  <2>4. CASE Lookup
    <3>1. lock.at = "expire" /\ lock.op # "start" /\ lock.op # "stop" /\ lock.op \in Operations
      BY <1>1, <2>4 DEF Lookup, HoldsAt, IInv, LockInv, Holder
    <3>2. FirstStep(lock.op) \in Steps \ (AwaitSteps \cup {"stop"})
      BY <3>1 DEF FirstStep, Operations, Steps, AwaitSteps
    <3>3. FirstStep(lock.op) \in LoginSteps => lock.op = "authenticate"
      BY <3>1 DEF FirstStep, Operations, LoginSteps
    <3>4. CASE GoTo(FirstStep(lock.op))
      BY <1>1, <3>1, <3>2, <3>3, <3>4, GoToType DEF LockInv, Quiet, IInv
    <3> QED BY <2>2, <2>4, <3>4 DEF Lookup
  <2>5. CASE Stop \/ Abandon \/ Source
    BY <2>2, <2>5 DEF Stop, Abandon, Source
  <2>6. CASE NewContext \/ Register \/ Goto \/ Snapshot \/ Interact
    <3>1. lock.at # "stop"
      BY <2>6 DEF NewContext, Register, Goto, Snapshot, Interact, Holds, HoldsAt
    <3>2. Leave \/ \E step \in {"setup", "goto", "snapshot", "abandon"} : GoTo(step)
      BY <2>6 DEF NewContext, Register, Goto, Snapshot, Interact
    <3> QED BY <2>1, <2>2, <3>1, <3>2 DEF Steps, LoginSteps
  <2> QED BY <2>3, <2>4, <2>5, <2>6 DEF QuietHandler
<1>3. table' \subseteq Sessions /\ stale' \subseteq Sessions
  BY <1>1 DEF QuietHandler, Expire, Stop, NewContext, Register, Goto, Abandon, Lookup, Snapshot,
              Interact, Source, IInv, Typed, Target, Touch, Holder
<1>4. UNCHANGED pages \/ \E t \in Sessions : Close(t)
  BY <1>1 DEF QuietHandler, Expire, Stop, NewContext, Register, Goto, Abandon, Lookup, Snapshot,
              Interact, Source, Target, Holder
<1>5. CASE UNCHANGED pages
  BY <1>2, <1>3, <1>5, QuietKeeps DEF IInv, Typed, pages
<1>6. ASSUME NEW t \in Sessions, Close(t) PROVE IInv'
  BY <1>2, <1>3, <1>6, CloseKeeps DEF IInv, Typed
<1> QED BY <1>4, <1>5, <1>6

-----------------------------------------------------------------------------
(* authenticate_guided_session *)

\* A step of the login changes its own session, and perhaps the labels.
LEMMA OthersKeep ==
  ASSUME IInv, lock \in Holder, lock.at \in LoginSteps,
         lock' = None \/ (lock' \in Holder /\ lock'.s = lock.s),
         NEW a, auth' = [auth EXCEPT ![lock.s] = a],
         NEW q, seq' = [seq EXCEPT ![lock.s] = q],
         UNCHANGED <<login, shifted>>,
         NEW s \in Sessions, s # lock.s
  PROVE  LoginInv(s)' /\ LabelInv(s)'
<1>1. auth'[s] = auth[s] /\ seq'[s] = seq[s] /\ login'[s] = login[s] /\ shifted' = shifted
  BY DEF IInv, Typed
<1>2. ~ Awaiting(s) /\ ~ Awaiting(s)'
  BY DEF Awaiting
<1>3. ~ auth[s].pending
  BY DEF IInv, LoginInv
<1>4. LoginInv(s)'
  BY <1>1, <1>2, <1>3 DEF IInv, LoginInv
<1>5. LabelInv(s)'
  BY <1>1, <1>2 DEF IInv, LabelInv
<1> QED BY <1>4, <1>5

LEMMA BeginKeeps == IInv /\ Begin => IInv'
<1> SUFFICES ASSUME IInv, Begin PROVE IInv'
  OBVIOUS
<1>1. /\ lock # None /\ lock \in Holder /\ lock.at = "check" /\ lock.op = "authenticate"
      /\ lock.s \in Sessions
  BY DEF Begin, HoldsAt, IInv, Typed, LockInv, LoginSteps, Holder
<1>2. CASE UNCHANGED <<auth, stale>> /\ Leave
  <2>1. Quiet /\ UNCHANGED <<pages, table, stale>> /\ lock' = None
    BY <1>1, <1>2 DEF Begin, OnlyAuth, pages, Quiet, Leave, AwaitSteps
  <2>2. Typed' /\ LockInv'
    BY <2>1 DEF IInv, Typed, LockInv, pages
  <2> QED BY <2>1, <2>2, QuietKeeps DEF IInv
<1>3. CASE /\ ~ Session.attempted /\ GoTo("submit") /\ Touch(Target)
           /\ Set(Target, [Session EXCEPT !.attempted = TRUE, !.pending = TRUE, !.used = FALSE,
                                          !.status = None, !.result = "attempt-started"])
  <2> PICK s \in Sessions : s = lock.s
    BY <1>1
  <2> DEFINE a == [auth[s] EXCEPT !.attempted = TRUE, !.pending = TRUE, !.used = FALSE,
                                  !.status = None, !.result = "attempt-started"]
  <2>1. auth[s] \in Auth
    BY <1>1 DEF IInv, Typed
  <2>2. /\ a \in Auth /\ a.attempted /\ a.pending /\ ~ a.used /\ a.status = None
        /\ a.result = "attempt-started" /\ a.state = auth[s].state
    BY <2>1 DEF Auth, Answers, Results
  <2>3. auth' = [auth EXCEPT ![s] = a]
    BY <1>3 DEF Set, Session, Target
  <2> HIDE DEF a
  <2>4. auth' \in [Sessions -> Auth] /\ auth'[s] = a
    BY <1>1, <2>2, <2>3 DEF IInv, Typed
  <2>5. /\ lock' \in Holder /\ lock' # None /\ lock'.at = "submit" /\ lock'.op = "authenticate"
        /\ lock'.s = s
    BY <1>1, <1>3, GoToType DEF Steps
  <2>6. UNCHANGED <<table, seq, shifted, login>> /\ stale' \subseteq Sessions
    BY <1>3 DEF Begin, OnlyAuth, Touch, IInv, Typed
  <2>7. Typed' /\ LockInv'
    BY <2>4, <2>5, <2>6 DEF IInv, Typed, LockInv
  <2>8. ~ auth[s].attempted /\ LoginInv(s) /\ LabelInv(s)
    BY <1>1, <1>3 DEF IInv, Session, Target
  <2>9. LoginInv(s)'
    BY <2>2, <2>4, <2>5, <2>6, <2>8 DEF LoginInv
  <2>10. LabelInv(s)'
    <3>1. ~ auth[s].used /\ seq'[s] = seq[s] /\ ~ auth'[s].used
      BY <2>2, <2>4, <2>6, <2>8 DEF LoginInv
    <3>2. /\ auth'[s].state = "anonymous"
          /\ \A i \in DOMAIN seq[s] : ~ seq[s][i].after /\ seq[s][i].label = "anonymous"
      BY <2>2, <2>4, <2>8, <3>1 DEF LabelInv
    <3> QED BY <3>1, <3>2 DEF LabelInv
  <2>11. seq' = [seq EXCEPT ![s] = seq[s]]
    BY <2>6 DEF IInv, Typed
  <2>12. ASSUME NEW x \in Sessions, x # s PROVE LoginInv(x)' /\ LabelInv(x)'
    BY <1>1, <2>3, <2>5, <2>6, <2>11, <2>12, OthersKeep DEF LoginSteps
  <2>13. ASSUME NEW x \in Sessions PROVE LoginInv(x)' /\ LabelInv(x)'
    <3>1. CASE x = s
      BY <2>9, <2>10, <3>1
    <3> QED BY <2>12, <3>1
  <2> QED BY <2>7, <2>13 DEF IInv
<1> QED BY <1>2, <1>3 DEF Begin

LEMMA SubmittedKeeps == IInv /\ Submitted => IInv'
<1> SUFFICES ASSUME IInv, Submitted PROVE IInv'
  OBVIOUS
<1>1. /\ lock # None /\ lock \in Holder /\ lock.at = "submit" /\ lock.op = "authenticate"
  BY DEF Submitted, HoldsAt, IInv, Typed, LockInv, LoginSteps
<1>2. /\ lock' \in Holder /\ lock' # None /\ lock'.at = "wait" /\ lock'.op = "authenticate"
      /\ lock'.s = lock.s
  BY <1>1, GoToType DEF Submitted, Steps
<1>3. UNCHANGED <<table, stale, auth, seq, login, shifted>>
  BY DEF Submitted, OnlyAuth
<1>4. Typed' /\ LockInv'
  BY <1>2, <1>3 DEF IInv, Typed, LockInv
<1>5. ASSUME NEW s \in Sessions PROVE LoginInv(s)' /\ LabelInv(s)'
  <2>1. LoginInv(s)'
    BY <1>1, <1>2, <1>3 DEF IInv, LoginInv, Awaiting
  <2>2. Awaiting(s)' = Awaiting(s)
    BY <1>1, <1>2 DEF Awaiting
  <2>3. LabelInv(s)'
    BY <1>3, <2>2 DEF IInv, LabelInv
  <2> QED BY <2>1, <2>3
<1> QED BY <1>4, <1>5 DEF IInv

\* The attempt has ended or is to be judged: the permission is withdrawn.
LEMMA WithdrawKeeps == IInv /\ (SubmitFails \/ Settle) => IInv'
<1> SUFFICES ASSUME IInv, SubmitFails \/ Settle PROVE IInv'
  OBVIOUS
<1>1. /\ lock # None /\ lock \in Holder /\ lock.at \in {"submit", "wait"}
      /\ lock.op = "authenticate"
  BY DEF SubmitFails, Settle, HoldsAt, IInv, Typed, LockInv, LoginSteps
<1>2. PICK s \in Sessions : s = lock.s
  BY <1>1 DEF Holder
<1>3. UNCHANGED <<table, stale, seq, login, shifted>>
  BY DEF SubmitFails, Settle, OnlyAuth
<1>4. \/ lock' = None
      \/ /\ lock' \in Holder /\ lock' # None /\ lock'.at = "judge" /\ lock'.s = s
         /\ lock'.op = "authenticate"
  BY <1>1, <1>2, GoToType DEF SubmitFails, Settle, Leave, Steps
<1>5. auth[s] \in Auth /\ LoginInv(s) /\ LabelInv(s) /\ Awaiting(s)
  BY <1>1, <1>2 DEF IInv, Typed, Awaiting
<1>6. auth[s].attempted
  BY <1>5 DEF LoginInv
<1>7. PICK a : /\ auth' = [auth EXCEPT ![s] = a] /\ a \in Auth /\ ~ a.pending
               /\ a.attempted = auth[s].attempted /\ a.used = auth[s].used
               /\ a.status = auth[s].status /\ a.state = auth[s].state
               /\ a.start = auth[s].start
               /\ a.result \in {auth[s].result, "login-controls-unavailable",
                                "login-attempt-failed"}
  <2>1. CASE SubmitFails
    <3>1. PICK r \in {"login-controls-unavailable", "login-attempt-failed"} :
            auth' = [auth EXCEPT ![s] = [auth[s] EXCEPT !.pending = FALSE, !.result = r]]
      BY <1>2, <2>1 DEF SubmitFails, Set, Session, Target
    <3> DEFINE a == [auth[s] EXCEPT !.pending = FALSE, !.result = r]
    <3>2. /\ a \in Auth /\ ~ a.pending
          /\ a.attempted = auth[s].attempted /\ a.used = auth[s].used
          /\ a.status = auth[s].status /\ a.state = auth[s].state
          /\ a.start = auth[s].start /\ a.result = r
      BY <1>5 DEF Auth, Results
    <3> HIDE DEF a
    <3>3. auth' = [auth EXCEPT ![s] = a]
      BY <3>1 DEF a
    <3> QED BY <3>2, <3>3
  <2>2. CASE Settle
    <3> DEFINE a == [auth[s] EXCEPT !.pending = FALSE]
    <3>1. auth' = [auth EXCEPT ![s] = a]
      BY <1>2, <2>2 DEF Settle, Set, Session, Target
    <3>2. /\ a \in Auth /\ ~ a.pending
          /\ a.attempted = auth[s].attempted /\ a.used = auth[s].used
          /\ a.status = auth[s].status /\ a.state = auth[s].state
          /\ a.start = auth[s].start /\ a.result = auth[s].result
      BY <1>5 DEF Auth
    <3> HIDE DEF a
    <3> QED BY <3>1, <3>2
  <2> QED BY <2>1, <2>2
<1>8. auth' \in [Sessions -> Auth] /\ auth'[s] = a
  BY <1>7 DEF IInv, Typed
<1>9. Typed' /\ LockInv'
  BY <1>3, <1>4, <1>8 DEF IInv, Typed, LockInv
<1>10. LoginInv(s)'
  BY <1>3, <1>5, <1>6, <1>7, <1>8 DEF LoginInv
<1>11. LabelInv(s)'
  <2>1. \A i \in DOMAIN seq[s] : seq[s][i].label = "anonymous"
    BY <1>5 DEF LabelInv
  <2> QED BY <1>3, <1>5, <1>7, <1>8, <2>1 DEF LabelInv
<1>12. ASSUME NEW x \in Sessions, x # s PROVE LoginInv(x)' /\ LabelInv(x)'
  <2>1. seq' = [seq EXCEPT ![s] = seq[s]]
    BY <1>3 DEF IInv, Typed
  <2> QED BY <1>1, <1>2, <1>3, <1>4, <1>7, <1>12, <2>1, OthersKeep DEF LoginSteps
<1> QED BY <1>9, <1>10, <1>11, <1>12 DEF IInv

LEMMA JudgeKeeps == IInv /\ Judge => IInv'
<1> SUFFICES ASSUME IInv, Judge PROVE IInv'
  OBVIOUS
<1>1. /\ lock # None /\ lock \in Holder /\ lock.at = "judge" /\ lock.op = "authenticate"
  BY DEF Judge, HoldsAt, IInv, Typed, LockInv, LoginSteps
<1>2. PICK s \in Sessions : s = lock.s
  BY <1>1 DEF Holder
<1>3. UNCHANGED <<table, login, shifted>> /\ stale' \subseteq Sessions
  BY DEF Judge, Touch, IInv, Typed
<1>4. /\ lock' \in Holder /\ lock' # None /\ lock'.at = "snapshot" /\ lock'.op = "authenticate"
      /\ lock'.s = s
  BY <1>1, <1>2, GoToType DEF Judge, Steps
<1>5. /\ auth[s] \in Auth /\ LoginInv(s) /\ LabelInv(s) /\ Awaiting(s) /\ seq[s] \in Seq(Seen)
      /\ ~ auth[s].pending
  BY <1>1, <1>2 DEF IInv, Typed, Awaiting, LoginInv
<1>6. PICK o \in Outcomes(auth[s]) :
        /\ auth' = [auth EXCEPT ![s] = [auth[s] EXCEPT !.result = o[1], !.state = o[2]]]
        /\ seq' = [seq EXCEPT ![s] = Relabel(s, o[2])]
  BY <1>2 DEF Judge, Set, Session, Target
<1>7. /\ o[1] \in Results /\ o[1] \notin {"not-attempted", "attempt-started"} /\ o[2] \in States
      /\ o[1] = "login-post-not-observed" => ~ auth[s].used
      /\ o[1] = "login-response-unobserved" => auth[s].used
      /\ o[1] = "login-rejected-or-error" => auth[s].status = "error"
      /\ o[1] \in {"login-submitted-unconfirmed", "likely-authenticated"} => auth[s].status = "ok"
      /\ ~ auth[s].used => o[2] = "anonymous"
  <2>1. auth[s].status \in Answers /\ auth[s].used \in BOOLEAN
    BY <1>5 DEF Auth
  <2>2. CASE ~ auth[s].used
    BY <1>6, <2>2 DEF Outcomes, Results, States
  <2>3. CASE auth[s].used /\ auth[s].status = None
    BY <1>6, <2>3 DEF Outcomes, Results, States
  <2>4. CASE auth[s].used /\ auth[s].status = "error"
    BY <1>6, <2>4 DEF Outcomes, Results, States
  <2>5. CASE auth[s].used /\ auth[s].status = "ok"
    BY <1>6, <2>5 DEF Outcomes, Results, States
  <2> QED BY <2>1, <2>2, <2>3, <2>4, <2>5 DEF Answers
<1> DEFINE a == [auth[s] EXCEPT !.result = o[1], !.state = o[2]]
           q == [i \in DOMAIN seq[s] |->
                   IF auth[s].start # None /\ i > auth[s].start
                     THEN [seq[s][i] EXCEPT !.label = o[2]] ELSE seq[s][i]]
<1>8. /\ a \in Auth /\ a.result = o[1] /\ a.state = o[2]
      /\ a.attempted = auth[s].attempted /\ a.used = auth[s].used
      /\ a.pending = auth[s].pending /\ a.status = auth[s].status /\ a.start = auth[s].start
  BY <1>5, <1>7 DEF Auth
<1>9. /\ q \in Seq(Seen) /\ DOMAIN q = DOMAIN seq[s]
      /\ \A i \in DOMAIN q : /\ q[i].after = seq[s][i].after
                             /\ q[i].label = IF auth[s].start # None /\ i > auth[s].start
                                               THEN o[2] ELSE seq[s][i].label
  <2>1. \A i \in DOMAIN seq[s] : seq[s][i] \in Seen
    BY <1>5
  <2>2. \A i \in DOMAIN seq[s] : [seq[s][i] EXCEPT !.label = o[2]] \in Seen
    BY <2>1, <1>7 DEF Seen
  <2>3. \A i \in DOMAIN seq[s] : q[i] \in Seen
    BY <2>1, <2>2
  <2>4. DOMAIN seq[s] = 1..Len(seq[s]) /\ Len(seq[s]) \in Nat
    BY <1>5
  <2>5. q \in Seq(Seen)
    <3>1. q \in [1..Len(seq[s]) -> Seen]
      BY <2>3, <2>4
    <3> HIDE DEF q
    <3>2. Len(q) = Len(seq[s]) /\ DOMAIN q = 1..Len(q) /\ \A i \in 1..Len(q) : q[i] \in Seen
      BY <2>4, <3>1
    <3> QED BY <2>4, <3>1, <3>2
  <2> QED BY <2>1, <2>5 DEF Seen
<1> HIDE DEF a, q
<1>10. auth' = [auth EXCEPT ![s] = a] /\ seq' = [seq EXCEPT ![s] = q]
  BY <1>6 DEF a, q, Relabel
<1>11. /\ auth' \in [Sessions -> Auth] /\ seq' \in [Sessions -> Seq(Seen)]
       /\ auth'[s] = a /\ seq'[s] = q
  BY <1>8, <1>9, <1>10 DEF IInv, Typed
<1>12. Typed' /\ LockInv'
  BY <1>3, <1>4, <1>11 DEF IInv, Typed, LockInv, LoginSteps
<1>13. ~ Awaiting(s)'
  BY <1>4 DEF Awaiting
<1>14. LoginInv(s)'
  BY <1>3, <1>5, <1>7, <1>8, <1>11, <1>13 DEF LoginInv
<1>15. LabelInv(s)'
  <2>1. CASE ~ auth[s].used
    <3>1. \A i \in DOMAIN q : ~ q[i].after
      BY <1>5, <1>9, <2>1 DEF LabelInv
    <3>2. \A i \in DOMAIN q : q[i].label = "anonymous"
      BY <1>5, <1>7, <1>9, <2>1 DEF LabelInv
    <3> QED BY <1>7, <1>8, <1>11, <2>1, <3>1, <3>2 DEF LabelInv
  <2>2. CASE auth[s].used
    <3>1. /\ auth[s].start \in Nat /\ auth[s].start # None
          /\ \A i \in DOMAIN seq[s] : i > auth[s].start => seq[s][i].after
          /\ \A i \in DOMAIN seq[s] : seq[s][i].label = "anonymous"
          /\ s \notin shifted => \A i \in DOMAIN seq[s] : seq[s][i].after => i > auth[s].start
      BY <1>5, <2>2 DEF LabelInv
    <3>2. /\ \A i \in DOMAIN q : ~ q[i].after => q[i].label = "anonymous"
          /\ \A i \in DOMAIN q : i > a.start => q[i].after
          /\ s \notin shifted => \A i \in DOMAIN q : q[i].after => q[i].label = a.state
      BY <1>8, <1>9, <3>1
    <3> QED BY <1>3, <1>8, <1>11, <1>13, <2>2, <3>1, <3>2 DEF LabelInv
  <2> QED BY <2>1, <2>2
<1>16. ASSUME NEW x \in Sessions, x # s PROVE LoginInv(x)' /\ LabelInv(x)'
  BY <1>1, <1>2, <1>3, <1>4, <1>10, <1>16, OthersKeep DEF LoginSteps
<1> QED BY <1>12, <1>14, <1>15, <1>16 DEF IInv

-----------------------------------------------------------------------------
(* The browser. *)

LEMMA GetKeeps == ASSUME IInv, NEW s \in Sessions, Get(s) PROVE IInv'
<1> DEFINE e == [after |-> auth[s].used, label |-> auth[s].state]
           all == Append(seq[s], e)
           cut == Len(all) > MaxEvents
           q == IF cut THEN Tail(all) ELSE all
<1>1. UNCHANGED <<table, stale, auth, login, lock>> /\ seq' = [seq EXCEPT ![s] = q]
  BY DEF Get
<1>2. shifted' = IF cut /\ auth[s].used /\ Awaiting(s) THEN shifted \cup {s} ELSE shifted
  BY DEF Get
<1>3. auth[s] \in Auth /\ seq[s] \in Seq(Seen) /\ LoginInv(s) /\ LabelInv(s)
  BY DEF IInv, Typed
<1>4. e \in Seen /\ e.after = auth[s].used /\ e.label = auth[s].state
  BY <1>3 DEF Auth, Seen
<1> HIDE DEF e
<1>5. /\ all \in Seq(Seen) /\ Len(all) = Len(seq[s]) + 1 /\ Len(seq[s]) \in Nat
      /\ \A i \in 1..Len(seq[s]) : all[i] = seq[s][i]
      /\ all[Len(seq[s]) + 1] = e
  BY <1>3, <1>4
<1> HIDE DEF all
<1>6. q \in Seq(Seen)
  BY <1>5
\* Whatever of the old sequence stays has moved to the front by one place at most.
<1>7. \A i \in DOMAIN q : \/ q[i] = e /\ (~ cut => i = Len(seq[s]) + 1)
                          \/ i \in DOMAIN seq[s] /\ q[i] = seq[s][i] /\ ~ cut
                          \/ i + 1 \in DOMAIN seq[s] /\ q[i] = seq[s][i + 1] /\ cut
  <2>1. CASE ~ cut
    <3>1. q = all /\ DOMAIN all = 1..(Len(seq[s]) + 1) /\ DOMAIN seq[s] = 1..Len(seq[s])
      BY <1>3, <1>5, <2>1
    <3> TAKE i \in DOMAIN q
    <3>2. i = Len(seq[s]) + 1 \/ i \in 1..Len(seq[s])
      BY <1>5, <3>1
    <3> QED BY <1>5, <2>1, <3>1, <3>2
  <2>2. CASE cut
    <3>1. q = Tail(all) /\ Len(q) = Len(seq[s]) /\ \A i \in 1..Len(q) : q[i] = all[i + 1]
      BY <1>5, <2>2
    <3>2. DOMAIN q = 1..Len(seq[s])
      BY <1>6, <3>1
    <3> TAKE i \in DOMAIN q
    <3>3. i \in 1..Len(seq[s]) /\ q[i] = all[i + 1]
      BY <3>1, <3>2
    <3>4. CASE i = Len(seq[s])
      BY <1>5, <2>2, <3>3, <3>4
    <3>5. CASE i < Len(seq[s])
      <4>1. i + 1 \in 1..Len(seq[s])
        BY <1>5, <3>3, <3>5
      <4>2. i + 1 \in DOMAIN seq[s] /\ q[i] = seq[s][i + 1]
        BY <1>3, <1>5, <3>3, <4>1
      <4> QED BY <2>2, <4>2
    <3> QED BY <1>5, <3>3, <3>4, <3>5
  <2> QED BY <2>1, <2>2
<1>8. ~ cut => Len(q) = Len(seq[s]) + 1
  BY <1>5
<1> HIDE DEF q
<1>9. seq' \in [Sessions -> Seq(Seen)] /\ seq'[s] = q
  BY <1>1, <1>6 DEF IInv, Typed
<1>10. Typed' /\ LockInv'
  BY <1>1, <1>2, <1>9 DEF IInv, Typed, LockInv
<1>11. \A x \in Sessions : LoginInv(x)' /\ (Awaiting(x)' <=> Awaiting(x))
  BY <1>1 DEF IInv, LoginInv, Awaiting
<1>12. ASSUME NEW x \in Sessions, x # s PROVE LabelInv(x)'
  <2>1. seq'[x] = seq[x] /\ auth'[x] = auth[x] /\ (x \in shifted' <=> x \in shifted)
    BY <1>1, <1>2, <1>12 DEF IInv, Typed
  <2> QED BY <1>11, <1>12, <2>1 DEF IInv, LabelInv
<1>13. LabelInv(s)'
  <2>1. \A i \in DOMAIN q : ~ q[i].after => q[i].label = "anonymous"
    BY <1>3, <1>4, <1>7 DEF LabelInv
  <2>2. ~ auth[s].used => auth[s].state = "anonymous" /\ \A i \in DOMAIN q : ~ q[i].after
    BY <1>3, <1>4, <1>7 DEF LabelInv
  <2>3. auth[s].used => auth[s].start \in Nat /\ \A i \in DOMAIN q : i > auth[s].start => q[i].after
    <3> HAVE auth[s].used
    <3>1. /\ auth[s].start \in Nat
          /\ \A i \in DOMAIN seq[s] : i > auth[s].start => seq[s][i].after
      BY <1>3 DEF LabelInv
    <3>2. ASSUME NEW i \in DOMAIN q, i > auth[s].start PROVE q[i].after
      <4>1. i \in Nat /\ auth[s].start \in Nat
        BY <1>6, <3>1
      <4>2. CASE q[i] = e
        BY <1>4, <4>2
      <4>3. CASE i \in DOMAIN seq[s] /\ q[i] = seq[s][i]
        BY <3>1, <3>2, <4>3
      <4>4. CASE i + 1 \in DOMAIN seq[s] /\ q[i] = seq[s][i + 1]
        <5>1. i + 1 > auth[s].start
          BY <3>2, <4>1
        <5> QED BY <3>1, <4>4, <5>1
      <4> QED BY <1>7, <4>2, <4>3, <4>4
    <3> QED BY <3>1, <3>2
  <2>4. Awaiting(s) => /\ auth[s].state = "anonymous"
                       /\ \A i \in DOMAIN q : q[i].label = "anonymous"
    BY <1>3, <1>4, <1>7 DEF LabelInv
  <2>5. (Awaiting(s) /\ auth[s].used /\ s \notin shifted') =>
          /\ auth[s].start <= Len(q)
          /\ \A i \in DOMAIN q : q[i].after => i > auth[s].start
    <3> HAVE Awaiting(s) /\ auth[s].used /\ s \notin shifted'
    <3>1. ~ cut /\ s \notin shifted
      BY <1>2
    <3>2. /\ auth[s].start \in Nat /\ auth[s].start <= Len(seq[s])
          /\ \A i \in DOMAIN seq[s] : seq[s][i].after => i > auth[s].start
      BY <1>3, <3>1 DEF LabelInv
    <3>3. auth[s].start <= Len(q)
      BY <1>5, <1>8, <3>1, <3>2
    <3>4. ASSUME NEW i \in DOMAIN q, q[i].after PROVE i > auth[s].start
      <4>1. CASE i = Len(seq[s]) + 1
        BY <1>5, <3>2, <4>1
      <4>2. CASE i \in DOMAIN seq[s] /\ q[i] = seq[s][i]
        BY <3>2, <3>4, <4>2
      <4> QED BY <1>7, <3>1, <4>1, <4>2
    <3> QED BY <3>3, <3>4
  <2>6. (~ Awaiting(s) /\ s \notin shifted') =>
          \A i \in DOMAIN q : q[i].after => q[i].label = auth[s].state
    BY <1>2, <1>3, <1>4, <1>7 DEF LabelInv
  <2> QED BY <1>1, <1>9, <1>11, <2>1, <2>2, <2>3, <2>4, <2>5, <2>6 DEF LabelInv
<1> QED BY <1>10, <1>11, <1>12, <1>13 DEF IInv

\* What the POST makes of a session's login.
LEMMA UsedType ==
  ASSUME NEW r \in Auth, NEW n \in Nat
  PROVE  LET a == [r EXCEPT !.pending = FALSE, !.used = TRUE, !.start = n] IN
           /\ a \in Auth /\ ~ a.pending /\ a.used /\ a.start = n
           /\ a.attempted = r.attempted /\ a.status = r.status
           /\ a.state = r.state /\ a.result = r.result
<1> DEFINE p == [r EXCEPT !.pending = FALSE]
           u == [p EXCEPT !.used = TRUE]
           a == [u EXCEPT !.start = n]
<1>1. /\ p \in Auth /\ ~ p.pending /\ p.attempted = r.attempted /\ p.status = r.status
      /\ p.state = r.state /\ p.result = r.result
  BY DEF Auth
<1> HIDE DEF p
<1>2. /\ u \in Auth /\ ~ u.pending /\ u.used /\ u.attempted = r.attempted
      /\ u.status = r.status /\ u.state = r.state /\ u.result = r.result
  BY <1>1 DEF Auth
<1> HIDE DEF u
<1>3. /\ a \in Auth /\ ~ a.pending /\ a.used /\ a.start = n /\ a.attempted = r.attempted
      /\ a.status = r.status /\ a.state = r.state /\ a.result = r.result
  BY <1>2 DEF Auth
<1>4. [r EXCEPT !.pending = FALSE, !.used = TRUE, !.start = n] = a
  BY DEF p, u
<1> HIDE DEF a
<1> QED BY <1>3, <1>4

\* The one POST: the permission is used up, and what is seen from now on comes after it.
LEMMA PostKeeps == ASSUME IInv, NEW s \in Sessions, Post(s) PROVE IInv'
<1> DEFINE a == [auth[s] EXCEPT !.pending = FALSE, !.used = TRUE, !.start = Len(seq[s])]
           l == [login[s] EXCEPT !.posts = login[s].posts + 1]
<1>1. /\ UNCHANGED <<table, stale, seq, shifted, lock>>
      /\ auth' = [auth EXCEPT ![s] = a] /\ login' = [login EXCEPT ![s] = l]
  BY DEF Post, Set, IInv, Typed
<1>2. /\ auth[s] \in Auth /\ seq[s] \in Seq(Seen) /\ LoginInv(s) /\ LabelInv(s)
      /\ login[s] \in [posts : {0, 1}, answer : Answers]
  BY DEF IInv, Typed
<1>3. ~ auth[s].used /\ auth[s].attempted /\ auth[s].result = "attempt-started" /\ Awaiting(s)
  BY <1>2 DEF Post, LoginInv, Awaiting
<1>4. login[s].posts = 0 /\ login[s].answer = None
  BY <1>2, <1>3 DEF LoginInv
<1>5. /\ a \in Auth /\ ~ a.pending /\ a.used /\ a.start = Len(seq[s]) /\ a.start \in Nat
      /\ a.attempted = auth[s].attempted /\ a.status = auth[s].status
      /\ a.state = auth[s].state /\ a.result = auth[s].result
  <2>1. Len(seq[s]) \in Nat
    BY <1>2
  <2> DEFINE u(r, n) == [r EXCEPT !.pending = FALSE, !.used = TRUE, !.start = n]
  <2>2. a = u(auth[s], Len(seq[s]))
    OBVIOUS
  <2>3. \A r \in Auth, n \in Nat :
          /\ u(r, n) \in Auth /\ ~ u(r, n).pending /\ u(r, n).used /\ u(r, n).start = n
          /\ u(r, n).attempted = r.attempted /\ u(r, n).status = r.status
          /\ u(r, n).state = r.state /\ u(r, n).result = r.result
    BY UsedType
  <2> HIDE DEF a, u
  <2> QED BY <1>2, <2>1, <2>2, <2>3
<1>6. l \in [posts : {0, 1}, answer : Answers] /\ l.posts = 1 /\ l.answer = None
  <2>1. login[s].posts + 1 = 1 /\ login[s].posts + 1 \in {0, 1}
    BY <1>4
  <2>2. l = [login[s] EXCEPT !.posts = 1]
    BY <2>1
  <2> QED BY <1>2, <1>4, <2>2
<1> HIDE DEF a, l
<1>7. /\ auth' \in [Sessions -> Auth] /\ auth'[s] = a
      /\ login' \in [Sessions -> [posts : {0, 1}, answer : Answers]] /\ login'[s] = l
  BY <1>1, <1>5, <1>6 DEF IInv, Typed
<1>8. Typed' /\ LockInv'
  BY <1>1, <1>7 DEF IInv, Typed, LockInv
<1>9. \A x \in Sessions : Awaiting(x)' <=> Awaiting(x)
  BY <1>1 DEF Awaiting
<1>10. LoginInv(s)'
  BY <1>2, <1>3, <1>5, <1>6, <1>7 DEF LoginInv
<1>11. LabelInv(s)'
  <2>1. seq'[s] = seq[s] /\ \A i \in DOMAIN seq[s] : i <= Len(seq[s])
    BY <1>1, <1>2
  <2>2. /\ auth[s].state = "anonymous"
        /\ \A i \in DOMAIN seq[s] : ~ seq[s][i].after /\ seq[s][i].label = "anonymous"
    BY <1>2, <1>3 DEF LabelInv
  <2>3. \A i \in DOMAIN seq[s] : ~ (i > a.start)
    BY <1>2, <1>5, <2>1
  <2> QED BY <1>2, <1>3, <1>5, <1>7, <1>9, <2>1, <2>2, <2>3 DEF LabelInv
<1>12. ASSUME NEW x \in Sessions, x # s PROVE LoginInv(x)' /\ LabelInv(x)'
  <2>1. auth'[x] = auth[x] /\ login'[x] = login[x] /\ seq'[x] = seq[x] /\ shifted' = shifted
    BY <1>1, <1>12 DEF IInv, Typed
  <2>2. LoginInv(x)'
    BY <1>1, <1>9, <2>1 DEF IInv, LoginInv
  <2>3. LabelInv(x)'
    BY <1>9, <2>1 DEF IInv, LabelInv
  <2> QED BY <2>2, <2>3
<1> QED BY <1>8, <1>10, <1>11, <1>12 DEF IInv

\* The answer, whenever it comes, is the first one to be noted.
LEMMA RespondKeeps == ASSUME IInv, NEW s \in Sessions, Respond(s) PROVE IInv'
<1>1. PICK status \in {"ok", "error"} :
        /\ login' = [login EXCEPT ![s] = [login[s] EXCEPT !.answer = status]]
        /\ auth' = [auth EXCEPT ![s] = [auth[s] EXCEPT !.status = status]]
  BY DEF Respond, Set, IInv, Typed
<1> DEFINE a == [auth[s] EXCEPT !.status = status]
           l == [login[s] EXCEPT !.answer = status]
<1>2. UNCHANGED <<table, stale, seq, shifted, lock>>
  BY DEF Respond
<1>3. /\ auth[s] \in Auth /\ LoginInv(s) /\ LabelInv(s)
      /\ login[s] \in [posts : {0, 1}, answer : Answers]
  BY DEF IInv, Typed
<1>4. login[s].posts = 1 /\ login[s].answer = None /\ auth[s].used /\ auth[s].status = None
  BY <1>3 DEF Respond, LoginInv
<1>5. /\ a \in Auth /\ a.pending = auth[s].pending /\ a.used = auth[s].used
      /\ a.start = auth[s].start /\ a.attempted = auth[s].attempted /\ a.status = status
      /\ a.state = auth[s].state /\ a.result = auth[s].result
  BY <1>3 DEF Auth, Answers
<1>6. l \in [posts : {0, 1}, answer : Answers] /\ l.posts = 1 /\ l.answer = status
  BY <1>3, <1>4 DEF Answers
<1>7. auth' = [auth EXCEPT ![s] = a] /\ login' = [login EXCEPT ![s] = l]
  BY <1>1
<1> HIDE DEF a, l
<1>8. /\ auth' \in [Sessions -> Auth] /\ auth'[s] = a
      /\ login' \in [Sessions -> [posts : {0, 1}, answer : Answers]] /\ login'[s] = l
  BY <1>5, <1>6, <1>7 DEF IInv, Typed
<1>9. Typed' /\ LockInv'
  BY <1>2, <1>8 DEF IInv, Typed, LockInv
<1>10. \A x \in Sessions : Awaiting(x)' <=> Awaiting(x)
  BY <1>2 DEF Awaiting
<1>11. LoginInv(s)'
  BY <1>2, <1>3, <1>4, <1>5, <1>6, <1>8, <1>10 DEF LoginInv
<1>12. LabelInv(s)'
  BY <1>2, <1>3, <1>5, <1>8, <1>10 DEF LabelInv
<1>13. ASSUME NEW x \in Sessions, x # s PROVE LoginInv(x)' /\ LabelInv(x)'
  <2>1. auth'[x] = auth[x] /\ login'[x] = login[x] /\ seq'[x] = seq[x] /\ shifted' = shifted
    BY <1>2, <1>7, <1>13 DEF IInv, Typed
  <2>2. LoginInv(x)'
    BY <1>2, <1>10, <2>1 DEF IInv, LoginInv
  <2>3. LabelInv(x)'
    BY <1>10, <2>1 DEF IInv, LabelInv
  <2> QED BY <2>2, <2>3
<1> QED BY <1>9, <1>11, <1>12, <1>13 DEF IInv

LEMMA NextIInv == IInv /\ [Next]_vars => IInv'
<1> SUFFICES ASSUME IInv, [Next]_vars PROVE IInv'
  OBVIOUS
<1>1. ASSUME UNCHANGED <<pages, lock, table>>, stale' \subseteq Sessions PROVE IInv'
  <2>1. Typed' /\ LockInv'
    BY <1>1 DEF IInv, Typed, LockInv, pages
  <2>2. ASSUME NEW s \in Sessions PROVE LoginInv(s)' /\ LabelInv(s)'
    <3>1. Awaiting(s)' <=> Awaiting(s)
      BY <1>1 DEF Awaiting
    <3>2. LoginInv(s)'
      BY <1>1, <3>1 DEF IInv, LoginInv, pages
    <3>3. LabelInv(s)'
      BY <1>1, <3>1 DEF IInv, LabelInv, pages
    <3> QED BY <3>2, <3>3
  <2> QED BY <2>1, <2>2 DEF IInv
<1>2. CASE Crash
  BY <1>1, <1>2 DEF Crash, IInv, Typed
<1>3. ASSUME NEW s \in Sessions, GoesStale(s) PROVE IInv'
  BY <1>1, <1>3 DEF GoesStale, IInv, Typed
<1>4. CASE UNCHANGED vars
  BY <1>1, <1>4 DEF vars, IInv, Typed
<1>5. CASE Handler
  BY <1>5, QuietHandlerKeeps, BeginKeeps, SubmittedKeeps, WithdrawKeeps, JudgeKeeps
     DEF Handler, QuietHandler
<1> QED BY <1>2, <1>3, <1>4, <1>5, AcquireKeeps, GetKeeps, PostKeeps, RespondKeeps DEF Next

LEMMA AlwaysIInv == Spec => []IInv
  BY InitIInv, NextIInv, PTL DEF Spec

-----------------------------------------------------------------------------
\* A report stays true for as long as the session lives, however late a page posts or
\* a server answers (authenticate_guided_session, guard_guided_route, record_response).
THEOREM ReportedLoginHolds == Spec => []ReportedLogin
<1>1. IInv => ReportedLogin
  <2> SUFFICES ASSUME IInv, NEW s \in Sessions
      PROVE  /\ auth[s].result \in {"not-attempted", "login-post-not-observed"}
                  => login[s].posts = 0
             /\ auth[s].result = "login-response-unobserved" => login[s].posts = 1
             /\ auth[s].result = "login-rejected-or-error" => login[s].answer = "error"
             /\ auth[s].result \in {"login-submitted-unconfirmed", "likely-authenticated"}
                  => login[s].answer = "ok"
    BY DEF ReportedLogin
  <2>1. LoginInv(s) /\ login[s].posts \in {0, 1}
    BY DEF IInv, Typed
  <2> QED BY <2>1 DEF LoginInv
<1> QED BY <1>1, AlwaysIInv, PTL

\* Nothing seen before a login is labelled as seen after it, and the labels of what
\* follows agree with the state of the session (Relabel, record_request).
THEOREM LabelsFollowLoginHolds == Spec => []LabelsFollowLogin
<1>1. IInv => LabelsFollowLogin
  BY DEF IInv, LabelInv, LabelsFollowLogin
<1> QED BY <1>1, AlwaysIInv, PTL

\* One login POST in the life of a session, while its operator's attempt holds the
\* lock (guard_guided_route).
THEOREM OneLoginPostHolds == Spec => OneLoginPost
<1> DEFINE P == \A s \in Sessions :
                  login'[s].posts > login[s].posts =>
                    /\ login[s].posts = 0
                    /\ lock # None /\ lock.op = "authenticate" /\ lock.s = s
<1>1. IInv /\ [Next]_vars => [P]_vars
  <2> SUFFICES ASSUME IInv, [Next]_vars, NEW s \in Sessions, login'[s].posts > login[s].posts
      PROVE  /\ login[s].posts = 0
             /\ lock # None /\ lock.op = "authenticate" /\ lock.s = s
    OBVIOUS
  <2>1. login[s] \in [posts : {0, 1}, answer : Answers] /\ login[s].posts \in {0, 1}
    BY DEF IInv, Typed
  <2>2. login' # login /\ ~ (login'[s].posts = login[s].posts) /\ login'[s].posts # 0
    BY <2>1
  <2>3. ASSUME NEW t \in Sessions, Close(t) PROVE FALSE
    <3>1. login'[s] \in {login[s], NoLogin}
      BY <2>3 DEF Close, IInv, Typed
    <3> QED BY <2>2, <3>1 DEF NoLogin
  <2>4. ASSUME NEW t \in Sessions, Respond(t) PROVE FALSE
    <3>1. login'[s].posts = login[s].posts
      BY <2>1, <2>4 DEF Respond, IInv, Typed
    <3> QED BY <2>2, <3>1
  <2>5. ASSUME NEW t \in Sessions, Post(t), t # s PROVE FALSE
    BY <2>2, <2>5 DEF Post, IInv, Typed
  <2>6. lock # None => lock \in Holder
    BY DEF IInv, Typed
  <2>7. \/ \E t \in Sessions : Post(t) \/ Respond(t) \/ Close(t)
        \/ UNCHANGED login
    BY <2>6 DEF Next, Handler, Acquire, Expire, Stop, NewContext, Register, Goto, Abandon, Lookup,
           Snapshot, Interact, Source, Begin, Submitted, SubmitFails, Settle, Judge, OnlyAuth,
           Get, GoesStale, Crash, pages, vars, HoldsAt, Target, Holder, IInv, Typed
  <2>8. Post(s)
    BY <2>2, <2>3, <2>4, <2>5, <2>7
  <2>9. LoginInv(s) /\ LockInv
    BY DEF IInv
  <2> QED BY <2>1, <2>8, <2>9 DEF Post, LoginInv, LockInv, LoginSteps
<1> QED BY <1>1, AlwaysIInv, PTL DEF Spec, OneLoginPost

-----------------------------------------------------------------------------
(* Browser contexts *)

InHand == IF lock # None /\ lock.op = "start" THEN {lock.s} ELSE {}

\* The contexts nobody will close.
Leaked == {s \in Sessions : Alive(s)} \ (table \cup InHand)

\* The handler that starts a session has no context, has room for one, or has it in
\* the table; whatever else is open and in no table was left by a call that raised.
Slots ==
  /\ faults \in Nat
  /\ context \in [Sessions -> {"none", "open", "closed"}]
  /\ IsFiniteSet(table) /\ Cardinality(table) <= MaxSessions
  /\ lock # None /\ lock.op = "start" =>
       /\ lock.at = "expire" => ~ Alive(lock.s)
       /\ lock.at = "setup" => Cardinality(table) < MaxSessions
       /\ lock.at \notin {"expire", "setup"} => lock.s \in table
  /\ IsFiniteSet(Leaked) /\ Cardinality(Leaked) <= faults

LEMMA Counted ==
  ASSUME NEW L, NEW M, NEW f \in Nat, NEW g \in Nat, IsFiniteSet(L), Cardinality(L) <= f,
         \/ M \subseteq L /\ f <= g
         \/ (\E x : M \subseteq L \cup {x}) /\ g = f + 1
  PROVE  IsFiniteSet(M) /\ Cardinality(M) <= g
<1>1. Cardinality(L) \in Nat
  BY FS_CardinalityType
<1>2. CASE M \subseteq L /\ f <= g
  <2>1. IsFiniteSet(M) /\ Cardinality(M) <= Cardinality(L) /\ Cardinality(M) \in Nat
    BY <1>2, FS_Subset, FS_CardinalityType
  <2> QED BY <1>1, <1>2, <2>1
<1>3. CASE (\E x : M \subseteq L \cup {x}) /\ g = f + 1
  <2>1. PICK x : M \subseteq L \cup {x}
    BY <1>3
  <2>2. /\ IsFiniteSet(L \cup {x})
        /\ Cardinality(L \cup {x}) \in {Cardinality(L), Cardinality(L) + 1}
    BY FS_AddElement
  <2>3. IsFiniteSet(M) /\ Cardinality(M) <= Cardinality(L \cup {x}) /\ Cardinality(M) \in Nat
    BY <2>1, <2>2, FS_Subset, FS_CardinalityType
  <2> QED BY <1>1, <1>3, <2>2, <2>3
<1> QED BY <1>2, <1>3

\* What a raised call and a quiet one make of the faults.
LEMMA FaultsCount ==
  ASSUME Slots
  PROVE  /\ Fault => faults' = faults + 1 /\ faults' \in Nat
         /\ UNCHANGED faults => faults' \in Nat /\ faults <= faults'
         /\ Raises => faults' \in Nat /\ faults <= faults'
<1>1. faults \in Nat
  BY DEF Slots
<1> QED BY <1>1 DEF Fault, Raises

\* A handler that goes on is the same handler.
LEMMA MovedOn ==
  ASSUME NEW l \in Holder, NEW step \in Steps
  PROVE  LET m == [l EXCEPT !.at = step]
         IN  m \in Holder /\ m # None /\ m.op = l.op /\ m.s = l.s /\ m.at = step
<1>1. [l EXCEPT !.at = step] \in Holder
  BY DEF Holder
<1>2. [l EXCEPT !.at = step] # None
  BY <1>1
<1> QED BY <1>1, <1>2 DEF Holder

\* A step that opens nothing: the contexts it leaves are paid for.
LEMMA SlotsStep ==
  ASSUME Slots, faults' \in Nat, context' \in [Sessions -> {"none", "open", "closed"}],
         IsFiniteSet(table') /\ Cardinality(table') <= MaxSessions,
         lock' # None /\ lock'.op = "start" =>
           /\ lock'.at = "expire" => context'[lock'.s] # "open"
           /\ lock'.at = "setup" => Cardinality(table') < MaxSessions
           /\ lock'.at \notin {"expire", "setup"} => lock'.s \in table',
         \/ Leaked' \subseteq Leaked /\ faults <= faults'
         \/ (\E x : Leaked' \subseteq Leaked \cup {x}) /\ faults' = faults + 1
  PROVE  Slots'
<1>1. IsFiniteSet(Leaked') /\ Cardinality(Leaked') <= faults'
  <2>1. faults \in Nat /\ IsFiniteSet(Leaked) /\ Cardinality(Leaked) <= faults
    BY DEF Slots
  <2> QED BY <2>1, Counted
<1> QED BY <1>1 DEF Slots, Alive

\* Handlers that leave the table and the contexts alone.
LEMMA CalmSlots ==
  ASSUME Slots, UNCHANGED <<table, context>>, faults' \in Nat, faults <= faults',
         \/ UNCHANGED lock
         \/ /\ lock # None /\ lock.at \notin {"expire", "setup"}
            /\ lock' = None \/ (/\ lock'.op = lock.op /\ lock'.s = lock.s
                               /\ lock'.at \notin {"expire", "setup"})
         \/ lock # None /\ lock.op # "start" /\ (lock' = None \/ lock'.op # "start")
  PROVE  Slots'
<1>1. Leaked' \subseteq Leaked
  BY DEF Leaked, InHand, Alive, Slots
<1>2. /\ IsFiniteSet(table') /\ Cardinality(table') <= MaxSessions
      /\ context' \in [Sessions -> {"none", "open", "closed"}]
  BY DEF Slots
<1>3. lock' # None /\ lock'.op = "start" =>
        /\ lock'.at = "expire" => context'[lock'.s] # "open"
        /\ lock'.at = "setup" => Cardinality(table') < MaxSessions
        /\ lock'.at \notin {"expire", "setup"} => lock'.s \in table'
  BY DEF Slots, Alive
<1> QED BY <1>1, <1>2, <1>3, SlotsStep

LEMMA AcquireSlots ==
  ASSUME Slots, NEW op \in Operations, NEW s \in Sessions, Acquire(op, s)
  PROVE  Slots'
<1>1. /\ lock = None /\ UNCHANGED <<table, context, faults>>
      /\ lock'.op = op /\ lock'.s = s /\ (op = "start" <=> context[s] = "none")
      /\ op = "start" => lock'.at = "expire"
  BY DEF Acquire
<1>2. Leaked' \subseteq Leaked
  BY <1>1 DEF Leaked, InHand, Alive
<1>3. /\ IsFiniteSet(table') /\ Cardinality(table') <= MaxSessions
      /\ context' \in [Sessions -> {"none", "open", "closed"}]
  BY <1>1 DEF Slots
<1>4. op = "start" => context'[s] # "open"
  BY <1>1
<1> QED BY <1>1, <1>2, <1>3, <1>4, FaultsCount, SlotsStep

LEMMA ExpireSlots ==
  ASSUME IInv, Slots, Expire
  PROVE  Slots'
<1>1. PICK x \in lock.expired :
        /\ lock # None /\ lock.at = "expire" /\ table' = table \ {x}
        /\ \/ Close(x) /\ lock' = [lock EXCEPT !.expired = @ \ {x}] /\ UNCHANGED faults
           \/ Leave /\ Fault /\ UNCHANGED <<context, pages>>
  BY DEF Expire, HoldsAt
<1>2. lock \in Holder /\ x \in Sessions
  BY <1>1 DEF IInv, Typed, Holder
<1>3. IsFiniteSet(table') /\ Cardinality(table') <= MaxSessions
  BY <1>1, Counted DEF Slots
<1>4. CASE Close(x) /\ lock' = [lock EXCEPT !.expired = @ \ {x}] /\ UNCHANGED faults
  <2>1. lock'.op = lock.op /\ lock'.s = lock.s /\ lock'.at = lock.at /\ lock' # None
    BY <1>2, <1>4 DEF Holder
  <2>2. context' = [context EXCEPT ![x] = "closed"]
    BY <1>4 DEF Close
  <2>3. context' \in [Sessions -> {"none", "open", "closed"}]
        /\ \A s \in Sessions : Alive(s)' => Alive(s) /\ s # x
    BY <1>2, <2>2 DEF Slots, Alive
  <2>4. Leaked' \subseteq Leaked
    BY <1>1, <2>1, <2>3 DEF Leaked, InHand
  <2>5. lock'.op = "start" => context'[lock'.s] # "open"
    BY <1>1, <1>2, <2>1, <2>3 DEF Slots, Alive, Holder
  <2> QED BY <1>1, <1>3, <1>4, <2>1, <2>3, <2>4, <2>5, FaultsCount, SlotsStep
<1>5. CASE Leave /\ Fault /\ UNCHANGED <<context, pages>>
  <2>1. Leaked' \subseteq Leaked \cup {x}
    BY <1>1, <1>5 DEF Leaked, InHand, Alive, Leave, Slots
  <2> QED BY <1>3, <1>5, <2>1, FaultsCount, SlotsStep DEF Slots, Leave
<1> QED BY <1>1, <1>4, <1>5

LEMMA StopSlots ==
  ASSUME IInv, Slots, Stop
  PROVE  Slots'
<1>1. /\ lock # None /\ lock.at = "stop" /\ lock' = None /\ table' = table \ {lock.s}
      /\ \/ lock.s \in table /\ Close(lock.s) /\ UNCHANGED faults
         \/ Fault /\ UNCHANGED context
         \/ lock.s \notin table /\ UNCHANGED <<context, faults>>
  BY DEF Stop, HoldsAt, Target, Leave
<1>2. lock.op = "stop" /\ lock.s \in Sessions
  BY <1>1 DEF IInv, LockInv, Typed, Holder
<1>3. IsFiniteSet(table') /\ Cardinality(table') <= MaxSessions
  BY <1>1, Counted DEF Slots
<1>4. CASE lock.s \in table /\ Close(lock.s) /\ UNCHANGED faults
  <2>1. context' = [context EXCEPT ![lock.s] = "closed"]
    BY <1>4 DEF Close
  <2>2. context' \in [Sessions -> {"none", "open", "closed"}]
        /\ \A s \in Sessions : Alive(s)' => Alive(s) /\ s # lock.s
    BY <1>2, <2>1 DEF Slots, Alive
  <2>3. Leaked' \subseteq Leaked
    BY <1>1, <1>2, <2>2 DEF Leaked, InHand
  <2> QED BY <1>1, <1>3, <1>4, <2>2, <2>3, FaultsCount, SlotsStep
<1>5. CASE Fault /\ UNCHANGED context
  <2>1. Leaked' \subseteq Leaked \cup {lock.s}
    BY <1>1, <1>2, <1>5 DEF Leaked, InHand, Alive
  <2> QED BY <1>1, <1>3, <1>5, <2>1, FaultsCount, SlotsStep DEF Slots
<1>6. CASE lock.s \notin table /\ UNCHANGED <<context, faults>>
  <2>1. Leaked' \subseteq Leaked
    BY <1>1, <1>2, <1>6 DEF Leaked, InHand, Alive
  <2> QED BY <1>1, <1>3, <1>6, <2>1, FaultsCount, SlotsStep DEF Slots
<1> QED BY <1>1, <1>4, <1>5, <1>6

LEMMA NewContextSlots ==
  ASSUME IInv, Slots, NewContext
  PROVE  Slots'
<1>1. /\ lock # None /\ lock.op = "start" /\ lock.at = "expire"
      /\ UNCHANGED <<table, faults>> /\ ~ Alive(lock.s)
  BY DEF NewContext, Holds, Slots
<1>2. lock \in Holder /\ lock.s \in Sessions
  BY <1>1 DEF IInv, Typed, Holder
<1>3. Cardinality(table) \in Nat
  BY FS_CardinalityType DEF Slots
<1>4. CASE lock' = None /\ UNCHANGED context
  <2>1. Leaked' \subseteq Leaked
    BY <1>1, <1>4 DEF Leaked, InHand, Alive
  <2> QED BY <1>1, <1>4, <2>1, FaultsCount, SlotsStep DEF Slots
<1>5. CASE /\ ~ (Cardinality(table) >= MaxSessions) /\ GoTo("setup")
           /\ context' = [context EXCEPT ![lock.s] = "open"]
  <2>1. lock'.op = "start" /\ lock'.s = lock.s /\ lock'.at = "setup" /\ lock' # None
    <3>1. lock' = [lock EXCEPT !.at = "setup"] /\ "setup" \in Steps
      BY <1>5 DEF GoTo, Steps
    <3> QED BY <1>1, <1>2, <3>1, MovedOn
  <2>2. context' \in [Sessions -> {"none", "open", "closed"}]
        /\ \A s \in Sessions : Alive(s)' => Alive(s) \/ s = lock.s
    BY <1>2, <1>5 DEF Slots, Alive
  <2>3. Leaked' \subseteq Leaked
    BY <1>1, <2>1, <2>2 DEF Leaked, InHand
  <2>4. Cardinality(table) < MaxSessions
    BY <1>3, <1>5
  <2> QED BY <1>1, <2>1, <2>2, <2>3, <2>4, FaultsCount, SlotsStep DEF Slots
<1> QED BY <1>4, <1>5 DEF NewContext, Leave, Target

LEMMA RegisterSlots ==
  ASSUME IInv, Slots, Register
  PROVE  Slots'
<1>1. /\ lock # None /\ lock.op = "start" /\ lock.at = "setup" /\ UNCHANGED context
      /\ Cardinality(table) < MaxSessions
  BY DEF Register, Holds, Slots
<1>2. lock \in Holder /\ lock.s \in Sessions
  BY <1>1 DEF IInv, Typed, Holder
<1>3. CASE table' = table \cup {lock.s} /\ GoTo("goto") /\ UNCHANGED faults
  <2>1. lock'.op = "start" /\ lock'.s = lock.s /\ lock'.at = "goto" /\ lock' # None
    <3>1. lock' = [lock EXCEPT !.at = "goto"] /\ "goto" \in Steps
      BY <1>3 DEF GoTo, Steps
    <3> QED BY <1>1, <1>2, <3>1, MovedOn
  <2>2. IsFiniteSet(table') /\ Cardinality(table') <= MaxSessions
    <3>1. /\ Cardinality(table) \in Nat /\ Cardinality(table) + 1 \in Nat
          /\ Cardinality(table) + 1 <= MaxSessions /\ IsFiniteSet(table)
      BY <1>1, FS_CardinalityType DEF Slots
    <3>2. IsFiniteSet(table') /\ Cardinality(table') <= Cardinality(table) + 1
      BY SMTT(30), <1>3, <3>1, FS_AddElement
    <3> QED BY <3>1, <3>2, FS_CardinalityType
  <2>3. Leaked' \subseteq Leaked
    BY <1>1, <1>3, <2>1 DEF Leaked, InHand, Alive
  <2> QED BY <1>1, <1>3, <2>1, <2>2, <2>3, FaultsCount, SlotsStep DEF Slots
<1>4. CASE Raises /\ Leave /\ UNCHANGED table
  <2>1. Leaked' \subseteq Leaked \cup {lock.s} /\ lock' = None
    BY <1>1, <1>4 DEF Leaked, InHand, Alive, Leave
  <2>2. ~ Alive(lock.s) => Leaked' \subseteq Leaked
    BY <1>1, <1>4 DEF Leaked, InHand, Alive, Leave
  <2>3. CASE Fault
    BY <1>1, <1>4, <2>1, <2>3, FaultsCount, SlotsStep DEF Slots
  <2>4. CASE ~ Alive(lock.s) /\ UNCHANGED faults
    BY <1>1, <1>4, <2>1, <2>2, <2>4, FaultsCount, SlotsStep DEF Slots
  <2> QED BY <1>4, <2>3, <2>4 DEF Raises, Target
<1> QED BY <1>3, <1>4 DEF Register, Target

LEMMA AbandonSlots ==
  ASSUME IInv, Slots, Abandon
  PROVE  Slots'
<1>1. /\ lock # None /\ lock.at = "abandon" /\ lock' = None
      /\ \/ Close(lock.s) /\ table' = table \ {lock.s} /\ UNCHANGED faults
         \/ Fault /\ UNCHANGED <<context, table>>
  BY DEF Abandon, HoldsAt, Target, Leave
<1>2. lock.s \in Sessions
  BY <1>1 DEF IInv, Typed, Holder
<1>3. CASE Close(lock.s) /\ table' = table \ {lock.s} /\ UNCHANGED faults
  <2>1. context' = [context EXCEPT ![lock.s] = "closed"]
    BY <1>3 DEF Close
  <2>2. context' \in [Sessions -> {"none", "open", "closed"}]
        /\ \A s \in Sessions : Alive(s)' => Alive(s) /\ s # lock.s
    BY <1>2, <2>1 DEF Slots, Alive
  <2>3. Leaked' \subseteq Leaked
    BY <1>1, <1>3, <2>2 DEF Leaked, InHand
  <2>4. IsFiniteSet(table') /\ Cardinality(table') <= MaxSessions
    BY <1>3, Counted DEF Slots
  <2> QED BY <1>1, <1>3, <2>2, <2>3, <2>4, FaultsCount, SlotsStep
<1>4. CASE Fault /\ UNCHANGED <<context, table>>
  <2>1. Leaked' \subseteq Leaked \cup {lock.s}
    BY <1>1, <1>4 DEF Leaked, InHand, Alive
  <2> QED BY <1>1, <1>4, <2>1, FaultsCount, SlotsStep DEF Slots
<1> QED BY <1>1, <1>3, <1>4

\* The handlers that open and close nothing.
LEMMA CalmHandlers ==
  ASSUME IInv, Slots,
         \/ Goto \/ Lookup \/ Snapshot \/ Interact \/ Source
         \/ Begin \/ Submitted \/ SubmitFails \/ Settle \/ Judge
  PROVE  Slots'
<1>1. lock # None /\ lock \in Holder /\ UNCHANGED <<table, context>>
  BY DEF Goto, Lookup, Snapshot, Interact, Source, Begin, Submitted, SubmitFails, Settle, Judge,
         HoldsAt, OnlyAuth, IInv, Typed
<1>2. faults' \in Nat /\ faults <= faults'
  BY FaultsCount DEF Goto, Lookup, Snapshot, Interact, Source, Begin, Submitted, SubmitFails,
     Settle, Judge
<1>3. ASSUME NEW step \in Steps, GoTo(step)
      PROVE  lock'.op = lock.op /\ lock'.s = lock.s /\ lock'.at = step
  BY <1>1, <1>3, MovedOn DEF GoTo
<1>4. CASE Lookup
  <2>1. lock.op # "start" /\ (lock' = None \/ GoTo(FirstStep(lock.op)))
    BY <1>4 DEF Lookup, Leave
  <2>2. lock' = None \/ lock'.op = lock.op
    BY <1>1, <2>1 DEF GoTo, Holder
  <2> QED BY <1>1, <1>2, <2>1, <2>2, CalmSlots
<1>5. CASE \/ Goto \/ Snapshot \/ Interact \/ Source \/ Begin \/ Submitted \/ SubmitFails
           \/ Settle \/ Judge
  <2>1. lock.at \notin {"expire", "setup"}
    BY <1>5 DEF Goto, Snapshot, Interact, Source, Begin, Submitted, SubmitFails, Settle, Judge,
                HoldsAt
  <2>2. \/ lock' = None
        \/ \E step \in {"snapshot", "abandon", "submit", "wait", "judge"} : GoTo(step)
    BY <1>5 DEF Goto, Snapshot, Interact, Source, Begin, Submitted, SubmitFails, Settle, Judge,
                Leave
  <2>3. lock' = None \/ (/\ lock'.op = lock.op /\ lock'.s = lock.s
                         /\ lock'.at \notin {"expire", "setup"})
    <3>1. CASE \E step \in {"snapshot", "abandon", "submit", "wait", "judge"} : GoTo(step)
      <4>1. PICK step \in {"snapshot", "abandon", "submit", "wait", "judge"} : GoTo(step)
        BY <3>1
      <4>2. step \in Steps
        BY DEF Steps
      <4> QED BY <1>3, <4>1, <4>2
    <3> QED BY <2>2, <3>1
  <2> QED BY <1>1, <1>2, <2>1, <2>3, CalmSlots
<1> QED BY <1>4, <1>5

LEMMA CrashSlots ==
  ASSUME IInv, Slots, Crash
  PROVE  Slots'
<1>1. /\ Fault /\ UNCHANGED <<table, lock>>
      /\ context' = [s \in Sessions |-> IF Alive(s) THEN "closed" ELSE context[s]]
  BY DEF Crash
<1>2. faults' \in Nat /\ faults <= faults'
  <2>1. faults \in Nat
    BY DEF Slots
  <2> QED BY <1>1, <2>1 DEF Fault
<1>3. /\ context' \in [Sessions -> {"none", "open", "closed"}]
      /\ \A s \in Sessions : context'[s] # "open"
  BY <1>1 DEF Slots, Alive
<1>4. Leaked' \subseteq Leaked
  BY <1>3 DEF Leaked, Alive
<1>5. lock # None /\ lock.op = "start" /\ lock.at = "expire" => context'[lock.s] # "open"
  <2>1. lock # None => lock.s \in Sessions
    BY DEF IInv, Typed, Holder
  <2> QED BY <1>3, <2>1
<1> QED BY <1>1, <1>2, <1>3, <1>4, <1>5, SlotsStep DEF Slots

LEMMA NextSlots == IInv /\ Slots /\ [Next]_vars => Slots'
<1> SUFFICES ASSUME IInv, Slots, [Next]_vars PROVE Slots'
  OBVIOUS
<1>1. ASSUME UNCHANGED <<table, context, lock, faults>> PROVE Slots'
  BY <1>1, FaultsCount, CalmSlots
<1>2. ASSUME NEW s \in Sessions, Get(s) \/ Post(s) \/ Respond(s) \/ GoesStale(s)
      PROVE  Slots'
  BY <1>1, <1>2 DEF Get, Post, Respond, GoesStale
<1>3. CASE UNCHANGED vars
  BY <1>1, <1>3 DEF vars
<1>4. CASE Handler
  BY <1>4, ExpireSlots, StopSlots, NewContextSlots, RegisterSlots, AbandonSlots, CalmHandlers
     DEF Handler
<1> QED BY <1>2, <1>3, <1>4, AcquireSlots, CrashSlots DEF Next

\* Contexts do not pile up: beyond the limit there is one at most for every call that
\* raised (start_guided_session, expire_guided_sessions, stop_guided_session).
THEOREM ContextsBoundedHolds == Spec => []ContextsBounded
<1>1. Init => Slots
  <2> SUFFICES ASSUME Init PROVE Slots
    OBVIOUS
  <2>1. Leaked = {} /\ table = {} /\ lock = None /\ faults = 0
    BY DEF Init, Leaked, Alive
  <2>2. context \in [Sessions -> {"none", "open", "closed"}]
    BY DEF Init
  <2> QED BY <2>1, <2>2, FS_EmptySet DEF Slots
<1>2. ASSUME Slots PROVE ContextsBounded
  <2> DEFINE open == {s \in Sessions : Alive(s)}
             L == open \ (table \cup InHand)
  <2>1. InHand = IF lock # None /\ lock.op = "start" THEN {Target} ELSE {}
    BY DEF InHand, Target
  <2>2. Leaked = L
    BY DEF Leaked
  <2>3. /\ faults \in Nat /\ IsFiniteSet(L) /\ Cardinality(L) <= faults
        /\ IsFiniteSet(table) /\ Cardinality(table) <= MaxSessions
    BY <1>2, <2>2 DEF Slots
  <2>4. \E x : (open \cup table) \subseteq (table \cup {x}) \cup L
               /\ IsFiniteSet(table \cup {x}) /\ Cardinality(table \cup {x}) <= MaxSessions
    <3>1. CASE lock # None /\ lock.op = "start" /\ lock.at = "setup"
      <4>1. (open \cup table) \subseteq (table \cup {lock.s}) \cup L
        BY <3>1 DEF InHand
      <4>2. Cardinality(table) < MaxSessions /\ Cardinality(table) \in Nat
        BY <1>2, <2>3, <3>1, FS_CardinalityType DEF Slots
      <4>3. /\ IsFiniteSet(table \cup {lock.s})
            /\ Cardinality(table \cup {lock.s}) \in {Cardinality(table), Cardinality(table) + 1}
        BY <2>3, FS_AddElement
      <4>4. Cardinality(table \cup {lock.s}) <= MaxSessions
        BY <4>2, <4>3
      <4> QED BY <4>1, <4>3, <4>4
    <3>2. CASE ~ (lock # None /\ lock.op = "start" /\ lock.at = "setup")
      <4>1. \A s \in InHand : s \in open => s \in table
        BY <1>2, <3>2 DEF InHand, Slots
      <4>2. (open \cup table) \subseteq table \cup L
        BY <4>1
      <4>3. CASE table = {}
        <5>1. PICK x : x \in open \cup table \/ open \cup table = {}
          OBVIOUS
        <5>2. /\ IsFiniteSet(table \cup {x}) /\ Cardinality(table \cup {x}) <= MaxSessions
          <6>1. IsFiniteSet({x}) /\ Cardinality({x}) = 1
            BY FS_Singleton
          <6>2. table \cup {x} = {x}
            BY <4>3
          <6>3. 1 <= MaxSessions
            BY SessionAssumption
          <6> QED BY <6>1, <6>2, <6>3
        <5>3. (open \cup table) \subseteq (table \cup {x}) \cup L
          BY <4>2
        <5> QED BY <5>2, <5>3
      <4>4. CASE table # {}
        <5>1. PICK x : x \in table
          BY <4>4
        <5>2. table \cup {x} = table
          BY <5>1
        <5> QED BY <2>3, <4>2, <5>2
      <4> QED BY <4>3, <4>4
    <3> QED BY <3>1, <3>2
  <2>5. PICK x : /\ (open \cup table) \subseteq (table \cup {x}) \cup L
                 /\ IsFiniteSet(table \cup {x}) /\ Cardinality(table \cup {x}) <= MaxSessions
    BY <2>4
  <2> DEFINE T == table \cup {x}
  <2>6. /\ IsFiniteSet(T \cup L)
        /\ Cardinality(T \cup L) = Cardinality(T) + Cardinality(L) - Cardinality(T \cap L)
    BY <2>3, <2>5, FS_Union
  <2>7. /\ Cardinality(T) \in Nat /\ Cardinality(L) \in Nat /\ Cardinality(T \cap L) \in Nat
        /\ IsFiniteSet(T \cap L)
    BY <2>3, <2>5, FS_Intersection, FS_CardinalityType
  <2>8. /\ Cardinality(open \cup table) <= Cardinality(T \cup L)
        /\ Cardinality(open \cup table) \in Nat
    BY <2>5, <2>6, FS_Subset, FS_CardinalityType
  <2>9. Cardinality(open \cup table) <= MaxSessions + faults
    BY <2>3, <2>5, <2>6, <2>7, <2>8
  <2> QED BY <2>1, <2>3, <2>9 DEF ContextsBounded
<1>3. IInv /\ Slots /\ [Next]_vars => Slots'
  BY NextSlots
<1>4. Spec => []Slots
  BY <1>1, <1>3, AlwaysIInv, PTL DEF Spec
<1> QED BY <1>2, <1>4, PTL
=============================================================================
