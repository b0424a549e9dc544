--------------------------- MODULE GuidedSession ---------------------------
(***************************************************************************)
(* The guided browser sessions of runtime-inspector: their table, their     *)
(* browser contexts, and the one login POST a session may send.             *)
(*                                                                          *)
(* A handler holds browser_lab_lock from its first step to its last, so     *)
(* handlers do not interleave with each other.  They do with the browser:   *)
(* at every await of a handler, and when none runs, pages send requests,    *)
(* the guard of the session's routes lets them pass or aborts them, and the *)
(* request and response callbacks write to the session.                     *)
(*                                                                          *)
(* Elements and URLs are not modelled here (GuidedPage has the decisions    *)
(* about them): an operation is refused or not, and a request is a GET in   *)
(* scope or the login POST.                                                 *)
(***************************************************************************)
EXTENDS Naturals, Sequences, SequencesExt, FiniteSets

CONSTANTS
  Sessions,     \* the identities sessions get, each used once
  MaxSessions,  \* MAX_GUIDED_SESSIONS
  MaxEvents,    \* MAX_NETWORK_EVENTS
  MaxRequests,  \* bound on the GETs that pages send
  MaxFaults,    \* bound on what raises
  None

Operations == {"start", "get", "authenticate", "navigate", "interact", "source", "stop"}
Steps == {"expire", "setup", "goto", "abandon", "snapshot", "interact", "source", "check",
          "submit", "wait", "judge", "stop"}

\* A handler: what it was asked, how far it is, and whom it still has to remove.
Holder == [op : Operations, s : Sessions, at : Steps, expired : SUBSET Sessions]

ASSUME SessionAssumption ==
  /\ MaxSessions \in Nat \ {0}
  /\ MaxEvents \in Nat \ {0}
  /\ MaxRequests \in Nat
  /\ MaxFaults \in Nat
  /\ None \notin Nat \cup {"ok", "error"} \cup Holder

VARIABLES
  table,    \* browser_sessions
  context,  \* what became of the browser context made for a session
  stale,    \* sessions last touched more than GUIDED_SESSION_TTL_SECONDS ago
  auth,     \* the auth_* entries of a session
  seq,      \* network_sequence: whether the login had been sent, and the label
  sent,     \* GETs so far
  shifted,  \* sessions whose sequence was cut while a login was awaited
  login,    \* what the browser did of the login: POSTs that left, and the answer
  lock,     \* browser_lab_lock: the handler that holds it
  faults

pages == <<auth, seq, sent, shifted, login>>
vars == <<table, context, stale, pages, lock, faults>>

NoAuth == [attempted |-> FALSE, pending |-> FALSE, used |-> FALSE, status |-> None,
           state |-> "anonymous", result |-> "not-attempted", start |-> None]
NoLogin == [posts |-> 0, answer |-> None]

Init ==
  /\ table = {}
  /\ context = [s \in Sessions |-> "none"]
  /\ stale = {}
  /\ auth = [s \in Sessions |-> NoAuth]
  /\ seq = [s \in Sessions |-> <<>>]
  /\ sent = 0
  /\ shifted = {}
  /\ login = [s \in Sessions |-> NoLogin]
  /\ lock = None
  /\ faults = 0

-----------------------------------------------------------------------------
Fault == faults < MaxFaults /\ faults' = faults + 1
Holds(op, step) == lock # None /\ lock.op = op /\ lock.at = step
HoldsAt(step) == lock # None /\ lock.at = step
GoTo(step) == lock' = [lock EXCEPT !.at = step]
Leave == lock' = None
Target == lock.s
Touch(s) == stale' = stale \ {s}
Alive(s) == context[s] = "open"

\* The context is closed; what was kept of its pages is needed by nobody.
Close(s) ==
  /\ context' = [context EXCEPT ![s] = "closed"]
  /\ auth' = [auth EXCEPT ![s] = NoAuth]
  /\ seq' = [seq EXCEPT ![s] = <<>>]
  /\ login' = [login EXCEPT ![s] = NoLogin]
  /\ shifted' = shifted \ {s}
  /\ UNCHANGED sent

\* A browser call fails only by a fault, or because the browser is gone.
Raises == \/ Fault
          \/ ~ Alive(Target) /\ UNCHANGED faults

\* Mutant: only a start removes the sessions nobody uses.
AcquireLazily(op, s) ==
  /\ lock = None
  /\ op = "start" <=> context[s] = "none"
  /\ lock' = [op |-> op, s |-> s, at |-> IF op = "stop" THEN "stop" ELSE "expire",
              expired |-> IF op = "start" THEN stale \cap table ELSE {}]
  /\ UNCHANGED <<table, context, stale, pages, faults>>

\* Whoever asks, through a proxy of control-api or not: a proxy that gives up
\* leaves the handler running.
Acquire(op, s) ==
  /\ lock = None
  /\ op = "start" <=> context[s] = "none"
  /\ lock' = [op |-> op, s |-> s, at |-> IF op = "stop" THEN "stop" ELSE "expire",
              expired |-> IF op = "stop" THEN {} ELSE stale \cap table]
  /\ UNCHANGED <<table, context, stale, pages, faults>>

\* The session leaves the table before its context is closed; a close that raises
\* ends the handler, whoever it works for.
Expire ==
  /\ HoldsAt("expire")
  /\ \E x \in lock.expired :
       /\ table' = table \ {x}
       /\ \/ Close(x) /\ lock' = [lock EXCEPT !.expired = @ \ {x}] /\ UNCHANGED faults
          \/ Leave /\ Fault /\ UNCHANGED <<context, pages>>
  /\ UNCHANGED stale

Stop ==
  /\ HoldsAt("stop")
  /\ table' = table \ {Target}
  /\ IF Target \in table
       THEN \/ Close(Target) /\ UNCHANGED faults
            \/ Fault /\ UNCHANGED <<context, pages>>
       ELSE UNCHANGED <<context, pages, faults>>
  /\ Leave
  /\ UNCHANGED stale

\* Mutant: the limit is not the number of sessions but one more.
LimitedLoosely ==
  /\ Holds("start", "expire")
  /\ lock.expired = {}
  /\ IF Cardinality(table) > MaxSessions
       THEN Leave /\ UNCHANGED context
       ELSE GoTo("setup") /\ context' = [context EXCEPT ![Target] = "open"]
  /\ UNCHANGED <<table, stale, pages, faults>>

\* 429, or a context in a browser that is launched again if it is gone.
NewContext ==
  /\ Holds("start", "expire")
  /\ lock.expired = {}
  /\ IF Cardinality(table) >= MaxSessions
       THEN Leave /\ UNCHANGED context
       ELSE GoTo("setup") /\ context' = [context EXCEPT ![Target] = "open"]
  /\ UNCHANGED <<table, stale, pages, faults>>

\* The page, its routes, callbacks and bindings; only then is the session
\* registered, and nothing closes the context of one that was not.
Register ==
  /\ Holds("start", "setup")
  /\ \/ table' = table \cup {Target} /\ GoTo("goto") /\ UNCHANGED faults
     \/ Raises /\ Leave /\ UNCHANGED table
  /\ UNCHANGED <<context, stale, pages>>

\* A timeout is no failure: the snapshot shows what has been loaded.
Goto ==
  /\ HoldsAt("goto")
  /\ \/ GoTo("snapshot") /\ UNCHANGED faults
     \/ Raises /\ IF lock.op = "start" THEN GoTo("abandon") ELSE Leave
  /\ UNCHANGED <<table, context, stale, pages>>

\* start's except branch: close, then forget; a close that raises leaves the
\* session in the table.
Abandon ==
  /\ HoldsAt("abandon")
  /\ \/ Close(Target) /\ table' = table \ {Target} /\ UNCHANGED faults
     \/ Fault /\ UNCHANGED <<context, pages, table>>
  /\ Leave
  /\ UNCHANGED stale

\* 404, or the first step of the operation.
FirstStep(op) ==
  CASE op = "get" -> "snapshot"
    [] op = "navigate" -> "goto"
    [] op = "authenticate" -> "check"
    [] op \in {"interact", "source"} -> op

Lookup ==
  /\ HoldsAt("expire")
  /\ lock.op # "start"
  /\ lock.expired = {}
  /\ IF Target \in table THEN GoTo(FirstStep(lock.op)) ELSE Leave
  /\ UNCHANGED <<table, context, stale, pages, faults>>

\* guided_snapshot marks the session as used; one that raises ends the handler, and
\* for a start that did not time out its session as well.
Snapshot ==
  /\ HoldsAt("snapshot")
  /\ \/ Alive(Target) /\ Touch(Target) /\ Leave /\ UNCHANGED faults
     \/ /\ Raises
        /\ Leave \/ (lock.op = "start" /\ GoTo("abandon"))
        /\ UNCHANGED stale
  /\ UNCHANGED <<table, context, pages>>

\* select, focus, activate, probe-input, select-at, click-at, type: the element is
\* looked at, refused, or acted upon; some answer with a snapshot.
Interact ==
  /\ HoldsAt("interact")
  /\ \/ Alive(Target) /\ Touch(Target) /\ (Leave \/ GoTo("snapshot")) /\ UNCHANGED faults
     \/ Leave /\ UNCHANGED <<stale, faults>>
  /\ UNCHANGED <<table, context, pages>>

\* guided_candidate_source only reads.
Source ==
  /\ HoldsAt("source")
  /\ Leave
  /\ UNCHANGED <<table, context, stale, pages, faults>>

-----------------------------------------------------------------------------
(* authenticate_guided_session *)

Set(s, a) == auth' = [auth EXCEPT ![s] = a]
Session == auth[Target]
OnlyAuth == UNCHANGED <<table, context, seq, sent, shifted, login>>

\* One attempt per session; HTTPS, three controls of one form and its target.
Begin ==
  /\ HoldsAt("check")
  /\ \/ /\ ~ Session.attempted
        /\ Alive(Target)
        /\ Set(Target, [Session EXCEPT !.attempted = TRUE, !.pending = TRUE, !.used = FALSE,
                                       !.status = None, !.result = "attempt-started"])
        /\ Touch(Target)
        /\ GoTo("submit")
     \/ Leave /\ UNCHANGED <<auth, stale>>
  /\ UNCHANGED faults
  /\ OnlyAuth

\* Filling the controls and clicking; a click that times out is waited for.
Submitted ==
  /\ HoldsAt("submit")
  /\ GoTo("wait")
  /\ UNCHANGED <<auth, stale, faults>>
  /\ OnlyAuth

\* Mutant: the except branches do not withdraw the permission.
SubmitFailsPending ==
  /\ HoldsAt("submit")
  /\ Raises
  /\ Set(Target, [Session EXCEPT !.result = "login-attempt-failed"])
  /\ Leave
  /\ UNCHANGED stale
  /\ OnlyAuth

SubmitFails ==
  /\ HoldsAt("submit")
  /\ Raises
  /\ \E result \in {"login-controls-unavailable", "login-attempt-failed"} :
       Set(Target, [Session EXCEPT !.pending = FALSE, !.result = result])
  /\ Leave
  /\ UNCHANGED stale
  /\ OnlyAuth

\* The response event, or ten seconds; then the finally branch.
Settle ==
  /\ HoldsAt("wait")
  /\ Set(Target, [Session EXCEPT !.pending = FALSE])
  /\ GoTo("judge")
  /\ UNCHANGED <<stale, faults>>
  /\ OnlyAuth

\* Mutant: a status is expected only of logins that were not refused by the guard.
OutcomesByStatus(a) ==
  CASE a.status = "error"                 -> {<<"login-rejected-or-error", "anonymous">>}
    [] a.status = None                    -> {<<"login-post-not-observed", "anonymous">>}
    [] OTHER -> {<<"login-submitted-unconfirmed", "unknown">>,
                 <<"likely-authenticated", "role-specific">>}

\* A response below 400 counts as a login unless a password field is visible.
Outcomes(a) ==
  CASE ~ a.used                           -> {<<"login-post-not-observed", "anonymous">>}
    [] a.used /\ a.status = None          -> {<<"login-response-unobserved", "unknown">>}
    [] a.used /\ a.status = "error"       -> {<<"login-rejected-or-error", "anonymous">>}
    [] OTHER -> {<<"login-submitted-unconfirmed", "unknown">>,
                 <<"likely-authenticated", "role-specific">>}

\* Mutant: everything the session saw is relabelled.
RelabelAll(s, state) ==
  [i \in DOMAIN seq[s] |-> [seq[s][i] EXCEPT !.label = state]]

\* network_sequence[auth_sequence_start:]
Relabel(s, state) ==
  [i \in DOMAIN seq[s] |->
    IF auth[s].start # None /\ i > auth[s].start
      THEN [seq[s][i] EXCEPT !.label = state] ELSE seq[s][i]]

Judge ==
  /\ HoldsAt("judge")
  /\ \E o \in Outcomes(Session) :
       /\ Set(Target, [Session EXCEPT !.result = o[1], !.state = o[2]])
       /\ seq' = [seq EXCEPT ![Target] = Relabel(Target, o[2])]
  /\ Touch(Target)
  /\ GoTo("snapshot")
  /\ UNCHANGED <<table, context, sent, shifted, login, faults>>

-----------------------------------------------------------------------------
(* The browser. *)

Awaiting(s) == lock # None /\ lock.s = s /\ lock.at \in {"submit", "wait", "judge"}

\* record_request keeps the last MaxEvents requests with the label of the moment.
Get(s) ==
  /\ s \in table /\ Alive(s)
  /\ sent < MaxRequests
  /\ LET all == Append(seq[s], [after |-> auth[s].used, label |-> auth[s].state])
         cut == Len(all) > MaxEvents
     IN /\ seq' = [seq EXCEPT ![s] = IF cut THEN Tail(all) ELSE all]
        /\ shifted' = IF cut /\ auth[s].used /\ Awaiting(s) THEN shifted \cup {s} ELSE shifted
  /\ sent' = sent + 1
  /\ UNCHANGED <<table, context, stale, auth, login, lock, faults>>

\* guard_guided_route: a page, a late click or a script posts to the login target.
\* Everything but the one permitted POST is aborted.
Post(s) ==
  /\ Alive(s)
  /\ auth[s].pending /\ ~ auth[s].used
  /\ Set(s, [auth[s] EXCEPT !.pending = FALSE, !.used = TRUE, !.start = Len(seq[s])])
  /\ login' = [login EXCEPT ![s].posts = @ + 1]
  /\ UNCHANGED <<table, context, stale, seq, sent, shifted, lock, faults>>

\* record_response, also long after the handler has given up waiting.
Respond(s) ==
  /\ Alive(s)
  /\ login[s].posts > 0 /\ login[s].answer = None
  /\ \E status \in {"ok", "error"} :
       /\ login' = [login EXCEPT ![s].answer = status]
       /\ Set(s, [auth[s] EXCEPT !.status = status])
  /\ UNCHANGED <<table, context, stale, seq, sent, shifted, lock, faults>>

\* The browser process dies and takes its contexts with it.
Crash ==
  /\ Fault
  /\ \E s \in Sessions : Alive(s)
  /\ context' = [s \in Sessions |-> IF Alive(s) THEN "closed" ELSE context[s]]
  /\ UNCHANGED <<table, stale, pages, lock>>

\* Fifteen minutes without a use; a handler takes less.
GoesStale(s) ==
  /\ s \in table \ stale
  /\ lock # None => lock.s # s
  /\ stale' = stale \cup {s}
  /\ UNCHANGED <<table, context, pages, lock, faults>>

Handler ==
  \/ Expire \/ Stop \/ NewContext \/ Register \/ Goto \/ Abandon
  \/ Lookup \/ Snapshot \/ Interact \/ Source
  \/ Begin \/ Submitted \/ SubmitFails \/ Settle \/ Judge

Next ==
  \/ \E op \in Operations : \E s \in Sessions : Acquire(op, s)
  \/ Handler
  \/ \E s \in Sessions : Get(s) \/ Post(s) \/ Respond(s) \/ GoesStale(s)
  \/ Crash

\* Every browser call of a handler has a timeout, so a handler goes on.
Spec == Init /\ [][Next]_vars /\ WF_vars(Handler)

-----------------------------------------------------------------------------
\* A session sends at most one login POST in its life, and only while an operator's
\* authorised attempt is under way in it, however late the page's click or a script
\* posts (guard_guided_route, authenticate_guided_session).
OneLoginPost ==
  [][\A s \in Sessions :
       login'[s].posts > login[s].posts =>
         /\ login[s].posts = 0
         /\ lock # None /\ lock.op = "authenticate" /\ lock.s = s]_vars

\* What an attempt reports is what the browser did, then and for good: a login that
\* was reported as not sent is never sent later, and one that was reported as
\* accepted or rejected was answered so (authenticate_guided_session).
ReportedLogin ==
  \A s \in Sessions :
    LET r == auth[s].result IN
    /\ r \in {"not-attempted", "login-post-not-observed"} => login[s].posts = 0
    /\ r = "login-response-unobserved" => login[s].posts = 1
    /\ r = "login-rejected-or-error" => login[s].answer = "error"
    /\ r \in {"login-submitted-unconfirmed", "likely-authenticated"} =>
         login[s].answer = "ok"

\* The label of a request says whether it was seen before the login: none seen
\* before it is ever passed off as authenticated, and all that were seen after it
\* have the state of the session once the handler is done, unless the sequence was
\* cut while the login was awaited (Relabel, record_request).
LabelsFollowLogin ==
  \A s \in Sessions :
    \A i \in DOMAIN seq[s] :
      /\ ~ seq[s][i].after => seq[s][i].label = "anonymous"
      /\ (seq[s][i].after /\ ~ Awaiting(s) /\ s \notin shifted) =>
           seq[s][i].label = auth[s].state

\* Browser contexts do not pile up: beyond the limit there is one at most for every
\* call that raised, and one that is in nobody's table and nobody's hands is such
\* (start_guided_session, expire_guided_sessions, stop_guided_session).
ContextsBounded ==
  LET open == {s \in Sessions : Alive(s)}
      inHand == IF lock # None /\ lock.op = "start" THEN {Target} ELSE {}
  IN /\ Cardinality(open \cup table) <= MaxSessions + faults
     /\ Cardinality(open \ (table \cup inHand)) <= faults

\* As long as requests other than stop keep coming, a session nobody uses is
\* removed, although a close that raises ends the handler that was removing it.
StaleSessionsLeave ==
  \A s \in Sessions : []<>HoldsAt("expire") => (s \in stale \cap table ~> s \notin table)
=============================================================================
