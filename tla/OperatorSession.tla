-------------------------- MODULE OperatorSession --------------------------
(***************************************************************************)
(* The login of the one operator and the sessions it starts.  Attempts are  *)
(* counted per peer in the memory of control-api; a session is a signed     *)
(* cookie that nothing on the server remembers, so it outlives a restart    *)
(* and ends with its time or with the key it was signed with.               *)
(*                                                                          *)
(* The tabs of one browser share the cookie; each remembers the CSRF token  *)
(* of the login or of the session it last asked for.  A handler that does   *)
(* not await runs alone in the event loop of control-api: login is atomic.  *)
(***************************************************************************)
EXTENDS Integers, FiniteSets

CONSTANTS
  Tabs,         \* the tabs of the operator's browser
  Peers,        \* the addresses attempts come from
  Limit,        \* attempts a peer has in a window: 5
  Window,       \* its length: a minute
  TTL,          \* SESSION_TTL_SECONDS
  MaxTime,      \* bound on the clock
  MaxLogins,    \* bound on the sessions
  MaxRestarts,  \* bound on restarts and on changes of the configuration
  None

ASSUME SessionAssumption ==
  /\ Limit \in Nat \ {0} /\ Window \in Nat \ {0} /\ TTL \in Nat \ {0}
  /\ MaxTime \in Nat /\ MaxLogins \in Nat /\ MaxRestarts \in Nat
  /\ None \notin 1..MaxLogins

VARIABLES
  now,        \* the clock
  attempts,   \* login_attempts
  checks,     \* the attempts whose passwords were compared, since a peer's last success
  configured, \* whether username, password and key can be read
  key,        \* the key in WAF_SESSION_SECRET_FILE
  logins,     \* sessions so far; each has its own CSRF token
  cookie,     \* the cookie of the browser
  csrf,       \* the CSRF token a tab knows
  restarts

sessionVars == <<now, attempts, checks, configured, key, logins, cookie, csrf, restarts>>

\* Mutant: the window is a tick too short.
RecentShort(p) == {a \in attempts[p] : now - a.at < Window - 1}

\* What operator_login still counts of a peer.
Recent(p) == {a \in attempts[p] : now - a.at < Window}

\* The attempt made now: what the list holds is its time, the number tells it from the
\* others of the same time.
Attempt(p) == [at |-> now, nth |-> Cardinality(Recent(p))]

\* Mutant: the end of the session is not looked at.
VerifiedForever(c) == c # None /\ configured /\ c.key = key

\* verify_session: the signature, then the times; iat is never ahead of this clock.
Verified(c) == c # None /\ configured /\ c.key = key /\ now < c.exp

\* require_operator_session.
MayRead == Verified(cookie)
MayChange(t) == Verified(cookie) /\ csrf[t] = cookie.csrf

Refused(p) == Cardinality(Recent(p)) >= Limit

SessionInit ==
  /\ now = 0
  /\ attempts = [p \in Peers |-> {}]
  /\ checks = [p \in Peers |-> {}]
  /\ configured = TRUE
  /\ key = 0
  /\ logins = 0
  /\ cookie = None
  /\ csrf = [t \in Tabs |-> None]
  /\ restarts = 0

\* 429: a refused attempt is not counted and changes nothing.
LoginRefused(p) ==
  /\ Refused(p)
  /\ UNCHANGED sessionVars

\* The credentials cannot be read (503) or
\* are wrong (401), and the attempt stays counted.
LoginFails(p) ==
  /\ ~ Refused(p)
  /\ attempts' = [attempts EXCEPT ![p] = Recent(p) \cup {Attempt(p)}]
  /\ checks' = IF configured THEN [checks EXCEPT ![p] = @ \cup {Attempt(p)}] ELSE checks
  /\ UNCHANGED <<now, configured, key, logins, cookie, csrf, restarts>>

\* A success: the count of the peer starts again.
Login(t, p) ==
  /\ ~ Refused(p)
  /\ configured
  /\ logins < MaxLogins
  /\ attempts' = [attempts EXCEPT ![p] = {}]
  /\ checks' = [checks EXCEPT ![p] = {}]
  /\ logins' = logins + 1
  /\ cookie' = [csrf |-> logins', exp |-> now + TTL, key |-> key]
  /\ csrf' = [csrf EXCEPT ![t] = logins']
  /\ UNCHANGED <<now, configured, key, restarts>>

\* operator_session: a tab that is loaded asks who it is.
AskSession(t) ==
  /\ MayRead
  /\ csrf' = [csrf EXCEPT ![t] = cookie.csrf]
  /\ UNCHANGED <<now, attempts, checks, configured, key, logins, cookie, restarts>>

\* Only the cookie goes: logging out of an old tab needs its own login's token.
Logout(t) ==
  /\ MayChange(t)
  /\ cookie' = None
  /\ UNCHANGED <<now, attempts, checks, configured, key, logins, csrf, restarts>>

Tick ==
  /\ now < MaxTime
  /\ now' = now + 1
  /\ UNCHANGED <<attempts, checks, configured, key, logins, cookie, csrf, restarts>>

Restart ==
  /\ restarts < MaxRestarts
  /\ restarts' = restarts + 1
  /\ attempts' = [p \in Peers |-> {}]
  /\ checks' = [p \in Peers |-> {}]
  /\ UNCHANGED <<now, configured, key, logins, cookie, csrf>>

\* The secret files are replaced, removed or put back; they are read at every use.
Configure ==
  /\ restarts < MaxRestarts
  /\ restarts' = restarts + 1
  /\ \/ key' = key + 1 /\ UNCHANGED configured
     \/ configured' = ~ configured /\ UNCHANGED key
  /\ UNCHANGED <<now, attempts, checks, logins, cookie, csrf>>

SessionNext ==
  \/ \E p \in Peers : LoginRefused(p) \/ LoginFails(p)
  \/ \E t \in Tabs : \E p \in Peers : Login(t, p)
  \/ \E t \in Tabs : AskSession(t) \/ Logout(t)
  \/ Tick \/ Restart \/ Configure
=============================================================================
