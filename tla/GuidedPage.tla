---------------------------- MODULE GuidedPage ----------------------------
(***************************************************************************)
(* What the handlers of a guided browser session do to its page, and what   *)
(* they record of it.  A handler looks at an element and decides, then it    *)
(* clicks, fills or types, and at last it correlates the requests that left  *)
(* since with the interaction.  These are separate calls to the browser: the *)
(* scripts of the page run between any two of them, replace elements, move   *)
(* the focus, raise events, send requests and try to submit forms.           *)
(*                                                                          *)
(* browser_lab_lock makes the handlers one process (GuidedSession has the    *)
(* sessions themselves), and the acts of that process are the clock: a time  *)
(* is the number of acts begun so far, a request is "soon" when it started   *)
(* within GUIDED_CORRELATION_WINDOW_SECONDS of the act.                      *)
(*                                                                          *)
(* select and select-at copy the metadata of an element and are left out.    *)
(***************************************************************************)
EXTENDS Naturals, Sequences, SequencesExt, FiniteSetsExt

CONSTANTS
  Elements,   \* what a page may show, see Element
  Pages,      \* documents: sequences of elements
  MaxEvents,  \* MAX_INTERACTION_EVENTS
  MaxActs,    \* bound on what the operator asks for
  MaxKeys,    \* bound on the keys of one text
  MaxScript,  \* bound on what scripts do besides sending requests
  MaxSent,    \* bound on requests, below MAX_NETWORK_EVENTS and the 20 of a correlation
  None

Shapes == {"text", "editor", "password", "choice", "range", "file", "submit", "button",
           "rolebutton", "link", "widget"}

\* secret: SENSITIVE_FIELD_NAME_RE matches its name, id or autocomplete ("named"),
\* or only its label or placeholder ("labelled"); opens: its target is another
\* window; href: where a link leads; form: it belongs to a form.
Element == [shape : Shapes, secret : {"no", "named", "labelled"},
            off : {"no", "disabled", "readonly"}, opens : BOOLEAN,
            href : {"none", "in", "out", "credentials"}, form : BOOLEAN, filled : BOOLEAN]

\* A handler that holds the lock: the element it looked at, its place and its time.
Job == [op : {"focus", "activate", "probe", "click", "type", "login"},
        step : {"act", "conclude"}, place : Nat, el : Element \cup {None}, at : Nat,
        keys : Nat, moved : BOOLEAN]

ASSUME PageAssumption == /\ Elements \subseteq Element
                         /\ \A p \in Pages : p \in Seq(Elements)
                         /\ None \notin Job

VARIABLES
  page,       \* the elements of the document, in its order
  focus,      \* the place of the focused element, or 0
  armed,      \* window.__wafAuthSubmitArmed
  browse,     \* browse_focus
  events,     \* interaction_events
  sent,       \* network_sequence
  job,        \* the handler that holds the lock
  acts,       \* acts begun: the clock
  attempted,  \* auth_attempt_count
  scripted,   \* what scripts did so far
  reached,    \* history: what the last click, key or probe of the lab reached
  submitted   \* history: forms submitted

vars == <<page, focus, armed, browse, events, sent, job, acts, attempted, scripted, reached,
          submitted>>

Init ==
  /\ page \in Pages
  /\ focus = 0
  /\ armed = FALSE
  /\ browse = None
  /\ events = <<>>
  /\ sent = <<>>
  /\ job = None
  /\ acts = 0
  /\ attempted = FALSE
  /\ scripted = 0
  /\ reached = None
  /\ submitted = 0

-----------------------------------------------------------------------------
(* Decisions about an element. *)

\* field_is_sensitive
Sensitive(e) == e.shape = "password" \/ e.secret # "no"

\* classify_manual_browse_target, in its order.
Classify(e) ==
  IF e.off = "disabled" THEN "disabled"
  ELSE IF e.opens THEN "new-window"
  ELSE CASE e.shape \in {"file", "submit"} -> e.shape
         [] e.shape = "link" /\ e.href = "credentials"   -> "credentials-in-url"
         [] e.shape = "link" /\ e.href = "out"           -> "out-of-scope"
         [] e.shape = "link" /\ e.href \in {"none", "in"} -> "link"
         [] e.shape = "range"  -> "unsupported-input"
         [] e.shape = "widget" -> "page"
         [] e.shape \in {"text", "editor", "password", "choice"} -> "field"
         [] e.shape \in {"button", "rolebutton"}                 -> "button"

Clickable(e) == Classify(e) \in {"link", "field", "button", "page"}

Typeable(e) ==
  /\ Classify(e) = "field"
  /\ ~ Sensitive(e)
  /\ e.shape \in {"text", "editor"}

\* The credentials in the URL of a link are not looked for here.
Activatable(e) ==
  /\ e.off # "disabled" /\ ~ e.opens
  /\ \/ e.shape = "link" /\ e.href # "out"
     \/ e.shape = "button"
     \/ e.shape = "rolebutton" /\ ~ e.form

\* A field whose label or placeholder alone is sensitive is probed.
Probeable(e) ==
  /\ e.shape = "text" /\ e.off = "no"
  /\ ~ e.filled
  /\ e.secret # "named"

\* Mutant: the text is typed if the field that was clicked last could be typed into.
PermitsByBrowse(op, e) ==
  CASE op = "focus"    -> e.off # "disabled"
    [] op = "activate" -> Activatable(e)
    [] op = "probe"    -> Probeable(e)
    [] op = "click"    -> Clickable(e)
    [] op = "type"     -> browse = "typeable"

Permits(op, e) ==
  CASE op = "focus"    -> e.off # "disabled"
    [] op = "activate" -> Activatable(e)
    [] op = "probe"    -> Probeable(e)
    [] op = "click"    -> Clickable(e)
    [] op = "type"     -> Typeable(e) /\ e.off = "no"

-----------------------------------------------------------------------------
(* Interactions and requests. *)

Recorded(evs) == IF Len(evs) > MaxEvents THEN Tail(evs) ELSE evs

Event(type, time) == [type |-> type, at |-> time, links |-> {}]

\* correlate_focus_to_requests: what left since the act began, and soon enough;
\* a document only when a click or a key may have loaded it.
Correlated ==
  {n \in DOMAIN sent : /\ sent[n].at >= job.at
                       /\ sent[n].soon
                       /\ sent[n].doc => job.op \in {"activate", "click", "type"}}

\* The type of the interaction that an operation is recorded as.
TypeOf(j) ==
  CASE j.op = "activate"           -> "click"
    [] j.op \in {"probe", "type"}  -> "input"
    [] j.op = "click"              -> IF Classify(j.el) = "field" THEN "focus" ELSE "click"
    [] j.op = "focus"              -> "focus"

\* Mutant: the last interaction of the type is taken, whenever it was.
CandidatesEver(j) == {i \in DOMAIN events : events[i].type = TypeOf(j)}

\* Interactions of its type since the act began, whichever element raised them.
Candidates(j) == {i \in DOMAIN events : events[i].type = TypeOf(j) /\ events[i].at >= j.at}

\* An interaction a script raised gets the links of the act; otherwise the act gets
\* one of its own.  A typed text always does, and a focus had its own before, which
\* is lost if it has been cut off since.
WithLinks ==
  LET found == Candidates(job)
      own == [Event(TypeOf(job), job.at) EXCEPT !.links = Correlated]
  IN CASE job.op # "type" /\ found # {} -> [events EXCEPT ![Max(found)].links = Correlated]
       [] job.op = "focus" /\ found = {} -> events
       [] OTHER                          -> Recorded(Append(events, own))

-----------------------------------------------------------------------------
(* The handlers. *)

Idle == job = None
At(step) == job # None /\ job.step = step
GoTo(step) == job' = [job EXCEPT !.step = step]
Leave == job' = None
Reach(e) == reached' = [op |-> job.op, el |-> e, moved |-> job.moved]

\* The element is evaluated and the act permitted; a refusal (404, 422) does
\* nothing.  The time of the act is taken here, before the browser is asked.
Look(op, i) ==
  /\ Idle
  /\ acts < MaxActs
  /\ i \in DOMAIN page
  /\ op \in {"focus", "activate", "probe"} => page[i].shape # "widget"
  /\ op = "type" => i = focus
  /\ Permits(op, page[i])
  /\ acts' = acts + 1
  /\ job' = [op |-> op, step |-> "act", place |-> i, el |-> page[i], at |-> acts + 1,
             keys |-> 0, moved |-> FALSE]
  /\ events' = IF op = "focus"
                 THEN Recorded(Append(events, Event("focus", acts + 1)))
                 ELSE events
  /\ UNCHANGED <<page, focus, armed, browse, sent, scripted, reached, submitted, attempted>>

\* The browser refuses or the call times out: 422 or 502, nothing more is recorded.
Miss ==
  /\ At("act") /\ job.op # "login"
  /\ Leave
  /\ UNCHANGED <<page, focus, armed, browse, events, sent, acts, scripted, reached, submitted, attempted>>

Takes(e) == e.shape \in {"text", "editor", "password", "choice", "link", "button"} /\ e.off # "disabled"

\* items.nth(element_index) and the point of the screenshot are found anew.
Focus ==
  /\ At("act") /\ job.op = "focus"
  /\ job.place \in DOMAIN page
  /\ focus' = IF Takes(page[job.place]) THEN job.place ELSE focus
  /\ GoTo("conclude")
  /\ UNCHANGED <<page, armed, browse, events, sent, acts, scripted, reached, submitted, attempted>>

Click ==
  /\ At("act") /\ job.op \in {"activate", "click"}
  /\ job.place \in DOMAIN page
  /\ Reach(page[job.place])
  /\ focus' = IF Takes(page[job.place]) THEN job.place ELSE 0
  /\ GoTo("conclude")
  /\ UNCHANGED <<page, armed, browse, events, sent, acts, scripted, submitted, attempted>>

Fill ==
  /\ At("act") /\ job.op = "probe"
  /\ job.place \in DOMAIN page
  /\ page[job.place].shape \in {"text", "editor", "password"} /\ page[job.place].off = "no"
  /\ Reach(page[job.place])
  /\ page' = [page EXCEPT ![job.place].filled = TRUE]
  /\ focus' = job.place
  /\ GoTo("conclude")
  /\ UNCHANGED <<armed, browse, events, sent, acts, scripted, submitted, attempted>>

\* keyboard.type sends key after key to whatever has the focus by then.
Key ==
  /\ At("act") /\ job.op = "type"
  /\ job.keys < MaxKeys
  /\ IF focus # 0
       THEN Reach(page[focus]) /\ page' = [page EXCEPT ![focus].filled = TRUE]
       ELSE UNCHANGED <<reached, page>>
  /\ \E step \in {"act", "conclude"} :
       job' = [job EXCEPT !.keys = @ + 1, !.step = step]
  /\ UNCHANGED <<focus, armed, browse, events, sent, acts, scripted, submitted, attempted>>

Typing(e) == IF Typeable(e) THEN "typeable" ELSE "not typeable"

\* The focus is evaluated once more after a click, then everything is recorded.
Conclude ==
  /\ At("conclude")
  /\ LET field(e) == Classify(e) = "field"
         now == IF focus # 0 THEN page[focus] ELSE job.el
     IN browse' = CASE job.op = "click" -> IF field(job.el) \/ field(now) THEN Typing(now) ELSE None
                    [] job.op = "type"  -> "typeable"
                    [] OTHER            -> browse
  /\ events' = WithLinks
  /\ Leave
  /\ UNCHANGED <<page, focus, armed, sent, acts, scripted, reached, submitted, attempted>>

\* authenticate_guided_session, once in the life of a session: the page is armed
\* for one submission, the login control is clicked and the answer awaited.
Arm ==
  /\ Idle
  /\ acts < MaxActs
  /\ ~ attempted
  /\ attempted' = TRUE
  /\ acts' = acts + 1
  /\ armed' = TRUE
  /\ job' = [op |-> "login", step |-> "act", place |-> 0, el |-> None, at |-> acts + 1,
             keys |-> 0, moved |-> FALSE]
  /\ UNCHANGED <<page, focus, browse, events, sent, scripted, reached, submitted>>

\* Mutant: only a submission disarms the page.
DisarmNever ==
  /\ At("act") /\ job.op = "login"
  /\ Leave
  /\ UNCHANGED <<page, focus, armed, browse, events, sent, acts, scripted, reached, submitted, attempted>>

\* The finally branch.  It fails only on a document that is gone, and its successor
\* is not armed.
Disarm ==
  /\ At("act") /\ job.op = "login"
  /\ armed' = FALSE
  /\ Leave
  /\ UNCHANGED <<page, focus, browse, events, sent, acts, scripted, reached, submitted, attempted>>

-----------------------------------------------------------------------------
(* The page, which does not know of the lab's variables. *)

Script == scripted < MaxScript /\ scripted' = scripted + 1
Moved == IF job # None THEN [job EXCEPT !.moved = TRUE] ELSE None

Replace(i, e) ==
  /\ Script
  /\ i \in DOMAIN page
  /\ page' = [page EXCEPT ![i] = e]
  /\ focus' = IF focus = i THEN 0 ELSE focus
  /\ job' = Moved
  /\ UNCHANGED <<armed, browse, events, sent, acts, reached, submitted, attempted>>

MoveFocus(i) ==
  /\ Script
  /\ i \in DOMAIN page /\ Takes(page[i])
  /\ focus' = i
  /\ job' = Moved
  /\ UNCHANGED <<page, armed, browse, events, sent, acts, reached, submitted, attempted>>

\* The init script runs in every document.
Load(p) ==
  /\ Script
  /\ page' = p
  /\ focus' = 0
  /\ armed' = FALSE
  /\ job' = Moved
  /\ UNCHANGED <<browse, events, sent, acts, reached, submitted, attempted>>

\* The listeners of the init script and record_dom_event; what has no control or
\* form around it is not recorded.
Raise(type, i) ==
  /\ Script
  /\ i \in DOMAIN page /\ page[i].shape # "widget"
  /\ events' = Recorded(Append(events, Event(type, acts)))
  /\ UNCHANGED <<page, focus, armed, browse, sent, job, acts, reached, submitted, attempted>>

\* A submit control, Enter, submit() or requestSubmit(): prevented unless armed.
Submit ==
  /\ Script
  /\ IF armed
       THEN armed' = FALSE /\ submitted' = submitted + 1
       ELSE UNCHANGED <<armed, submitted>>
  /\ UNCHANGED <<page, focus, browse, events, sent, job, acts, reached, attempted>>

\* record_request
Request(doc, soon) ==
  /\ Len(sent) < MaxSent
  /\ sent' = Append(sent, [at |-> acts, doc |-> doc, soon |-> soon])
  /\ UNCHANGED <<page, focus, armed, browse, events, job, acts, scripted, reached, submitted, attempted>>

Handler ==
  \/ \E i \in DOMAIN page : \E op \in {"focus", "activate", "probe", "click", "type"} :
       Look(op, i)
  \/ Miss \/ Focus \/ Click \/ Fill \/ Key \/ Conclude \/ Arm \/ Disarm

Browser ==
  \/ \E i \in DOMAIN page : \/ \E e \in Elements : Replace(i, e)
                            \/ MoveFocus(i)
                            \/ \E type \in {"click", "input"} : Raise(type, i)
  \/ \E p \in Pages : Load(p)
  \/ Submit
  \/ \E doc, soon \in BOOLEAN : Request(doc, soon)

Next == Handler \/ Browser

Spec == Init /\ [][Next]_vars

-----------------------------------------------------------------------------
\* What the lab never does to an element, as the capture policies and the README
\* have it, apart from how the decisions are made.
Forbidden(op, e) ==
  \/ e.off = "disabled"
  \/ op \in {"activate", "click"} /\ (e.shape \in {"submit", "file"} \/ e.opens)
  \/ op \in {"activate", "click"} /\ e.shape = "link" /\ e.href = "out"
  \/ op = "type" /\ (e.off = "readonly" \/ e.shape = "password" \/ e.secret # "no")
  \/ op = "probe" /\ (e.off = "readonly" \/ e.shape = "password" \/ e.secret = "named" \/ e.filled)

\* A click, a key or a probe reaches what it must not only when the page was changed
\* between the look and the act: nothing that was seen at an earlier call decides
\* (type_into_focused_field, click_guided_point, probe_guided_input).
ReachedAsChecked ==
  reached # None /\ Forbidden(reached.op, reached.el) => reached.moved

\* Whatever scripts, Enter keys and late clicks do, a form of the page is submitted
\* only while the operator's login attempt is under way, and one only (the submit
\* listener of the init script, __wafAuthSubmitArmed).
FormsStay ==
  [][submitted' # submitted => /\ submitted' = 1
                               /\ job # None /\ job.op = "login"]_vars

\* The requests an interaction is linked with left during the act in which the
\* interaction happened; no interaction is credited with the requests of a later
\* one (correlate_focus_to_requests, the searches in interaction_events).
LinkedInItsAct ==
  \A i \in DOMAIN events : \A n \in events[i].links : sent[n].at = events[i].at
=============================================================================
