-------------------------- MODULE GuidedPage_proofs --------------------------
(***************************************************************************)
(* The page of a guided session, for any documents, any number of acts,     *)
(* keys and requests, and scripts that do as much as they like: acts reach  *)
(* what was checked, forms stay, and links belong to their acts.            *)
(***************************************************************************)
EXTENDS GuidedPage, WellFoundedInduction, TLAPS

Requests == [at : Nat, doc : BOOLEAN, soon : BOOLEAN]

Typed ==
  /\ page \in Seq(Element)
  /\ focus \in 0..Len(page)
  /\ job \in {None} \cup Job
  /\ acts \in Nat
  /\ armed \in BOOLEAN
  /\ attempted \in BOOLEAN

\* The page is armed only while the one login attempt is under way, and before the
\* one submission it allows.
ArmedByLogin ==
  /\ armed => job # None /\ job.op = "login" /\ attempted /\ submitted = 0
  /\ ~ attempted => submitted = 0

\* Until a script moves something, the element of the act is the one that was looked
\* at, but for what the act itself has typed into it.
StillThere(j) ==
  /\ j.place \in DOMAIN page
  /\ page[j.place] = [j.el EXCEPT !.filled = page[j.place].filled]
  /\ j.op # "type" => page[j.place] = j.el
  /\ j.op = "type" => focus = j.place

LookedAt ==
  job # None => \/ job.op = "login" /\ job.step = "act"
                \/ /\ job.op # "login" /\ job.el \in Element
                   /\ Permits(job.op, job.el)
                   /\ (job.step = "act" /\ ~ job.moved) => StillThere(job)

\* The interactions that LinkedInItsAct allows.
Linked == {e \in [type : {"click", "input", "focus"}, at : 0..acts, links : SUBSET (DOMAIN sent)] :
             \A n \in e.links : sent[n].at = e.at}

\* Whatever was recorded has a time that is past; the act of the handler is the last.
Dated ==
  /\ job # None => job.at = acts
  /\ sent \in Seq(Requests)
  /\ \A n \in DOMAIN sent : sent[n].at <= acts
  /\ events \in Seq(Linked)

IInv == Typed /\ ArmedByLogin /\ LookedAt /\ Dated /\ ReachedAsChecked

USE PageAssumption DEF PageAssumption

-----------------------------------------------------------------------------
(* Lemmas about the operators. *)

\* What is permitted of an element is not forbidden, with whatever it is filled.
LEMMA PermittedIsAllowed ==
  ASSUME NEW e \in Element, NEW f \in BOOLEAN,
         NEW op \in {"activate", "probe", "click", "type"},
         Permits(op, e), op # "type" => f = e.filled
  PROVE  ~ Forbidden(op, [e EXCEPT !.filled = f])
<1> DEFINE g == [e EXCEPT !.filled = f]
<1>1. /\ g.shape = e.shape /\ g.secret = e.secret /\ g.off = e.off /\ g.opens = e.opens
      /\ g.href = e.href /\ g.form = e.form /\ g.filled = f
  BY DEF Element
<1> HIDE DEF g
<1>2. CASE op = "activate"
  <2>1. Activatable(e)
    BY <1>2 DEF Permits
  <2> QED BY <1>1, <1>2, <2>1 DEF Activatable, Forbidden
<1>3. CASE op = "probe"
  <2>1. Probeable(e) /\ f = e.filled
    BY <1>3 DEF Permits
  <2> QED BY <1>1, <1>3, <2>1 DEF Probeable, Forbidden
<1>4. CASE op = "click"
  <2>1. Clickable(e)
    BY <1>4 DEF Permits
  <2>2. e.off # "disabled" /\ ~ e.opens /\ e.shape \notin {"file", "submit"}
    BY <2>1 DEF Clickable, Classify
  <2>3. e.href # "out" \/ e.shape # "link"
    BY <2>1, <2>2 DEF Clickable, Classify
  <2> QED BY <1>1, <1>4, <2>2, <2>3 DEF Forbidden
<1>5. CASE op = "type"
  <2>1. Typeable(e) /\ e.off = "no"
    BY <1>5 DEF Permits
  <2>2. e.shape \in {"text", "editor"} /\ e.secret = "no"
    BY <2>1 DEF Typeable, Sensitive
  <2> QED BY <1>1, <1>5, <2>1, <2>2 DEF Forbidden
<1> QED BY <1>2, <1>3, <1>4, <1>5 DEF g

\* A set of places that is not empty has a last one.
LEMMA LastExists ==
  ASSUME NEW n \in Nat, NEW S \in SUBSET (1..n), S # {}
  PROVE  Max(S) \in S
<1> DEFINE R == {ss \in Nat \X Nat : ss[1] < ss[2]}
           T == {n - x : x \in S}
<1>1. IsWellFoundedOn(R, Nat)
  BY NatLessThanWellFounded DEF OpToRel
<1>2. T \subseteq Nat /\ T # {}
  <2>1. PICK x \in S : TRUE
    OBVIOUS
  <2>2. n - x \in T
    BY <2>1
  <2> QED BY <2>2
<1>3. PICK m \in T : \A k \in T : <<k, m>> \notin R
  BY <1>1, <1>2, WFMin
<1>4. PICK x \in S : m = n - x
  OBVIOUS
<1>5. \A y \in S : n - y \in T /\ y \in Int /\ x \in Int /\ n - y \in Nat /\ m \in Nat
  BY <1>2
<1>6. \A y \in S : ~ (n - y < m)
  BY <1>3, <1>5
<1>7. \A y \in S : x >= y
  BY <1>4, <1>5, <1>6
<1> QED BY <1>7 DEF Max

\* Cutting the oldest interaction off keeps what the others are.
LEMMA RecordedType ==
  ASSUME NEW S, NEW evs \in Seq(S), NEW e \in S
  PROVE  Recorded(Append(evs, e)) \in Seq(S)
<1>1. Append(evs, e) \in Seq(S) /\ Append(evs, e) # <<>>
  OBVIOUS
<1>2. Tail(Append(evs, e)) \in Seq(S)
  BY <1>1
<1> QED BY <1>1, <1>2 DEF Recorded

\* Time and requests only grow: what was linked stays so.
LEMMA LinkedGrows ==
  ASSUME Typed, Dated, acts' \in Nat, acts' >= acts,
         \/ UNCHANGED sent
         \/ \E r \in Requests : sent' = Append(sent, r)
  PROVE  /\ Linked \subseteq Linked'
         /\ events \in Seq(Linked')
<1>1. DOMAIN sent \subseteq DOMAIN sent' /\ \A n \in DOMAIN sent : sent'[n] = sent[n]
  BY DEF Dated
<1>2. 0..acts \subseteq 0..acts'
  BY DEF Typed
<1>3. Linked \subseteq Linked'
  BY <1>1, <1>2 DEF Linked
<1> QED BY <1>3 DEF Dated

\* What an act is linked with started during it.
LEMMA CorrelatedType ==
  ASSUME Typed, Dated, job # None, NEW type \in {"click", "input", "focus"}
  PROVE  [[type |-> type, at |-> acts, links |-> {}] EXCEPT !.links = Correlated] \in Linked
<1>1. Correlated \subseteq DOMAIN sent
  BY DEF Correlated
<1>2. \A n \in Correlated : sent[n].at = acts
  <2> TAKE n \in Correlated
  <2>1. n \in DOMAIN sent /\ sent[n].at >= acts /\ sent[n].at <= acts
    BY DEF Correlated, Dated
  <2>2. sent[n] \in Requests
    BY <2>1 DEF Dated
  <2>3. sent[n].at \in Nat /\ acts \in Nat
    BY <2>2 DEF Requests, Typed
  <2> QED BY <2>1, <2>3
<1>3. acts \in 0..acts
  BY DEF Typed
<1> QED BY <1>1, <1>2, <1>3 DEF Linked

\* Conclude links an interaction of this act, or adds one.
LEMMA WithLinksType ==
  ASSUME Typed, Dated, job # None, job.op # "login"
  PROVE  WithLinks \in Seq(Linked)
<1> DEFINE found == Candidates(job)
           own == [Event(TypeOf(job), job.at) EXCEPT !.links = Correlated]
<1>1. TypeOf(job) \in {"click", "input", "focus"}
  BY DEF TypeOf, Typed, Job
<1>2. own \in Linked
  BY <1>1, CorrelatedType DEF Event, Dated
<1>3. ASSUME found # {}
      PROVE  [events EXCEPT ![Max(found)].links = Correlated] \in Seq(Linked)
  <2>1. events \in Seq(Linked) /\ Len(events) \in Nat /\ DOMAIN events = 1..Len(events)
    BY DEF Dated
  <2>2. found \subseteq 1..Len(events)
    BY <2>1 DEF Candidates
  <2>3. Max(found) \in found
    BY <1>3, <2>1, <2>2, LastExists
  <2> DEFINE e == events[Max(found)]
  <2>4. e \in Linked /\ e.at >= acts /\ e.type = TypeOf(job)
    BY <2>1, <2>2, <2>3 DEF Candidates, Dated
  <2>5. e.at = acts
    BY <2>4 DEF Linked, Typed
  <2>6. [e EXCEPT !.links = Correlated] = own
    BY <2>4, <2>5 DEF Linked, Event, Dated
  <2> QED BY <2>1, <2>2, <2>3, <2>6, <1>2
<1>4. Recorded(Append(events, own)) \in Seq(Linked)
  BY <1>2, RecordedType DEF Dated
<1> QED BY <1>3, <1>4 DEF WithLinks, Dated
-----------------------------------------------------------------------------
(* The parts of the invariant, one after the other. *)

LEMMA InitIInv == Init => IInv
<1> SUFFICES ASSUME Init PROVE IInv
  OBVIOUS
<1>1. page \in Seq(Elements)
  BY DEF Init
<1>2. \A i \in 1..Len(page) : page[i] \in Element
  BY <1>1
<1>3. page \in Seq(Element)
  BY <1>1, <1>2
<1>4. Typed
  <2>1. 0 \in 0..Len(page)
    BY <1>3
  <2> QED BY <1>3, <2>1 DEF Init, Typed
<1>5. Dated
  BY DEF Init, Dated
<1>6. ArmedByLogin /\ LookedAt /\ ReachedAsChecked
  BY DEF Init, ArmedByLogin, LookedAt, ReachedAsChecked
<1> QED BY <1>4, <1>5, <1>6 DEF IInv

\* A handler whose element a script has moved is still that handler.
LEMMA MovedType ==
  ASSUME job \in {None} \cup Job
  PROVE  /\ Moved \in {None} \cup Job
         /\ job # None => /\ Moved # None
                          /\ Moved = [job EXCEPT !.moved = TRUE]
                          /\ Moved.op = job.op /\ Moved.step = job.step /\ Moved.el = job.el
                          /\ Moved.place = job.place /\ Moved.at = job.at /\ Moved.moved
<1>1. CASE job = None
  BY <1>1 DEF Moved
<1>2. CASE job \in Job
  <2>1. job # None /\ Moved = [job EXCEPT !.moved = TRUE]
    BY <1>2 DEF Moved
  <2>2. [job EXCEPT !.moved = TRUE] \in Job
    BY <1>2 DEF Job
  <2>3. [job EXCEPT !.moved = TRUE].moved
    BY <1>2 DEF Job
  <2>4. /\ [job EXCEPT !.moved = TRUE].op = job.op /\ [job EXCEPT !.moved = TRUE].step = job.step
        /\ [job EXCEPT !.moved = TRUE].el = job.el
        /\ [job EXCEPT !.moved = TRUE].place = job.place
        /\ [job EXCEPT !.moved = TRUE].at = job.at
    BY <1>2 DEF Job
  <2> HIDE DEF Job
  <2> QED BY <2>1, <2>2, <2>3, <2>4
<1> QED BY <1>1, <1>2

\* A key is counted, and the text may be at its end.
LEMMA KeyType ==
  ASSUME NEW j \in Job, NEW step \in {"act", "conclude"}
  PROVE  LET k == [j EXCEPT !.keys = @ + 1, !.step = step] IN
           /\ k \in Job /\ k.op = j.op /\ k.el = j.el /\ k.place = j.place
           /\ k.at = j.at /\ k.moved = j.moved
<1> DEFINE i == [j EXCEPT !.keys = j.keys + 1]
           k == [i EXCEPT !.step = step]
<1>1. j.keys \in Nat
  BY DEF Job
<1>2. /\ i \in Job /\ i.op = j.op /\ i.el = j.el /\ i.place = j.place
      /\ i.at = j.at /\ i.moved = j.moved
  BY <1>1 DEF Job
<1> HIDE DEF i
<1>3. /\ k \in Job /\ k.op = i.op /\ k.el = i.el /\ k.place = i.place
      /\ k.at = i.at /\ k.moved = i.moved
  BY <1>2 DEF Job
<1>4. [j EXCEPT !.keys = @ + 1, !.step = step] = k
  BY DEF i
<1> HIDE DEF k
<1> QED BY <1>2, <1>3, <1>4

\* An element that is filled is an element.
LEMMA FilledType ==
  ASSUME page \in Seq(Element), NEW i
  PROVE  [page EXCEPT ![i].filled = TRUE] \in Seq(Element)
<1>1. CASE i \in DOMAIN page
  <2>1. page[i] \in Element
    BY <1>1
  <2>2. [page[i] EXCEPT !.filled = TRUE] \in Element
    BY <2>1 DEF Element
  <2> QED BY <1>1, <2>2
<1>2. CASE i \notin DOMAIN page
  <2>1. [page EXCEPT ![i].filled = TRUE] = page
    BY <1>2
  <2> QED BY <2>1
<1> QED BY <1>1, <1>2

LEMMA TypedKept == IInv /\ [Next]_vars => Typed'
<1> SUFFICES ASSUME IInv, [Next]_vars PROVE Typed'
  OBVIOUS
<1> USE DEF IInv, Typed
<1>1. ASSUME NEW i \in DOMAIN page, NEW op \in {"focus", "activate", "probe", "click", "type"},
             Look(op, i)
      PROVE  Typed'
  <2>1. page[i] \in Element /\ i \in Nat
    OBVIOUS
  <2> QED BY <1>1, <2>1 DEF Look, Job
<1>2. CASE Miss
  BY <1>2 DEF Miss, Leave
<1>3. CASE Focus
  BY <1>3 DEF Focus, GoTo, At, Job
<1>4. CASE Click
  BY <1>4 DEF Click, GoTo, At, Job
<1>5. CASE Fill
  <2>1. job.place \in 1..Len(page) /\ page' = [page EXCEPT ![job.place].filled = TRUE]
    BY <1>5 DEF Fill
  <2>2. page' \in Seq(Element) /\ Len(page') = Len(page)
    BY <2>1, FilledType
  <2> QED BY <1>5, <2>1, <2>2 DEF Fill, GoTo, At, Job
<1>6. CASE Key
  <2>1. page' \in {page, [page EXCEPT ![focus].filled = TRUE]}
    BY <1>6 DEF Key
  <2>2. page' \in Seq(Element) /\ Len(page') = Len(page)
    BY <2>1, FilledType
  <2>3. job \in Job
    BY <1>6 DEF Key, At
  <2>4. PICK step \in {"act", "conclude"} : job' = [job EXCEPT !.keys = @ + 1, !.step = step]
    BY <1>6 DEF Key
  <2>5. job' \in Job
    BY <2>3, <2>4, KeyType
  <2> QED BY <1>6, <2>2, <2>5 DEF Key
<1>7. CASE Conclude
  BY <1>7 DEF Conclude, Leave
<1>8. CASE Arm
  BY <1>8 DEF Arm, Job
<1>9. CASE Disarm
  BY <1>9 DEF Disarm, Leave
<1>10. ASSUME NEW i \in DOMAIN page, NEW e \in Elements, Replace(i, e) PROVE Typed'
  <2>1. page' \in Seq(Element) /\ Len(page') = Len(page)
    BY <1>10 DEF Replace
  <2> QED BY <1>10, <2>1, MovedType DEF Replace
<1>11. ASSUME NEW i \in DOMAIN page, MoveFocus(i) PROVE Typed'
  BY <1>11, MovedType DEF MoveFocus
<1>12. ASSUME NEW p \in Pages, Load(p) PROVE Typed'
  <2>1. p \in Seq(Elements)
    OBVIOUS
  <2>2. p \in Seq(Element)
    BY <2>1
  <2>3. 0 \in 0..Len(p)
    BY <2>2
  <2> QED BY <1>12, <2>2, <2>3, MovedType DEF Load
<1>13. ASSUME NEW i, NEW type, Raise(type, i) PROVE Typed'
  BY <1>13 DEF Raise
<1>14. CASE Submit
  BY <1>14 DEF Submit
<1>15. ASSUME NEW doc, NEW soon, Request(doc, soon) PROVE Typed'
  BY <1>15 DEF Request
<1>16. CASE UNCHANGED vars
  BY <1>16 DEF vars
<1> QED
  BY <1>1, <1>2, <1>3, <1>4, <1>5, <1>6, <1>7, <1>8, <1>9, <1>10, <1>11, <1>12, <1>13, <1>14,
     <1>15, <1>16 DEF Next, Handler, Browser

\* A step disturbs ArmedByLogin only when it takes or leaves the lock, arms or disarms.
LEMMA ArmedKept == IInv /\ [Next]_vars => ArmedByLogin'
<1> SUFFICES ASSUME IInv, [Next]_vars PROVE ArmedByLogin'
  OBVIOUS
<1> USE DEF IInv, Typed, ArmedByLogin
<1>1. ASSUME UNCHANGED <<armed, attempted, submitted>>, job' = Moved
      PROVE  ArmedByLogin'
  BY <1>1, MovedType
<1>2. ASSUME NEW i \in DOMAIN page, NEW op \in {"focus", "activate", "probe", "click", "type"},
             Look(op, i)
      PROVE  ArmedByLogin'
  BY <1>2 DEF Look, Idle
<1>3. CASE Miss
  BY <1>3 DEF Miss, At
<1>4. CASE Focus \/ Click \/ Fill \/ Key
  BY <1>4 DEF Focus, Click, Fill, Key, At
<1>5. CASE Conclude
  BY <1>5 DEF Conclude, At, LookedAt
<1>6. CASE Arm
  <2>1. job' \in Job /\ job'.op = "login"
    BY <1>6 DEF Arm, Job
  <2>2. job' # None
    BY <2>1
  <2> QED BY <1>6, <2>1, <2>2 DEF Arm
<1>7. CASE Disarm
  BY <1>7 DEF Disarm
<1>8. ASSUME NEW i \in DOMAIN page, NEW e \in Elements, Replace(i, e) PROVE ArmedByLogin'
  BY <1>8, <1>1 DEF Replace
<1>9. ASSUME NEW i \in DOMAIN page, MoveFocus(i) PROVE ArmedByLogin'
  BY <1>9, <1>1 DEF MoveFocus
<1>10. ASSUME NEW p \in Pages, Load(p) PROVE ArmedByLogin'
  BY <1>10 DEF Load
<1>11. ASSUME NEW i, NEW type, Raise(type, i) PROVE ArmedByLogin'
  BY <1>11 DEF Raise
<1>12. CASE Submit
  BY <1>12 DEF Submit
<1>13. ASSUME NEW doc, NEW soon, Request(doc, soon) PROVE ArmedByLogin'
  BY <1>13 DEF Request
<1>14. CASE UNCHANGED vars
  BY <1>14 DEF vars
<1> QED
  BY <1>2, <1>3, <1>4, <1>5, <1>6, <1>7, <1>8, <1>9, <1>10, <1>11, <1>12, <1>13, <1>14
     DEF Next, Handler, Browser
-----------------------------------------------------------------------------
\* The element stays the one that was looked at until a script moves it.
LEMMA LookedKept == IInv /\ [Next]_vars => LookedAt'
<1> SUFFICES ASSUME IInv, [Next]_vars PROVE LookedAt'
  OBVIOUS
<1> USE DEF IInv, Typed
<1>1. ASSUME NEW i \in DOMAIN page, NEW op \in {"focus", "activate", "probe", "click", "type"},
             Look(op, i)
      PROVE  LookedAt'
  <2>1. page[i] \in Element /\ page'[i] = page[i] /\ DOMAIN page' = DOMAIN page
    BY <1>1 DEF Look
  <2>2. /\ job'.op = op /\ job'.step = "act" /\ job'.place = i /\ job'.el = page[i]
        /\ op = "type" => focus' = i
        /\ Permits(op, page[i])
    BY <1>1 DEF Look
  <2>3. [page[i] EXCEPT !.filled = page[i].filled] = page[i]
    BY <2>1 DEF Element
  <2>4. StillThere(job)'
    BY <2>1, <2>2, <2>3 DEF StillThere, Look, Job
  <2> QED BY <2>1, <2>2, <2>4 DEF LookedAt
<1>2. CASE Miss \/ Conclude \/ Disarm
  BY <1>2 DEF Miss, Conclude, Disarm, Leave, LookedAt
<1>3. CASE Focus \/ Click \/ Fill
  <2>1. /\ job \in Job /\ job.op # "login" /\ job' = [job EXCEPT !.step = "conclude"]
    BY <1>3 DEF Focus, Click, Fill, At, GoTo
  <2>2. job'.step = "conclude" /\ job'.op = job.op /\ job'.el = job.el
    BY <2>1 DEF Job
  <2> QED BY <2>1, <2>2 DEF LookedAt
<1>4. CASE Key
  <2>1. job \in Job /\ job.op = "type" /\ job.step = "act"
    BY <1>4 DEF Key, At
  <2>2. PICK step \in {"act", "conclude"} : job' = [job EXCEPT !.keys = @ + 1, !.step = step]
    BY <1>4 DEF Key
  <2>3. /\ job'.op = "type" /\ job'.el = job.el /\ job'.place = job.place
        /\ job'.moved = job.moved
    BY <2>1, <2>2, KeyType
  <2>4. ASSUME ~ job.moved PROVE StillThere(job)'
    <3>1. /\ focus = job.place /\ focus \in DOMAIN page /\ focus # 0
          /\ page[focus] = [job.el EXCEPT !.filled = page[focus].filled]
          /\ job.el \in Element
      BY <2>1, <2>4 DEF LookedAt, StillThere
    <3>2. page' = [page EXCEPT ![focus].filled = TRUE] /\ focus' = focus
      BY <1>4, <3>1 DEF Key
    <3>3. DOMAIN page' = DOMAIN page /\ page'[focus] = [page[focus] EXCEPT !.filled = TRUE]
      BY <3>1, <3>2
    <3>4. page[focus] \in Element
      BY <3>1
    <3>5. page'[focus] = [job.el EXCEPT !.filled = page'[focus].filled]
      BY <3>1, <3>3, <3>4 DEF Element
    <3> QED BY <2>3, <3>1, <3>2, <3>3, <3>5 DEF StillThere
  <2>5. job.el \in Element /\ Permits("type", job.el)
    BY <2>1 DEF LookedAt
  <2> QED BY <2>3, <2>4, <2>5 DEF LookedAt
<1>5. CASE Arm
  BY <1>5 DEF Arm, LookedAt
<1>6. ASSUME job' = Moved PROVE LookedAt'
  <2>1. CASE job = None
    BY <1>6, <2>1 DEF Moved, LookedAt
  <2>2. CASE job # None
    <3>1. /\ job'.op = job.op /\ job'.step = job.step /\ job'.el = job.el /\ job'.moved
      BY <1>6, <2>2, MovedType
    <3> QED BY <2>2, <3>1 DEF LookedAt
  <2> QED BY <2>1, <2>2
<1>7. ASSUME NEW i \in DOMAIN page, NEW e \in Elements, Replace(i, e) PROVE LookedAt'
  BY <1>7, <1>6 DEF Replace
<1>8. ASSUME NEW i \in DOMAIN page, MoveFocus(i) PROVE LookedAt'
  BY <1>8, <1>6 DEF MoveFocus
<1>9. ASSUME NEW p \in Pages, Load(p) PROVE LookedAt'
  BY <1>9, <1>6 DEF Load
<1>10. CASE UNCHANGED <<page, focus, job>>
  BY <1>10 DEF LookedAt, StillThere
<1> QED
  BY <1>1, <1>2, <1>3, <1>4, <1>5, <1>7, <1>8, <1>9, <1>10
     DEF Next, Handler, Browser, Raise, Submit, Request, vars

\* Interactions are of the time of their act, and so is what they are linked with.
LEMMA DatedKept == IInv /\ [Next]_vars => Dated'
<1> SUFFICES ASSUME IInv, [Next]_vars PROVE Dated'
  OBVIOUS
<1> USE DEF IInv
<1>1. ASSUME UNCHANGED <<acts, sent>>
      PROVE  Linked' = Linked /\ (UNCHANGED events => events' \in Seq(Linked'))
  BY <1>1 DEF Linked, Dated
<1>2. ASSUME UNCHANGED <<acts, sent, events>>,
             job' = None \/ (job # None /\ job' # None /\ job'.at = job.at)
      PROVE  Dated'
  BY <1>1, <1>2 DEF Dated
<1>3. ASSUME NEW i \in DOMAIN page, NEW op \in {"focus", "activate", "probe", "click", "type"},
             Look(op, i)
      PROVE  Dated'
  <2>1. /\ acts \in Nat /\ acts' = acts + 1 /\ sent' = sent /\ job'.at = acts'
        /\ events' \in {events, Recorded(Append(events, Event("focus", acts')))}
    BY <1>3 DEF Look, Typed
  <2>2. events \in Seq(Linked')
    BY <2>1, LinkedGrows
  <2>3. Event("focus", acts') \in Linked'
    BY <2>1 DEF Event, Linked
  <2>4. events' \in Seq(Linked')
    BY <2>1, <2>2, <2>3, RecordedType
  <2>5. \A n \in DOMAIN sent : sent[n].at \in Nat /\ sent[n].at <= acts + 1
    <3> TAKE n \in DOMAIN sent
    <3>1. sent[n] \in Requests /\ sent[n].at <= acts
      BY DEF Dated
    <3> QED BY <3>1, <2>1 DEF Requests
  <2> QED BY <2>1, <2>4, <2>5 DEF Dated
<1>4. CASE Arm
  <2>1. /\ acts \in Nat /\ acts' = acts + 1 /\ sent' = sent /\ job'.at = acts' /\ events' = events
    BY <1>4 DEF Arm, Typed
  <2>2. events \in Seq(Linked')
    BY <2>1, LinkedGrows
  <2>3. \A n \in DOMAIN sent : sent[n].at \in Nat /\ sent[n].at <= acts + 1
    <3> TAKE n \in DOMAIN sent
    <3>1. sent[n] \in Requests /\ sent[n].at <= acts
      BY DEF Dated
    <3> QED BY <3>1, <2>1 DEF Requests
  <2> QED BY <2>1, <2>2, <2>3 DEF Dated
<1>5. CASE Miss \/ Disarm
  BY <1>5, <1>2 DEF Miss, Disarm, Leave
<1>6. CASE Focus \/ Click \/ Fill
  <2>1. job \in Job /\ job' = [job EXCEPT !.step = "conclude"] /\ UNCHANGED <<acts, sent, events>>
    BY <1>6 DEF Focus, Click, Fill, At, GoTo, Typed
  <2>2. job' \in Job /\ job'.at = job.at
    BY <2>1 DEF Job
  <2> QED BY <2>1, <2>2, <1>2
<1>7. CASE Key
  <2>1. job \in Job /\ UNCHANGED <<acts, sent, events>>
    BY <1>7 DEF Key, At, Typed
  <2>2. PICK step \in {"act", "conclude"} : job' = [job EXCEPT !.keys = @ + 1, !.step = step]
    BY <1>7 DEF Key
  <2>3. job' \in Job /\ job'.at = job.at
    BY <2>1, <2>2, KeyType
  <2> QED BY <2>1, <2>3, <1>2
<1>8. CASE Conclude
  <2>1. job # None /\ job.op # "login"
    BY <1>8 DEF Conclude, At, LookedAt
  <2>2. events' = WithLinks /\ job' = None /\ UNCHANGED <<acts, sent>>
    BY <1>8 DEF Conclude, Leave
  <2>3. events' \in Seq(Linked)
    BY <2>1, <2>2, WithLinksType
  <2>4. events' \in Seq(Linked')
    BY <2>2, <2>3, <1>1
  <2> QED BY <2>2, <2>4 DEF Dated
<1>9. ASSUME job' = Moved, UNCHANGED <<acts, sent, events>> PROVE Dated'
  <2>1. CASE job = None
    BY <1>9, <2>1, <1>2 DEF Moved
  <2>2. CASE job # None
    BY <1>9, <2>2, <1>2, MovedType DEF Typed
  <2> QED BY <2>1, <2>2
<1>10. ASSUME NEW i \in DOMAIN page, NEW e \in Elements, Replace(i, e) PROVE Dated'
  BY <1>10, <1>9 DEF Replace
<1>11. ASSUME NEW i \in DOMAIN page, MoveFocus(i) PROVE Dated'
  BY <1>11, <1>9 DEF MoveFocus
<1>12. ASSUME NEW p \in Pages, Load(p) PROVE Dated'
  BY <1>12, <1>9 DEF Load
<1>13. ASSUME NEW i \in DOMAIN page, NEW type \in {"click", "input"}, Raise(type, i) PROVE Dated'
  <2>1. /\ events' = Recorded(Append(events, Event(type, acts)))
        /\ UNCHANGED <<acts, sent, job>>
    BY <1>13 DEF Raise
  <2>2. Event(type, acts) \in Linked
    BY DEF Event, Linked, Typed
  <2>3. events' \in Seq(Linked)
    BY <2>1, <2>2, RecordedType DEF Dated
  <2>4. events' \in Seq(Linked')
    BY <2>1, <2>3, <1>1
  <2> QED BY <2>1, <2>4 DEF Dated
<1>14. ASSUME NEW doc \in BOOLEAN, NEW soon \in BOOLEAN, Request(doc, soon) PROVE Dated'
  <2> DEFINE r == [at |-> acts, doc |-> doc, soon |-> soon]
  <2>1. r \in Requests /\ r.at = acts /\ acts \in Nat
    BY DEF Requests, Typed
  <2> HIDE DEF r
  <2>2. sent' = Append(sent, r) /\ UNCHANGED <<acts, events, job>>
    BY <1>14 DEF Request, r
  <2>3. events \in Seq(Linked')
    BY <2>1, <2>2, LinkedGrows
  <2>4. /\ sent' \in Seq(Requests)
        /\ \A n \in DOMAIN sent' : \/ sent'[n] = r
                                   \/ n \in DOMAIN sent /\ sent'[n] = sent[n]
    <3>1. sent \in Seq(Requests)
      BY DEF Dated
    <3> QED BY <2>1, <2>2, <3>1
  <2>5. \A n \in DOMAIN sent' : sent'[n].at <= acts
    BY <2>1, <2>4 DEF Dated
  <2> QED BY <2>2, <2>3, <2>4, <2>5 DEF Dated
<1>15. CASE UNCHANGED <<acts, sent, events, job>>
  BY <1>15, <1>2, <1>1 DEF Dated
<1> QED
  BY <1>3, <1>4, <1>5, <1>6, <1>7, <1>8, <1>10, <1>11, <1>12, <1>13, <1>14, <1>15
     DEF Next, Handler, Browser, Submit, vars
-----------------------------------------------------------------------------
\* What an act reaches is what was permitted, or a script has moved something.
LEMMA ReachedKept == IInv /\ [Next]_vars => ReachedAsChecked'
<1> SUFFICES ASSUME IInv, [Next]_vars PROVE ReachedAsChecked'
  OBVIOUS
<1> USE DEF IInv
<1>1. CASE UNCHANGED reached
  BY <1>1 DEF ReachedAsChecked
<1>2. CASE Click
  <2>1. /\ job.op \in {"activate", "click"} /\ job # None /\ job.step = "act"
        /\ reached' = [op |-> job.op, el |-> page[job.place], moved |-> job.moved]
    BY <1>2 DEF Click, At, Reach
  <2>2. ~ job.moved => page[job.place] = job.el /\ job.el \in Element /\ Permits(job.op, job.el)
    BY <2>1 DEF LookedAt, StillThere
  <2>3. ~ job.moved => ~ Forbidden(job.op, [job.el EXCEPT !.filled = job.el.filled])
    <3> HAVE ~ job.moved
    <3>1. job.el.filled \in BOOLEAN
      BY <2>2 DEF Element
    <3> QED BY <2>1, <2>2, <3>1, PermittedIsAllowed
  <2>4. ~ job.moved => [job.el EXCEPT !.filled = job.el.filled] = job.el
    BY <2>2 DEF Element
  <2> QED BY <2>1, <2>2, <2>3, <2>4 DEF ReachedAsChecked
<1>3. CASE Fill
  <2>1. /\ job.op = "probe" /\ job # None /\ job.step = "act"
        /\ reached' = [op |-> job.op, el |-> page[job.place], moved |-> job.moved]
    BY <1>3 DEF Fill, At, Reach
  <2>2. ~ job.moved => page[job.place] = job.el /\ job.el \in Element /\ Permits(job.op, job.el)
    BY <2>1 DEF LookedAt, StillThere
  <2>3. ~ job.moved => ~ Forbidden(job.op, [job.el EXCEPT !.filled = job.el.filled])
    <3> HAVE ~ job.moved
    <3>1. job.el.filled \in BOOLEAN
      BY <2>2 DEF Element
    <3> QED BY <2>1, <2>2, <3>1, PermittedIsAllowed
  <2>4. ~ job.moved => [job.el EXCEPT !.filled = job.el.filled] = job.el
    BY <2>2 DEF Element
  <2> QED BY <2>1, <2>2, <2>3, <2>4 DEF ReachedAsChecked
<1>4. CASE Key
  <2>1. /\ job.op = "type" /\ job # None /\ job.step = "act"
        /\ \/ reached' = [op |-> job.op, el |-> page[focus], moved |-> job.moved]
           \/ reached' = reached
    BY <1>4 DEF Key, At, Reach
  <2>2. ~ job.moved => /\ focus \in DOMAIN page
                       /\ page[focus] = [job.el EXCEPT !.filled = page[focus].filled]
                       /\ job.el \in Element /\ Permits(job.op, job.el)
    BY <2>1 DEF LookedAt, StillThere
  <2>3. ~ job.moved => ~ Forbidden(job.op, page[focus])
    <3> HAVE ~ job.moved
    <3>1. page[focus] \in Element
      BY <2>2 DEF Typed
    <3>2. page[focus].filled \in BOOLEAN
      BY <3>1 DEF Element
    <3> QED BY <2>1, <2>2, <3>2, PermittedIsAllowed
  <2> QED BY <2>1, <2>3 DEF ReachedAsChecked
<1> QED
  BY <1>1, <1>2, <1>3, <1>4
     DEF Next, Handler, Browser, Look, Miss, Focus, Conclude, Arm, Disarm, Replace, MoveFocus,
         Load, Raise, Submit, Request, vars

LEMMA AlwaysIInv == Spec => []IInv
<1>1. IInv /\ [Next]_vars => IInv'
  BY TypedKept, ArmedKept, LookedKept, DatedKept, ReachedKept DEF IInv
<1> QED BY <1>1, InitIInv, PTL DEF Spec

-----------------------------------------------------------------------------
\* Whatever scripts do between the look and the act of a handler, and wherever they
\* move the focus: an act that reaches what it must not is one they have disturbed
\* (click_guided_point, type_into_focused_field, probe_guided_input).
THEOREM ReachedAsCheckedHolds == Spec => []ReachedAsChecked
<1>1. IInv => ReachedAsChecked
  BY DEF IInv
<1> QED BY <1>1, AlwaysIInv, PTL

\* Every link of an interaction is with a request of its own act, also when the list
\* was cut while the handler awaited the browser (correlate_focus_to_requests).
THEOREM LinkedInItsActHolds == Spec => []LinkedInItsAct
<1>1. IInv => LinkedInItsAct
  <2> SUFFICES ASSUME IInv, NEW i \in DOMAIN events, NEW n \in events[i].links
      PROVE  sent[n].at = events[i].at
    BY DEF LinkedInItsAct
  <2>1. events[i] \in Linked
    BY DEF IInv, Dated
  <2> QED BY <2>1 DEF Linked
<1> QED BY <1>1, AlwaysIInv, PTL

\* A form is submitted once at most, and only during the operator's login attempt
\* (the submit listener of the init script, __wafAuthSubmitArmed).
THEOREM FormsStayHolds == Spec => FormsStay
<1> DEFINE P == submitted' # submitted => submitted' = 1 /\ job # None /\ job.op = "login"
<1>1. IInv /\ [Next]_vars => [P]_vars
  <2> SUFFICES ASSUME IInv, [Next]_vars, submitted' # submitted PROVE P
    OBVIOUS
  <2>1. Submit
    BY DEF Next, Handler, Browser, Look, Miss, Focus, Click, Fill, Key, Conclude, Arm, Disarm,
           Replace, MoveFocus, Load, Raise, Request, vars
  <2>2. armed /\ submitted' = submitted + 1
    BY <2>1 DEF Submit
  <2> QED BY <2>2 DEF IInv, ArmedByLogin
<1> QED BY <1>1, AlwaysIInv, PTL DEF Spec, FormsStay
=============================================================================
