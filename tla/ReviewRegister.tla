--------------------------- MODULE ReviewRegister ---------------------------
(***************************************************************************)
(* What the review of a candidate promises, without versions: whoever       *)
(* changes a document has its current state before them, so nobody's change *)
(* is lost, and a document that was decided keeps its model until it is a   *)
(* draft again.                                                             *)
(***************************************************************************)
CONSTANTS Tabs, Models, NoDoc

VARIABLES
  doc,   \* [status, model], or NoDoc before it is created
  aware  \* the tabs that have its current state

Statuses == {"draft", "accepted", "rejected"}
Decided == {"accepted", "rejected"}

Init == doc = NoDoc /\ aware = {}

Create(t) ==
  /\ doc = NoDoc
  /\ \E m \in Models : doc' = [status |-> "draft", model |-> m]
  /\ aware' \in SUBSET {t}

Learn(t) ==
  /\ doc # NoDoc
  /\ aware' = aware \cup {t}
  /\ UNCHANGED doc

\* Everyone else's state is old, and so is the writer's own if the answer is lost.
Change(t) ==
  /\ t \in aware
  /\ \E s \in Statuses : \E m \in Models :
       /\ (doc.status \in Decided /\ s # "draft") => m = doc.model
       /\ doc' = [status |-> s, model |-> m]
  /\ aware' \in SUBSET {t}

Next == \E t \in Tabs : Create(t) \/ Learn(t) \/ Change(t)

Spec == Init /\ [][Next]_<<doc, aware>>
=============================================================================
