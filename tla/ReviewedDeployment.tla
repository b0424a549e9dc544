------------------------- MODULE ReviewedDeployment -------------------------
(***************************************************************************)
(* What the signature-set workflow promises an operator, with no handlers,  *)
(* tables or requests in it: contents are reviewed, a reviewed content may   *)
(* be deployed under its own free object name, and a deployed object stays   *)
(* exactly as it was reviewed until it is removed.                           *)
(***************************************************************************)
CONSTANTS
  Names,     \* object names
  Items,     \* what can be reviewed and deployed
  NameOf(_), \* the object name an item asks for
  Empty

VARIABLES
  reviewed,  \* the items some operator has approved
  deployed   \* the item behind each object name, or Empty

avars == <<reviewed, deployed>>

Init ==
  /\ reviewed = {}
  /\ deployed = [n \in Names |-> Empty]

Review(i) ==
  /\ reviewed' = reviewed \cup {i}
  /\ UNCHANGED deployed

Deploy(n) ==
  /\ deployed[n] = Empty
  /\ \E i \in reviewed : NameOf(i) = n /\ deployed' = [deployed EXCEPT ![n] = i]
  /\ UNCHANGED reviewed

Remove(n) ==
  /\ deployed[n] # Empty
  /\ deployed' = [deployed EXCEPT ![n] = Empty]
  /\ UNCHANGED reviewed

Next ==
  \/ \E i \in Items : Review(i)
  \/ \E n \in Names : Deploy(n) \/ Remove(n)

Spec == Init /\ [][Next]_avars
=============================================================================
