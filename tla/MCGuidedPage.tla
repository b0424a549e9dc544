---------------------------- MODULE MCGuidedPage ----------------------------
(* An instance of GuidedPage small enough for TLC: one element for every decision *)
(* about one, and documents of two elements.                                     *)
EXTENDS GuidedPage

E(shape, secret) == [shape |-> shape, secret |-> secret, off |-> "no", opens |-> FALSE,
                     href |-> "none", form |-> FALSE, filled |-> FALSE]

Search == E("text", "no")
Hinted == E("text", "labelled")
Otp == E("text", "named")
Password == E("password", "named")
SubmitButton == [E("submit", "no") EXCEPT !.form = TRUE]

MCElements ==
  {Search, Hinted, Otp, Password, SubmitButton, E("file", "no"), E("button", "no"),
   [E("rolebutton", "no") EXCEPT !.form = TRUE], [Search EXCEPT !.off = "disabled"],
   [Search EXCEPT !.off = "readonly"], [E("widget", "no") EXCEPT !.opens = TRUE]}
  \cup {[E("link", "no") EXCEPT !.href = h] : h \in {"in", "out"}}
MCPages == {<<Search, Password>>}
=============================================================================
