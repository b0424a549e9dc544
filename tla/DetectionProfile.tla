-------------------------- MODULE DetectionProfile --------------------------
(***************************************************************************)
(* What a discovery job knows of an application: the evidence rows of the   *)
(* discovery-worker, the profile it computes from them whenever it is       *)
(* asked, the signature tags the published index lends to the technologies  *)
(* of the profile, and the protection intents the analysis-service derives. *)
(*                                                                          *)
(* Nothing of this is stored but the rows, which a run saves when it ends:  *)
(* every reader computes it anew, from the rows and from the index that is  *)
(* published when it reads.  Names are in lower case; scores are hundredths.*)
(***************************************************************************)
EXTENDS Integers, FiniteSets, FiniteSetsExt

CONSTANTS
  Rows,     \* the rows a job may find: [kind, technology, category, family, score,
            \*   version, controls, auth, api, endpoint, cookies]
  Aliases,  \* TECHNOLOGY_TAG_ALIASES: technology -> the signature tags it stands for
  None

\* What the worker gives a signal is a share of one.
ASSUME RowAssumption == \A r \in Rows : r.score \in 0..100

VARIABLES
  evidence, \* the rows the run has found
  completed \* whether the job is completed

jobVars == <<evidence, completed>>

-----------------------------------------------------------------------------
(* profile_sync: the technologies, each with a score from all of its rows. *)

TechnologyRows(rows) == {r \in rows : r.kind = "technology" /\ r.technology # None}

Technologies(rows) == {r.technology : r \in TechnologyRows(rows)}

Of(technology, rows) == {r \in TechnologyRows(rows) : r.technology = technology}

\* Mutant: every further row of a technology lowers its score.
ScoreAveraged(technology, rows) ==
  LET mine == Of(technology, rows)
  IN SumSet({r.score : r \in mine}) \div Cardinality({r.score : r \in mine})

\* The best score, and five more for each further family of signals.
Score(technology, rows) ==
  LET mine == Of(technology, rows)
      families == Cardinality({r.family : r \in mine})
  IN Min({99, Max({r.score : r \in mine}) + Min({16, 5 * (families - 1)})})

Label(score) == IF score >= 85 THEN "high" ELSE IF score >= 60 THEN "medium" ELSE "low"

\* A version is named when the rows agree on it.
Version(technology, rows) ==
  LET versions == {r.version : r \in Of(technology, rows)} \ {None}
  IN IF Cardinality(versions) = 1 THEN CHOOSE v \in versions : TRUE ELSE None

TechnologyProfile(rows) ==
  [t \in Technologies(rows) |->
     [score |-> Score(t, rows), confidence |-> Label(Score(t, rows)), version |-> Version(t, rows)]]

-----------------------------------------------------------------------------
(* build_signature_technology_context: the tags of what was detected, as far *)
(* as the index has rules with them.                                         *)

MatchedTags(rows, indexTags) ==
  [t \in Technologies(rows) \intersect DOMAIN Aliases |-> Aliases[t] \intersect indexTags]

-----------------------------------------------------------------------------
(* _surface_facts and build_generic_protection_intents of the analysis. *)

ApiNames == {"rest or json api", "graphql", "xml or soap"}
ClientNames == {"angular", "react", "vue.js", "next.js", "nuxt", "spa"}
RouteKinds == {"route", "route_discovered", "redirect"}

\* The names and the categories of the technologies.
Keys(rows) == Technologies(rows) \union {r.category : r \in TechnologyRows(rows)}

Facts(rows) ==
  [fields |-> \E r \in rows : r.controls > 0,
   forms |-> \/ \E r \in rows : r.controls > 0
             \/ {"html forms", "state-changing form surface"} \intersect Technologies(rows) # {},
   auth |-> \/ \E r \in rows : r.auth \/ r.endpoint = "authentication"
            \/ "authentication boundary" \in Technologies(rows),
   upload |-> "file upload surface" \in Technologies(rows),
   api |-> \/ \E r \in rows : r.api \/ r.endpoint = "api"
           \/ ApiNames \intersect Keys(rows) # {},
   client |-> ClientNames \intersect Keys(rows) # {},
   routes |-> \E r \in rows : r.kind \in RouteKinds,
   cookies |-> \E r \in rows : r.cookies,
   xml |-> "xml or soap" \in Keys(rows)]

\* The evidence each intent with the decision "include" asks for.
Warrant(facts) ==
  [generic |-> TRUE,
   injection |-> facts.forms \/ facts.fields \/ facts.api,
   xss |-> facts.forms \/ facts.client \/ facts.routes,
   session |-> facts.auth \/ facts.cookies,
   upload |-> facts.upload,
   xml |-> facts.xml,
   runtime |-> FALSE,
   technology |-> FALSE]

\* The intents that are included; the last two are never more than conditional.
Included(rows) ==
  LET warrant == Warrant(Facts(rows))
  IN {i \in DOMAIN warrant : warrant[i]}

\* What a plan of the job reads: a tag's score is that of the best technology with it.
Profile(rows, indexTags) ==
  LET context == MatchedTags(rows, indexTags)
      tags == UNION {context[t] : t \in DOMAIN context}
      ScoreOf(t) == IF t \in Technologies(rows) THEN Score(t, rows) ELSE 50
  IN [tags |-> tags,
      score |-> [tag \in tags |->
                   Max({ScoreOf(t) : t \in {u \in DOMAIN context : tag \in context[u]}})],
      detected |-> TechnologyProfile(rows),
      upload |-> Facts(rows).upload,
      intents |-> Included(rows)]

-----------------------------------------------------------------------------
JobInit ==
  /\ evidence = {}
  /\ completed = FALSE

\* The crawl appends a row to what the run has found.
Record(row) ==
  /\ ~ completed
  /\ row \notin evidence
  /\ evidence' = evidence \union {row}
  /\ UNCHANGED completed

\* The run saves its rows and is completed.
Complete ==
  /\ ~ completed
  /\ completed' = TRUE
  /\ UNCHANGED evidence
=============================================================================
