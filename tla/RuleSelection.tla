---------------------------- MODULE RuleSelection ----------------------------
(***************************************************************************)
(* How control-api proposes signature rules for an application: from the    *)
(* profile of a completed discovery job, the latest index signature-sync    *)
(* published, and what the operator filters by; and how the rules of one    *)
(* set become those of the next when it is edited, promoted or thinned out. *)
(*                                                                          *)
(* A plan reads the profile first and the index later, so that a release    *)
(* may be published in between.  What the regular expressions of the group  *)
(* matcher find in a description is the set of "words" of a rule.  Whether   *)
(* rules log or block is left out, for no rule is selected by it.  The      *)
(* workflow of a stored set is modelled in CustomSignatureSet.              *)
(***************************************************************************)
EXTENDS DetectionProfile, Sequences, SequencesExt

CONSTANTS
  Releases, \* the indexes published: sequences of entries
            \*   [id, classes, tags, words, cves, year, product]
  Requests, \* what an operator asks for: [filters, years, groups, generic, ids, view]
  Asked,    \* the lists of rule IDs an operator may send for a stored set
  CveLimit  \* the CVEs a vendor may have before its products are shown (10)

\* An index is a list, and so are the tags of an entry.
ASSUME IndexAssumption ==
  \A index \in Releases : /\ index \in Seq(ToSet(index)) \ {<<>>}
                           /\ \A e \in ToSet(index) : IsFiniteSet(e.tags)

\* load_upstream_catalog finds no index, or none it can read: a plan has no rules then.
\* signature-sync publishes no index without rules.
Unpublished == <<>>
Indexes == Releases \union {Unpublished}

\* "No IDs asked for" is no list of IDs.
ASSUME NoneAssumption ==
  \A ids \in SUBSET UNION {{r.id : r \in ToSet(index)} : index \in Releases} : ids # None

VARIABLES
  release, \* the index that is published, if one is
  plan,    \* the plan in flight: [op, request, profile], or None
  shown,   \* what the last plan showed: [request, profile, release]; None while one is in flight
  stored   \* the set that was stored last: [rules, asked, status, source], or None

vars == <<jobVars, release, plan, shown, stored>>

-----------------------------------------------------------------------------
(* normalize_rule_catalog and the product index. *)

\* Entries without an ID are dropped; of several with one ID the first counts.
Normalized(index) ==
  {index[i] : i \in {j \in DOMAIN index : /\ index[j].id # None
                                          /\ \A k \in 1..(j - 1) : index[k].id # index[j].id}}

\* The rules of an index, as every plan that loads it normalizes them.
Catalog == [index \in Indexes |-> Normalized(index)]

Ids(rules) == {r.id : r \in rules}

TagsOf(index) == UNION {r.tags : r \in ToSet(index)}

\* The index of products lists the IDs of the entries as they were published.
ProductRules(index, product) == {r.id : r \in {e \in ToSet(index) : e.product = product}}

-----------------------------------------------------------------------------
(* generic_signature_groups: what is generic, and what needs evidence. *)

GroupIds == {"http-protocol-compliance", "canonicalization-evasion", "injection", "xss", "path-file"}

InjectionClasses == {"sql-injection", "command-injection", "ldap-injection", "xpath-injection"}
PathClasses == {"path-traversal", "file-upload", "local-file-inclusion"}
GenericClasses ==
  InjectionClasses \union PathClasses \union {"cross-site-scripting", "buffer-overflow", "web-cgi"}

IntentClasses ==
  [generic |-> {"buffer-overflow", "command-injection", "cross-site-scripting", "sql-injection"},
   injection |-> {"command-injection", "ldap-injection", "sql-injection"},
   xss |-> {"cross-site-scripting"},
   upload |-> {"file-upload"},
   xml |-> {"xml", "xpath-injection"},
   session |-> {}, runtime |-> {}, technology |-> {}]

\* A rule with a CVE always; others only when they would be candidates for a group.
ProductSpecific(rule) ==
  \/ rule.cves # {}
  \/ /\ \/ rule.classes \intersect GenericClasses # {}
        \/ rule.words \intersect {"protocol", "evasion"} # {}
     /\ rule.product # None \/ "vendor" \in rule.words

\* The classes of the path group: uploads only where there is something to upload to.
PathClassesAt(upload) == IF upload THEN PathClasses ELSE PathClasses \ {"file-upload"}

\* Only rules without technology tags belong to a group.
InGroup(group, rule, upload) ==
  /\ rule.tags = {}
  /\ \/ group = "http-protocol-compliance" /\ "protocol" \in rule.words
     \/ /\ group = "canonicalization-evasion"
        /\ "evasion" \in rule.words
        /\ "chunked" \in rule.words => "normalization" \in rule.words
     \/ group = "injection" /\ rule.classes \intersect InjectionClasses # {}
     \/ group = "xss" /\ ("cross-site-scripting" \in rule.classes \/ "xss" \in rule.words)
     \/ /\ group = "path-file"
        /\ \/ rule.classes \intersect PathClassesAt(upload) # {}
           \/ "path" \in rule.words /\ ("file upload" \in rule.words => upload)

\* An empty list of groups asks for all of them, like no list.
GroupsAsked(request) ==
  IF request.groups \in {None, {}} THEN GroupIds ELSE request.groups \intersect GroupIds

\* The rules of a group, as its tree lists them.
GroupRules(group, rules, upload) ==
  Ids({r \in rules : ~ ProductSpecific(r) /\ InGroup(group, r, upload)})

-----------------------------------------------------------------------------
(* select_rules_for_detection. *)

\* Rules of an intent, before technology tags are looked at.
IntentRules(intents, rules) ==
  {r \in rules : /\ ~ ProductSpecific(r)
                 /\ \E i \in intents : r.classes \intersect IntentClasses[i] # {} \/ i \in r.tags}

\* Filters the operator chose take the place of what was detected.
Tags(request, profile) ==
  IF request.filters = None THEN profile.tags
  ELSE {f.name : f \in {g \in request.filters : g.kind = "tag"}}

ProductIds(request, index) ==
  IF request.filters = None THEN {}
  ELSE UNION {ProductRules(index, f.name) : f \in {g \in request.filters : g.kind = "product"}}

InYears(request, rule) == request.years = None \/ rule.year \in request.years

\* The rules with technology evidence: the CVE list is drawn from these.
Matches(request, profile, index) ==
  Ids({r \in Catalog[index] :
         /\ r.tags \intersect Tags(request, profile) # {} \/ r.id \in ProductIds(request, index)
         /\ InYears(request, r)})

\* Mutant: an intent pulls in whatever rule has its class.
GenericOfAnyTechnology(request, profile, index) ==
  LET rules == Catalog[index]
  IN IF ~ request.generic THEN {}
     ELSE Ids(IntentRules(profile.intents, rules))
            \union UNION {GroupRules(g, rules, profile.upload) : g \in GroupsAsked(request)}

\* An intent must not pull in rules of technologies that were not observed.
Generic(request, profile, index) ==
  LET rules == Catalog[index]
  IN IF ~ request.generic THEN {}
     ELSE Ids({r \in IntentRules(profile.intents, rules) :
                 r.tags = {} \/ r.tags \intersect Tags(request, profile) # {}})
            \union UNION {GroupRules(g, rules, profile.upload) : g \in GroupsAsked(request)}

Proposed(request, profile, index) ==
  LET generic == Generic(request, profile, index)
  IN Ids({r \in Catalog[index] : r.id \in generic /\ InYears(request, r)})
    \union Matches(request, profile, index)

\* IDs the operator asks for override the proposal.
Selected(request, profile, index) ==
  IF request.ids = None THEN Proposed(request, profile, index)
  ELSE request.ids \intersect Ids(Catalog[index])

Missing(request, index) ==
  IF request.ids = None THEN {} ELSE request.ids \ Ids(Catalog[index])

\* Mutant: the CVE list is a list of the whole proposal.
CveRulesOfAll(request, profile, index) ==
  LET selected == Selected(request, profile, index)
  IN {r \in Catalog[index] : r.cves # {} /\ r.id \in selected}

\* CVE references are listed only for rules with technology evidence.
CveRules(request, profile, index) ==
  LET listed == Selected(request, profile, index) \intersect Matches(request, profile, index)
  IN {r \in Catalog[index] : r.cves # {} /\ r.id \in listed}

\* The vendor of a rule is None when the description has to tell it.
VendorOf(rule) == IF rule.product = None THEN None ELSE rule.product.vendor

CvesOf(vendor, rules) == UNION {r.cves : r \in {s \in rules : VendorOf(s) = vendor}}

\* A vendor with many CVEs has a level of products.
Branch(rule, rules, view) ==
  IF view = "number" THEN <<>>
  ELSE IF Cardinality(CvesOf(VendorOf(rule), rules)) > CveLimit THEN <<VendorOf(rule), rule.product>>
  ELSE <<VendorOf(rule)>>

\* The CVE tree.
CveTree(request, profile, index) ==
  LET rules == CveRules(request, profile, index)
  IN UNION {{[branch |-> Branch(r, rules, request.view), cve |-> c, rule |-> r.id] : c \in r.cves} :
              r \in rules}

-----------------------------------------------------------------------------
(* rule_confidence: why a rule is in the proposal. *)

\* "generic" is what comes of an intent or a group, whether or not its year was asked for.
Basis(rule, request, profile, index) ==
  LET matched == rule.tags \intersect Tags(request, profile)
      chosen == \/ rule.id \in ProductIds(request, index)
                \/ request.filters # None /\ matched # {}
      proposed == \/ rule.id \in Generic(request, profile, index)
                  \/ rule.id \in Matches(request, profile, index)
  IN IF chosen THEN "explicit"
     ELSE IF matched # {} THEN "detected"
     ELSE IF rule.tags = {} /\ proposed THEN "generic"
     ELSE "none"

\* The score of the best matched tag, and five more when several match.
Applicability(rule, request, profile, index) ==
  LET matched == rule.tags \intersect Tags(request, profile)
      basis == Basis(rule, request, profile, index)
      Scored(t) == IF t \in DOMAIN profile.score THEN profile.score[t] ELSE 50
  IN CASE basis = "explicit" -> 100
       [] basis = "detected" ->
            Min({99, Max({Scored(t) : t \in matched}) + (IF Cardinality(matched) > 1 THEN 5 ELSE 0)})
       [] basis = "generic" -> 70
       [] OTHER -> 0

\* _positive_model_recommendation: nothing was detected and nothing was chosen.
ModelRecommended(request, profile) ==
  request.filters = None /\ DOMAIN profile.detected = {} /\ profile.tags = {}

-----------------------------------------------------------------------------
Init ==
  /\ JobInit
  /\ release \in Indexes
  /\ plan = None
  /\ shown = None
  /\ stored = None

Discover ==
  /\ \E row \in Rows : Record(row)
  /\ UNCHANGED <<release, plan, shown, stored>>

Finish ==
  /\ Complete
  /\ UNCHANGED <<release, plan, shown, stored>>

\* signature-sync replaces the index.
Publish ==
  /\ \E index \in Releases \ {release} : release' = index
  /\ UNCHANGED <<jobVars, plan, shown, stored>>

\* A plan is refused before the job is completed; it reads the profile and waits.
Begin(op, request) ==
  /\ plan = None
  /\ completed
  /\ plan' = [op |-> op, request |-> request,
              profile |-> Profile(evidence, TagsOf(release))]
  /\ shown' = None
  /\ UNCHANGED <<jobVars, release, stored>>

\* POST recommendations, and POST prepare.
Propose == \E request \in Requests, op \in {"recommend", "prepare"} : Begin(op, request)

\* What is planned for a stored set has its IDs and none of its filters.
ByIds(ids) ==
  [filters |-> None, years |-> None, groups |-> None, generic |-> TRUE, ids |-> ids, view |-> "vendor"]

\* PATCH: any IDs.
Edit ==
  /\ stored # None
  /\ \E ids \in Asked : Begin("edit", ByIds(ids))

\* promote-plan: IDs that are not in the set are refused; an empty list asks for all of it.
Promote ==
  /\ stored # None
  /\ stored.status \in {"draft", "edited", "approved"}
  /\ \E ids \in Asked :
       /\ ids \subseteq stored.rules
       /\ stored.rules # {}
       /\ Begin("promote", ByIds(IF ids = {} THEN stored.rules ELSE ids))

\* exception-plan: so are those to disable, and disabling all of them.
Exception ==
  /\ stored # None
  /\ \E ids \in Asked \ {{}} :
       /\ ids \subseteq stored.rules
       /\ stored.rules \ ids # {}
       /\ Begin("exception", ByIds(stored.rules \ ids))

\* Approving, which looks at the fingerprint and at no status.
Approve ==
  /\ stored # None
  /\ stored' = [stored EXCEPT !.status = "approved"]
  /\ UNCHANGED <<jobVars, release, plan, shown>>

\* Mutant: IDs the index no longer has are passed over.
PlanStatusOfRest(request, rules) ==
  CASE release = Unpublished -> "blocked-upstream-catalog"
    [] release # Unpublished /\ rules = {} -> "blocked-no-applicable-rules"
    [] OTHER -> "draft"

PlanStatus(request, rules) ==
  IF release = Unpublished THEN "blocked-upstream-catalog"
  ELSE IF Missing(request, release) # {} THEN "blocked-invalid-rule-selection"
  ELSE IF rules = {} THEN "blocked-no-applicable-rules"
  ELSE "draft"

\* A recommendation is not stored, and an edited selection only when all of it is there.
Stores(status) == plan.op \in {"prepare", "promote", "exception"} \/ (plan.op = "edit" /\ status = "draft")

\* The index is loaded, the rules are selected, and the plan is stored.
Select ==
  /\ plan # None
  /\ LET rules == Selected(plan.request, plan.profile, release)
         status == PlanStatus(plan.request, rules)
     IN /\ shown' = [request |-> plan.request, profile |-> plan.profile, release |-> release]
        /\ stored' = IF Stores(status)
                     THEN [rules |-> rules, asked |-> plan.request.ids,
                           status |-> IF plan.op = "edit" THEN "edited" ELSE status,
                           source |-> IF plan.op \in {"promote", "exception"} THEN stored.rules ELSE None]
                     ELSE stored
  /\ plan' = None
  /\ UNCHANGED <<jobVars, release>>

\* The plan fails: the adapter that is asked for the target does not answer.
Fail ==
  /\ plan # None
  /\ plan' = None
  /\ UNCHANGED <<jobVars, release, shown, stored>>

Next ==
  \/ Discover \/ Finish \/ Publish
  \/ Propose \/ Edit \/ Promote \/ Exception \/ Approve
  \/ Select \/ Fail

Spec == Init /\ [][Next]_vars

-----------------------------------------------------------------------------
Chosen(rule, request) ==
  /\ request.filters # None
  /\ \E f \in request.filters : \/ (f.kind = "tag" /\ f.name \in rule.tags)
                               \/ (f.kind = "product" /\ f.name = rule.product)

\* A technology that was detected stands for a tag of the rule.
Observed(rule, rows) ==
  \E r \in rows : /\ r.kind = "technology"
                   /\ r.technology \in DOMAIN Aliases
                   /\ Aliases[r.technology] \intersect rule.tags # {}

ShownRules ==
  LET selected == Selected(shown.request, shown.profile, shown.release)
  IN {r \in Catalog[shown.release] : r.id \in selected}

\* A rule that is tagged with technologies or tells of a CVE is proposed only when a
\* technology of its tags was detected or the operator filtered by its tag or its
\* product; and where a positive model is recommended instead, all rules are generic.
\* (signature_workflow.py:153 and :221: a generic intent must not pull in rules of
\* technologies that were not observed; four ways into the proposal have to keep to it.)
EvidenceNeeded ==
  shown # None /\ shown.request.ids = None =>
    \A r \in ShownRules : r.tags # {} \/ r.cves # {} =>
      /\ Chosen(r, shown.request) \/ (shown.request.filters = None /\ Observed(r, evidence))
      /\ ~ ModelRecommended(shown.request, shown.profile)

\* With every row the run finds, any request would be answered with at least the same
\* rules, each at least as applicable.  (The worker's scores, the index's tags, the
\* intents and the groups are four computations of the same rows; an operator whose crawl
\* goes deeper must not lose protection.)
MoreEvidenceOnlyAdds ==
  [][evidence' # evidence => \A request \in Requests :
       LET less == Profile(evidence, TagsOf(release))
           more == Profile(evidence', TagsOf(release))
       IN /\ Selected(request, less, release) \subseteq Selected(request, more, release)
          /\ \A r \in Catalog[release] : r.id \in Selected(request, less, release) =>
               Applicability(r, request, less, release) <= Applicability(r, request, more, release)
    ]_vars

\* The tree of CVEs names rules of the proposal only, and of these only such as were
\* chosen or observed, also when the operator asked for other rules by ID.
\* (signature_workflow.py:221: CVE references must not be presented as recommendations
\* for the application without technology evidence.)
CveListIsEvidenced ==
  shown # None =>
    LET rules == ShownRules
    IN \A leaf \in CveTree(shown.request, shown.profile, shown.release) :
         \E r \in rules : /\ r.id = leaf.rule
                           /\ leaf.cve \in r.cves
                           /\ \/ Chosen(r, shown.request)
                              \/ shown.request.filters = None /\ Observed(r, evidence)

\* What the status tells of a set's rules: a draft, or an edited set, has all rules that
\* were asked for by ID and no others, whatever was published between the reading of the
\* set and the selection; with fewer it is stored as blocked.  What is promoted or thinned
\* out adds nothing to the set it comes from, approved or not.  (approve, which looks at
\* no status, does not keep a blocked set from being approved: build_custom_signature_set_plan,
\* build_promote_selection, build_exception_selection.)
DraftIsWhatWasAsked ==
  stored # None =>
    /\ stored.status \in {"draft", "edited"} /\ stored.asked # None => stored.rules = stored.asked
    /\ stored.source # None => stored.rules \subseteq stored.source
=============================================================================
