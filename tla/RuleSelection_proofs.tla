------------------------ MODULE RuleSelection_proofs ------------------------
(* Proofs about RuleSelection, for every index that may be published, every    *)
(* request, every table of aliases and whatever rows a job finds.              *)
EXTENDS RuleSelection, FiniteSetTheorems, TLAPS

-----------------------------------------------------------------------------
(* Rules and the entries they come from. *)

\* Entries that were published under one ID are of one product.  The index of
\* products is drawn from the entries before all but the first of an ID are dropped:
\* without this a rule could be proposed for the product of an entry nobody sees.
OneProduct ==
  \A index \in Releases : \A e, f \in ToSet(index) : e.id = f.id => e.product = f.product

\* Every rule ID that was ever published.
Published == UNION {Ids(ToSet(index)) : index \in Releases}

\* A rule is an entry of the index.
LEMMA RuleIsEntry ==
  ASSUME NEW index \in Indexes, NEW r \in Catalog[index]
  PROVE  r \in ToSet(index)
  BY DEF Catalog, Normalized, ToSet

\* Where nothing is published there are no rules.
LEMMA NothingUnpublished == ToSet(Unpublished) = {} /\ Catalog[Unpublished] = {}
<1>1. ToSet(Unpublished) = {}
  BY DEF ToSet, Unpublished
<1> QED BY <1>1, RuleIsEntry DEF Indexes

\* No two rules of an index have the same ID.
LEMMA OneRulePerId ==
  ASSUME NEW index \in Indexes,
         NEW r \in Catalog[index], NEW s \in Catalog[index], r.id = s.id
  PROVE  r = s
<1> DEFINE First(j) == /\ index[j].id # None
                       /\ \A k \in 1..(j - 1) : index[k].id # index[j].id
<1>1. PICK i \in DOMAIN index : First(i) /\ r = index[i]
  BY DEF Catalog, Normalized
<1>2. PICK j \in DOMAIN index : First(j) /\ s = index[j]
  BY DEF Catalog, Normalized
<1>3. DOMAIN index = 1..Len(index) /\ Len(index) \in Nat
  BY IndexAssumption DEF Indexes, Unpublished
<1>4. ~ i < j
  BY <1>1, <1>2, <1>3
<1>5. ~ j < i
  BY <1>1, <1>2, <1>3
<1> QED BY <1>1, <1>2, <1>3, <1>4, <1>5

\* The IDs of the rules were published.
LEMMA RulesPublished ==
  ASSUME NEW index \in Indexes
  PROVE  Ids(Catalog[index]) \subseteq Published
<1>1. CASE index = Unpublished
  BY <1>1, NothingUnpublished DEF Ids
<1>2. CASE index # Unpublished
  BY <1>2, RuleIsEntry DEF Ids, Published, Indexes
<1> QED BY <1>1, <1>2

\* A list of published IDs is not "no list".
LEMMA AskedIsAList ==
  ASSUME NEW ids, ids \subseteq Published
  PROVE  ids # None
  BY NoneAssumption DEF Published, Ids

-----------------------------------------------------------------------------
(* What the tags of a profile and the matches of a request rest on. *)

\* The profile has the tag only of a technology that a row tells of.
LEMMA TagIsObserved ==
  ASSUME NEW rows, NEW index, NEW rule,
         rule.tags \intersect Profile(rows, TagsOf(index)).tags # {}
  PROVE  Observed(rule, rows)
<1> DEFINE context == MatchedTags(rows, TagsOf(index))
<1>1. Profile(rows, TagsOf(index)).tags = UNION {context[t] : t \in DOMAIN context}
  BY DEF Profile
<1>2. PICK t \in DOMAIN context : rule.tags \intersect context[t] # {}
  BY <1>1
<1>3. t \in Technologies(rows) /\ t \in DOMAIN Aliases /\ context[t] \subseteq Aliases[t]
  BY <1>2 DEF MatchedTags
<1>4. PICK r \in rows : r.kind = "technology" /\ r.technology = t
  BY <1>3 DEF Technologies, TechnologyRows
<1> QED BY <1>2, <1>3, <1>4 DEF Observed

\* A rule with a tag that is looked for was chosen by the tag, or it was detected.
LEMMA TaggedIsEvidenced ==
  ASSUME NEW request, NEW rows, NEW index, NEW rule,
         rule.tags \intersect Tags(request, Profile(rows, TagsOf(index))) # {}
  PROVE  /\ Chosen(rule, request) \/ (request.filters = None /\ Observed(rule, rows))
         /\ ~ ModelRecommended(request, Profile(rows, TagsOf(index)))
<1>1. CASE request.filters = None
  <2>1. rule.tags \intersect Profile(rows, TagsOf(index)).tags # {}
    BY <1>1 DEF Tags
  <2>2. Profile(rows, TagsOf(index)).tags # {}
    BY <2>1
  <2> QED BY <1>1, <2>1, <2>2, TagIsObserved DEF ModelRecommended
<1>2. CASE request.filters # None
  BY <1>2 DEF Tags, Chosen, ModelRecommended
<1> QED BY <1>1, <1>2

\* A rule of a product that was filtered by was chosen by its product.
LEMMA ProductIsChosen ==
  ASSUME OneProduct, NEW index \in Indexes, NEW rule \in Catalog[index], NEW request,
         rule.id \in ProductIds(request, index)
  PROVE  Chosen(rule, request) /\ request.filters # None
<1>1. request.filters # None
  BY DEF ProductIds
<1>2. PICK f \in request.filters : f.kind = "product" /\ rule.id \in ProductRules(index, f.name)
  BY <1>1 DEF ProductIds
<1>3. PICK e \in ToSet(index) : e.product = f.name /\ e.id = rule.id
  BY <1>2 DEF ProductRules
<1>4. rule \in ToSet(index) /\ index \in Releases
  BY RuleIsEntry, NothingUnpublished DEF Indexes
<1>5. f.name = rule.product
  BY <1>3, <1>4 DEF OneProduct
<1> QED BY <1>1, <1>2, <1>5 DEF Chosen

\* What matches a request has technology evidence.
LEMMA MatchIsEvidenced ==
  ASSUME OneProduct, NEW index \in Indexes, NEW rule \in Catalog[index],
         NEW request, NEW rows, NEW other \in Indexes,
         rule.id \in Matches(request, Profile(rows, TagsOf(other)), index)
  PROVE  /\ Chosen(rule, request) \/ (request.filters = None /\ Observed(rule, rows))
         /\ ~ ModelRecommended(request, Profile(rows, TagsOf(other)))
<1> DEFINE profile == Profile(rows, TagsOf(other))
<1>1. PICK r \in Catalog[index] :
        /\ r.id = rule.id
        /\ r.tags \intersect Tags(request, profile) # {} \/ r.id \in ProductIds(request, index)
  BY DEF Matches, Ids
<1>2. r = rule
  BY <1>1, OneRulePerId
<1>3. CASE rule.tags \intersect Tags(request, profile) # {}
  BY <1>3, TaggedIsEvidenced
<1>4. CASE rule.id \in ProductIds(request, index)
  BY <1>4, ProductIsChosen DEF ModelRecommended
<1> QED BY <1>1, <1>2, <1>3, <1>4

-----------------------------------------------------------------------------
(* The generic way into a proposal, and the proposal as a whole. *)

\* A rule of a group has no tags and tells of no CVE.
LEMMA GroupIsGeneric ==
  ASSUME NEW index \in Indexes, NEW rule \in Catalog[index], NEW group, NEW upload,
         rule.id \in GroupRules(group, Catalog[index], upload)
  PROVE  rule.tags = {} /\ rule.cves = {}
<1>1. PICK r \in Catalog[index] :
        r.id = rule.id /\ ~ ProductSpecific(r) /\ InGroup(group, r, upload)
  BY DEF GroupRules, Ids
<1>2. r = rule
  BY <1>1, OneRulePerId
<1> QED BY <1>1, <1>2 DEF ProductSpecific, InGroup

\* A generic rule tells of no CVE, and where it has tags one of them is looked for.
LEMMA GenericIsEvidenced ==
  ASSUME NEW index \in Indexes, NEW rule \in Catalog[index], NEW request, NEW profile,
         rule.id \in Generic(request, profile, index)
  PROVE  /\ rule.cves = {}
         /\ rule.tags = {} \/ rule.tags \intersect Tags(request, profile) # {}
<1> DEFINE intended == {r \in IntentRules(profile.intents, Catalog[index]) :
                          r.tags = {} \/ r.tags \intersect Tags(request, profile) # {}}
<1>1. \/ rule.id \in Ids(intended)
      \/ \E g \in GroupsAsked(request) :
           rule.id \in GroupRules(g, Catalog[index], profile.upload)
  BY DEF Generic
<1>2. CASE rule.id \in Ids(intended)
  <2>1. PICK r \in intended : r.id = rule.id
    BY <1>2 DEF Ids
  <2>2. r \in Catalog[index] /\ ~ ProductSpecific(r)
    BY <2>1 DEF IntentRules
  <2>3. r = rule
    BY <2>1, <2>2, OneRulePerId
  <2> QED BY <2>1, <2>2, <2>3 DEF ProductSpecific
<1>3. CASE \E g \in GroupsAsked(request) :
             rule.id \in GroupRules(g, Catalog[index], profile.upload)
  BY <1>3, GroupIsGeneric
<1> QED BY <1>1, <1>2, <1>3

\* A proposed rule with a tag or a CVE has technology evidence.
LEMMA ProposalIsEvidenced ==
  ASSUME OneProduct, NEW index \in Indexes, NEW rule \in Catalog[index],
         NEW request, NEW rows, NEW other \in Indexes,
         rule.id \in Proposed(request, Profile(rows, TagsOf(other)), index),
         rule.tags # {} \/ rule.cves # {}
  PROVE  /\ Chosen(rule, request) \/ (request.filters = None /\ Observed(rule, rows))
         /\ ~ ModelRecommended(request, Profile(rows, TagsOf(other)))
<1> DEFINE profile == Profile(rows, TagsOf(other))
<1>1. \/ rule.id \in Matches(request, profile, index)
      \/ rule.id \in Generic(request, profile, index)
  BY DEF Proposed, Ids
<1>2. CASE rule.id \in Matches(request, profile, index)
  BY <1>2, MatchIsEvidenced
<1>3. CASE rule.id \in Generic(request, profile, index)
  <2>1. rule.tags \intersect Tags(request, profile) # {}
    BY <1>3, GenericIsEvidenced
  <2> QED BY <2>1, TaggedIsEvidenced
<1> QED BY <1>1, <1>2, <1>3

\* Whatever is selected was published.
LEMMA SelectedPublished ==
  ASSUME NEW index \in Indexes, NEW request, NEW profile
  PROVE  Selected(request, profile, index) \subseteq Published
<1>1. Selected(request, profile, index) \subseteq Ids(Catalog[index])
  BY DEF Selected, Proposed, Matches, Ids
<1> QED BY <1>1, RulesPublished

\* A leaf of the tree is a CVE of a rule that is listed.
LEMMA LeafIsOfCveRule ==
  ASSUME NEW request, NEW profile, NEW index, NEW leaf \in CveTree(request, profile, index)
  PROVE  \E r \in CveRules(request, profile, index) : leaf.rule = r.id /\ leaf.cve \in r.cves
<1> DEFINE rules == CveRules(request, profile, index)
<1>1. PICK r \in rules : leaf \in {[branch |-> Branch(r, rules, request.view), cve |-> c,
                                    rule |-> r.id] : c \in r.cves}
  BY DEF CveTree
<1> QED BY <1>1

-----------------------------------------------------------------------------
(* The inductive invariant: a plan and what it shows were made of the rows the  *)
(* job ended with, whatever was published meanwhile; and what is derived from a *)
(* stored set asks for IDs of that set, which stays as it is meanwhile.         *)

Seen(profile) ==
  completed /\ \E index \in Indexes : profile = Profile(evidence, TagsOf(index))

PlanInv ==
  plan # None =>
    /\ Seen(plan.profile)
    /\ plan.op \in {"promote", "exception"} =>
         plan.request.ids # None /\ plan.request.ids \subseteq stored.rules

ShownInv == shown # None => Seen(shown.profile) /\ shown.release \in Indexes

StoredInv == stored # None => stored.rules \subseteq Published

IInv == release \in Indexes /\ PlanInv /\ ShownInv /\ StoredInv /\ DraftIsWhatWasAsked

LEMMA InitIInv == Init => IInv
  BY DEF Init, IInv, PlanInv, ShownInv, StoredInv, DraftIsWhatWasAsked

\* The rows a plan has read stay, for the job is completed.
LEMMA JobKeeps ==
  ASSUME IInv, Discover \/ Finish
  PROVE  IInv'
<1>1. UNCHANGED <<release, plan, shown, stored>>
  BY DEF Discover, Finish
<1>2. ~ completed
  BY DEF Discover, Finish, Record, Complete
<1>3. plan = None /\ shown = None
  BY <1>2 DEF IInv, PlanInv, ShownInv, Seen
<1> QED BY <1>1, <1>3 DEF IInv, PlanInv, ShownInv, StoredInv, DraftIsWhatWasAsked

\* A plan that begins has the profile of the completed job.
LEMMA BeginKeeps ==
  ASSUME IInv, NEW op, NEW request, Begin(op, request),
         op \in {"promote", "exception"} =>
           request.ids # None /\ request.ids \subseteq stored.rules
  PROVE  IInv'
<1>1. completed /\ UNCHANGED <<evidence, completed, release, stored>> /\ shown' = None
  BY DEF Begin, jobVars
<1>2. /\ plan'.profile = Profile(evidence, TagsOf(release))
      /\ plan'.op = op /\ plan'.request = request
  BY DEF Begin
<1>3. Seen(plan.profile)'
  BY <1>1, <1>2 DEF Seen, IInv
<1>4. PlanInv'
  BY <1>1, <1>2, <1>3 DEF PlanInv
<1> QED BY <1>1, <1>4 DEF IInv, ShownInv, StoredInv, DraftIsWhatWasAsked

\* Promoting and thinning out ask for IDs of the stored set.
LEMMA PlanningKeeps ==
  ASSUME IInv, Propose \/ Edit \/ Promote \/ Exception
  PROVE  IInv'
<1>1. CASE Propose
  BY <1>1, BeginKeeps DEF Propose
<1>2. CASE Edit
  BY <1>2, BeginKeeps DEF Edit
<1>3. CASE Promote
  <2>1. PICK ids \in Asked :
          /\ ids \subseteq stored.rules
          /\ Begin("promote", ByIds(IF ids = {} THEN stored.rules ELSE ids))
    BY <1>3 DEF Promote
  <2> DEFINE all == IF ids = {} THEN stored.rules ELSE ids
  <2>2. all \subseteq stored.rules /\ all \subseteq Published
    BY <1>3, <2>1 DEF Promote, IInv, StoredInv
  <2>3. ByIds(all).ids = all /\ all # None
    BY <2>2, AskedIsAList DEF ByIds
  <2> HIDE DEF all
  <2> QED BY <2>1, <2>2, <2>3, BeginKeeps DEF all
<1>4. CASE Exception
  <2>1. PICK ids \in Asked : Begin("exception", ByIds(stored.rules \ ids))
    BY <1>4 DEF Exception
  <2>2. (stored.rules \ ids) \subseteq Published
    BY <1>4 DEF Exception, IInv, StoredInv
  <2>3. ByIds(stored.rules \ ids).ids = stored.rules \ ids /\ stored.rules \ ids # None
    BY <2>2, AskedIsAList DEF ByIds
  <2> QED BY <2>1, <2>3, BeginKeeps
<1> QED BY <1>1, <1>2, <1>3, <1>4

\* What is stored when a plan is carried out has all that was asked for, or its status is
\* a blocked one; and nothing that the set it comes from did not have.
LEMMA StoringKeeps ==
  ASSUME IInv, Select
  PROVE  (StoredInv /\ DraftIsWhatWasAsked)'
<1> DEFINE rules == Selected(plan.request, plan.profile, release)
           status == PlanStatus(plan.request, rules)
<1>1. CASE ~ Stores(status)
  <2>1. stored' = stored
    BY <1>1 DEF Select
  <2> QED BY <2>1 DEF IInv, StoredInv, DraftIsWhatWasAsked
<1>2. CASE Stores(status)
  <2>1. /\ stored'.rules = rules
        /\ stored'.asked = plan.request.ids
        /\ stored'.status = IF plan.op = "edit" THEN "edited" ELSE status
        /\ stored'.source = IF plan.op \in {"promote", "exception"} THEN stored.rules ELSE None
    BY <1>2 DEF Select
  <2>2. StoredInv'
    BY <2>1, SelectedPublished DEF StoredInv, IInv
  <2>3. ASSUME stored'.status \in {"draft", "edited"}, stored'.asked # None
        PROVE  stored'.rules = stored'.asked
    <3>1. status = "draft"
      BY <1>2, <2>1, <2>3 DEF Stores, PlanStatus
    <3>2. Missing(plan.request, release) = {}
      BY <3>1 DEF PlanStatus
    <3>3. plan.request.ids \subseteq Ids(Catalog[release])
      BY <2>1, <2>3, <3>2 DEF Missing
    <3> QED BY <2>1, <2>3, <3>3 DEF Selected
  <2>4. ASSUME stored'.source # None
        PROVE  stored'.rules \subseteq stored'.source
    <3>1. plan.op \in {"promote", "exception"} /\ stored'.source = stored.rules
      BY <2>1, <2>4
    <3>2. plan.request.ids # None /\ plan.request.ids \subseteq stored.rules
      BY <3>1 DEF Select, IInv, PlanInv
    <3> QED BY <2>1, <3>1, <3>2 DEF Selected
  <2> QED BY <2>2, <2>3, <2>4 DEF DraftIsWhatWasAsked
<1> QED BY <1>1, <1>2

\* Approving changes nothing of a set but its status.
LEMMA ApprovingKeeps ==
  ASSUME IInv, Approve
  PROVE  IInv'
<1>1. stored # None /\ UNCHANGED <<evidence, completed, release, plan, shown>>
  BY DEF Approve, jobVars
<1>2. stored' = [stored EXCEPT !.status = "approved"]
  BY DEF Approve
<1>3. stored'.rules = stored.rules /\ stored'.source = stored.source
  BY <1>2
<1>4. (StoredInv /\ DraftIsWhatWasAsked)'
  BY <1>1, <1>2, <1>3 DEF IInv, StoredInv, DraftIsWhatWasAsked
<1>5. PlanInv' /\ ShownInv'
  BY <1>1, <1>3 DEF IInv, PlanInv, ShownInv, Seen
<1> QED BY <1>1, <1>4, <1>5 DEF IInv

\* Every step keeps the invariant.
LEMMA NextIInv == IInv /\ [Next]_vars => IInv'
<1> SUFFICES ASSUME IInv, [Next]_vars PROVE IInv'
  OBVIOUS
<1>1. CASE Discover \/ Finish
  BY <1>1, JobKeeps
<1>2. CASE Publish
  BY <1>2 DEF Publish, jobVars, IInv, PlanInv, ShownInv, StoredInv, DraftIsWhatWasAsked, Seen,
              Indexes
<1>3. CASE Propose \/ Edit \/ Promote \/ Exception
  BY <1>3, PlanningKeeps
<1>4. CASE Select
  <2>1. UNCHANGED <<evidence, completed, release>> /\ plan' = None
    BY <1>4 DEF Select, jobVars
  <2>2. plan # None /\ shown'.profile = plan.profile /\ shown'.release = release
    BY <1>4 DEF Select
  <2>3. Seen(shown.profile)'
    BY <2>1, <2>2 DEF IInv, PlanInv, Seen
  <2>4. ShownInv' /\ PlanInv' /\ (release \in Indexes)'
    BY <2>1, <2>2, <2>3 DEF ShownInv, PlanInv, IInv
  <2> QED BY <1>4, <2>4, StoringKeeps DEF IInv
<1>5. CASE Fail
  BY <1>5 DEF Fail, jobVars, IInv, PlanInv, ShownInv, StoredInv, DraftIsWhatWasAsked, Seen
<1>7. CASE Approve
  BY <1>7, ApprovingKeeps
<1>6. CASE UNCHANGED vars
  BY <1>6 DEF vars, jobVars, IInv, PlanInv, ShownInv, StoredInv, DraftIsWhatWasAsked, Seen
<1> QED BY <1>1, <1>2, <1>3, <1>4, <1>5, <1>6, <1>7 DEF Next

LEMMA Invariance == Spec => []IInv
  BY InitIInv, NextIInv, PTL DEF Spec

-----------------------------------------------------------------------------
\* A draft or an edited set has exactly the rules that were asked for by ID, and one that
\* is promoted or thinned out adds nothing to the set it comes from, also when that one
\* is approved meanwhile; whatever is published between the reading of the set and the
\* selection, and whichever plans fail.  Nothing is said of the rules of an approved set,
\* for approve looks at no status.
THEOREM DraftIsWhatWasAskedHolds == Spec => []DraftIsWhatWasAsked
<1>1. IInv => DraftIsWhatWasAsked
  BY DEF IInv
<1> QED BY <1>1, Invariance, PTL

\* A rule with technology tags or a CVE is proposed only on technology evidence; also
\* when the profile was read under one release and the rules are those of another.
THEOREM EvidenceNeededHolds == ASSUME OneProduct PROVE Spec => []EvidenceNeeded
<1>1. IInv => EvidenceNeeded
  <2> SUFFICES ASSUME IInv, shown # None, shown.request.ids = None,
                      NEW r \in ShownRules, r.tags # {} \/ r.cves # {}
               PROVE  /\ \/ Chosen(r, shown.request)
                         \/ shown.request.filters = None /\ Observed(r, evidence)
                      /\ ~ ModelRecommended(shown.request, shown.profile)
    BY DEF EvidenceNeeded
  <2>1. PICK other \in Indexes : shown.profile = Profile(evidence, TagsOf(other))
    BY DEF IInv, ShownInv, Seen
  <2>2. shown.release \in Indexes
    BY DEF IInv, ShownInv
  <2>3. r \in Catalog[shown.release] /\ r.id \in Proposed(shown.request, shown.profile, shown.release)
    BY DEF ShownRules, Selected
  <2> QED BY <2>1, <2>2, <2>3, ProposalIsEvidenced
<1> QED BY <1>1, Invariance, PTL

\* The list of CVEs names rules of the proposal that have technology evidence, and each
\* with a CVE of its own; also when the operator asked for the rules by ID.
THEOREM CveListIsEvidencedHolds == ASSUME OneProduct PROVE Spec => []CveListIsEvidenced
<1>1. IInv => CveListIsEvidenced
  <2> SUFFICES ASSUME IInv, shown # None,
                      NEW leaf \in CveTree(shown.request, shown.profile, shown.release)
               PROVE  \E r \in ShownRules :
                        /\ r.id = leaf.rule
                        /\ leaf.cve \in r.cves
                        /\ \/ Chosen(r, shown.request)
                           \/ shown.request.filters = None /\ Observed(r, evidence)
    BY DEF CveListIsEvidenced
  <2>1. PICK other \in Indexes : shown.profile = Profile(evidence, TagsOf(other))
    BY DEF IInv, ShownInv, Seen
  <2>2. shown.release \in Indexes
    BY DEF IInv, ShownInv
  <2>3. PICK r \in CveRules(shown.request, shown.profile, shown.release) :
          leaf.rule = r.id /\ leaf.cve \in r.cves
    BY LeafIsOfCveRule
  <2>4. r \in ShownRules
    BY <2>3 DEF CveRules, ShownRules
  <2>5. /\ r \in Catalog[shown.release]
        /\ r.id \in Matches(shown.request, shown.profile, shown.release)
    BY <2>3 DEF CveRules
  <2>6. Chosen(r, shown.request) \/ (shown.request.filters = None /\ Observed(r, evidence))
    BY <2>1, <2>2, <2>5, MatchIsEvidenced
  <2> QED BY <2>3, <2>4, <2>6
<1> QED BY <1>1, Invariance, PTL

-----------------------------------------------------------------------------
(* Numbers: the greatest of a finite set, and the smaller of two. *)

LEMMA GreatestIs ==
  ASSUME NEW S, S \subseteq Int, IsFiniteSet(S), S # {}
  PROVE  Max(S) \in S /\ \A y \in S : Max(S) >= y
<1> DEFINE above(x) == {y \in S : y > x}
           T == {above(x) : x \in S}
<1>1. T \subseteq FiniteSubsetsOf(S) /\ T # {}
  <2>1. \A x \in S : above(x) \in SUBSET S /\ IsFiniteSet(above(x))
    BY FS_Subset
  <2> HIDE DEF above
  <2> QED BY <2>1 DEF FiniteSubsetsOf
<1>2. IsWellFoundedOn(StrictSubsetOrdering(S), FiniteSubsetsOf(S))
  BY FS_StrictSubsetOrderingWellFounded
<1> HIDE DEF T
<1>3. PICK a \in T : \A b \in T : <<b, a>> \notin StrictSubsetOrdering(S)
  BY <1>1, <1>2, WFMin
<1>4. PICK x \in S : a = above(x)
  BY <1>3 DEF T
<1>5. ASSUME NEW y \in S, y > x PROVE FALSE
  <2>1. above(y) \subseteq above(x) /\ y \in above(x) /\ y \notin above(y)
    <3>1. x \in Int /\ y \in Int /\ y > x /\ ~ (y > y) /\ \A z \in S : z > y => z > x
      BY <1>5
    <3>2. above(y) \subseteq above(x)
      BY <3>1
    <3>3. y \in above(x) /\ y \notin above(y)
      BY <1>5, <3>1
    <3> QED BY <3>2, <3>3
  <2>2. above(y) \in T
    BY DEF T
  <2>3. <<above(y), above(x)>> \in StrictSubsetOrdering(S)
    BY <2>1 DEF StrictSubsetOrdering
  <2> QED BY <1>3, <1>4, <2>2, <2>3
<1>6. x \in S /\ \A y \in S : x >= y
  BY <1>5
<1> QED BY <1>6 DEF Max

LEMMA SmallerIs ==
  ASSUME NEW a \in Int, NEW b \in Int
  PROVE  Min({a, b}) = IF a <= b THEN a ELSE b
<1>1. \E x \in {a, b} : \A y \in {a, b} : x =< y
  <2>1. CASE a <= b
    BY <2>1
  <2>2. CASE ~ (a <= b)
    BY <2>2
  <2> QED BY <2>1, <2>2
<1>2. Min({a, b}) \in {a, b} /\ \A y \in {a, b} : Min({a, b}) =< y
  BY <1>1 DEF Min
<1> QED BY <1>2

\* The image of a finite set is finite.
LEMMA ImageFinite ==
  ASSUME NEW F, IsFiniteSet(DOMAIN F)
  PROVE  IsFiniteSet({F[x] : x \in DOMAIN F})
<1> DEFINE T == {F[x] : x \in DOMAIN F}
           G == [x \in DOMAIN F |-> F[x]]
<1>1. G \in Surjection(DOMAIN F, T)
  BY DEF Surjection
<1> QED BY <1>1, FS_Surjection

\* The best of a function's values grows with its domain and its values.
LEMMA GreatestGrows ==
  ASSUME NEW F, NEW G, DOMAIN F \subseteq DOMAIN G, DOMAIN F # {}, IsFiniteSet(DOMAIN G),
         \A x \in DOMAIN F : F[x] \in Nat,
         \A x \in DOMAIN G : G[x] \in Nat,
         \A x \in DOMAIN F : F[x] <= G[x]
  PROVE  LET low == Max({F[x] : x \in DOMAIN F})
             high == Max({G[x] : x \in DOMAIN G})
         IN low \in Nat /\ high \in Nat /\ low <= high
<1> DEFINE S == {F[x] : x \in DOMAIN F}
           T == {G[x] : x \in DOMAIN G}
<1>1. IsFiniteSet(S) /\ IsFiniteSet(T)
  <2>1. IsFiniteSet(DOMAIN F)
    BY FS_Subset
  <2> QED BY <2>1, ImageFinite
<1>2. S \subseteq Nat /\ T \subseteq Nat /\ S # {} /\ T # {}
  OBVIOUS
<1>3. S \subseteq Int /\ T \subseteq Int
  BY <1>2
<1>4. \A x \in S : \E y \in T : x <= y
  OBVIOUS
<1> HIDE DEF S, T
<1>5. Max(S) \in S /\ Max(T) \in T /\ \A y \in T : Max(T) >= y
  BY <1>1, <1>2, <1>3, GreatestIs
<1>6. PICK y \in T : Max(S) <= y
  BY <1>4, <1>5
<1>7. Max(S) \in Nat /\ Max(T) \in Nat /\ y \in Nat /\ Max(T) >= y
  BY <1>2, <1>5
<1>8. Max(S) <= Max(T)
  BY <1>6, <1>7
<1> QED BY <1>7, <1>8 DEF S, T

-----------------------------------------------------------------------------
(* What more rows make of a profile. *)

LEMMA RowsGrow ==
  ASSUME NEW rows, NEW more, rows \subseteq more, more \subseteq Rows, IsFiniteSet(more)
  PROVE  /\ Technologies(rows) \subseteq Technologies(more)
         /\ \A t : Of(t, rows) \subseteq Of(t, more) /\ Of(t, more) \subseteq Rows
                   /\ IsFiniteSet(Of(t, more)) /\ IsFiniteSet(Of(t, rows))
         /\ \A t \in Technologies(rows) : Of(t, rows) # {}
         /\ IsFiniteSet(Technologies(more))
<1>1. TechnologyRows(rows) \subseteq TechnologyRows(more) /\ TechnologyRows(more) \subseteq more
  BY DEF TechnologyRows
<1>2. IsFiniteSet(TechnologyRows(more))
  BY <1>1, FS_Subset
<1>3. ASSUME NEW t
      PROVE  /\ Of(t, rows) \subseteq Of(t, more) /\ Of(t, more) \subseteq Rows
             /\ IsFiniteSet(Of(t, more)) /\ IsFiniteSet(Of(t, rows))
  <2>1. Of(t, rows) \subseteq Of(t, more) /\ Of(t, more) \subseteq TechnologyRows(more)
    BY <1>1 DEF Of
  <2> QED BY <1>1, <1>2, <2>1, FS_Subset
<1>4. IsFiniteSet(Technologies(more))
  <2> DEFINE name == [r \in TechnologyRows(more) |-> r.technology]
  <2>1. IsFiniteSet({name[r] : r \in DOMAIN name})
    BY <1>2, ImageFinite
  <2>2. {name[r] : r \in DOMAIN name} = Technologies(more)
    BY DEF Technologies
  <2> QED BY <2>1, <2>2
<1>5. Technologies(rows) \subseteq Technologies(more)
  BY <1>1 DEF Technologies
<1>6. \A t \in Technologies(rows) : Of(t, rows) # {}
  BY DEF Technologies, Of
<1> QED BY <1>3, <1>4, <1>5, <1>6

\* A technology's score rests on its best row and on how many families speak of it.
LEMMA ScoreGrows ==
  ASSUME NEW rows, NEW more, rows \subseteq more, more \subseteq Rows, IsFiniteSet(more),
         NEW t \in Technologies(rows)
  PROVE  Score(t, rows) \in Nat /\ Score(t, more) \in Nat /\ Score(t, rows) <= Score(t, more)
<1> DEFINE mine == Of(t, rows)
           others == Of(t, more)
           F == [r \in mine |-> r.score]
           G == [r \in others |-> r.score]
           best == Max({r.score : r \in mine})
           best2 == Max({r.score : r \in others})
           families == Cardinality({r.family : r \in mine})
           families2 == Cardinality({r.family : r \in others})
<1>1. /\ mine \subseteq others /\ others \subseteq Rows /\ mine # {}
      /\ IsFiniteSet(mine) /\ IsFiniteSet(others)
  BY RowsGrow
<1> HIDE DEF mine, others
<1>2. best \in Nat /\ best2 \in Nat /\ best <= best2
  <2>1. /\ DOMAIN F \subseteq DOMAIN G /\ DOMAIN F # {} /\ IsFiniteSet(DOMAIN G)
        /\ \A x \in DOMAIN F : F[x] \in Nat
        /\ \A x \in DOMAIN G : G[x] \in Nat
        /\ \A x \in DOMAIN F : F[x] <= G[x]
    <3>1. \A r \in others : r.score \in Nat
      BY <1>1, RowAssumption
    <3> QED BY <1>1, <3>1
  <2>2. {F[x] : x \in DOMAIN F} = {r.score : r \in mine}
        /\ {G[x] : x \in DOMAIN G} = {r.score : r \in others}
    OBVIOUS
  <2> HIDE DEF F, G
  <2>3. LET low == Max({F[x] : x \in DOMAIN F})
            high == Max({G[x] : x \in DOMAIN G})
        IN low \in Nat /\ high \in Nat /\ low <= high
    BY <2>1, GreatestGrows
  <2> QED BY <2>2, <2>3
<1>3. families \in Nat /\ families2 \in Nat /\ 1 <= families /\ families <= families2
  <2> DEFINE S == {r.family : r \in mine}
             T == {r.family : r \in others}
             H == [r \in others |-> r.family]
  <2>1. IsFiniteSet({H[r] : r \in DOMAIN H})
    BY <1>1, ImageFinite
  <2>2. {H[r] : r \in DOMAIN H} = T
    OBVIOUS
  <2>3. S \subseteq T /\ IsFiniteSet(T) /\ S # {}
    <3>1. S \subseteq T /\ S # {}
      BY <1>1
    <3>2. IsFiniteSet(T)
      <4> HIDE DEF H, T
      <4> QED BY <2>1, <2>2
    <3> QED BY <3>1, <3>2
  <2> HIDE DEF S, T
  <2>4. IsFiniteSet(S) /\ Cardinality(S) <= Cardinality(T)
    BY <2>3, FS_Subset
  <2>5. Cardinality(S) \in Nat /\ Cardinality(T) \in Nat /\ Cardinality(S) # 0
    BY <2>3, <2>4, FS_CardinalityType, FS_EmptySet
  <2>6. 1 <= Cardinality(S)
    BY <2>5
  <2> QED BY <2>4, <2>5, <2>6 DEF S, T
<1> DEFINE bonus == Min({16, 5 * (families - 1)})
           bonus2 == Min({16, 5 * (families2 - 1)})
<1>4. Score(t, rows) = Min({99, best + bonus}) /\ Score(t, more) = Min({99, best2 + bonus2})
  BY DEF Score, mine, others
<1> HIDE DEF best, best2, families, families2
<1>5. bonus \in Nat /\ bonus2 \in Nat /\ bonus <= bonus2
  <2>1. 5 * (families - 1) \in Nat /\ 5 * (families2 - 1) \in Nat
        /\ 5 * (families - 1) <= 5 * (families2 - 1)
    BY <1>3
  <2>2. /\ bonus = IF 16 <= 5 * (families - 1) THEN 16 ELSE 5 * (families - 1)
        /\ bonus2 = IF 16 <= 5 * (families2 - 1) THEN 16 ELSE 5 * (families2 - 1)
    BY <2>1, SmallerIs
  <2> QED BY <2>1, <2>2
<1> HIDE DEF bonus, bonus2
<1>6. /\ Score(t, rows) = IF 99 <= best + bonus THEN 99 ELSE best + bonus
      /\ Score(t, more) = IF 99 <= best2 + bonus2 THEN 99 ELSE best2 + bonus2
  <2>1. best + bonus \in Int /\ best2 + bonus2 \in Int
    BY <1>2, <1>5
  <2> QED BY <1>4, <2>1, SmallerIs
<1> QED BY <1>2, <1>5, <1>6

\* Every fact that warrants an intent is one that some row tells of.
LEMMA IntentsGrow ==
  ASSUME NEW rows, NEW more, rows \subseteq more, Technologies(rows) \subseteq Technologies(more)
  PROVE  /\ Included(rows) \subseteq Included(more)
         /\ Facts(rows).upload => Facts(more).upload
<1>1. Keys(rows) \subseteq Keys(more)
  BY DEF Keys, TechnologyRows
<1> DEFINE F == Facts(rows)
           G == Facts(more)
<1>2. /\ F.fields => G.fields
      /\ F.forms => G.forms
      /\ F.auth => G.auth
      /\ F.upload => G.upload
  BY DEF Facts
<1>3. /\ F.api => G.api
      /\ F.client => G.client
      /\ F.xml => G.xml
  BY <1>1 DEF Facts
<1>4. (F.routes => G.routes) /\ (F.cookies => G.cookies)
  BY DEF Facts
<1> HIDE DEF F, G
<1> DEFINE V == Warrant(F)
           W == Warrant(G)
<1>5. /\ DOMAIN V = DOMAIN W
      /\ DOMAIN V = {"generic", "injection", "xss", "session", "upload", "xml", "runtime",
                     "technology"}
  BY DEF Warrant
<1>6. /\ V["generic"] => W["generic"]
      /\ V["injection"] => W["injection"]
      /\ V["xss"] => W["xss"]
      /\ V["session"] => W["session"]
  BY <1>2, <1>3, <1>4 DEF Warrant
<1>7. /\ V["upload"] => W["upload"]
      /\ V["xml"] => W["xml"]
      /\ V["runtime"] => W["runtime"]
      /\ V["technology"] => W["technology"]
  BY <1>2, <1>3 DEF Warrant
<1> HIDE DEF V, W
<1>8. \A i \in DOMAIN V : V[i] => W[i]
  BY <1>5, <1>6, <1>7
<1>9. Included(rows) = {i \in DOMAIN V : V[i]} /\ Included(more) = {i \in DOMAIN W : W[i]}
  BY DEF Included, V, W, F, G
<1> QED BY <1>2, <1>5, <1>8, <1>9 DEF F, G

\* One profile says all that another says, with no less confidence.
Richer(p, q) ==
  /\ p.tags \subseteq q.tags
  /\ p.intents \subseteq q.intents
  /\ p.upload => q.upload
  /\ DOMAIN p.score = p.tags /\ DOMAIN q.score = q.tags
  /\ \A tag \in p.tags : p.score[tag] \in Nat /\ p.score[tag] <= q.score[tag]
  /\ \A tag \in q.tags : q.score[tag] \in Nat

\* The score of a tag is the best of the technologies that have it.
LEMMA TagScoreIs ==
  ASSUME NEW rows, NEW indexTags
  PROVE  LET p == Profile(rows, indexTags)
             context == MatchedTags(rows, indexTags)
             having(tag) == {t \in DOMAIN context : tag \in context[t]}
         IN /\ p.tags = UNION {context[t] : t \in DOMAIN context} /\ DOMAIN p.score = p.tags
            /\ \A tag \in p.tags :
                 p.score[tag] = Max({Score(t, rows) : t \in having(tag)})
<1> DEFINE p == Profile(rows, indexTags)
           context == MatchedTags(rows, indexTags)
           having(tag) == {t \in DOMAIN context : tag \in context[t]}
           ScoreOf(t) == IF t \in Technologies(rows) THEN Score(t, rows) ELSE 50
           tags == UNION {context[t] : t \in DOMAIN context}
<1>1. /\ p.tags = tags
      /\ p.score = [tag \in tags |-> Max({ScoreOf(t) : t \in having(tag)})]
  BY DEF Profile
<1>2. DOMAIN context \subseteq Technologies(rows)
  BY DEF MatchedTags
<1>3. \A tag : {ScoreOf(t) : t \in having(tag)} = {Score(t, rows) : t \in having(tag)}
  BY <1>2
<1> QED BY <1>1, <1>3

LEMMA ProfileGrows ==
  ASSUME NEW rows, NEW more, rows \subseteq more, more \subseteq Rows, IsFiniteSet(more),
         NEW indexTags
  PROVE  Richer(Profile(rows, indexTags), Profile(more, indexTags))
<1> DEFINE p == Profile(rows, indexTags)
           q == Profile(more, indexTags)
           context == MatchedTags(rows, indexTags)
           context2 == MatchedTags(more, indexTags)
           having(tag) == {t \in DOMAIN context : tag \in context[t]}
           having2(tag) == {t \in DOMAIN context2 : tag \in context2[t]}
<1>1. Technologies(rows) \subseteq Technologies(more) /\ IsFiniteSet(Technologies(more))
  BY RowsGrow
<1>2. /\ DOMAIN context \subseteq DOMAIN context2
      /\ DOMAIN context \subseteq Technologies(rows)
      /\ DOMAIN context2 \subseteq Technologies(more)
      /\ \A t \in DOMAIN context : context[t] = context2[t]
  BY <1>1 DEF MatchedTags
<1>3. /\ p.tags = UNION {context[t] : t \in DOMAIN context} /\ DOMAIN p.score = p.tags
      /\ \A tag \in p.tags : p.score[tag] = Max({Score(t, rows) : t \in having(tag)})
  BY TagScoreIs
<1>4. /\ q.tags = UNION {context2[t] : t \in DOMAIN context2} /\ DOMAIN q.score = q.tags
      /\ \A tag \in q.tags : q.score[tag] = Max({Score(t, more) : t \in having2(tag)})
  BY TagScoreIs
<1>5. p.intents \subseteq q.intents /\ (p.upload => q.upload)
  BY <1>1, IntentsGrow DEF Profile
<1> HIDE DEF p, q, context, context2
<1>6. p.tags \subseteq q.tags
  BY <1>2, <1>3, <1>4
<1>7. \A t \in Technologies(more) : Score(t, more) \in Nat
  BY ScoreGrows
<1>8. \A t \in Technologies(rows) :
        Score(t, rows) \in Nat /\ Score(t, rows) <= Score(t, more)
  BY ScoreGrows
<1>9. ASSUME NEW tag \in p.tags
      PROVE  p.score[tag] \in Nat /\ p.score[tag] <= q.score[tag]
  <2> DEFINE F == [t \in having(tag) |-> Score(t, rows)]
             G == [t \in having2(tag) |-> Score(t, more)]
  <2>1. DOMAIN F \subseteq DOMAIN G /\ DOMAIN F # {}
    BY <1>2, <1>3
  <2>2. IsFiniteSet(DOMAIN G)
    <3>1. DOMAIN G \subseteq Technologies(more)
      BY <1>2
    <3> HIDE DEF G
    <3> QED BY <1>1, <3>1, FS_Subset
  <2>3. /\ \A x \in DOMAIN F : F[x] \in Nat
        /\ \A x \in DOMAIN G : G[x] \in Nat
        /\ \A x \in DOMAIN F : F[x] <= G[x]
    BY <1>2, <1>7, <1>8
  <2>4. {F[x] : x \in DOMAIN F} = {Score(t, rows) : t \in having(tag)}
        /\ {G[x] : x \in DOMAIN G} = {Score(t, more) : t \in having2(tag)}
    OBVIOUS
  <2> HIDE DEF F, G
  <2>5. LET low == Max({F[x] : x \in DOMAIN F})
            high == Max({G[x] : x \in DOMAIN G})
        IN low \in Nat /\ high \in Nat /\ low <= high
    BY <2>1, <2>2, <2>3, GreatestGrows
  <2>6. p.score[tag] = Max({F[x] : x \in DOMAIN F}) /\ q.score[tag] = Max({G[x] : x \in DOMAIN G})
    BY <1>3, <1>4, <1>6, <1>9, <2>4
  <2> QED BY <2>5, <2>6
<1>10. ASSUME NEW tag \in q.tags
       PROVE  q.score[tag] \in Nat
  <2> DEFINE G == [t \in having2(tag) |-> Score(t, more)]
  <2>1. DOMAIN G # {} /\ DOMAIN G \subseteq Technologies(more)
    BY <1>2, <1>4
  <2>2. \A x \in DOMAIN G : G[x] \in Nat /\ G[x] <= G[x]
    BY <1>2, <1>7
  <2>3. {G[x] : x \in DOMAIN G} = {Score(t, more) : t \in having2(tag)}
    OBVIOUS
  <2> HIDE DEF G
  <2>4. IsFiniteSet(DOMAIN G)
    BY <1>1, <2>1, FS_Subset
  <2>5. LET high == Max({G[x] : x \in DOMAIN G}) IN high \in Nat
    BY <2>1, <2>2, <2>4, GreatestGrows
  <2> QED BY <1>4, <2>3, <2>5
<1>11. Richer(p, q)
  BY <1>3, <1>4, <1>5, <1>6, <1>9, <1>10 DEF Richer
<1> QED BY <1>11 DEF p, q

-----------------------------------------------------------------------------
(* What a richer profile makes of a selection. *)

LEMMA GroupsGrow ==
  ASSUME NEW group, NEW rules, NEW u, NEW v, u => v
  PROVE  GroupRules(group, rules, u) \subseteq GroupRules(group, rules, v)
<1>1. PathClassesAt(u) \subseteq PathClassesAt(v)
  BY DEF PathClassesAt
<1>2. \A r : InGroup(group, r, u) => InGroup(group, r, v)
  BY <1>1 DEF InGroup
<1> QED BY <1>2 DEF GroupRules, Ids

LEMMA SelectionGrows ==
  ASSUME NEW p, NEW q, Richer(p, q), NEW request, NEW index
  PROVE  /\ Tags(request, p) \subseteq Tags(request, q)
         /\ Generic(request, p, index) \subseteq Generic(request, q, index)
         /\ Matches(request, p, index) \subseteq Matches(request, q, index)
         /\ Selected(request, p, index) \subseteq Selected(request, q, index)
<1> DEFINE rules == Catalog[index]
           intended(x) == {r \in IntentRules(x.intents, rules) :
                             r.tags = {} \/ r.tags \intersect Tags(request, x) # {}}
           grouped(x) == UNION {GroupRules(g, rules, x.upload) : g \in GroupsAsked(request)}
<1>1. Tags(request, p) \subseteq Tags(request, q)
  BY DEF Tags, Richer
<1>2. IntentRules(p.intents, rules) \subseteq IntentRules(q.intents, rules)
  <2>1. p.intents \subseteq q.intents
    BY DEF Richer
  <2> QED BY <2>1 DEF IntentRules
<1>3. intended(p) \subseteq intended(q)
  BY <1>1, <1>2
<1>4. grouped(p) \subseteq grouped(q)
  <2>1. p.upload => q.upload
    BY DEF Richer
  <2> QED BY <2>1, GroupsGrow
<1>5. Generic(request, p, index) \subseteq Generic(request, q, index)
  <2>1. \A x : Generic(request, x, index) =
                 IF ~ request.generic THEN {} ELSE Ids(intended(x)) \union grouped(x)
    BY DEF Generic
  <2>2. Ids(intended(p)) \subseteq Ids(intended(q))
    BY <1>3 DEF Ids
  <2> HIDE DEF intended, grouped
  <2> QED BY <1>4, <2>1, <2>2
<1>6. Matches(request, p, index) \subseteq Matches(request, q, index)
  BY <1>1 DEF Matches, Ids
<1>7. Proposed(request, p, index) \subseteq Proposed(request, q, index)
  BY <1>5, <1>6 DEF Proposed, Ids
<1> QED BY <1>1, <1>5, <1>6, <1>7 DEF Selected

\* What a profile says of a rule by the rule's tags that were detected.
Worth(x, matched) ==
  Min({99, Max({IF t \in DOMAIN x.score THEN x.score[t] ELSE 50 : t \in matched})
             + (IF Cardinality(matched) > 1 THEN 5 ELSE 0)})

\* What is known of a rule's tags says more of the rule.
LEMMA DetectedGrows ==
  ASSUME NEW p, NEW q, Richer(p, q), NEW tags, IsFiniteSet(tags)
  PROVE  LET low == tags \intersect p.tags
             high == tags \intersect q.tags
         IN /\ high # {} => Worth(q, high) \in Nat
            /\ low # {} => Worth(p, low) \in Nat /\ Worth(p, low) <= Worth(q, high)
<1> DEFINE low == tags \intersect p.tags
           high == tags \intersect q.tags
           F == [t \in low |-> p.score[t]]
           G == [t \in high |-> q.score[t]]
           best == Max({IF t \in DOMAIN p.score THEN p.score[t] ELSE 50 : t \in low})
           best2 == Max({IF t \in DOMAIN q.score THEN q.score[t] ELSE 50 : t \in high})
           several == IF Cardinality(low) > 1 THEN 5 ELSE 0
           several2 == IF Cardinality(high) > 1 THEN 5 ELSE 0
<1>1. /\ low \subseteq high /\ high \subseteq tags
      /\ \A t \in low : p.score[t] \in Nat /\ p.score[t] <= q.score[t]
      /\ \A t \in high : q.score[t] \in Nat
      /\ \A t \in low : t \in DOMAIN p.score
      /\ \A t \in high : t \in DOMAIN q.score
  BY DEF Richer
<1>2. IsFiniteSet(high) /\ IsFiniteSet(low) /\ Cardinality(low) <= Cardinality(high)
  <2>1. IsFiniteSet(high)
    BY FS_Subset
  <2> QED BY <1>1, <2>1, FS_Subset
<1>3. Cardinality(low) \in Nat /\ Cardinality(high) \in Nat
  BY <1>2, FS_CardinalityType
<1> HIDE DEF low, high
<1>4. /\ {F[x] : x \in DOMAIN F} =
           {IF t \in DOMAIN p.score THEN p.score[t] ELSE 50 : t \in low}
      /\ {G[x] : x \in DOMAIN G} =
           {IF t \in DOMAIN q.score THEN q.score[t] ELSE 50 : t \in high}
  BY <1>1
<1>5. /\ DOMAIN F = low /\ DOMAIN G = high
      /\ \A x \in DOMAIN F : F[x] \in Nat /\ F[x] <= G[x]
      /\ \A x \in DOMAIN G : G[x] \in Nat /\ G[x] <= G[x]
  BY <1>1
<1> HIDE DEF F, G
<1>6. high # {} => Max({G[x] : x \in DOMAIN G}) \in Nat
  <2> SUFFICES ASSUME high # {} PROVE Max({G[x] : x \in DOMAIN G}) \in Nat
    OBVIOUS
  <2>1. LET top == Max({G[x] : x \in DOMAIN G}) IN top \in Nat
    BY <1>2, <1>5, GreatestGrows
  <2> QED BY <2>1
<1>7. low # {} => /\ Max({F[x] : x \in DOMAIN F}) \in Nat
                  /\ Max({F[x] : x \in DOMAIN F}) <= Max({G[x] : x \in DOMAIN G})
  <2> SUFFICES ASSUME low # {}
               PROVE  LET low1 == Max({F[x] : x \in DOMAIN F})
                          high1 == Max({G[x] : x \in DOMAIN G})
                      IN low1 \in Nat /\ low1 <= high1
    OBVIOUS
  <2> QED BY <1>1, <1>2, <1>5, GreatestGrows
<1>8. /\ high # {} => best2 \in Nat
      /\ low # {} => best \in Nat /\ best <= best2
  BY <1>4, <1>6, <1>7
<1>9. several \in Nat /\ several2 \in Nat /\ several <= several2
  BY <1>2, <1>3
<1> HIDE DEF best, best2, several, several2
<1>10. low # {} => high # {}
  BY <1>1
<1>11. high # {} => Min({99, best2 + several2}) \in Nat
  <2> SUFFICES ASSUME high # {} PROVE Min({99, best2 + several2}) \in Nat
    OBVIOUS
  <2>1. best2 + several2 \in Int /\ best2 + several2 \in Nat
    BY <1>8, <1>9
  <2> QED BY <2>1, SmallerIs
<1>12. low # {} => /\ Min({99, best + several}) \in Nat
                   /\ Min({99, best + several}) <= Min({99, best2 + several2})
  <2> SUFFICES ASSUME low # {}
               PROVE  /\ Min({99, best + several}) \in Nat
                      /\ Min({99, best + several}) <= Min({99, best2 + several2})
    OBVIOUS
  <2>1. /\ best2 + several2 \in Int /\ best + several \in Int
        /\ best + several \in Nat /\ best + several <= best2 + several2
    BY <1>8, <1>9, <1>10
  <2>2. /\ Min({99, best + several}) = IF 99 <= best + several THEN 99 ELSE best + several
        /\ Min({99, best2 + several2}) =
             IF 99 <= best2 + several2 THEN 99 ELSE best2 + several2
    BY <2>1, SmallerIs
  <2> QED BY <2>1, <2>2
<1>13. Worth(p, low) = Min({99, best + several}) /\ Worth(q, high) = Min({99, best2 + several2})
  BY DEF Worth, best, best2, several, several2
<1> QED BY <1>11, <1>12, <1>13 DEF low, high

\* However a rule came into a proposal, a richer profile finds it no less applicable.
LEMMA ApplicabilityGrows ==
  ASSUME NEW p, NEW q, Richer(p, q), NEW request, NEW index, NEW rule, IsFiniteSet(rule.tags)
  PROVE  Applicability(rule, request, p, index) <= Applicability(rule, request, q, index)
<1> DEFINE low == rule.tags \intersect Tags(request, p)
           high == rule.tags \intersect Tags(request, q)
           chosen(m) == \/ rule.id \in ProductIds(request, index)
                        \/ request.filters # None /\ m # {}
           proposed(x) == \/ rule.id \in Generic(request, x, index)
                          \/ rule.id \in Matches(request, x, index)
           basis(x, m) == IF chosen(m) THEN "explicit"
                          ELSE IF m # {} THEN "detected"
                          ELSE IF rule.tags = {} /\ proposed(x) THEN "generic" ELSE "none"
           is(x, m) == CASE basis(x, m) = "explicit" -> 100
                         [] basis(x, m) = "detected" -> Worth(x, m)
                         [] basis(x, m) = "generic" -> 70
                         [] OTHER -> 0
<1>1. /\ Applicability(rule, request, p, index) = is(p, low)
      /\ Applicability(rule, request, q, index) = is(q, high)
  BY DEF Applicability, Basis, Worth
<1>2. low \subseteq high /\ (proposed(p) => proposed(q))
  BY SelectionGrows
<1>3. request.filters # None => low = high
  BY DEF Tags
<1>4. request.filters = None => /\ low = rule.tags \intersect p.tags
                                /\ high = rule.tags \intersect q.tags
  BY DEF Tags
<1>5. rule.tags = {} => high = {}
  OBVIOUS
<1>6. request.filters = None =>
        /\ high # {} => Worth(q, high) \in Nat
        /\ low # {} => Worth(p, low) \in Nat /\ Worth(p, low) <= Worth(q, high)
  <2> SUFFICES ASSUME request.filters = None
               PROVE  /\ high # {} => Worth(q, high) \in Nat
                      /\ low # {} => Worth(p, low) \in Nat /\ Worth(p, low) <= Worth(q, high)
    OBVIOUS
  <2> HIDE DEF low, high
  <2> QED BY <1>4, DetectedGrows
<1> HIDE DEF low, high, proposed
<1>7. is(q, high) \in Nat
  <2>1. chosen(high) \/ high = {} \/ request.filters = None
    OBVIOUS
  <2> QED BY <1>6, <2>1
<1>8. CASE chosen(low)
  <2>1. chosen(high)
    BY <1>2, <1>8
  <2> QED BY <1>1, <1>8, <2>1
<1>9. CASE ~ chosen(low) /\ low # {}
  <2>1. request.filters = None /\ high # {} /\ ~ chosen(high)
    BY <1>2, <1>9
  <2>2. is(p, low) = Worth(p, low) /\ is(q, high) = Worth(q, high)
    BY <1>9, <2>1
  <2> QED BY <1>1, <1>6, <1>9, <2>1, <2>2
<1>10. CASE ~ chosen(low) /\ low = {} /\ rule.tags = {} /\ proposed(p)
  <2>1. high = {} /\ ~ chosen(high) /\ proposed(q)
    BY <1>2, <1>5, <1>10
  <2>2. is(p, low) = 70 /\ is(q, high) = 70
    BY <1>10, <2>1
  <2> QED BY <1>1, <2>2
<1>11. CASE ~ chosen(low) /\ low = {} /\ ~ (rule.tags = {} /\ proposed(p))
  <2>1. is(p, low) = 0
    BY <1>11
  <2> QED BY <1>1, <1>7, <2>1
<1> QED BY <1>8, <1>9, <1>10, <1>11

-----------------------------------------------------------------------------
\* The rows of a job are what a crawl may find, one after the other.
RowsInv == evidence \subseteq Rows /\ IsFiniteSet(evidence) /\ release \in Indexes

LEMMA RowsInvariance == Spec => []RowsInv
<1>1. Init => RowsInv
  BY FS_EmptySet DEF Init, JobInit, RowsInv
<1>2. RowsInv /\ [Next]_vars => RowsInv'
  <2> SUFFICES ASSUME RowsInv, [Next]_vars PROVE RowsInv'
    OBVIOUS
  <2>1. CASE Discover
    BY <2>1, FS_AddElement DEF Discover, Record, RowsInv
  <2>2. CASE Publish
    BY <2>2 DEF Publish, jobVars, RowsInv, Indexes
  <2>3. CASE UNCHANGED <<evidence, release>>
    BY <2>3 DEF RowsInv
  <2>4. Finish \/ Propose \/ Edit \/ Promote \/ Exception \/ Approve \/ Select \/ Fail
          \/ UNCHANGED vars =>
          UNCHANGED <<evidence, release>>
    BY DEF Finish, Complete, Propose, Edit, Promote, Exception, Begin, Approve, Select, Fail,
           vars, jobVars
  <2> QED BY <2>1, <2>2, <2>3, <2>4 DEF Next
<1> QED BY <1>1, <1>2, PTL DEF Spec

\* More rows take nothing out of a proposal and make no rule of it less applicable,
\* whatever is published and asked for, and whatever rows a crawl adds.
THEOREM MoreEvidenceOnlyAddsHolds == Spec => MoreEvidenceOnlyAdds
<1>1. RowsInv /\ RowsInv' /\ [Next]_vars =>
        [evidence' # evidence => \A request \in Requests :
           LET less == Profile(evidence, TagsOf(release))
               more == Profile(evidence', TagsOf(release))
           IN /\ Selected(request, less, release) \subseteq Selected(request, more, release)
              /\ \A r \in Catalog[release] : r.id \in Selected(request, less, release) =>
                   Applicability(r, request, less, release)
                     <= Applicability(r, request, more, release)]_vars
  <2> SUFFICES ASSUME RowsInv, RowsInv', [Next]_vars, evidence' # evidence,
                      NEW request \in Requests
               PROVE  LET less == Profile(evidence, TagsOf(release))
                          more == Profile(evidence', TagsOf(release))
                      IN /\ Selected(request, less, release) \subseteq
                              Selected(request, more, release)
                         /\ \A r \in Catalog[release] :
                              Applicability(r, request, less, release)
                                <= Applicability(r, request, more, release)
    OBVIOUS
  <2> DEFINE less == Profile(evidence, TagsOf(release))
             more == Profile(evidence', TagsOf(release))
  <2>1. evidence \subseteq evidence'
    BY DEF Next, Discover, Record, Finish, Complete, Publish, Propose, Edit, Promote, Exception,
           Begin, Approve, Select, Fail, vars, jobVars
  <2>2. Richer(less, more)
    BY <2>1, ProfileGrows DEF RowsInv
  <2>3. \A r \in Catalog[release] : IsFiniteSet(r.tags)
    BY RuleIsEntry, NothingUnpublished, IndexAssumption DEF RowsInv, Indexes
  <2> HIDE DEF less, more
  <2>4. Selected(request, less, release) \subseteq Selected(request, more, release)
    BY <2>2, SelectionGrows
  <2>5. \A r \in Catalog[release] : Applicability(r, request, less, release)
                                      <= Applicability(r, request, more, release)
    BY <2>2, <2>3, ApplicabilityGrows
  <2> QED BY <2>4, <2>5 DEF less, more
<1> QED BY <1>1, RowsInvariance, PTL DEF Spec, MoreEvidenceOnlyAdds
=============================================================================
