---------------------------- MODULE LearnedModel ----------------------------
(***************************************************************************)
(* How a positive model is learned and used: a guided session or the rows   *)
(* of a discovery job say what was requested, control-api builds a          *)
(* candidate from that, an operator restricts it, and the dry run compares  *)
(* a transaction's metadata with it.  A session keeps only the newest       *)
(* requests and interactions, and hands over the cookies it has left.       *)
(*                                                                          *)
(* A path is the sequence of its segments: / is <<"">> and //x <<"", "x">>. *)
(* A template has the kind of a segment where redacted_route_template hides *)
(* the segment; lengths are counted in segments.  Scores are hundredths.    *)
(***************************************************************************)
EXTENDS Integers, Sequences, FiniteSets, SequencesExt

CONSTANTS
  Requests,    \* what is requested: [method, path, scheme, resource, cookie, names, flags]
  Answers,     \* what is answered: [headers, type]
  Cookies,     \* what a site may set: [name, domain, path, secure]
  Kind,        \* segment -> "literal", "int", "uuid" or "token"
  Fold,        \* name -> the name in lower case
  Safe,        \* the names that SAFE_FIELD_NAME lets through
  KeepRequests, KeepInteractions, KeepCookies, \* MAX_NETWORK_EVENTS and its like
  MaxSegments, MaxTypes, MaxFields,            \* what EndpointModel has room for
  MaxRows,     \* bound on the rows of a discovery job
  MaxEvents,   \* bound on what happens to the evidence
  Unset

Locations == {"query", "request_header", "response_header"}
Labels == {"anonymous", "unknown", "role-specific"}

VARIABLES
  source,       \* "guided" or "discovery"
  observed,     \* its requests: [request, via, answer, same, label]
  label,        \* the auth_state of the session
  jar,          \* the cookies its browser context has of the host
  interactions, \* its interaction_events: the query keys each was matched with
  events,       \* how much has happened
  candidate,    \* the last candidate: its state, and its endpoints
  handed,       \* what it was built from: requests, cookies and linked names
  cut,          \* how many requests were cut from observed since
  edited        \* whether the operator has changed the candidate

session == <<label, jar, interactions>>
evidence == <<source, observed, session, events>>
learning == <<evidence, candidate, handed, cut, edited>>

-----------------------------------------------------------------------------
(* Paths: redacted_route_template, _safe_observed_path and _route_matches. *)

Hidden(path) ==
  [i \in DOMAIN path |-> IF Kind[path[i]] = "literal" THEN path[i] ELSE Kind[path[i]]]

\* Not one that begins with //.
OriginRelative(path) == Len(path) > 1 => path[1] # ""

\* EndpointModel and TransactionDescriptor take no other path.
Describable(path) == OriginRelative(path) /\ Len(path) <= MaxSegments

\* The parameters of a path are numbered; three names are enough for the paths modelled.
ParameterNames == <<"id", "id_2", "id_3">>

Parameters(template) == {k \in DOMAIN template : template[k] \in {"int", "uuid"}}
Number(template, k) == Cardinality({j \in Parameters(template) : j <= k})

\* A guided session hides segments; discovery cuts a path that is too long.
Template(o) ==
  IF o.via = "guided_browser" THEN Hidden(o.request.path)
  ELSE SubSeq(o.request.path, 1, Min({Len(o.request.path), MaxSegments}))

\* Slashes at the ends are stripped, so that nothing is like empty segments.
Segment(path, i) == IF i \in DOMAIN path THEN path[i] ELSE ""

\* {path_segment} stands for any segment.
RouteMatches(template, path) ==
  \A i \in DOMAIN template \cup DOMAIN path :
    LET t == Segment(template, i)
        p == Segment(path, i)
    IN t = p \/ (t = "token" /\ p # "") \/ (t \in {"int", "uuid"} /\ Kind[p] = t)

\* What the names of a site and its paths are: lower case stays lower case, braces are
\* not in a path, and a path has no more parameters than there are names for them.
Site ==
  /\ Requests \subseteq [method : STRING, path : Seq(DOMAIN Kind), scheme : {"http", "https"},
                         resource : STRING, cookie : BOOLEAN,
                         names : [{"query", "request_header"} -> SUBSET DOMAIN Fold],
                         flags : SUBSET DOMAIN Fold]
  /\ \A a \in Answers : a.headers \subseteq DOMAIN Fold /\ IsFiniteSet(a.headers)
  /\ Unset \notin Answers
  /\ IsFiniteSet(Cookies)
  /\ Cookies \subseteq [name : DOMAIN Fold, domain : STRING, path : Seq(DOMAIN Kind),
                        secure : BOOLEAN]
  /\ \A s \in DOMAIN Kind : Kind[s] \in {"literal", "int", "uuid", "token"}
  /\ {"int", "uuid", "token"} \cap DOMAIN Kind = {}
  /\ "" \in DOMAIN Kind /\ Kind[""] = "literal"
  /\ \A n \in DOMAIN Fold : Fold[n] \in DOMAIN Fold /\ Fold[Fold[n]] = Fold[n]
  /\ \A r \in Requests : /\ r.path # <<>>
                         /\ IsFiniteSet(r.flags)
                         /\ \A loc \in DOMAIN r.names : IsFiniteSet(r.names[loc])
                         /\ Cardinality(Parameters(Hidden(r.path))) <= Len(ParameterNames)
  /\ \A p \in DOMAIN ParameterNames : /\ ParameterNames[p] \in DOMAIN Fold
                                      /\ Fold[ParameterNames[p]] = ParameterNames[p]
  /\ Unset \notin Labels \cup Nat
  /\ {KeepRequests, KeepInteractions, KeepCookies, MaxSegments} \subseteq Nat \ {0}
  /\ {MaxTypes, MaxFields, MaxRows, MaxEvents} \subseteq Nat

ASSUME SiteAssumption == Site

-----------------------------------------------------------------------------
(* build_guided_candidate, and what build_discovery_candidate gives it. *)

\* 20 and 5 for every sample after the first up to five of them, and 5 for a field an
\* interaction named: never above 50.
Confidence(samples, selected) ==
  (CASE samples < 1 -> 20 [] samples > 6 -> 45 [] OTHER -> 15 + 5 * samples)
    + (IF selected THEN 5 ELSE 0)

\* Of a discovery job, routes of other hosts, with // or without an answer are left out;
\* of a session a request counts whether or not it was answered.
Usable(o) ==
  /\ o.request.method \in {"GET", "HEAD"}
  /\ o.via # "guided_browser" =>
       o.answer # Unset /\ o.same /\ OriginRelative(o.request.path)

KeyOf(o) == [template |-> Template(o), method |-> o.request.method]

\* Of what runtime inspection saw, the first request of a path and a method counts.
Repeated(obs, i) ==
  /\ obs[i].via = "runtime_inspection"
  /\ \E j \in 1..(i - 1) : /\ Usable(obs[j]) /\ obs[j].via = "runtime_inspection"
                           /\ KeyOf(obs[j]) = KeyOf(obs[i])

Counted(obs) == {i \in DOMAIN obs : Usable(obs[i]) /\ ~ Repeated(obs, i)}

\* Mutant: one anonymous request makes an endpoint public.
AuthenticationAny(labels) ==
  CASE "anonymous" \in labels -> "public"
    [] labels \subseteq {"role-specific"} -> "role_specific"
    [] OTHER -> "unknown"

Authentication(labels) ==
  CASE labels = {"anonymous"} -> "public"
    [] labels = {"role-specific"} -> "role_specific"
    [] labels = {"anonymous", "role-specific"} -> "optional"
    [] OTHER -> "unknown"

\* Header names are kept in lower case, query names as they are.
Kept(location, name) == IF location = "query" THEN name ELSE Fold[name]

\* of tells the fields of two cookies of one name apart.
Field(location, name, of, samples, links, type) ==
  [location |-> location, name |-> name, of |-> of, type |-> type,
   required |-> FALSE, max |-> Unset,
   score |-> Confidence(samples, Fold[name] \in links)]

\* What is known of a request: a session drops query keys that come without a value,
\* discovery keeps no request headers, and runtime inspection not even the response's.
NamesOf(o, location) ==
  CASE location = "query" -> o.request.names["query"] \cup
                               (IF o.via = "guided_browser" THEN {} ELSE o.request.flags)
    [] location = "request_header" /\ o.via = "guided_browser" ->
         o.request.names["request_header"]
    [] location = "response_header" /\ o.via # "runtime_inspection" /\ o.answer # Unset ->
         o.answer.headers
    [] OTHER -> {}

\* Mutant: an answer's header names replace the request's.
NamesReplaced(o, location) ==
  IF location = "request_header" /\ o.answer # Unset THEN {}
  ELSE {Kept(location, n) : n \in NamesOf(o, location) \cap Safe}

NamesSeen(o, location) == {Kept(location, n) : n \in NamesOf(o, location) \cap Safe}

Having(n, loc, obs, is) == {i \in is : n \in NamesSeen(obs[i], loc)}
FieldsAt(loc, obs, is, links) ==
  {Field(loc, n, {}, Cardinality(Having(n, loc, obs, is)), links, "unknown") :
     n \in UNION {NamesSeen(obs[i], loc) : i \in is}}
NamedFields(obs, is, links) == UNION {FieldsAt(loc, obs, is, links) : loc \in Locations}

\* Mutant: the path of the cookie is not compared.
CarriesAnywhere(o, c) ==
  /\ o.via = "guided_browser" /\ o.request.cookie
  /\ c.secure => o.request.scheme = "https"

\* Whether a request is taken to have carried the cookie; the cookie's path is compared
\* with the template.
Carries(o, c) ==
  /\ o.via = "guided_browser" /\ o.request.cookie
  /\ c.secure => o.request.scheme = "https"
  /\ IsPrefix(c.path, Template(o))

\* Every cookie gives a field, also the second one of a name.
Carrying(c, obs, is) == {i \in is : Carries(obs[i], c)}
CookieFields(obs, is, cookies, links) ==
  {Field("request_cookie", c.name, {c}, Cardinality(Carrying(c, obs, is)), links, "unknown") :
     c \in {x \in cookies : x.name \in Safe /\ \E i \in is : Carries(obs[i], x)}}

PathFields(obs, is, template, links) ==
  {Field("path", ParameterNames[Number(template, k)], {}, Cardinality(is), links,
         IF template[k] = "int" THEN "integer" ELSE "string") :
     k \in Parameters(template)}

\* The requests of an endpoint.
Of(obs, key) == {i \in Counted(obs) : KeyOf(obs[i]) = key}

TypesSeen(obs, is) == {obs[i].answer.type : i \in {j \in is : obs[j].answer # Unset}} \ {Unset}

Endpoint(obs, key, cookies, links) ==
  LET is == Of(obs, key)
      vias == {obs[i].via : i \in is}
  IN [template |-> key.template, method |-> key.method,
      authentication |-> Authentication({obs[i].label : i \in is}),
      types |-> TypesSeen(obs, is),
      fields |-> NamedFields(obs, is, links) \cup CookieFields(obs, is, cookies, links)
                   \cup PathFields(obs, is, key.template, links),
      score |-> Min({65, Confidence(Cardinality(is), FALSE) + 5 * (Cardinality(vias) - 1)})]

\* Mutant: the location is not compared.
NameKey(f) == <<"field", Fold[f.name]>>

\* Names are compared in lower case.
FieldKey(f) == <<f.location, Fold[f.name]>>

\* EndpointModel.
ValidEndpoint(e) ==
  /\ Describable(e.template)
  /\ Cardinality(e.types) <= MaxTypes
  /\ Cardinality(e.fields) <= MaxFields
  /\ Cardinality({FieldKey(f) : f \in e.fields}) = Cardinality(e.fields)

Keys(obs) == {KeyOf(obs[i]) : i \in Counted(obs)}

\* 422 when the document does not pass its own schema.
Learn(obs, cookies, links) ==
  LET endpoints == {Endpoint(obs, key, cookies, links) : key \in Keys(obs)}
  IN IF \A e \in endpoints : ValidEndpoint(e)
       THEN [state |-> "model", endpoints |-> endpoints]
       ELSE [state |-> "refused", endpoints |-> {}]

-----------------------------------------------------------------------------
(* validate_transaction. *)

Context(state) == CASE state = "anonymous" -> "public"
                    [] state = "role-specific" -> "role_specific"
                    [] OTHER -> "unknown"

\* The metadata of a request: its fields are named once for each location.
Transaction(request, state, cookies, type, length) ==
  [method |-> request.method, path |-> request.path, authentication |-> Context(state),
   keys |-> {<<"query", Fold[n]>> : n \in request.names["query"] \cup request.flags}
              \cup {<<"request_header", Fold[n]>> : n \in request.names["request_header"]}
              \cup {<<"request_cookie", Fold[c.name]>> : c \in cookies},
   type |-> type, length |-> length]

Routes(model, t) == {e \in model : RouteMatches(e.template, t.path)}
Matching(model, t) == {e \in Routes(model, t) : e.method = t.method}

When(condition, finding) == IF condition THEN {finding} ELSE {}
Differ(a, b) == "unknown" \notin {a, b} /\ a # b

FieldFindings(f, t) ==
  IF FieldKey(f) \notin t.keys
  THEN When(f.required, "required_field_missing")
  ELSE When(Differ(f.type, t.type), "field_type_mismatch")
         \cup When(f.max # Unset /\ t.length # Unset /\ t.length > f.max, "field_above_max_length")

\* What is found of the first endpoint of the path and the method, whichever of
\* them comes first.
FindingsAt(model, e, t) ==
  When(Matching(model, t) # {e}, "ambiguous_model_route")
    \cup When(Differ(e.authentication, t.authentication), "authentication_context_mismatch")
    \cup (UNION {FieldFindings(f, t) : f \in e.fields})
    \cup When(~ (t.keys \subseteq {FieldKey(f) : f \in e.fields}), "unexpected_field")

\* Mutant: a missing field ends the comparison.
FindingsEarly(model, t) ==
  {IF "required_field_missing" \in found THEN {"required_field_missing"} ELSE found :
     found \in {FindingsAt(model, e, t) : e \in Matching(model, t)}}

Findings(model, t) ==
  IF Matching(model, t) = {}
  THEN {{IF Routes(model, t) = {} THEN "route_not_modeled" ELSE "method_not_modeled"}}
  ELSE {FindingsAt(model, e, t) : e \in Matching(model, t)}

-----------------------------------------------------------------------------
Nothing == [requests |-> <<>>, cookies |-> {}, names |-> {}]

LearningInit ==
  /\ source \in {"guided", "discovery"}
  /\ observed = <<>>
  /\ label = IF source = "guided" THEN "anonymous" ELSE "unknown"
  /\ jar = {}
  /\ interactions = <<>>
  /\ events = 0
  /\ candidate = [state |-> "none", endpoints |-> {}]
  /\ handed = Nothing
  /\ cut = 0
  /\ edited = FALSE

Newest(s, n) == SubSeq(s, Max({1, Len(s) - n + 1}), Len(s))

Happens(kind) ==
  /\ source = kind /\ events < MaxEvents
  /\ events' = events + 1
  /\ UNCHANGED <<source, candidate, handed, edited>>

\* record_request: a GET or HEAD in scope is kept before it is answered, and before the
\* guard may abort it.
Observe(r) ==
  /\ Happens("guided") /\ UNCHANGED session
  /\ r.method \in {"GET", "HEAD"}
  /\ LET all == Append(observed, [request |-> r, via |-> "guided_browser", answer |-> Unset,
                                  same |-> TRUE, label |-> label])
     IN /\ observed' = Newest(all, KeepRequests)
        /\ cut' = cut + Len(all) - Len(observed')

\* What of a request its URL and resource type tell.
Told(r) == <<r.method, r.path, r.scheme, r.resource, r.names["query"], r.flags>>

\* record_response: the last of the same method, URL and type that has no answer gets it.
Respond(i, a) ==
  /\ Happens("guided") /\ UNCHANGED <<session, cut>>
  /\ observed[i].answer = Unset
  /\ \A j \in DOMAIN observed :
       j > i /\ Told(observed[j].request) = Told(observed[i].request) => observed[j].answer # Unset
  /\ observed' = [observed EXCEPT ![i].answer = a]

\* A row of a discovery job: what the crawl or runtime inspection saw, answered or not, of
\* this host or of another.
ListRow(r) ==
  /\ Happens("discovery") /\ UNCHANGED <<session, cut>>
  /\ Len(observed) < MaxRows
  /\ \E via \in {"passive_crawl", "runtime_inspection"}, a \in Answers \cup {Unset},
        same \in BOOLEAN :
       observed' = Append(observed, [request |-> r, via |-> via, answer |-> a, same |-> same,
                                     label |-> label])

\* The site sets a cookie, in place of one of the same name, domain and path.
SetCookie(c) ==
  /\ Happens("guided") /\ UNCHANGED <<observed, label, interactions, cut>>
  /\ jar' = {d \in jar : <<d.name, d.domain, d.path>> # <<c.name, c.domain, c.path>>} \cup {c}

\* A cookie expires or is deleted.
DropCookie(c) ==
  /\ Happens("guided") /\ UNCHANGED <<observed, label, interactions, cut>>
  /\ jar' = jar \ {c}

\* The one login of a session.
SignIn ==
  /\ Happens("guided") /\ UNCHANGED <<observed, jar, interactions, cut>>
  /\ label = "anonymous"
  /\ label' \in {"unknown", "role-specific"}

\* A page event or an operator's act is kept.
Interact ==
  /\ Happens("guided") /\ UNCHANGED <<observed, label, jar, cut>>
  /\ interactions' = Newest(Append(interactions, {}), KeepInteractions)

\* correlate_focus_to_requests: the control's name and id are query keys of requests.
Correlate(k) ==
  /\ Happens("guided") /\ UNCHANGED <<observed, label, jar, cut>>
  /\ interactions[k] = {}
  /\ LET asked == {r \in {o.request : o \in Range(observed)} :
                     r.resource \in {"document", "xhr", "fetch"}}
         keys == {Fold[n] : n \in UNION {r.names["query"] \cup r.flags : r \in asked}}
     IN \E names \in SUBSET keys :
          /\ Cardinality(names) \in 1..2
          /\ interactions' = [interactions EXCEPT ![k] = names]

\* candidate-source, and the candidate built from it.  Which cookies are left when there
\* are more than are handed over is the browser's choice.
Build ==
  /\ \E cookies \in kSubset(Min({Cardinality(jar), KeepCookies}), jar) :
       handed' = [requests |-> observed, cookies |-> cookies, names |-> UNION Range(interactions)]
  /\ candidate' = Learn(handed'.requests, handed'.cookies, handed'.names)
  /\ cut' = 0
  /\ edited' = FALSE
  /\ UNCHANGED evidence

\* An operator makes a field required, or gives it a type or a greatest length.
Restrictions(f) ==
  {[f EXCEPT !.required = TRUE], [f EXCEPT !.max = 1]}
    \cup {[f EXCEPT !.type = t] : t \in {x \in {"integer", "string"} : f.type = "unknown"}}

Tighten(e, f) ==
  /\ ~ edited
  /\ \E g \in Restrictions(f) :
       candidate' = [candidate EXCEPT !.endpoints =
                       (@ \ {e}) \cup {[e EXCEPT !.fields = (@ \ {f}) \cup {g}]}]
  /\ edited' = TRUE
  /\ UNCHANGED <<evidence, handed, cut>>

IsModel(c) == c.state = "model"

LearningNext ==
  \/ \E r \in Requests : Observe(r)
  \/ \E i \in DOMAIN observed : \E a \in Answers : Respond(i, a)
  \/ \E r \in Requests : ListRow(r)
  \/ \E c \in Cookies : SetCookie(c)
  \/ \E c \in jar : DropCookie(c)
  \/ SignIn
  \/ Interact
  \/ \E k \in DOMAIN interactions : Correlate(k)
  \/ Build
  \/ IsModel(candidate) /\ \E e \in candidate.endpoints : \E f \in e.fields : Tighten(e, f)

LearningSpec == LearningInit /\ [][LearningNext]_learning

-----------------------------------------------------------------------------
Own == {i \in Counted(handed.requests) : Describable(handed.requests[i].request.path)}

\* The cookies handed over that a request carried, if they were there: those of its own
\* path, where the model compares the template.
Carried(o) ==
  {c \in handed.cookies : /\ o.via = "guided_browser" /\ o.request.cookie
                          /\ c.secure => o.request.scheme = "https"
                          /\ IsPrefix(c.path, o.request.path)}

\* What an operator asks the dry run of a request it was learned from; discovery knows
\* nothing of its headers.
OwnTransaction(o) ==
  Transaction([o.request EXCEPT !.names["request_header"] =
                 IF o.via = "guided_browser" THEN @ ELSE {}],
              o.label, Carried(o), "unknown", 1)

\* What of a request the model has no field for: a name the model takes no field of, a
\* query key without a value in a session, a cookie below a segment that the template
\* hides.
Unlearnable(o) ==
  \/ ~ (o.request.names["query"] \cup o.request.flags \subseteq Safe)
  \/ o.via = "guided_browser" /\ ~ (o.request.names["request_header"] \subseteq Safe)
  \/ o.via = "guided_browser" /\ o.request.flags # {}
  \/ \E c \in Carried(o) : c.name \notin Safe \/ ~ IsPrefix(c.path, Template(o))

\* What a model was learned from passes its dry run, from the same session: all it may
\* be told of its own traffic is that two of its templates match the path, that the
\* endpoint was seen with and without a login, and that a field is not modelled
\* of the kinds build_guided_candidate cannot learn (guided_candidate_source,
\* build_guided_candidate, redacted_route_template, validate_transaction).
OwnTrafficPasses ==
  (IsModel(candidate) /\ ~ edited) =>
    \A i \in Own :
      LET o == handed.requests[i]
          t == OwnTransaction(o)
          mine == {e \in candidate.endpoints : e.template = Template(o) /\ e.method = o.request.method}
          allowed == (IF Unlearnable(o) THEN {"unexpected_field"} ELSE {})
                       \cup {"authentication_context_mismatch"}
      IN /\ \A found \in Findings(candidate.endpoints, t) :
              "ambiguous_model_route" \in found \/ found \subseteq allowed
         /\ \A e \in mine :
              /\ FindingsAt(candidate.endpoints, e, t) \subseteq
                   allowed \cup {"ambiguous_model_route"}
              /\ "authentication_context_mismatch" \in FindingsAt(candidate.endpoints, e, t) =>
                   e.authentication = "optional"

\* Nothing is in a model that was not seen: every endpoint was requested, of this host
\* (by a discovery job: and answered), every field by one of its requests or in an
\* answer to one, every cookie was in reach of one and is still there
\* (guided_candidate_source, build_guided_candidate, build_discovery_candidate).
NothingUnseen ==
  (IsModel(candidate) /\ ~ edited) =>
    \A e \in candidate.endpoints :
      LET seen == {o \in Range(handed.requests) :
                     /\ o.same /\ Template(o) = e.template /\ o.request.method = e.method
                     /\ o.via = "guided_browser" \/ o.answer # Unset}
          answered == {o \in seen : o.answer # Unset}
      IN /\ seen # {}
         /\ \A type \in e.types : \E o \in answered : o.answer.type = type
         /\ \A f \in e.fields :
              CASE f.location = "path" ->
                     \E i \in DOMAIN e.template : e.template[i] \in {"int", "uuid"}
                [] f.location = "request_cookie" ->
                     \E c \in handed.cookies : \E o \in seen :
                       /\ c.name = f.name /\ o.request.cookie
                       /\ c.secure => o.request.scheme = "https"
                       /\ \A k \in DOMAIN c.path : k \in DOMAIN e.template /\ e.template[k] = c.path[k]
                [] f.location = "response_header" ->
                     \E o \in answered : \E n \in o.answer.headers : Fold[n] = Fold[f.name]
                [] f.location = "request_header" ->
                     \E o \in seen : \E n \in o.request.names["request_header"] : Fold[n] = Fold[f.name]
                [] OTHER ->
                     \E o \in seen : f.name \in o.request.names["query"] \cup o.request.flags

\* Why a candidate is refused.  A session asked for a path that begins with // or is too
\* long, an endpoint was answered with too many types or has too many fields, or it
\* was asked for two query keys that differ in case alone, or two cookies of one name
\* were in its reach: one such endpoint makes the whole session worthless, and
\* nothing else does (EndpointModel).
RefusedForCause ==
  candidate.state = "refused" =>
    LET obs == handed.requests
    IN \/ \E o \in Range(obs) : o.via = "guided_browser" /\ ~ Describable(o.request.path)
       \/ \E i \in Counted(obs) :
            \/ Cardinality(TypesSeen(obs, Of(obs, KeyOf(obs[i])))) > MaxTypes
            \/ Cardinality(Endpoint(obs, KeyOf(obs[i]), handed.cookies, handed.names).fields) > MaxFields
       \/ \E i, j \in Counted(obs) :
            /\ KeyOf(obs[i]) = KeyOf(obs[j])
            /\ \/ \E m \in NamesOf(obs[i], "query") : \E n \in NamesOf(obs[j], "query") :
                    m # n /\ Fold[m] = Fold[n]
               \/ \E c, d \in handed.cookies : /\ c # d /\ Fold[c.name] = Fold[d.name]
                                               /\ Carries(obs[i], c) /\ Carries(obs[j], d)

\* What the next candidate lacks of the last one was taken away: an endpoint none of
\* whose requests was cut from the session is still there with no less confidence, and
\* so are its fields but for those of cookies that are gone; a field has no less
\* confidence while the interactions that named something are kept
\* (record_request, guided_candidate_source, _confidence, build_guided_candidate).
MoreNeverLess ==
  [][(IsModel(candidate) /\ IsModel(candidate') /\ ~ edited /\ ~ edited') =>
       \A e \in candidate.endpoints :
         (\A i \in Counted(handed.requests) :
            KeyOf(handed.requests[i]) = [template |-> e.template, method |-> e.method] => i > cut)
         => \E d \in candidate'.endpoints :
              /\ d.template = e.template /\ d.method = e.method
              /\ d.score >= e.score
              /\ \A f \in e.fields :
                   f.of \subseteq handed'.cookies =>
                     \E g \in d.fields :
                       /\ FieldKey(g) = FieldKey(f)
                       /\ handed.names \subseteq handed'.names => g.score >= f.score]_learning

Probes ==
  UNION {{Transaction(r, "unknown", {}, "string", 2), Transaction(r, "unknown", {}, "integer", Unset)} :
           r \in {q \in Requests : Describable(q.path)}}

\* A restriction only adds findings: what was found of a transaction is still found
\* (validate_transaction).
RestrictionsOnlyAdd ==
  [][(~ edited /\ edited') =>
       \A t \in Probes :
         \A found \in Findings(candidate'.endpoints, t) :
           \E before \in Findings(candidate.endpoints, t) : before \subseteq found]_learning
=============================================================================
