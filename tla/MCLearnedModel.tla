----------------------------- MODULE MCLearnedModel -----------------------------
(* A small instance of LearnedModel for TLC: requests that differ in the case of *)
(* a query key, in the slash at the end, in the scheme, in whether they carry     *)
(* cookies and in what their paths hide; a key without a value, a name that is    *)
(* not safe, a path that begins with // and one that is too long; two types on    *)
(* one path; two cookies of one name and one below a hidden segment.              *)
EXTENDS LearnedModel, TLC

Get(path, scheme, cookie, query, flags) ==
  [method |-> "GET", path |-> path, scheme |-> scheme, resource |-> "document", cookie |-> cookie,
   names |-> [query |-> query, request_header |-> {"accept"}], flags |-> flags]

SiteRequests ==
  {Get(<<"items", "5">>, "https", TRUE, {"id"}, {}),
   Get(<<"items", "5">>, "http", FALSE, {"ID", "a b"}, {}),
   Get(<<"Tk9">>, "https", TRUE, {}, {}),
   Get(<<"items">>, "https", TRUE, {}, {"flag"}),
   Get(<<"items", "">>, "http", TRUE, {"page"}, {}),
   Get(<<"", "items">>, "https", FALSE, {}, {}),
   Get(<<"items", "5", "items">>, "https", FALSE, {}, {}),
   [Get(<<"items">>, "https", TRUE, {}, {}) EXCEPT !.method = "POST"]}
SiteAnswers == {[headers |-> {"Type"}, type |-> "html"], [headers |-> {"type"}, type |-> "json"]}
SiteCookies ==
  {[name |-> "sid", domain |-> "host", path |-> <<>>, secure |-> TRUE],
   [name |-> "sid", domain |-> "host", path |-> <<"items">>, secure |-> FALSE],
   [name |-> "tag", domain |-> "host", path |-> <<"items", "5">>, secure |-> FALSE]}
SegmentKind == ("" :> "literal") @@ ("items" :> "literal") @@ ("5" :> "int") @@ ("Tk9" :> "token")
FoldOf == ("page" :> "page") @@ ("ID" :> "id") @@ ("a b" :> "a b") @@ ("flag" :> "flag")
            @@ ("sid" :> "sid") @@ ("tag" :> "tag") @@ ("accept" :> "accept") @@ ("Type" :> "type")
            @@ ("type" :> "type") @@ ("id" :> "id") @@ ("id_2" :> "id_2") @@ ("id_3" :> "id_3")
SafeNames == DOMAIN FoldOf \ {"a b"}
=============================================================================
