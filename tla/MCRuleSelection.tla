-------------------------- MODULE MCRuleSelection --------------------------
(* A small instance of RuleSelection for TLC: two technologies, one of them an   *)
(* alias of two tags, an upload surface and a form; an index with a rule for every *)
(* way into a proposal, and a release that drops two of them.                      *)
EXTENDS RuleSelection, TLC

Plain(kind) ==
  [kind |-> kind, technology |-> None, category |-> None, family |-> None, score |-> 0,
   version |-> None, controls |-> 0, auth |-> FALSE, api |-> FALSE, endpoint |-> None,
   cookies |-> FALSE]
Signal(technology, category, family, score, version) ==
  [Plain("technology") EXCEPT !.technology = technology, !.category = category, !.family = family,
                              !.score = score, !.version = version]

JobRows ==
  {Signal("wordpress", "cms", "html", 80, "6.1"), Signal("wordpress", "cms", "header", 40, "6.2"),
   Signal("iis", "web-server", "header", 65, None),
   Signal("file upload surface", "application-surface", "html", 90, None),
   [Plain("interaction") EXCEPT !.controls = 2, !.cookies = TRUE]}
TagAliases == ("wordpress" :> {"wordpress"}) @@ ("iis" :> {"iis", "asp"})

Widget == [vendor |-> "acme", name |-> "widget"]
Entry(id, classes, tags, words, cves, year, product) ==
  [id |-> id, classes |-> classes, tags |-> tags, words |-> words, cves |-> cves, year |-> year,
   product |-> product]
OfWidget == Entry(7, {"xml"}, {}, {"path"}, {}, 2024, Widget)
Entries ==
  <<Entry(1, {"sql-injection"}, {}, {"protocol"}, {}, 2020, None),
    Entry(1, {"sql-injection"}, {"iis"}, {}, {"CVE-1"}, 2020, None),
    Entry(2, {"cross-site-scripting"}, {"wordpress"}, {}, {"CVE-2"}, 2024, None),
    Entry(3, {"file-upload"}, {}, {"file upload", "path"}, {}, 2024, None),
    Entry(4, {"command-injection"}, {}, {"evasion", "chunked"}, {"CVE-3", "CVE-4"}, 2024, Widget),
    Entry(5, {"sql-injection"}, {"asp", "iis"}, {"evasion"}, {}, 2020, None),
    Entry(6, {"buffer-overflow"}, {}, {"vendor"}, {}, 2020, None),
    Entry(None, {"xml"}, {}, {}, {}, 2020, None)>>
Published ==
  {Entries \o <<OfWidget>>,
   SelectSeq(Entries, LAMBDA e : e.id \notin {2, 6}) \o <<Entry(8, {"xml"}, {}, {"path"}, {}, 2024, None)>>}

Ask(filters, ids) ==
  [filters |-> filters, years |-> None, groups |-> None, generic |-> TRUE, ids |-> ids,
   view |-> "vendor"]
Tag(name) == [kind |-> "tag", name |-> name]
Product(p) == [kind |-> "product", name |-> p]
OperatorRequests ==
  {Ask(None, None), Ask({}, None),
   [Ask(None, None) EXCEPT !.years = {2024}, !.groups = {"xss", "path-file"}],
   [Ask({Tag("wordpress"), Product(Widget)}, None) EXCEPT !.generic = FALSE],
   [Ask({Tag("iis")}, {1, 2, 4}) EXCEPT !.view = "number"]}
AskedIds == {{}, {1, 2}}
=============================================================================
