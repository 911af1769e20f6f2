----------------------------- MODULE MCScraper ------------------------------
(* Scraper on a wiki whose tables have the layouts of parser_test.go, and  *)
(* some that it has not: two franchises, of which one lists a season that  *)
(* the other lists too, and the pages of two seasons.                      *)
EXTENDS Scraper

Data(cells, link) == [header |-> FALSE, cells |-> cells, link |-> link]
Text(kind) == [kind |-> kind, number |-> 0]
Number(n) == [kind |-> "number", number |-> n]

Link(href, season, inName, inHref) ==
    [href |-> href, named |-> href # "none", season |-> season,
     inName |-> inName, inHref |-> inHref]
NoLink == Link("none", FALSE, {}, {})
Wiki == Link("wiki", FALSE, {}, {})

Label == Text("text")
Date == Text("date")

(* Row, page it is on, page it leads to, and what it means.  Of the two    *)
(* numbers of e5, overall and within the season, the first is taken for    *)
(* the meant one: a convention, as nothing in the repository settles it.   *)
MCTable == [
    head |-> <<[header |-> TRUE, cells |-> <<>>, link |-> NoLink], "main", "main", {}>>,
    f1   |-> <<Data(<<Label, Label>>, Wiki), "main", "show1", {<<0, 1, 0>>}>>,
    f2   |-> <<Data(<<Label, Text("footnote")>>, Wiki), "main", "show2", {<<0, 1, 0>>}>>,
    ad   |-> <<Data(<<Label, Label>>, Link("other", FALSE, {}, {})), "main", "main", {}>>,
    land |-> <<Data(<<Label, Text("blank")>>, Wiki), "main", "main", {}>>,
    s1   |-> <<Data(<<Text("label"), Date>>, Link("wiki", TRUE, {1}, {7})), "show1", "season1",
               {<<1, 1, 2>>}>>,
    s2   |-> <<Data(<<Label, Label, Date, Date>>, Link("wiki", TRUE, {}, {2})), "show1", "season2",
               {<<2, 1, 3>>}>>,
    tba  |-> <<Data(<<Label, Label>>, Link("wiki", TRUE, {3}, {3})), "show1", "season2", {}>>,
    zero |-> <<Data(<<Label, Date>>, Link("wiki", TRUE, {}, {})), "show2", "season1", {}>>,
    x1   |-> <<Data(<<Label, Date>>, Link("wiki", TRUE, {1}, {1})), "show2", "season1",
               {<<1, 1, 2>>}>>,
    e1   |-> <<Data(<<Number(1), Text("quoted"), Date>>, NoLink), "season1", "main", {<<1, 2, 3>>}>>,
    e2   |-> <<Data(<<Label, Number(2), Text("quoted"), Date>>, NoLink), "season1", "main",
               {<<2, 3, 4>>}>>,
    e3   |-> <<Data(<<Number(3), Label, Date>>, NoLink), "season1", "main", {<<3, 2, 3>>}>>,
    e4   |-> <<Data(<<Number(4), Text("label"), Date>>, NoLink), "season2", "main", {<<4, 0, 3>>}>>,
    e5   |-> <<Data(<<Number(9), Number(5), Text("quoted"), Date>>, NoLink), "season2", "main",
               {<<9, 3, 4>>}>>,
    e6   |-> <<Data(<<Number(6), Text("quoted"), Label>>, NoLink), "season2", "main", {}>>,
    e7   |-> <<Data(<<Label, Label, Date>>, NoLink), "season2", "main", {}>> ]

MCRows == DOMAIN MCTable
MCRow == [r \in MCRows |-> MCTable[r][1]]
MCOn == [r \in MCRows |-> MCTable[r][2]]
MCTo == [r \in MCRows |-> MCTable[r][3]]
MCMeant == [r \in MCRows |->
               {[number |-> x[1], title |-> x[2], aired |-> x[3]] : x \in MCTable[r][4]}]

(* What ScraperProofs assumes of a wiki holds of this one.                 *)
ASSUME LaidOutOK == LaidOut
=============================================================================
