---------------------------- MODULE WikiParsers -----------------------------
(***************************************************************************)
(* What the parsers of the wiki pages make of a row of a table.            *)
(*                                                                         *)
(* A row is [header, cells, link]: header if it has a th; cells, its td in *)
(* their order, each [kind, number] of what cleanString leaves of it; and  *)
(* link, the first a of the first cell,                                    *)
(*   [href    "wiki" (a path under /wiki/), "other" or "none",             *)
(*    named   it has a text,                                               *)
(*    season  its text or its href contains "season",                      *)
(*    inName, inHref   the season number found in either, a set of one at  *)
(*                     most].                                              *)
(***************************************************************************)
EXTENDS Naturals, Sequences

(* A text can be of two kinds at once only in these ways: quoted, and then *)
(* with "episode" in it or with nothing in it.  A label has "episode" in   *)
(* it too.  Of a footnote cleanString leaves nothing, but TrimSpace, which *)
(* is all that the franchise parser applies, leaves it as it is.           *)
Kinds == {"blank", "footnote", "number", "date", "text", "label",
          "quoted", "quotedLabel", "quotedBlank"}
Quoted == {"quoted", "quotedLabel", "quotedBlank"}

Columns(row, from) == from .. Len(row.cells)

(* The columns whose text tryParseDate accepts.                            *)
Dates(row, from) == {i \in Columns(row, from) : row.cells[i].kind = "date"}

Leftmost(S) == CHOOSE i \in S : \A j \in S : i <= j

-----------------------------------------------------------------------------
IsFranchise(row) ==
    /\ ~row.header /\ Len(row.cells) >= 2
    /\ row.link.href = "wiki" /\ row.link.named
    /\ row.cells[2].kind # "blank"

-----------------------------------------------------------------------------
(* extractSeasonNumber: the name's, else the decoded href's, else 0.       *)
SeasonNumber(link) ==
    LET found == IF link.inName # {} THEN link.inName ELSE link.inHref
    IN IF found = {} THEN 0 ELSE CHOOSE n \in found : TRUE

IsSeason(row) ==
    /\ ~row.header /\ Len(row.cells) >= 2
    /\ row.link.href = "wiki" /\ row.link.season
    /\ SeasonNumber(row.link) # 0
    /\ Dates(row, 2) # {}

-----------------------------------------------------------------------------
(* The first column has the episode's number, or else the second.          *)
NumberColumn(row) == IF row.cells[1].kind = "number" THEN 1 ELSE 2

IsEpisode(row) ==
    /\ ~row.header /\ Len(row.cells) >= 3
    /\ row.cells[NumberColumn(row)].kind = "number"
    /\ Dates(row, 3) # {}

(* The first quoted text, or, if there is none or nothing in it, what      *)
(* follows the number.                                                     *)
TitleColumn(row) ==
    LET quoted == {i \in Columns(row, 2) : row.cells[i].kind \in Quoted}
    IN IF quoted # {} /\ row.cells[Leftmost(quoted)].kind # "quotedBlank"
       THEN Leftmost(quoted)
       ELSE NumberColumn(row) + 1

(* Column 0 stands for the generic title "Episode N".                      *)
Title(row) ==
    IF row.cells[TitleColumn(row)].kind \in {"blank", "footnote", "label", "quotedLabel"}
    THEN 0 ELSE TitleColumn(row)

-----------------------------------------------------------------------------
(* What the parser of a layer (1 franchises, 2 seasons, 3 episodes) makes  *)
(* of the row: one result, or none.                                        *)
Parsed(layer, row) ==
    CASE layer = 1 /\ IsFranchise(row) -> {[number |-> 0, title |-> 1, aired |-> 0]}
      [] layer = 2 /\ IsSeason(row)    -> {[number |-> SeasonNumber(row.link), title |-> 1,
                                           aired |-> Leftmost(Dates(row, 2))]}
      [] layer = 3 /\ IsEpisode(row)   -> {[number |-> row.cells[NumberColumn(row)].number,
                                           title |-> Title(row), aired |-> Leftmost(Dates(row, 3))]}
      [] OTHER -> {}
=============================================================================
