---------------------------- MODULE LineageGraph ----------------------------
(***************************************************************************)
(* The lineage graph in Neo4j: queens, houses and seasons, the five kinds  *)
(* of relationships that the repository merges into it, and the score by   *)
(* which FindAestheticSiblings compares two queens.                        *)
(*                                                                         *)
(* Every write is one transaction.  A write that fails changes nothing and *)
(* is not a step.  Edges are kept as sets of records, as MERGE sees them:  *)
(* an edge of the same ends, direction and merged properties is not added  *)
(* twice.                                                                  *)
(*                                                                         *)
(* The server also runs without the uniqueness constraints, or with some   *)
(* of them, if EnsureConstraints fails.  Then an id may have several       *)
(* nodes, here its copies, and every statement that matches the id matches *)
(* all of them.                                                            *)
(***************************************************************************)
EXTENDS Integers, FiniteSets, Sequences

CONSTANTS
    Queens,      \* ids, ordered
    Houses, Seasons,
    BirthPlace,  \* BirthPlace[q]: a place, or NoPlace
    NoPlace,
    Tags,        \* Tags[q]: the list of q's classifications
    Placements,  \* what a participation says: placement and wins
    Battles,     \* what a lip sync says: song, episode and winner
    Copies,      \* bound: nodes of one id, numbered in the order they are created
    MaxNodes,    \* bound: nodes
    MaxTies      \* bound: relationships between queens

ASSUME LineageOK ==
    /\ Queens \subseteq Int
    /\ MaxNodes \in Nat /\ MaxTies \in Nat

ASSUME FiniteOK ==
    /\ IsFiniteSet(Houses) /\ IsFiniteSet(Seasons)
    /\ \A q \in Queens : IsFiniteSet(DOMAIN Tags[q])

VARIABLES
    constrained,   \* labels whose ids have a uniqueness constraint
    nodes,         \* nodes[l]: the nodes with label l
    mothers, sisters, members, participations, lipSyncs

edges == <<mothers, sisters, members, participations, lipSyncs>>
vars == <<constrained, nodes, edges>>

Labels == {"Queen", "House", "Season"}
Ids == [Queen |-> Queens, House |-> Houses, Season |-> Seasons]

Node(ids) == [id : ids, copy : Copies]

(* MATCH (n:l {id: $id})                                                   *)
Matched(l, id) == {n \in nodes[l] : n.id = id}

Unique(l) == \A m, n \in nodes[l] : m.id = n.id => m = n

Init == /\ constrained = {}
        /\ nodes = [l \in Labels |-> {}]
        /\ mothers = {} /\ sisters = {} /\ members = {}
        /\ participations = {} /\ lipSyncs = {}

Room == Cardinality(mothers) + Cardinality(sisters) + Cardinality(lipSyncs) < MaxTies

-----------------------------------------------------------------------------
(* Mutant: a constraint that fails is logged and the next one is tried.    *)
PreviousTried(l) == TRUE

(* The statements of EnsureConstraints come in this order, and the first   *)
(* that fails ends it.                                                     *)
Previous(l) == \/ l = "Queen"
               \/ l = "House" /\ "Queen" \in constrained
               \/ l = "Season" /\ {"Queen", "House"} \subseteq constrained

(* One statement of EnsureConstraints, at a start of the server: it fails  *)
(* if there are nodes that break the constraint, or for any other reason.  *)
EnsureConstraint(l) ==
    /\ Previous(l)
    /\ Unique(l)
    /\ constrained' = constrained \cup {l}
    /\ UNCHANGED <<nodes, edges>>

(* CreateQueen, CreateHouse, CreateSeason: an id that exists already is an *)
(* error of the constraint.                                                *)
CreateNode(l, id) ==
    /\ l \in constrained => Matched(l, id) = {}
    /\ Cardinality(nodes["Queen"]) + Cardinality(nodes["House"]) + Cardinality(nodes["Season"])
           < MaxNodes
    /\ \E c \in Copies :
        /\ Matched(l, id) = {[id |-> id, copy |-> d] : d \in {d \in Copies : d < c}}
        /\ nodes' = [nodes EXCEPT ![l] = @ \cup {[id |-> id, copy |-> c]}]
    /\ UNCHANGED <<constrained, edges>>

(* MATCH of both ends, then MERGE, for every pair of nodes that matches:   *)
(* the write fails when there is none.                                     *)
Pairs(k, a, l, b) == [from : Matched(k, a), to : Matched(l, b)]

AddDragMother(mother, daughter) ==
    LET pairs == Pairs("Queen", mother, "Queen", daughter)
    IN /\ mother # daughter
       /\ pairs # {}
       /\ Room
       /\ mothers' = mothers \cup pairs
       /\ UNCHANGED <<constrained, nodes, sisters, members, participations, lipSyncs>>

(* Mutant: the ids are not sorted.                                         *)
Unsorted(a, b) == Pairs("Queen", a, "Queen", b)

(* The canonical direction of a symmetric relationship: by sorted ids.     *)
Canonical(a, b) == IF a > b THEN Pairs("Queen", b, "Queen", a) ELSE Pairs("Queen", a, "Queen", b)

AddSister(a, b) ==
    /\ a # b
    /\ Canonical(a, b) # {}
    /\ Room
    /\ sisters' = sisters \cup Canonical(a, b)
    /\ UNCHANGED <<constrained, nodes, mothers, members, participations, lipSyncs>>

AddHouseMember(q, h) ==
    LET pairs == Pairs("Queen", q, "House", h)
    IN /\ pairs # {}
       /\ members' = members \cup pairs
       /\ UNCHANGED <<constrained, nodes, mothers, sisters, participations, lipSyncs>>

(* MERGE without properties, then SET: the edge is added or its properties *)
(* are replaced.                                                           *)
AddParticipation(q, s, p) ==
    LET pairs == Pairs("Queen", q, "Season", s)
    IN /\ pairs # {}
       /\ participations' = {e \in participations : e.edge \notin pairs}
                                \cup [edge : pairs, place : {p}]
       /\ UNCHANGED <<constrained, nodes, mothers, sisters, members, lipSyncs>>

(* The properties are merged with the edge: one edge for every battle.     *)
AddLipSync(a, b, battle) ==
    /\ a # b
    /\ Canonical(a, b) # {}
    /\ Room
    /\ lipSyncs' = lipSyncs \cup [edge : Canonical(a, b), battle : {battle}]
    /\ UNCHANGED <<constrained, nodes, mothers, sisters, members, participations>>

Next ==
    \/ \E l \in Labels : EnsureConstraint(l)
    \/ \E l \in Labels : \E id \in Ids[l] : CreateNode(l, id)
    \/ \E a, b \in Queens : \/ AddDragMother(a, b) \/ AddSister(a, b)
                             \/ \E battle \in Battles : AddLipSync(a, b, battle)
    \/ \E q \in Queens : \/ \E h \in Houses : AddHouseMember(q, h)
                          \/ \E s \in Seasons, p \in Placements : AddParticipation(q, s, p)

Spec == Init /\ [][Next]_vars

-----------------------------------------------------------------------------
(* FindAestheticSiblings.  A MATCH yields a row for every path, and what   *)
(* the query counts is rows.                                               *)

HousePaths(q, o) ==
    {path \in members \X members :
         path[1].from = q /\ path[2].from = o /\ path[1].to = path[2].to}

SeasonPaths(q, o) ==
    {path \in participations \X participations :
         path[1].edge.from = q /\ path[2].edge.from = o /\ path[1].edge.to = path[2].edge.to}

HouseScore(q, o) == IF Cardinality(HousePaths(q, o)) > 0 THEN 10 ELSE 0

(* Mutant: seasons matched before the houses are counted: a row for every  *)
(* house and every season.                                                 *)
SeasonScoreUngrouped(q, o) ==
    5 * Cardinality(SeasonPaths(q, o))
      * (IF HousePaths(q, o) = {} THEN 1 ELSE Cardinality(HousePaths(q, o)))

(* The houses having been counted first there is one row for the pair.     *)
SeasonScore(q, o) == 5 * Cardinality(SeasonPaths(q, o))

BirthPlaceScore(q, o) ==
    IF BirthPlace[q.id] = BirthPlace[o.id] /\ BirthPlace[q.id] # NoPlace THEN 2 ELSE 0

TagSet(id) == {Tags[id][i] : i \in DOMAIN Tags[id]}

(* size([x IN q.classifications WHERE x IN other.classifications]) * 3: a  *)
(* tag counts as often as q's list has it.                                 *)
ClassificationScore(q, o) ==
    3 * Cardinality({i \in DOMAIN Tags[q.id] : Tags[q.id][i] \in TagSet(o.id)})

Score(q, o) == HouseScore(q, o) + SeasonScore(q, o)
               + BirthPlaceScore(q, o) + ClassificationScore(q, o)

(* The rows of the answer for the queen id, before its limit is applied.   *)
Siblings(id) ==
    {row \in Matched("Queen", id) \X nodes["Queen"] :
         row[2].id # id /\ Score(row[1], row[2]) > 0}

-----------------------------------------------------------------------------
Edge(l) == [from : nodes["Queen"], to : nodes[l]]

TypeOK ==
    /\ constrained \subseteq Labels
    /\ nodes \in [Labels -> SUBSET Node(Queens \cup Houses \cup Seasons)]
    /\ \A l \in Labels : nodes[l] \subseteq Node(Ids[l])
    /\ mothers \subseteq Edge("Queen")
    /\ sisters \subseteq Edge("Queen")
    /\ members \subseteq Edge("House")
    /\ participations \subseteq [edge : Edge("Season"), place : Placements]
    /\ lipSyncs \subseteq [edge : Edge("Queen"), battle : Battles]

(* "To prevent reciprocal duplicates": whoever is named first when sisters *)
(* and lip syncs are added, no relationship is stored in both directions,  *)
(* nor of a queen with herself, even of queens with several nodes.         *)
NoReciprocals ==
    /\ \A e, f \in sisters : e.from.id # f.to.id \/ e.to.id # f.from.id
    /\ \A e, f \in lipSyncs : e.edge.from.id # f.edge.to.id \/ e.edge.to.id # f.edge.from.id

(* Once a start has got through EnsureConstraints, or as far as the queens *)
(* for the second part, no id has two nodes and none is given a second     *)
(* one, whatever was written while starts failed; and a queen is listed    *)
(* once among the siblings of another.                                     *)
ListedOnce ==
    /\ "Season" \in constrained => \A l \in Labels : Unique(l)
    /\ "Queen" \in constrained =>
           \A id \in Queens : \A r1, r2 \in Siblings(id) : r1[2].id = r2[2].id => r1 = r2

(* Then the score is the one the table of the documentation gives,         *)
(* whatever was written twice or corrected: 10 for a shared house, 5 for   *)
(* each shared season, 2 for the birth place and 3 for each shared tag, as *)
(* long as the lists have no tag twice.                                    *)
IsMember(q, h) == \E e \in members : e.from.id = q /\ e.to.id = h

Competed(q, s) == \E e \in participations : e.edge.from.id = q /\ e.edge.to.id = s

SharedSeasons(q, o) == {s \in Seasons : Competed(q, s) /\ Competed(o, s)}

NoTagTwice(q) == \A i, j \in DOMAIN Tags[q] : Tags[q][i] = Tags[q][j] => i = j

ByTable(q, o) ==
    (IF \E h \in Houses : IsMember(q, h) /\ IsMember(o, h) THEN 10 ELSE 0)
    + 5 * Cardinality(SharedSeasons(q, o))
    + (IF BirthPlace[q] # NoPlace /\ BirthPlace[q] = BirthPlace[o] THEN 2 ELSE 0)
    + 3 * Cardinality(TagSet(q) \cap TagSet(o))

ScoreByTable ==
    "Season" \in constrained =>
        \A q, o \in nodes["Queen"] :
            q # o /\ NoTagTwice(q.id) => Score(q, o) = ByTable(q.id, o.id)
=============================================================================
