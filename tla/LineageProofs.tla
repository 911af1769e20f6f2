---------------------------- MODULE LineageProofs ----------------------------
(***************************************************************************)
(* Theorems about LineageGraph, for every set of queens, houses, seasons,  *)
(* whatever the edges say and however often an id was created.             *)
(***************************************************************************)
EXTENDS LineageGraph, FunctionTheorems, FiniteSetTheorems, TLAPS

(* A symmetric relationship is stored from the lower id to the higher one. *)
Sorted == /\ \A e \in sisters : e.from.id < e.to.id
          /\ \A e \in lipSyncs : e.edge.from.id < e.edge.to.id

(* The constraints come in their order, and each holds of its label.       *)
Guarded == /\ \A l \in constrained : Unique(l)
           /\ "Season" \in constrained => constrained = Labels

LEMMA IdsOfLabels ==
    /\ Ids["Queen"] = Queens /\ Ids["House"] = Houses /\ Ids["Season"] = Seasons
    /\ \A l \in Labels : Ids[l] \subseteq Queens \cup Houses \cup Seasons
BY DEF Ids, Labels

(* The pairs that a write merges are edges of the graph between its ends.  *)
LEMMA PairsAreEdges ==
    ASSUME NEW a, NEW l \in Labels, NEW b
    PROVE  /\ Pairs("Queen", a, l, b) \subseteq Edge(l)
           /\ \A e \in Pairs("Queen", a, l, b) : e.from.id = a /\ e.to.id = b
BY DEF Pairs, Matched, Edge

(* Canonical gives edges from the lower id to the higher one, the same     *)
(* whichever of two different queens is named first.                       *)
LEMMA CanonicalIsSorted ==
    ASSUME NEW a \in Queens, NEW b \in Queens, a # b
    PROVE  /\ \A e \in Canonical(a, b) : e.from.id < e.to.id
           /\ Canonical(a, b) = Canonical(b, a)
           /\ Canonical(a, b) \subseteq Edge("Queen")
<1>1. a \in Int /\ b \in Int
  BY LineageOK
<1>2. "Queen" \in Labels
  BY DEF Labels
<1>3. CASE a > b
  BY <1>1, <1>2, <1>3, PairsAreEdges DEF Canonical
<1>4. CASE a < b
  BY <1>1, <1>2, <1>4, PairsAreEdges DEF Canonical
<1> QED
  BY <1>1, <1>3, <1>4

(* What CreateNode adds: one node with the id, which under a constraint is *)
(* the only one.                                                           *)
LEMMA CreatedNode ==
    ASSUME TypeOK, NEW l \in Labels, NEW id \in Ids[l], CreateNode(l, id)
    PROVE  \E n \in Node(Ids[l]) :
               /\ n.id = id
               /\ nodes'[l] = nodes[l] \cup {n}
               /\ \A k \in Labels \ {l} : nodes'[k] = nodes[k]
               /\ nodes' \in [Labels -> SUBSET Node(Queens \cup Houses \cup Seasons)]
               /\ l \in constrained => \A m \in nodes[l] : m.id # id
<1>1. PICK c \in Copies : nodes' = [nodes EXCEPT ![l] = @ \cup {[id |-> id, copy |-> c]}]
  BY DEF CreateNode
<1> DEFINE n == [id |-> id, copy |-> c]
<1>2. n \in Node(Ids[l]) /\ n.id = id
  BY DEF Node
<1>3. nodes \in [Labels -> SUBSET Node(Queens \cup Houses \cup Seasons)]
  BY DEF TypeOK
<1>4. n \in Node(Queens \cup Houses \cup Seasons)
  BY IdsOfLabels DEF Node
<1>5. /\ nodes'[l] = nodes[l] \cup {n}
      /\ \A k \in Labels \ {l} : nodes'[k] = nodes[k]
  BY <1>1, <1>3
<1>6. nodes' \in [Labels -> SUBSET Node(Queens \cup Houses \cup Seasons)]
  BY <1>1, <1>3, <1>4
<1>7. l \in constrained => \A m \in nodes[l] : m.id # id
  BY DEF CreateNode, Matched
<1> QED
  BY <1>2, <1>5, <1>6, <1>7

LEMMA InitTypeOK == Init => TypeOK
BY DEF Init, TypeOK, Labels

(* Nodes are only added, so the ends of an edge stay where they are.       *)
LEMMA CreateNodeTypeOK ==
    ASSUME TypeOK, NEW l \in Labels, NEW id \in Ids[l], CreateNode(l, id)
    PROVE  TypeOK'
<1>1. PICK n \in Node(Ids[l]) :
          /\ nodes'[l] = nodes[l] \cup {n}
          /\ \A k \in Labels \ {l} : nodes'[k] = nodes[k]
          /\ nodes' \in [Labels -> SUBSET Node(Queens \cup Houses \cup Seasons)]
  BY CreatedNode
<1>2. \A k \in Labels : nodes[k] \subseteq nodes'[k] /\ nodes'[k] \subseteq Node(Ids[k])
  BY <1>1 DEF TypeOK
<1>3. /\ nodes["Queen"] \subseteq nodes'["Queen"]
      /\ nodes["House"] \subseteq nodes'["House"]
      /\ nodes["Season"] \subseteq nodes'["Season"]
  BY <1>2 DEF Labels
<1>4. /\ Edge("Queen") \subseteq Edge("Queen")'
      /\ Edge("House") \subseteq Edge("House")'
      /\ Edge("Season") \subseteq Edge("Season")'
  BY <1>3 DEF Edge
<1>5. mothers' \subseteq Edge("Queen")' /\ sisters' \subseteq Edge("Queen")'
  BY <1>4 DEF TypeOK, CreateNode, edges
<1>6. members' \subseteq Edge("House")'
  BY <1>4 DEF TypeOK, CreateNode, edges
<1>7. participations' \subseteq [edge : Edge("Season")', place : Placements]
  BY <1>4 DEF TypeOK, CreateNode, edges
<1>8. lipSyncs' \subseteq [edge : Edge("Queen")', battle : Battles]
  BY <1>4 DEF TypeOK, CreateNode, edges
<1>9. constrained' \subseteq Labels
  BY DEF TypeOK, CreateNode
<1> QED
  BY <1>1, <1>2, <1>5, <1>6, <1>7, <1>8, <1>9 DEF TypeOK

LEMMA EnsureConstraintTypeOK ==
    ASSUME TypeOK, NEW l \in Labels, EnsureConstraint(l)
    PROVE  TypeOK'
BY DEF TypeOK, EnsureConstraint, Edge, edges

(* The relationships between two queens.                                   *)
LEMMA TieTypeOK ==
    ASSUME TypeOK, NEW a \in Queens, NEW b \in Queens,
           \/ AddDragMother(a, b)
           \/ AddSister(a, b)
           \/ \E battle \in Battles : AddLipSync(a, b, battle)
    PROVE  TypeOK'
<1>1. CASE AddDragMother(a, b)
  <2>1. Pairs("Queen", a, "Queen", b) \subseteq Edge("Queen")
    BY PairsAreEdges DEF Labels
  <2> QED
    BY <1>1, <2>1 DEF TypeOK, AddDragMother, Edge
<1>2. CASE AddSister(a, b)
  <2>1. Canonical(a, b) \subseteq Edge("Queen")
    BY <1>2, CanonicalIsSorted DEF AddSister
  <2> QED
    BY <1>2, <2>1 DEF TypeOK, AddSister, Edge
<1>3. ASSUME NEW battle \in Battles, AddLipSync(a, b, battle)
      PROVE  TypeOK'
  <2>1. Canonical(a, b) \subseteq Edge("Queen")
    BY <1>3, CanonicalIsSorted DEF AddLipSync
  <2>2. [edge : Canonical(a, b), battle : {battle}] \subseteq [edge : Edge("Queen"), battle : Battles]
    BY <2>1
  <2> QED
    BY <1>3, <2>2 DEF TypeOK, AddLipSync, Edge
<1> QED
  BY <1>1, <1>2, <1>3

(* The relationships of a queen with a house or a season.                  *)
LEMMA MembershipTypeOK ==
    ASSUME TypeOK, NEW q \in Queens,
           \/ \E h \in Houses : AddHouseMember(q, h)
           \/ \E s \in Seasons, p \in Placements : AddParticipation(q, s, p)
    PROVE  TypeOK'
<1>1. ASSUME NEW h \in Houses, AddHouseMember(q, h)
      PROVE  TypeOK'
  <2>1. Pairs("Queen", q, "House", h) \subseteq Edge("House")
    BY PairsAreEdges DEF Labels
  <2> QED
    BY <1>1, <2>1 DEF TypeOK, AddHouseMember, Edge
<1>2. ASSUME NEW s \in Seasons, NEW p \in Placements, AddParticipation(q, s, p)
      PROVE  TypeOK'
  <2>1. Pairs("Queen", q, "Season", s) \subseteq Edge("Season")
    BY PairsAreEdges DEF Labels
  <2>2. [edge : Pairs("Queen", q, "Season", s), place : {p}]
            \subseteq [edge : Edge("Season"), place : Placements]
    BY <2>1
  <2> QED
    BY <1>2, <2>2 DEF TypeOK, AddParticipation, Edge
<1> QED
  BY <1>1, <1>2

LEMMA StepTypeOK == TypeOK /\ [Next]_vars => TypeOK'
<1>1. ASSUME TypeOK, Next PROVE TypeOK'
  BY <1>1, EnsureConstraintTypeOK, CreateNodeTypeOK, TieTypeOK, MembershipTypeOK DEF Next
<1>2. ASSUME TypeOK, UNCHANGED vars PROVE TypeOK'
  BY <1>2 DEF TypeOK, Edge, vars, edges
<1> QED
  BY <1>1, <1>2

(* Every end of an edge is a node of the right kind: no write creates a    *)
(* queen, a house or a season by naming it, and none is left dangling.     *)
THEOREM TypeCorrect == Spec => []TypeOK
BY InitTypeOK, StepTypeOK, PTL DEF Spec

LEMMA InitSorted == Init => Sorted
BY DEF Init, Sorted

LEMMA StepSorted == Sorted /\ [Next]_vars => Sorted'
<1>1. ASSUME Sorted, NEW a \in Queens, NEW b \in Queens, AddSister(a, b)
      PROVE  Sorted'
  BY <1>1, CanonicalIsSorted DEF Sorted, AddSister
<1>2. ASSUME Sorted, NEW a \in Queens, NEW b \in Queens, NEW battle \in Battles,
             AddLipSync(a, b, battle)
      PROVE  Sorted'
  BY <1>2, CanonicalIsSorted DEF Sorted, AddLipSync
<1>3. ASSUME Sorted, UNCHANGED <<sisters, lipSyncs>> PROVE Sorted'
  BY <1>3 DEF Sorted
<1>4. ASSUME NEW l \in Labels, EnsureConstraint(l) PROVE UNCHANGED <<sisters, lipSyncs>>
  BY <1>4 DEF EnsureConstraint, edges
<1>5. ASSUME NEW l \in Labels, NEW id \in Ids[l], CreateNode(l, id)
      PROVE  UNCHANGED <<sisters, lipSyncs>>
  BY <1>5 DEF CreateNode, edges
<1>6. ASSUME NEW a \in Queens, NEW b \in Queens, AddDragMother(a, b)
      PROVE  UNCHANGED <<sisters, lipSyncs>>
  BY <1>6 DEF AddDragMother
<1>7. ASSUME NEW q \in Queens, NEW h \in Houses, AddHouseMember(q, h)
      PROVE  UNCHANGED <<sisters, lipSyncs>>
  BY <1>7 DEF AddHouseMember
<1>8. ASSUME NEW q \in Queens, NEW s \in Seasons, NEW p \in Placements,
             AddParticipation(q, s, p)
      PROVE  UNCHANGED <<sisters, lipSyncs>>
  BY <1>8 DEF AddParticipation
<1>9. ASSUME UNCHANGED vars PROVE UNCHANGED <<sisters, lipSyncs>>
  BY <1>9 DEF vars, edges
<1> QED
  BY <1>1, <1>2, <1>3, <1>4, <1>5, <1>6, <1>7, <1>8, <1>9 DEF Next

LEMMA SortedHasNoReciprocals == TypeOK /\ Sorted => NoReciprocals
<1> SUFFICES ASSUME TypeOK, Sorted PROVE NoReciprocals
  OBVIOUS
<1>1. \A n \in nodes["Queen"] : n.id \in Int
  BY LineageOK, IdsOfLabels DEF TypeOK, Labels, Node
<1>2. ASSUME NEW e \in Edge("Queen"), NEW f \in Edge("Queen"),
             e.from.id < e.to.id, f.from.id < f.to.id
      PROVE  e.from.id # f.to.id \/ e.to.id # f.from.id
  BY <1>1, <1>2 DEF Edge
<1>3. \A e, f \in sisters : e.from.id # f.to.id \/ e.to.id # f.from.id
  BY <1>2 DEF TypeOK, Sorted
<1>4. \A e \in lipSyncs : e.edge \in Edge("Queen")
  BY DEF TypeOK
<1>5. \A e, f \in lipSyncs : e.edge.from.id # f.edge.to.id \/ e.edge.to.id # f.edge.from.id
  BY <1>2, <1>4 DEF Sorted
<1> QED
  BY <1>3, <1>5 DEF NoReciprocals

(* No sisterhood and no lip sync is stored in both directions, and none    *)
(* from a queen to herself, even if a queen has several nodes.             *)
THEOREM NoReciprocalEdges == Spec => []NoReciprocals
BY InitTypeOK, StepTypeOK, InitSorted, StepSorted, SortedHasNoReciprocals, PTL DEF Spec

LEMMA InitGuarded == Init => Guarded
BY DEF Init, Guarded

LEMMA StepGuarded == TypeOK /\ Guarded /\ [Next]_vars => Guarded'
<1>1. ASSUME TypeOK, Guarded, NEW l \in Labels, EnsureConstraint(l)
      PROVE  Guarded'
  <2>1. \A k \in constrained' : Unique(k)'
    BY <1>1 DEF Guarded, EnsureConstraint, Unique
  <2>2. "Season" \in constrained' => constrained' = Labels
    BY <1>1 DEF Guarded, EnsureConstraint, Previous, Labels, TypeOK
  <2> QED
    BY <2>1, <2>2 DEF Guarded
<1>2. ASSUME TypeOK, Guarded, NEW l \in Labels, NEW id \in Ids[l], CreateNode(l, id)
      PROVE  Guarded'
  <2>1. PICK n \in Node(Ids[l]) :
            /\ n.id = id
            /\ nodes'[l] = nodes[l] \cup {n}
            /\ \A k \in Labels \ {l} : nodes'[k] = nodes[k]
            /\ l \in constrained => \A m \in nodes[l] : m.id # id
    BY <1>2, CreatedNode
  <2>2. constrained' = constrained /\ constrained \subseteq Labels
    BY <1>2 DEF CreateNode, TypeOK
  <2>3. \A k \in constrained : Unique(k)'
    BY <1>2, <2>1, <2>2 DEF Guarded, Unique
  <2> QED
    BY <1>2, <2>2, <2>3 DEF Guarded
<1>3. ASSUME Guarded, UNCHANGED <<constrained, nodes>> PROVE Guarded'
  BY <1>3 DEF Guarded, Unique
<1>4. ASSUME NEW a \in Queens, NEW b \in Queens,
             \/ AddDragMother(a, b)
             \/ AddSister(a, b)
             \/ \E battle \in Battles : AddLipSync(a, b, battle)
      PROVE  UNCHANGED <<constrained, nodes>>
  BY <1>4 DEF AddDragMother, AddSister, AddLipSync
<1>5. ASSUME NEW q \in Queens,
             \/ \E h \in Houses : AddHouseMember(q, h)
             \/ \E s \in Seasons, p \in Placements : AddParticipation(q, s, p)
      PROVE  UNCHANGED <<constrained, nodes>>
  BY <1>5 DEF AddHouseMember, AddParticipation
<1>6. ASSUME UNCHANGED vars PROVE UNCHANGED <<constrained, nodes>>
  BY <1>6 DEF vars
<1> QED
  BY <1>1, <1>2, <1>3, <1>4, <1>5, <1>6 DEF Next

LEMMA GuardedListsOnce == Guarded => ListedOnce
<1> SUFFICES ASSUME Guarded PROVE ListedOnce
  OBVIOUS
<1>1. "Season" \in constrained => \A l \in Labels : Unique(l)
  BY DEF Guarded
<1>2. ASSUME "Queen" \in constrained, NEW id \in Queens,
             NEW r1 \in Siblings(id), NEW r2 \in Siblings(id), r1[2].id = r2[2].id
      PROVE  r1 = r2
  <2>1. \A m, n \in nodes["Queen"] : m.id = n.id => m = n
    BY <1>2 DEF Guarded, Unique
  <2>2. /\ r1 \in nodes["Queen"] \X nodes["Queen"] /\ r1[1].id = id
        /\ r2 \in nodes["Queen"] \X nodes["Queen"] /\ r2[1].id = id
    BY DEF Siblings, Matched
  <2> QED
    BY <1>2, <2>1, <2>2
<1> QED
  BY <1>1, <1>2 DEF ListedOnce

(* The constraints that a start has created hold of everything that was    *)
(* and is written, and no queen is listed twice among another's siblings.  *)
THEOREM SiblingsAreListedOnce == Spec => []ListedOnce
BY InitTypeOK, StepTypeOK, InitGuarded, StepGuarded, GuardedListsOnce, PTL DEF Spec

-----------------------------------------------------------------------------
(* The score: what the query counts, paths and list elements, corresponds  *)
(* one to one to what the table of the documentation speaks of.            *)

LEMMA OneToOne ==
    ASSUME NEW S, NEW T, NEW F \in [S -> T], IsFiniteSet(T),
           \A a, b \in S : F[a] = F[b] => a = b
    PROVE  /\ IsFiniteSet(S)
           /\ (\A t \in T : \E a \in S : F[a] = t) => Cardinality(S) = Cardinality(T)
<1>1. F \in Injection(S, T)
  BY Fun_IsInj
<1>2. IsFiniteSet(S) /\ (F \in Surjection(S, T) => Cardinality(S) = Cardinality(T))
  BY <1>1, FS_Injection
<1> QED
  BY <1>2, Fun_IsSurj

(* A queen has one participation in a season, however often it was         *)
(* corrected.                                                              *)
OnePlace == \A e, f \in participations : e.edge = f.edge => e = f

LEMMA StepOnePlace == OnePlace /\ [Next]_vars => OnePlace'
<1>1. ASSUME OnePlace, NEW q \in Queens, NEW s \in Seasons, NEW p \in Placements,
             AddParticipation(q, s, p)
      PROVE  OnePlace'
  <2>1. participations' = {e \in participations : e.edge \notin Pairs("Queen", q, "Season", s)}
                              \cup [edge : Pairs("Queen", q, "Season", s), place : {p}]
    BY <1>1 DEF AddParticipation
  <2> QED
    BY <1>1, <2>1 DEF OnePlace
<1>2. ASSUME OnePlace, participations' = participations PROVE OnePlace'
  BY <1>2 DEF OnePlace
<1> QED
  BY <1>1, <1>2 DEF Next, EnsureConstraint, CreateNode, AddDragMother, AddSister, AddLipSync,
                    AddHouseMember, vars, edges

LEMMA SeasonsCounted ==
    ASSUME TypeOK, OnePlace, \A l \in Labels : Unique(l),
           NEW q \in nodes["Queen"], NEW o \in nodes["Queen"]
    PROVE  Cardinality(SeasonPaths(q, o)) = Cardinality(SharedSeasons(q.id, o.id))
<1> DEFINE S == SeasonPaths(q, o)
           T == SharedSeasons(q.id, o.id)
           F == [path \in S |-> path[1].edge.to.id]
<1>1. /\ \A m, n \in nodes["Queen"] : m.id = n.id => m = n
      /\ \A m, n \in nodes["Season"] : m.id = n.id => m = n
      /\ \A m \in nodes["Season"] : m.id \in Seasons
  BY IdsOfLabels DEF Labels, Unique, TypeOK, Node
<1>2. \A e \in participations : /\ e = [edge |-> e.edge, place |-> e.place]
                                /\ e.edge = [from |-> e.edge.from, to |-> e.edge.to]
                                /\ e.edge.from \in nodes["Queen"] /\ e.edge.to \in nodes["Season"]
  BY DEF TypeOK, Edge
<1>3. \A path \in S :
          /\ path = <<path[1], path[2]>>
          /\ path[1] \in participations /\ path[2] \in participations
          /\ path[1].edge.from = q /\ path[2].edge.from = o
          /\ path[1].edge.to = path[2].edge.to
  BY DEF SeasonPaths
<1>4. F \in [S -> T]
  BY <1>1, <1>2, <1>3 DEF SharedSeasons, Competed
<1>5. ASSUME NEW a \in S, NEW b \in S, F[a] = F[b] PROVE a = b
  <2>1. a[1].edge.to = b[1].edge.to
    BY <1>1, <1>2, <1>3, <1>5
  <2>2. a[1].edge = b[1].edge /\ a[2].edge = b[2].edge
    <3>1. /\ a[1] \in participations /\ a[2] \in participations
          /\ b[1] \in participations /\ b[2] \in participations
      BY <1>3
    <3>2. /\ a[1].edge.from = b[1].edge.from /\ a[2].edge.from = b[2].edge.from
          /\ a[1].edge.to = b[1].edge.to /\ a[2].edge.to = b[2].edge.to
      BY <1>3, <2>1
    <3> HIDE DEF F, S, T
    <3>3. ASSUME NEW e \in participations, NEW f \in participations,
                 e.edge.from = f.edge.from, e.edge.to = f.edge.to
          PROVE  e.edge = f.edge
      BY <1>2, <3>3
    <3> QED
      BY <3>1, <3>2, <3>3
  <2>3. a[1] = b[1] /\ a[2] = b[2]
    BY <1>3, <2>2 DEF OnePlace
  <2> QED
    BY <1>3, <2>3
<1>6. ASSUME NEW s \in T PROVE \E a \in S : F[a] = s
  <2>1. PICK e \in participations : e.edge.from.id = q.id /\ e.edge.to.id = s
    BY DEF SharedSeasons, Competed
  <2>2. PICK f \in participations : f.edge.from.id = o.id /\ f.edge.to.id = s
    BY DEF SharedSeasons, Competed
  <2>3. e.edge.from = q /\ f.edge.from = o /\ e.edge.to = f.edge.to
    BY <1>1, <1>2, <2>1, <2>2
  <2>4. <<e, f>> \in S
    BY <2>3 DEF SeasonPaths
  <2> QED
    BY <2>1, <2>4
<1>7. IsFiniteSet(T)
  BY FiniteOK, FS_Subset DEF SharedSeasons
<1> HIDE DEF F, S, T
<1> QED
  BY <1>4, <1>5, <1>6, <1>7, OneToOne DEF S, T

LEMMA HousesCounted ==
    ASSUME TypeOK, \A l \in Labels : Unique(l),
           NEW q \in nodes["Queen"], NEW o \in nodes["Queen"]
    PROVE  Cardinality(HousePaths(q, o)) > 0
               <=> \E h \in Houses : IsMember(q.id, h) /\ IsMember(o.id, h)
<1> DEFINE S == HousePaths(q, o)
           F == [path \in S |-> path[1].to.id]
<1>1. /\ \A m, n \in nodes["Queen"] : m.id = n.id => m = n
      /\ \A m, n \in nodes["House"] : m.id = n.id => m = n
      /\ \A m \in nodes["House"] : m.id \in Houses
  BY IdsOfLabels DEF Labels, Unique, TypeOK, Node
<1>2. \A e \in members : /\ e = [from |-> e.from, to |-> e.to]
                         /\ e.from \in nodes["Queen"] /\ e.to \in nodes["House"]
  BY DEF TypeOK, Edge
<1>3. \A path \in S :
          /\ path = <<path[1], path[2]>>
          /\ path[1] \in members /\ path[2] \in members
          /\ path[1].from = q /\ path[2].from = o /\ path[1].to = path[2].to
  BY DEF HousePaths
<1>4. F \in [S -> Houses]
  BY <1>1, <1>2, <1>3
<1>5. ASSUME NEW a \in S, NEW b \in S, F[a] = F[b] PROVE a = b
  <2>1. a[1].to = b[1].to
    BY <1>1, <1>2, <1>3, <1>5
  <2>2. a[1] = b[1] /\ a[2] = b[2]
    BY <1>2, <1>3, <2>1
  <2> QED
    BY <1>3, <2>2
<1>6. S # {} <=> \E h \in Houses : IsMember(q.id, h) /\ IsMember(o.id, h)
  <2>1. ASSUME NEW path \in S PROVE \E h \in Houses : IsMember(q.id, h) /\ IsMember(o.id, h)
    BY <1>1, <1>2, <1>3 DEF IsMember
  <2>2. ASSUME NEW h \in Houses, IsMember(q.id, h), IsMember(o.id, h) PROVE S # {}
    <3>1. PICK e \in members : e.from.id = q.id /\ e.to.id = h
      BY <2>2 DEF IsMember
    <3>2. PICK f \in members : f.from.id = o.id /\ f.to.id = h
      BY <2>2 DEF IsMember
    <3>3. e.from = q /\ f.from = o /\ e.to = f.to
      BY <1>1, <1>2, <3>1, <3>2
    <3>4. <<e, f>> \in S
      BY <3>3 DEF HousePaths
    <3> QED
      BY <3>4
  <2> QED
    BY <2>1, <2>2
<1> HIDE DEF F, S
<1>7. IsFiniteSet(S)
  BY <1>4, <1>5, FiniteOK, OneToOne
<1>8. Cardinality(S) \in Nat /\ (Cardinality(S) = 0 <=> S = {})
  BY <1>7, FS_CardinalityType, FS_EmptySet
<1> QED
  BY <1>6, <1>8 DEF S

LEMMA TagsCounted ==
    ASSUME NEW q \in Queens, NEW o \in Queens, NoTagTwice(q)
    PROVE  Cardinality({i \in DOMAIN Tags[q] : Tags[q][i] \in TagSet(o)})
               = Cardinality(TagSet(q) \cap TagSet(o))
<1> DEFINE S == {i \in DOMAIN Tags[q] : Tags[q][i] \in TagSet(o)}
           T == TagSet(q) \cap TagSet(o)
           Back == [t \in T |-> CHOOSE i \in S : Tags[q][i] = t]
<1>1. \A t \in T : \E i \in S : Tags[q][i] = t
  BY DEF TagSet
<1>2. \A t \in T : Back[t] \in S /\ Tags[q][Back[t]] = t
  BY <1>1
<1>3. Back \in [T -> S] /\ \A a, b \in T : Back[a] = Back[b] => a = b
  <2> HIDE DEF S, T
  <2> QED
    BY <1>2
<1>4. ASSUME NEW i \in S PROVE \E t \in T : Back[t] = i
  <2>1. Tags[q][i] \in T
    BY DEF TagSet
  <2>2. Back[Tags[q][i]] \in S /\ Tags[q][Back[Tags[q][i]]] = Tags[q][i]
    BY <1>2, <2>1
  <2>3. Back[Tags[q][i]] = i
    BY <2>2 DEF NoTagTwice
  <2> HIDE DEF Back, S, T
  <2> QED
    BY <2>1, <2>3
<1>5. IsFiniteSet(S)
  BY FiniteOK, FS_Subset
<1> HIDE DEF Back, S, T
<1> QED
  BY <1>3, <1>4, <1>5, OneToOne DEF S, T

(* Once the constraints are there, the score by which the query ranks is   *)
(* the one the documentation's table gives: two shared houses do not       *)
(* multiply the seasons, and a corrected participation counts once.        *)
THEOREM ScoreIsByTable == Spec => []ScoreByTable
<1>1. Init => OnePlace
  BY DEF Init, OnePlace
<1>2. TypeOK /\ Guarded /\ OnePlace => ScoreByTable
  <2> SUFFICES ASSUME TypeOK, Guarded, OnePlace, "Season" \in constrained,
                      NEW q \in nodes["Queen"], NEW o \in nodes["Queen"], NoTagTwice(q.id)
               PROVE  Score(q, o) = ByTable(q.id, o.id)
    BY DEF ScoreByTable
  <2>1. /\ \A l \in Labels : Unique(l)
        /\ q.id \in Queens /\ o.id \in Queens
    BY IdsOfLabels DEF Guarded, Labels, TypeOK, Node
  <2>2. HouseScore(q, o) =
            IF \E h \in Houses : IsMember(q.id, h) /\ IsMember(o.id, h) THEN 10 ELSE 0
    BY <2>1, HousesCounted DEF HouseScore
  <2>3. SeasonScore(q, o) = 5 * Cardinality(SharedSeasons(q.id, o.id))
    BY <2>1, SeasonsCounted DEF SeasonScore
  <2>4. ClassificationScore(q, o) = 3 * Cardinality(TagSet(q.id) \cap TagSet(o.id))
    BY <2>1, TagsCounted DEF ClassificationScore
  <2>5. BirthPlaceScore(q, o) =
            IF BirthPlace[q.id] # NoPlace /\ BirthPlace[q.id] = BirthPlace[o.id] THEN 2 ELSE 0
    BY DEF BirthPlaceScore
  <2> QED
    BY <2>2, <2>3, <2>4, <2>5 DEF Score, ByTable
<1> QED
  BY <1>1, <1>2, InitTypeOK, StepTypeOK, InitGuarded, StepGuarded, StepOnePlace, PTL DEF Spec
-----------------------------------------------------------------------------
(* A participation that is written again, with another placement, leaves   *)
(* nothing of the former one, however many nodes queen and season have:    *)
(* SET goes to every edge there is between them, since an edge ends in     *)
(* nodes that the MATCH finds.                                             *)
OnlyTheLastPlacement ==
    \A q \in Queens, s \in Seasons, p \in Placements :
        AddParticipation(q, s, p) =>
            \A e \in participations' : e.edge.from.id = q /\ e.edge.to.id = s => e.place = p

THEOREM CorrectionsReplace == Spec => [][OnlyTheLastPlacement]_vars
<1>1. TypeOK => OnlyTheLastPlacement
  <2> SUFFICES ASSUME TypeOK,
                      NEW q \in Queens, NEW s \in Seasons, NEW p \in Placements,
                      AddParticipation(q, s, p),
                      NEW e \in participations', e.edge.from.id = q, e.edge.to.id = s
               PROVE  e.place = p
    BY DEF OnlyTheLastPlacement
  <2> DEFINE pairs == Pairs("Queen", q, "Season", s)
  <2>1. \/ e \in participations /\ e.edge \notin pairs
        \/ e \in [edge : pairs, place : {p}]
    BY DEF AddParticipation
  <2>2. ASSUME e \in participations PROVE e.edge \in pairs
    <3>1. e.edge \in Edge("Season")
      BY <2>2 DEF TypeOK
    <3>2. e.edge.from \in Matched("Queen", q) /\ e.edge.to \in Matched("Season", s)
      BY <3>1 DEF Edge, Matched
    <3> QED
      BY <3>1, <3>2 DEF Edge, Pairs
  <2> QED
    BY <2>1, <2>2
<1>2. TypeOK /\ [Next]_vars => [OnlyTheLastPlacement]_vars
  BY <1>1
<1> QED
  BY <1>2, TypeCorrect, PTL DEF Spec
=============================================================================
