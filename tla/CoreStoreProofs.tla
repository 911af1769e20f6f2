-------------------------- MODULE CoreStoreProofs ---------------------------
(***************************************************************************)
(* CoreStore for any ids, labels and number of requests: foreign keys      *)
(* refer to rows, answers are explained by what was true while they were   *)
(* prepared, and the three tables keep ids and belonging as in Catalogue.  *)
(***************************************************************************)
EXTENDS CoreStore, TLAPS

RowSet == [label : Labels \cup {Absent}, seasons : SUBSET Seasons]

(* What TypeOK leaves out.                                                 *)
Typed ==
    /\ TypeOK
    /\ views \in [Requests -> SUBSET RowSet]
    /\ answer \in [Requests -> [status : {0, 200, 404, 500}, body : SUBSET (Labels \cup Seasons)]]

(* A request in progress asks for a franchise and has seen its rows of     *)
(* this moment; one that passed the check has seen the franchise there.    *)
Watching(r) == Open(r) => id[r] \in Franchises /\ Rows(id[r]) \in views[r]
Checked(r) == at[r] = "checked" => \E v \in views[r] : v.label # Absent
Answered(r) == at[r] = "answered" => Explained(answer[r], views[r])

Created == \A i \in DOMAIN Schema : i <= boot => Schema[i] \in objects

IInv == /\ Typed
        /\ Created
        /\ RefersToExisting
        /\ \A r \in Requests : Watching(r) /\ Checked(r) /\ Answered(r)

-----------------------------------------------------------------------------
LEMMA SchemaLength == /\ Len(Schema) = 6 /\ Serving = 7 /\ DOMAIN Schema = 1 .. 6
BY DEF Schema, Serving

LEMMA InitInv == Init => IInv
<1> SUFFICES ASSUME Init PROVE IInv
  OBVIOUS
<1> USE SchemaLength DEF Init
<1>1. Typed
  BY DEF Typed, TypeOK, Unanswered, RowSet
<1>2. Created
  BY DEF Created
<1>3. RefersToExisting
  BY DEF RefersToExisting
<1>4. \A r \in Requests : Watching(r) /\ Checked(r) /\ Answered(r)
  BY DEF Watching, Checked, Answered, Open
<1> QED
  BY <1>1, <1>2, <1>3, <1>4 DEF IInv

(* What every change of the tables has in common.                          *)
LEMMA WrittenInv ==
    ASSUME IInv, Written,
           franchises' \in [Franchises -> Labels \cup {Absent}],
           seasons' \in [Seasons -> Franchises \cup {Absent}],
           episodes' \in [Episodes -> Seasons \cup {Absent}],
           RefersToExisting'
    PROVE IInv'
<1> USE DEF IInv, Written, tables
<1>1. \A f \in Franchises : RowsAfter(f) \in RowSet /\ Rows(f)' = RowsAfter(f)
  BY DEF RowsAfter, RowSet, Rows, SeasonsOf
<1>2. views' \in [Requests -> SUBSET RowSet]
  <2> SUFFICES ASSUME NEW r \in Requests
               PROVE  (IF Open(r) THEN views[r] \cup {RowsAfter(id[r])} ELSE views[r])
                       \in SUBSET RowSet
    OBVIOUS
  <2>1. CASE Open(r)
    BY <1>1, <2>1 DEF Watching, Typed
  <2>2. CASE ~Open(r)
    BY <2>2 DEF Typed
  <2> QED
    BY <2>1, <2>2
<1>3. Typed'
  BY <1>2 DEF Typed, TypeOK
<1>4. Created'
  BY DEF Created
<1>5. ASSUME NEW r \in Requests
      PROVE (Watching(r) /\ Checked(r) /\ Answered(r))'
  <2>0. /\ views'[r] = IF Open(r) THEN views[r] \cup {RowsAfter(id[r])} ELSE views[r]
        /\ Watching(r) /\ Checked(r) /\ Answered(r)
        /\ Open(r)' <=> Open(r)
    BY DEF Open
  <2>1. CASE Open(r)
    BY <2>0, <2>1, <1>1 DEF Watching, Checked, Answered, Open
  <2>2. CASE ~Open(r)
    BY <2>0, <2>2 DEF Watching, Checked, Answered, Open
  <2> QED
    BY <2>1, <2>2
<1> QED
  BY <1>3, <1>4, <1>5

-----------------------------------------------------------------------------
LEMMA RepositoriesInv == ASSUME IInv, Repositories PROVE IInv'
<1>0. /\ franchises \in [Franchises -> Labels \cup {Absent}]
      /\ seasons \in [Seasons -> Franchises \cup {Absent}]
      /\ episodes \in [Episodes -> Seasons \cup {Absent}]
      /\ RefersToExisting
  BY DEF IInv, Typed, TypeOK
<1> USE <1>0, StoreOK DEF RefersToExisting
<1>1. ASSUME NEW f \in Franchises, CreateFranchise(f) PROVE IInv'
  BY <1>1, WrittenInv DEF CreateFranchise
<1>2. ASSUME NEW f \in Franchises, UpdateFranchise(f) PROVE IInv'
  BY <1>2, WrittenInv DEF UpdateFranchise
<1>3. ASSUME NEW f \in Franchises, DeleteFranchise(f) PROVE IInv'
  BY <1>3, WrittenInv DEF DeleteFranchise, SeasonsWithout, EpisodesWithout, SeasonsOf
<1>4. ASSUME NEW s \in Seasons, CreateSeason(s) PROVE IInv'
  BY <1>4, WrittenInv DEF CreateSeason
<1>5. ASSUME NEW s \in Seasons, UpdateSeason(s) PROVE IInv'
  BY <1>5, WrittenInv DEF UpdateSeason
<1>6. ASSUME NEW s \in Seasons, DeleteSeason(s) PROVE IInv'
  BY <1>6, WrittenInv DEF DeleteSeason, EpisodesWithout
<1>7. ASSUME NEW e \in Episodes, CreateEpisode(e) PROVE IInv'
  BY <1>7, WrittenInv DEF CreateEpisode
<1>8. ASSUME NEW e \in Episodes, UpdateEpisode(e) PROVE IInv'
  BY <1>8, WrittenInv DEF UpdateEpisode
<1>9. ASSUME NEW e \in Episodes, DeleteEpisode(e) PROVE IInv'
  BY <1>9, WrittenInv DEF DeleteEpisode
<1> QED
  BY <1>1, <1>2, <1>3, <1>4, <1>5, <1>6, <1>7, <1>8, <1>9 DEF Repositories

LEMMA ReplyInv ==
    ASSUME IInv, NEW r \in Requests, NEW status \in {200, 404, 500},
           NEW body \in SUBSET (Labels \cup Seasons), Reply(r, status, body),
           Explained([status |-> status, body |-> body], views[r])
    PROVE  IInv'
<1> USE DEF IInv, Reply, tables
<1>1. Typed'
  BY DEF Typed, TypeOK
<1>2. Created' /\ RefersToExisting'
  BY DEF Created, RefersToExisting
<1>3. ASSUME NEW q \in Requests PROVE (Watching(q) /\ Checked(q) /\ Answered(q))'
  <2>0. Watching(q) /\ Checked(q) /\ Answered(q)
    OBVIOUS
  <2>1. CASE q = r
    BY <2>1 DEF Watching, Checked, Answered, Open, Typed, TypeOK
  <2>2. CASE q # r
    BY <2>0, <2>2 DEF Watching, Checked, Answered, Open, Typed, TypeOK, Rows, SeasonsOf
  <2> QED
    BY <2>1, <2>2
<1> QED
  BY <1>1, <1>2, <1>3

(* A request that a step does not touch, the tables staying as they are.   *)
LEMMA Untouched ==
    ASSUME IInv, NEW q \in Requests, UNCHANGED tables,
           at'[q] = at[q], id'[q] = id[q], views'[q] = views[q], answer'[q] = answer[q]
    PROVE  (Watching(q) /\ Checked(q) /\ Answered(q))'
<1>1. Watching(q) /\ Checked(q) /\ Answered(q)
  BY DEF IInv
<1>2. Watching(q)'
  BY <1>1 DEF Watching, Open, Rows, SeasonsOf, tables
<1>3. Checked(q)' /\ Answered(q)'
  BY <1>1 DEF Checked, Answered
<1> QED
  BY <1>2, <1>3

(* The whole step of the handler: the check, the list, the single read.    *)
LEMMA HandlerInv == ASSUME IInv, NEW r \in Requests, Handler(r) PROVE IInv'
<1>0. /\ Watching(r) /\ Checked(r) /\ Typed /\ RefersToExisting
      /\ Labels \cap {Absent} = {}
  BY StoreOK DEF IInv
<1>1. ASSUME NEW f \in Franchises, Receive(r, f) PROVE IInv'
  <2> USE <1>0, <1>1 DEF IInv, Receive, tables
  <2>1. Rows(f) \in RowSet
    BY DEF Rows, RowSet, SeasonsOf, Typed, TypeOK
  <2>2. Typed'
    BY <2>1 DEF Typed, TypeOK
  <2>3. Created' /\ RefersToExisting'
    BY DEF Created, RefersToExisting
  <2>4. (Watching(r) /\ Checked(r) /\ Answered(r))'
    BY DEF Watching, Checked, Answered, Open, Typed, TypeOK, Rows, SeasonsOf
  <2>5. \A q \in Requests : (Watching(q) /\ Checked(q) /\ Answered(q))'
    BY <2>4, Untouched DEF Typed, TypeOK
  <2> QED
    BY <2>2, <2>3, <2>5
<1>2. ASSUME CheckFranchise(r) PROVE IInv'
  <2>1. id[r] \in Franchises /\ Rows(id[r]) \in views[r]
    BY <1>0, <1>2 DEF CheckFranchise, Watching, Open
  <2>2. CASE franchises[id[r]] = Absent
    <3>1. Explained([status |-> 404, body |-> {}], views[r])
      BY <2>1, <2>2 DEF Explained, Rows
    <3>2. Reply(r, 404, {})
      BY <1>2, <2>2 DEF CheckFranchise
    <3> QED
      BY <3>1, <3>2, ReplyInv
  <2>3. CASE franchises[id[r]] # Absent
    <3> USE <1>0, <1>2, <2>1, <2>3 DEF IInv, CheckFranchise, tables
    <3>1. Typed'
      BY DEF Typed, TypeOK
    <3>2. Created' /\ RefersToExisting'
      BY DEF Created, RefersToExisting
    <3>3. \E v \in views[r] : v.label # Absent
      BY DEF Rows
    <3>4. (Watching(r) /\ Checked(r) /\ Answered(r))'
      BY <3>3 DEF Watching, Checked, Answered, Open, Typed, TypeOK, Rows, SeasonsOf
    <3>5. \A q \in Requests : (Watching(q) /\ Checked(q) /\ Answered(q))'
      BY <3>4, Untouched DEF Typed, TypeOK
    <3> QED
      BY <3>1, <3>2, <3>5
  <2> QED
    BY <2>2, <2>3
<1>3. ASSUME ListSeasons(r) PROVE IInv'
  <2>1. id[r] \in Franchises /\ Rows(id[r]) \in views[r]
    BY <1>0, <1>3 DEF ListSeasons, Watching, Open
  <2>2. PICK v \in views[r] : v.label # Absent
    BY <1>0, <1>3 DEF ListSeasons, Checked
  <2>3. SeasonsOf(id[r]) \in SUBSET (Labels \cup Seasons)
    BY DEF SeasonsOf
  <2>4. franchises[id[r]] = Absent => SeasonsOf(id[r]) = {}
    BY <1>0, <2>1, StoreOK DEF RefersToExisting, SeasonsOf
  <2>5. Rows(id[r]).label = franchises[id[r]] /\ Rows(id[r]).seasons = SeasonsOf(id[r])
    BY DEF Rows
  <2>6. Explained([status |-> 200, body |-> SeasonsOf(id[r])], views[r])
    BY <2>1, <2>2, <2>4, <2>5 DEF Explained
  <2> QED
    BY <1>3, <2>3, <2>6, ReplyInv DEF ListSeasons
<1>4. ASSUME GetFranchise(r) PROVE IInv'
  <2>1. id[r] \in Franchises /\ Rows(id[r]) \in views[r]
    BY <1>0, <1>4 DEF GetFranchise, Watching, Open
  <2>2. CASE franchises[id[r]] = Absent
    <3>1. Explained([status |-> 404, body |-> {}], views[r])
      BY <2>1, <2>2 DEF Explained, Rows
    <3> QED
      BY <1>4, <2>2, <3>1, ReplyInv DEF GetFranchise
  <2>3. CASE franchises[id[r]] # Absent
    <3>1. Explained([status |-> 200, body |-> {franchises[id[r]]}], views[r])
      BY <2>1, <2>3 DEF Explained, Rows
    <3>2. {franchises[id[r]]} \in SUBSET (Labels \cup Seasons)
      BY <1>0, <2>1, <2>3 DEF Typed, TypeOK
    <3> QED
      BY <1>4, <2>3, <3>1, <3>2, ReplyInv DEF GetFranchise
  <2> QED
    BY <2>2, <2>3
<1>5. ASSUME Fail(r) PROVE IInv'
  BY <1>5, ReplyInv DEF Fail, Explained
<1>6. ASSUME Sent(r) PROVE IInv'
  <2> USE <1>0, <1>6 DEF IInv, Sent, tables
  <2>1. Typed'
    BY DEF Typed, TypeOK, Unanswered
  <2>2. Created' /\ RefersToExisting'
    BY DEF Created, RefersToExisting
  <2>3. (Watching(r) /\ Checked(r) /\ Answered(r))'
    BY DEF Watching, Checked, Answered, Open, Typed, TypeOK
  <2>4. \A q \in Requests : (Watching(q) /\ Checked(q) /\ Answered(q))'
    BY <2>3, Untouched DEF Typed, TypeOK
  <2> QED
    BY <2>1, <2>2, <2>4
<1> QED
  BY <1>1, <1>2, <1>3, <1>4, <1>5, <1>6 DEF Handler

(* Starting and restarting: the objects grow in the order of Schema.       *)
LEMMA BootInv == ASSUME IInv, EnsureSchema \/ Serve \/ Restart PROVE IInv'
<1> USE SchemaLength
<1>1. Typed /\ Created /\ RefersToExisting /\ boot \in 0 .. 7
      /\ objects \subseteq {Schema[i] : i \in 1 .. 6}
  BY DEF IInv, Typed, TypeOK
<1>2. objects' \subseteq {Schema[i] : i \in 1 .. 6} /\ boot' \in 0 .. 7
  BY <1>1 DEF EnsureSchema, Serve, Restart
<1>3. Created'
  BY <1>1 DEF Created, EnsureSchema, Serve, Restart
<1>4. UNCHANGED tables
  BY DEF EnsureSchema, Serve, Restart
<1>5. UNCHANGED handler \/ \A r \in Requests : at'[r] = "idle"
  BY DEF EnsureSchema, Serve, Restart
<1>6. Typed'
  BY <1>1, <1>2, <1>4 DEF Typed, TypeOK, EnsureSchema, Serve, Restart, tables, handler, Unanswered
<1>7. \A r \in Requests : (Watching(r) /\ Checked(r) /\ Answered(r))'
  <2>1. CASE UNCHANGED handler
    BY <1>4, <2>1, Untouched DEF handler
  <2>2. CASE \A r \in Requests : at'[r] = "idle"
    BY <2>2 DEF Watching, Checked, Answered, Open
  <2> QED
    BY <1>5, <2>1, <2>2
<1>8. RefersToExisting'
  BY <1>1, <1>4 DEF RefersToExisting, tables
<1> QED
  BY <1>3, <1>6, <1>7, <1>8 DEF IInv

LEMMA NextInv == IInv /\ [Next]_vars => IInv'
<1> SUFFICES ASSUME IInv, [Next]_vars PROVE IInv'
  OBVIOUS
<1>1. CASE UNCHANGED vars
  <2>1. \A r \in Requests : (Watching(r) /\ Checked(r) /\ Answered(r))'
    BY <1>1, Untouched DEF vars, handler
  <2> QED
    BY <1>1, <2>1 DEF IInv, Typed, TypeOK, Created, RefersToExisting, vars, tables, handler
<1>2. CASE Next
  BY <1>2, BootInv, RepositoriesInv, HandlerInv DEF Next
<1> QED
  BY <1>1, <1>2

THEOREM Inductive == Spec => []IInv
BY InitInv, NextInv, PTL DEF Spec

(* The tables hold rows of their own kind, whatever the clients do.        *)
THEOREM TypeCorrect == Spec => []TypeOK
<1>1. IInv => TypeOK
  BY DEF IInv, Typed
<1> QED
  BY <1>1, Inductive, PTL

(* Once the process serves, all tables exist, however often its start was  *)
(* interrupted.                                                            *)
THEOREM ServesWithAllTables == Spec => []ServesWhole
<1>1. IInv => ServesWhole
  BY SchemaLength DEF IInv, Created, ServesWhole
<1> QED
  BY <1>1, Inductive, PTL

(* Cascades and checked keys leave no season and no episode without what   *)
(* it belongs to.                                                          *)
THEOREM ReferencesHold == Spec => []RefersToExisting
<1>1. IInv => RefersToExisting
  BY DEF IInv
<1> QED
  BY <1>1, Inductive, PTL

(* ListSeasons and GetFranchise answer what was true during the request,   *)
(* with any number of requests and writers.                                *)
THEOREM AnswersAreExplained == Spec => []AnswersExplained
<1>1. IInv => AnswersExplained
  BY DEF IInv, Answered, AnswersExplained
<1> QED
  BY <1>1, Inductive, PTL

-----------------------------------------------------------------------------
(* Refinement.                                                             *)

LEMMA OwnerOfEach ==
    /\ \A f \in Franchises : Owner[f] = IF franchises[f] = Absent THEN Absent ELSE Top
    /\ \A s \in Seasons : Owner[s] = seasons[s]
    /\ \A e \in Episodes : Owner[e] = episodes[e]
BY StoreOK DEF Owner, Records

(* What belongs to a franchise, and to the seasons of a set.               *)
LEMMA Children ==
    ASSUME IInv
    PROVE  /\ \A f \in Franchises : {x \in Records : Owner[x] \in {f}} = SeasonsOf(f)
           /\ \A S \in SUBSET Seasons :
                 {x \in Records : Owner[x] \in S} = {e \in Episodes : episodes[e] \in S}
           /\ \A S \in SUBSET Episodes : {x \in Records : Owner[x] \in S} = {}
<1>1. /\ seasons \in [Seasons -> Franchises \cup {Absent}]
      /\ episodes \in [Episodes -> Seasons \cup {Absent}]
  BY DEF IInv, Typed, TypeOK
<1>2. \A x \in Records : x \in Episodes \/ x \in Seasons \/ x \in Franchises
  BY DEF Records
<1>3. ASSUME NEW f \in Franchises
      PROVE  {x \in Records : Owner[x] \in {f}} = SeasonsOf(f)
  BY <1>1, <1>2, OwnerOfEach, StoreOK DEF SeasonsOf, Records
<1>4. ASSUME NEW S \in SUBSET Seasons
      PROVE  {x \in Records : Owner[x] \in S} = {e \in Episodes : episodes[e] \in S}
  BY <1>1, <1>2, OwnerOfEach, StoreOK DEF Records
<1>5. ASSUME NEW S \in SUBSET Episodes, NEW x \in Records
      PROVE  Owner[x] \notin S
  BY <1>1, <1>2, OwnerOfEach, StoreOK
<1> QED
  BY <1>3, <1>4, <1>5

LEMMA InitRefines == Init => Promise!Init
BY StoreOK DEF Init, Promise!Init, Owner, Records

LEMMA RepositoriesRefine == ASSUME IInv, Repositories PROVE [Promise!Next]_Owner
<1>0. /\ franchises \in [Franchises -> Labels \cup {Absent}]
      /\ seasons \in [Seasons -> Franchises \cup {Absent}]
      /\ episodes \in [Episodes -> Seasons \cup {Absent}]
  BY DEF IInv, Typed, TypeOK
<1> USE <1>0, StoreOK
<1>1. ASSUME NEW f \in Franchises, CreateFranchise(f) PROVE Promise!Add(f)
  <2>1. Owner[f] = Absent /\ Top \in Promise!Present \ {f}
    BY <1>1, OwnerOfEach DEF CreateFranchise, Promise!Present
  <2>2. Owner' = [Owner EXCEPT ![f] = Top]
    BY <1>1 DEF CreateFranchise, Owner, Records
  <2> QED
    BY <2>1, <2>2 DEF Promise!Add
<1>2. ASSUME NEW f \in Franchises, UpdateFranchise(f) PROVE UNCHANGED Owner
  BY <1>2 DEF UpdateFranchise, Owner, Records
<1>3. ASSUME NEW f \in Franchises, DeleteFranchise(f) PROVE Promise!Remove(f)
  <2>1. Promise!Below(f) = {f} \cup SeasonsOf(f) \cup {e \in Episodes : episodes[e] \in SeasonsOf(f)}
    BY Children, OwnerOfEach DEF Promise!Below, SeasonsOf
  <2>2. Owner[f] # Absent
    BY <1>3, OwnerOfEach DEF DeleteFranchise
  <2>3. Owner' = [x \in Records |-> IF x \in Promise!Below(f) THEN Absent ELSE Owner[x]]
    BY <1>3, <2>1 DEF DeleteFranchise, SeasonsWithout, EpisodesWithout, SeasonsOf, Owner, Records
  <2> QED
    BY <2>2, <2>3 DEF Promise!Remove
<1>4. ASSUME NEW s \in Seasons, CreateSeason(s) PROVE Promise!Add(s)
  <2>1. PICK f \in Franchises : franchises[f] # Absent /\ seasons' = [seasons EXCEPT ![s] = f]
    BY <1>4, OwnerOfEach DEF CreateSeason
  <2>2. f \in Promise!Present \ {s, Top}
    BY <2>1, OwnerOfEach DEF Promise!Present, Records
  <2>3. Owner' = [Owner EXCEPT ![s] = f]
    BY <1>4, <2>1 DEF CreateSeason, Owner, Records
  <2>4. Owner[s] = Absent
    BY <1>4, OwnerOfEach DEF CreateSeason
  <2> QED
    BY <2>2, <2>3, <2>4 DEF Promise!Add
<1>5. ASSUME NEW s \in Seasons, UpdateSeason(s) PROVE Promise!Move(s)
  <2>1. PICK f \in Franchises : franchises[f] # Absent /\ seasons' = [seasons EXCEPT ![s] = f]
    BY <1>5, OwnerOfEach DEF UpdateSeason
  <2>2. f \in Promise!Present \ {s, Top}
    BY <2>1, OwnerOfEach DEF Promise!Present, Records
  <2>3. Owner' = [Owner EXCEPT ![s] = f]
    BY <1>5, <2>1 DEF UpdateSeason, Owner, Records
  <2>4. Owner[s] \notin {Absent, Top}
    BY <1>5, OwnerOfEach DEF UpdateSeason
  <2> QED
    BY <2>2, <2>3, <2>4 DEF Promise!Move
<1>6. ASSUME NEW s \in Seasons, DeleteSeason(s) PROVE Promise!Remove(s)
  <2>1. Promise!Below(s) = {s} \cup {e \in Episodes : episodes[e] \in {s}}
    BY Children, OwnerOfEach DEF Promise!Below
  <2>2. Owner[s] # Absent
    BY <1>6, OwnerOfEach DEF DeleteSeason
  <2>3. Owner' = [x \in Records |-> IF x \in Promise!Below(s) THEN Absent ELSE Owner[x]]
    BY <1>6, <2>1 DEF DeleteSeason, EpisodesWithout, Owner, Records
  <2> QED
    BY <2>2, <2>3 DEF Promise!Remove
<1>7. ASSUME NEW e \in Episodes, CreateEpisode(e) PROVE Promise!Add(e)
  <2>1. PICK s \in Seasons : seasons[s] # Absent /\ episodes' = [episodes EXCEPT ![e] = s]
    BY <1>7, OwnerOfEach DEF CreateEpisode
  <2>2. s \in Promise!Present \ {e, Top}
    BY <2>1, OwnerOfEach DEF Promise!Present, Records
  <2>3. Owner' = [Owner EXCEPT ![e] = s]
    BY <1>7, <2>1 DEF CreateEpisode, Owner, Records
  <2>4. Owner[e] = Absent
    BY <1>7, OwnerOfEach DEF CreateEpisode
  <2> QED
    BY <2>2, <2>3, <2>4 DEF Promise!Add
<1>8. ASSUME NEW e \in Episodes, UpdateEpisode(e) PROVE Promise!Move(e)
  <2>1. PICK s \in Seasons : seasons[s] # Absent /\ episodes' = [episodes EXCEPT ![e] = s]
    BY <1>8, OwnerOfEach DEF UpdateEpisode
  <2>2. s \in Promise!Present \ {e, Top}
    BY <2>1, OwnerOfEach DEF Promise!Present, Records
  <2>3. Owner' = [Owner EXCEPT ![e] = s]
    BY <1>8, <2>1 DEF UpdateEpisode, Owner, Records
  <2>4. Owner[e] \notin {Absent, Top}
    BY <1>8, OwnerOfEach DEF UpdateEpisode
  <2> QED
    BY <2>2, <2>3, <2>4 DEF Promise!Move
<1>9. ASSUME NEW e \in Episodes, DeleteEpisode(e) PROVE Promise!Remove(e)
  <2>1. Promise!Below(e) = {e}
    BY Children, OwnerOfEach DEF Promise!Below
  <2>2. Owner[e] # Absent
    BY <1>9, OwnerOfEach DEF DeleteEpisode
  <2>3. Owner' = [x \in Records |-> IF x \in Promise!Below(e) THEN Absent ELSE Owner[x]]
    BY <1>9, <2>1 DEF DeleteEpisode, EpisodesWithout, Owner, Records
  <2> QED
    BY <2>2, <2>3 DEF Promise!Remove
<1> QED
  BY <1>1, <1>2, <1>3, <1>4, <1>5, <1>6, <1>7, <1>8, <1>9 DEF Repositories, Promise!Next, Records

LEMMA NextRefines == ASSUME IInv, [Next]_vars PROVE [Promise!Next]_Owner
<1>1. CASE UNCHANGED tables
  BY <1>1 DEF tables, Owner
<1>2. CASE Repositories
  BY <1>2, RepositoriesRefine
<1>3. Repositories \/ UNCHANGED tables
  BY DEF Next, vars, tables, EnsureSchema, Serve, Restart, Handler, Receive, CheckFranchise,
         ListSeasons, GetFranchise, Fail, Sent, Reply
<1> QED
  BY <1>1, <1>2, <1>3

(* Every step of the store is a step of the catalogue, or leaves its       *)
(* records alone: what a cascade takes away is what belonged to the        *)
(* deleted record, over any number of tables' rows.                        *)
THEOREM Refinement == Spec => ImplementsCatalogue
BY InitRefines, NextRefines, Inductive, PTL DEF Spec, ImplementsCatalogue, Promise!Spec
=============================================================================
