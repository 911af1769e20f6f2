----------------------------- MODULE CoreStore ------------------------------
(***************************************************************************)
(* The relational store of the core domain and those who use it: the       *)
(* tables franchises, seasons and episodes with their foreign keys, as     *)
(* EnsureSchema creates them and as the three repositories change them,    *)
(* and the franchise handler, which answers ListSeasons from two           *)
(* statements between which the tables may change.                         *)
(*                                                                         *)
(* Every statement is a transaction of its own.  A statement that the      *)
(* database refuses (a key that exists, a parent that does not, no row     *)
(* matched) changes nothing: refusals are the guards of the actions below. *)
(***************************************************************************)
EXTENDS Naturals, Sequences

CONSTANTS
    Franchises, Seasons, Episodes,   \* ids
    Labels,                          \* the columns of a franchise: name and country
    Requests,                        \* HTTP requests the server handles at a time
    Top, Absent

ASSUME StoreOK ==
    /\ Franchises \cap Seasons = {} /\ Franchises \cap Episodes = {} /\ Seasons \cap Episodes = {}
    /\ \A x \in Franchises \cup Seasons \cup Episodes \cup Labels : x # Absent /\ x # Top
    /\ Top # Absent

VARIABLES
    objects,     \* tables and indexes that exist in the database
    boot,        \* the process: statements of EnsureSchema executed, or Serving
    franchises,  \* franchises[f]: the label of the row of f, or Absent
    seasons,     \* seasons[s]: franchise_id of the row of s, or Absent
    episodes,    \* episodes[e]: season_id of the row of e, or Absent
    at,          \* at[r]: where the handler of request r is
    id,          \* id[r]: the franchise it asks for
    views,       \* views[r]: history, what was true of id[r] while it was handled
    answer       \* answer[r]: status and body

tables == <<franchises, seasons, episodes>>
handler == <<at, id, views, answer>>
vars == <<objects, boot, tables, handler>>

Schema == <<"franchises", "seasons", "episodes", "persons", "ingestion_jobs",
            "idx_ingestion_jobs_claim">>
Serving == Len(Schema) + 1
Unanswered == [status |-> 0, body |-> {}]

Init == /\ objects = {}
        /\ boot = 0
        /\ franchises = [f \in Franchises |-> Absent]
        /\ seasons = [s \in Seasons |-> Absent]
        /\ episodes = [e \in Episodes |-> Absent]
        /\ at = [r \in Requests |-> "idle"]
        /\ id = [r \in Requests |-> Absent]
        /\ views = [r \in Requests |-> {}]
        /\ answer = [r \in Requests |-> Unanswered]

-----------------------------------------------------------------------------
(* The schema.                                                             *)

(* Mutant: a statement that fails is logged and the next one is tried.     *)
EnsureSchemaOn == /\ boot < Len(Schema)
                  /\ boot' = boot + 1
                  /\ objects' \in {objects, objects \cup {Schema[boot + 1]}}
                  /\ UNCHANGED <<tables, handler>>

(* CREATE ... IF NOT EXISTS, one statement after the other.                *)
EnsureSchema == /\ boot < Len(Schema)
                /\ boot' = boot + 1
                /\ objects' = objects \cup {Schema[boot + 1]}
                /\ UNCHANGED <<tables, handler>>

(* All are there: run goes on to serve.                                    *)
Serve == /\ boot = Len(Schema)
         /\ boot' = Serving
         /\ UNCHANGED <<objects, tables, handler>>

(* A statement of EnsureSchema fails and run returns, or the process dies; *)
(* it is started again and begins anew.                                    *)
Restart == /\ boot' = 0
           /\ at' = [r \in Requests |-> "idle"]
           /\ id' = [r \in Requests |-> Absent]
           /\ views' = [r \in Requests |-> {}]
           /\ answer' = [r \in Requests |-> Unanswered]
           /\ UNCHANGED <<objects, tables>>

-----------------------------------------------------------------------------
(* The repositories.  Whoever calls them, a statement that changes a table *)
(* changes what the requests in progress may see.                          *)

SeasonsOf(f) == {s \in Seasons : seasons[s] = f}
Rows(f) == [label |-> franchises[f], seasons |-> SeasonsOf(f)]
Open(r) == at[r] \in {"received", "checked"}

RowsAfter(f) == [label |-> franchises'[f], seasons |-> {s \in Seasons : seasons'[s] = f}]

Written == /\ boot = Serving
           /\ views' = [r \in Requests |->
                           IF Open(r) THEN views[r] \cup {RowsAfter(id[r])} ELSE views[r]]
           /\ UNCHANGED <<objects, boot, at, id, answer>>

CreateFranchise(f) ==
    /\ franchises[f] = Absent
    /\ \E l \in Labels : franchises' = [franchises EXCEPT ![f] = l]
    /\ UNCHANGED <<seasons, episodes>>
    /\ Written

UpdateFranchise(f) ==
    /\ franchises[f] # Absent
    /\ \E l \in Labels : franchises' = [franchises EXCEPT ![f] = l]
    /\ UNCHANGED <<seasons, episodes>>
    /\ Written

CreateSeason(s) ==
    /\ seasons[s] = Absent
    /\ \E f \in Franchises : /\ franchises[f] # Absent
                             /\ seasons' = [seasons EXCEPT ![s] = f]
    /\ UNCHANGED <<franchises, episodes>>
    /\ Written

(* The update writes franchise_id too, so a season may change hands.       *)
UpdateSeason(s) ==
    /\ seasons[s] # Absent
    /\ \E f \in Franchises : /\ franchises[f] # Absent
                             /\ seasons' = [seasons EXCEPT ![s] = f]
    /\ UNCHANGED <<franchises, episodes>>
    /\ Written

CreateEpisode(e) ==
    /\ episodes[e] = Absent
    /\ \E s \in Seasons : /\ seasons[s] # Absent
                          /\ episodes' = [episodes EXCEPT ![e] = s]
    /\ UNCHANGED <<franchises, seasons>>
    /\ Written

UpdateEpisode(e) ==
    /\ episodes[e] # Absent
    /\ \E s \in Seasons : /\ seasons[s] # Absent
                          /\ episodes' = [episodes EXCEPT ![e] = s]
    /\ UNCHANGED <<franchises, seasons>>
    /\ Written

(* Mutants: season_id, franchise_id not declared as REFERENCES, so that a  *)
(* delete neither cascades nor is refused.                                 *)
EpisodesKept(S) == episodes
SeasonsKept(f) == seasons

(* ON DELETE CASCADE of season_id, for the seasons S.                      *)
EpisodesWithout(S) == [e \in Episodes |-> IF episodes[e] \in S THEN Absent ELSE episodes[e]]

(* ON DELETE CASCADE of franchise_id.                                      *)
SeasonsWithout(f) == [s \in Seasons |-> IF seasons[s] = f THEN Absent ELSE seasons[s]]

DeleteFranchise(f) ==
    /\ franchises[f] # Absent
    /\ franchises' = [franchises EXCEPT ![f] = Absent]
    /\ seasons' = SeasonsWithout(f)
    /\ episodes' = EpisodesWithout(SeasonsOf(f))
    /\ Written

DeleteSeason(s) ==
    /\ seasons[s] # Absent
    /\ seasons' = [seasons EXCEPT ![s] = Absent]
    /\ episodes' = EpisodesWithout({s})
    /\ UNCHANGED franchises
    /\ Written

DeleteEpisode(e) ==
    /\ episodes[e] # Absent
    /\ episodes' = [episodes EXCEPT ![e] = Absent]
    /\ UNCHANGED <<franchises, seasons>>
    /\ Written

Repositories ==
    \/ \E f \in Franchises : CreateFranchise(f) \/ UpdateFranchise(f) \/ DeleteFranchise(f)
    \/ \E s \in Seasons : CreateSeason(s) \/ UpdateSeason(s) \/ DeleteSeason(s)
    \/ \E e \in Episodes : CreateEpisode(e) \/ UpdateEpisode(e) \/ DeleteEpisode(e)

-----------------------------------------------------------------------------
(* The franchise handler.                                                  *)

Receive(r, f) ==
    /\ boot = Serving /\ at[r] = "idle"
    /\ at' = [at EXCEPT ![r] = "received"]
    /\ id' = [id EXCEPT ![r] = f]
    /\ views' = [views EXCEPT ![r] = {Rows(f)}]
    /\ UNCHANGED <<objects, boot, tables, answer>>

Reply(r, status, body) ==
    /\ at' = [at EXCEPT ![r] = "answered"]
    /\ answer' = [answer EXCEPT ![r] = [status |-> status, body |-> body]]
    /\ UNCHANGED <<objects, boot, tables, id, views>>

(* Mutant: the seasons are read at once.                                   *)
CheckNothing(r) ==
    /\ at[r] = "received"
    /\ at' = [at EXCEPT ![r] = "checked"]
    /\ UNCHANGED <<objects, boot, tables, id, views, answer>>

(* ListSeasons: fRepo.GetByID.  Its row is not used, only its absence.     *)
CheckFranchise(r) ==
    /\ at[r] = "received"
    /\ \/ /\ franchises[id[r]] # Absent
          /\ at' = [at EXCEPT ![r] = "checked"]
          /\ UNCHANGED <<objects, boot, tables, id, views, answer>>
       \/ /\ franchises[id[r]] = Absent
          /\ Reply(r, 404, {})

(* ListSeasons: sRepo.ListByFranchiseID; no rows are an empty list.        *)
ListSeasons(r) == /\ at[r] = "checked"
                  /\ Reply(r, 200, SeasonsOf(id[r]))

(* GetFranchise: a single statement.                                       *)
GetFranchise(r) ==
    /\ at[r] = "received"
    /\ \/ franchises[id[r]] # Absent /\ Reply(r, 200, {franchises[id[r]]})
       \/ franchises[id[r]] = Absent /\ Reply(r, 404, {})

(* A statement fails for any other reason.                                 *)
Fail(r) == /\ Open(r)
           /\ Reply(r, 500, {})

(* The answer is sent, and the slot is free for another request.           *)
Sent(r) == /\ at[r] = "answered"
           /\ at' = [at EXCEPT ![r] = "idle"]
           /\ id' = [id EXCEPT ![r] = Absent]
           /\ views' = [views EXCEPT ![r] = {}]
           /\ answer' = [answer EXCEPT ![r] = Unanswered]
           /\ UNCHANGED <<objects, boot, tables>>

Handler(r) == \/ \E f \in Franchises : Receive(r, f)
              \/ CheckFranchise(r) \/ ListSeasons(r) \/ GetFranchise(r) \/ Fail(r) \/ Sent(r)

Next == \/ EnsureSchema \/ Serve \/ Restart
        \/ Repositories
        \/ \E r \in Requests : Handler(r)

Spec == Init /\ [][Next]_vars

-----------------------------------------------------------------------------
TypeOK ==
    /\ objects \subseteq {Schema[i] : i \in DOMAIN Schema}
    /\ boot \in 0 .. Serving
    /\ franchises \in [Franchises -> Labels \cup {Absent}]
    /\ seasons \in [Seasons -> Franchises \cup {Absent}]
    /\ episodes \in [Episodes -> Seasons \cup {Absent}]
    /\ at \in [Requests -> {"idle", "received", "checked", "answered"}]
    /\ id \in [Requests -> Franchises \cup {Absent}]
    /\ \A r \in Requests : answer[r].status \in {0, 200, 404, 500}

(* However the process was interrupted while it created its tables, once   *)
(* it serves all of them exist.                                            *)
ServesWhole == boot = Serving => \A i \in DOMAIN Schema : Schema[i] \in objects

(* No season without its franchise and no episode without its season:      *)
(* whichever way rows are deleted, and whoever moves one in the meantime.  *)
RefersToExisting ==
    /\ \A s \in Seasons : seasons[s] # Absent => franchises[seasons[s]] # Absent
    /\ \A e \in Episodes : episodes[e] # Absent => seasons[episodes[e]] # Absent

(* What may be answered to a request that saw the rows V: a franchise is   *)
(* missing only if it was missing at some moment of the request; the       *)
(* seasons are those of one moment, at which the franchise was there; the  *)
(* empty list may also mean that it was deleted meanwhile.                 *)
Explained(a, V) ==
    /\ a.status = 404 => \E v \in V : v.label = Absent
    /\ a.status = 200 =>
        \/ \E v \in V : v.label # Absent /\ a.body = {v.label}
        \/ \E v \in V : v.label # Absent /\ a.body = v.seasons
        \/ a.body = {} /\ \E u, v \in V : u.label = Absent /\ v.label # Absent

(* ListSeasons and GetFranchise never answer from a mixture of two moments *)
(* but in that last case.                                                  *)
AnswersExplained ==
    \A r \in Requests : at[r] = "answered" => Explained(answer[r], views[r])

Records == Franchises \cup Seasons \cup Episodes

(* The three tables as one relation of belonging.                          *)
Owner == [x \in Records |->
             IF x \in Episodes THEN episodes[x]
             ELSE IF x \in Seasons THEN seasons[x]
             ELSE IF franchises[x] = Absent THEN Absent ELSE Top]

Promise == INSTANCE Catalogue WITH owner <- Owner

(* Ids and belonging in the three tables are as in Catalogue: each id is   *)
(* added once while it is there, a record moves only to an owner that is   *)
(* there, and a delete, through two foreign keys, takes along exactly what *)
(* belongs to its record.  (Of names nothing is promised: the schema has   *)
(* no key on them, whatever core/domain/repository.go says.)               *)
ImplementsCatalogue == Promise!Spec
=============================================================================
