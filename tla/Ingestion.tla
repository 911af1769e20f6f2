----------------------------- MODULE Ingestion ------------------------------
(***************************************************************************)
(* What an ingestion job does to the franchise table: the executeFn of     *)
(* cmd/api composed with the queue, of which only the promise of           *)
(* JobLifecycle is used (JobQueue implements it).  A job may be executed   *)
(* several times, by several workers, each scraping the wiki as it is then *)
(* and inserting franchise after franchise; an execution can end anywhere. *)
(***************************************************************************)
EXTENDS Naturals

CONSTANTS Jobs, Workers, NoJob,
          Names,           \* franchises of the wiki: a name with its country
          MaxExecutions    \* bound: executions of all jobs

ASSUME IngestionOK == NoJob \notin Jobs /\ MaxExecutions \in Nat \ {0}

VARIABLES
    phase, runs,   \* the queue, as JobLifecycle has it
    executions,    \* history: how often executeFn was called
    page,          \* franchises on the wiki page now
    step,          \* step[w]: where executeFn is
    scraped,       \* scraped[w]: the franchises of this execution
    todo,          \* todo[w]: those not inserted yet
    copies,        \* copies[n]: rows of franchise n
    verdicts,      \* verdicts[j]: outcomes that executions of j reported
    result,        \* result[j]: the outcome in j's row
    promised       \* promised[j]: what the successful executions of j scraped

queue == <<phase, runs>>
local == <<step, scraped, todo>>
books == <<verdicts, result, promised>>
vars == <<phase, runs, executions, page, step, scraped, todo, copies, verdicts, result, promised>>

Queue == INSTANCE JobLifecycle

Init == /\ Queue!Init
        /\ executions = 0
        /\ page = Names
        /\ step = [w \in Workers |-> "none"]
        /\ scraped = [w \in Workers |-> {}]
        /\ todo = [w \in Workers |-> {}]
        /\ copies = [n \in Names |-> 0]
        /\ verdicts = [j \in Jobs |-> {}]
        /\ result = [j \in Jobs |-> "none"]
        /\ promised = [j \in Jobs |-> {}]

-----------------------------------------------------------------------------
Submit(j) == /\ Queue!Submit(j)
             /\ UNCHANGED <<executions, page, local, copies, books>>

Start(w, j) == /\ executions < MaxExecutions
               /\ Queue!Start(w, j)
               /\ executions' = executions + 1
               /\ step' = [step EXCEPT ![w] = "scraping"]
               /\ UNCHANGED <<page, scraped, todo, copies, books>>

(* A claim whose reply is lost.                                            *)
Misstart(j) == /\ Queue!Misstart(j)
               /\ UNCHANGED <<executions, page, local, copies, books>>

(* The wiki is edited.                                                     *)
Edit == /\ page' \in SUBSET Names
        /\ UNCHANGED <<queue, executions, local, copies, books>>

(* ScrapeFranchises succeeds: with the page, or with nothing, when the     *)
(* answer is an error document of status 200.                              *)
Scrape(w) ==
    /\ step[w] = "scraping"
    /\ step' = [step EXCEPT ![w] = "saving"]
    /\ \E answer \in {page, {}} : /\ scraped' = [scraped EXCEPT ![w] = answer]
                                 /\ todo' = [todo EXCEPT ![w] = answer]
    /\ UNCHANGED <<queue, executions, page, copies, books>>

(* The INSERT of franchiseRepo.Create: the primary key is a new uuid and   *)
(* the table has no other key, so there is always a new row, and the       *)
(* ErrAlreadyExists that executeFn is prepared for never comes.            *)
Inserted(n) == [copies EXCEPT ![n] = @ + 1]

(* The franchises are saved one by one; their order does not matter here.  *)
Save(w) ==
    /\ step[w] = "saving"
    /\ \E n \in todo[w] :
        /\ copies' = Inserted(n)
        /\ todo' = [todo EXCEPT ![w] = @ \ {n}]
    /\ UNCHANGED <<queue, executions, page, step, scraped, books>>

(* Mutant: a failed insert is skipped as if the franchise existed.         *)
CreateFailsIgnored(w) ==
    /\ step[w] = "saving"
    /\ \E n \in todo[w] : todo' = [todo EXCEPT ![w] = @ \ {n}]
    /\ UNCHANGED <<queue, executions, page, step, scraped, copies, books>>

Reported(w, v) == verdicts' = [verdicts EXCEPT ![runs[w]] = @ \cup {v}]

(* Create returns an error, with the row inserted or not (a lost reply,    *)
(* a cancelled context): executeFn returns it and the worker reports the   *)
(* failure, in vain or not.                                                *)
CreateFails(w) ==
    /\ step[w] = "saving"
    /\ \/ UNCHANGED copies
       \/ \E n \in todo[w] : copies' = Inserted(n)
    /\ todo[w] # {}
    /\ step' = [step EXCEPT ![w] = "over"]
    /\ Reported(w, "failed")
    /\ UNCHANGED <<queue, executions, page, scraped, todo, result, promised>>

ScrapeFails(w) ==
    /\ step[w] = "scraping"
    /\ step' = [step EXCEPT ![w] = "over"]
    /\ Reported(w, "failed")
    /\ UNCHANGED <<queue, executions, page, scraped, todo, copies, result, promised>>

Done(w) ==
    /\ step[w] = "saving" /\ todo[w] = {}
    /\ step' = [step EXCEPT ![w] = "over"]
    /\ Reported(w, "completed")
    /\ promised' = [promised EXCEPT ![runs[w]] = @ \cup scraped[w]]
    /\ UNCHANGED <<queue, executions, page, scraped, todo, copies, result>>

(* The worker returns to its polling, or its process dies.                 *)
Stop(w) ==
    /\ Queue!Stop(w)
    /\ step' = [step EXCEPT ![w] = "none"]
    /\ scraped' = [scraped EXCEPT ![w] = {}]
    /\ todo' = [todo EXCEPT ![w] = {}]
    /\ UNCHANGED <<executions, page, copies, books>>

(* A reported outcome reaches the row; a later one may replace it.         *)
Close(j) ==
    /\ \/ Queue!Close(j)
       \/ phase[j] = "closed" /\ UNCHANGED queue
    /\ \E v \in verdicts[j] : result' = [result EXCEPT ![j] = v]
    /\ UNCHANGED <<executions, page, local, copies, verdicts, promised>>

Execution(w) == Scrape(w) \/ ScrapeFails(w) \/ Save(w) \/ CreateFails(w) \/ Done(w) \/ Stop(w)

Next == \/ \E j \in Jobs : Submit(j) \/ Misstart(j) \/ Close(j)
        \/ \E w \in Workers : Execution(w) \/ \E j \in Jobs : Start(w, j)
        \/ Edit

Spec == Init /\ [][Next]_vars

-----------------------------------------------------------------------------
TypeOK ==
    /\ Queue!TypeOK
    /\ page \subseteq Names
    /\ step \in [Workers -> {"none", "scraping", "saving", "over"}]
    /\ scraped \in [Workers -> SUBSET Names]
    /\ todo \in [Workers -> SUBSET Names]
    /\ copies \in [Names -> 0 .. MaxExecutions]
    /\ executions \in 0 .. MaxExecutions
    /\ verdicts \in [Jobs -> SUBSET {"completed", "failed"}]
    /\ result \in [Jobs -> {"none", "completed", "failed"}]
    /\ promised \in [Jobs -> SUBSET Names]

(* A job shown as completed had an execution that was whole: everything it *)
(* scraped is in the table, whatever became of the other executions.       *)
CompletedMeansSaved ==
    \A j \in Jobs : result[j] = "completed" =>
        \A n \in promised[j] : copies[n] > 0

-----------------------------------------------------------------------------
(* What the repository says of the franchises and the code does not do: a  *)
(* franchise whose name and country are stored already is refused with     *)
(* ErrAlreadyExists, so that a job executed again, after a failure or a    *)
(* crash, adds nothing to what it has saved before.                        *)
NoTwins == \A n \in Names : copies[n] <= 1
=============================================================================
