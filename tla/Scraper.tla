------------------------------ MODULE Scraper -------------------------------
(***************************************************************************)
(* The wiki scraper's orchestration: the franchise page, then the pages of *)
(* all franchises, then those of all seasons, each layer fetched by        *)
(* goroutines that share a semaphore (boundedFanOut).  Every request to    *)
(* the live wiki is spaced from the one before it (fetchHTML); any other   *)
(* site is fetched through Colly, which visits no page twice.              *)
(*                                                                         *)
(* A task is the goroutine of one row of a table, which leads to a page;   *)
(* Main stands for the fetch of the first page.                            *)
(*                                                                         *)
(* sinceLast is the time since lastReqTime, in ticks; it stops counting at *)
(* Delay.  age is kept only to state a property.                           *)
(***************************************************************************)
EXTENDS Integers, FiniteSets, WikiParsers

CONSTANTS
    Pages,      \* pages of the wiki
    MainPage,   \* mainPagePath
    Rows,       \* rows of the tables of all pages
    Row,        \* Row[r]: what is in r, as in WikiParsers
    On,         \* On[r]: the page that r is on
    To,         \* To[r]: the page that its link leads to
    Main,
    Limit,      \* concurrencyLimit
    Delay,      \* ticks of the politeness delay, 100 ms
    Meant       \* Meant[r]: what a reader of the wiki sees in r

Tasks == Rows \cup {Main}

ASSUME ScraperOK ==
    /\ MainPage \in Pages /\ Main \notin Rows
    /\ On \in [Rows -> Pages] /\ To \in [Rows -> Pages]
    /\ Limit \in Nat \ {0}
    /\ Delay \in Nat

VARIABLES
    live,       \* isLiveFandom
    stage,      \* the layer being scraped: 1, 2 or 3
    task,       \* task[t]: where the goroutine of t is
    results,    \* what the parsers made of the pages of successful tasks
    sleep,      \* sleep[t]: ticks left of its politeness delay
    sinceLast,
    age,        \* age[t]: ticks since t's request went out, up to Delay
    visited,    \* the pages in the store of Colly's collectors
    ctxDone,    \* the caller's context is cancelled
    outcome     \* what Orchestrate returned

vars == <<live, stage, task, results, sleep, sinceLast, age, visited, ctxDone, outcome>>
clock == <<sinceLast, age>>
site == <<live, visited>>

States == {"none", "waiting", "checking", "sleeping", "visiting", "requesting",
           "ok", "void", "failed", "cancelled"}
Holding == {"checking", "sleeping", "visiting", "requesting"}

Page(t) == IF t = Main THEN MainPage ELSE To[t]

(* The layer that the page of t belongs to.                                *)
Layer(t) == IF t = Main THEN 1 ELSE IF On[t] = MainPage THEN 2 ELSE 3

Init == /\ live \in BOOLEAN
        /\ stage = 1
        /\ task = [t \in Tasks |-> IF t = Main THEN "checking" ELSE "none"]
        /\ results = {}
        /\ sleep = [t \in Tasks |-> 0]
        /\ sinceLast = Delay
        /\ age = [t \in Tasks |-> Delay]
        /\ visited = {}
        /\ ctxDone = FALSE
        /\ outcome = "none"

(* Mutant: the semaphore is released after a success only.                 *)
HoldsThoughFailed(t) == task[t] \in Holding \cup {"failed"}

(* The goroutine of t is in the semaphore: acquired, and released by its   *)
(* defer when the processor returns.                                       *)
Holds(t) == task[t] \in Holding

Holders == {t \in Tasks : Holds(t)}

-----------------------------------------------------------------------------
Become(t, s) == task' = [task EXCEPT ![t] = s]

(* sem <- struct{}{}                                                       *)
Acquire(t) ==
    /\ task[t] = "waiting"
    /\ Cardinality(Holders) < Limit
    /\ Become(t, "checking")
    /\ UNCHANGED <<site, stage, results, sleep, clock, ctxDone, outcome>>

(* The other case of that select: the goroutine returns the context's      *)
(* error to the errgroup.                                                  *)
GiveUp(t) ==
    /\ task[t] = "waiting" /\ ctxDone
    /\ Become(t, "cancelled")
    /\ UNCHANGED <<site, stage, results, sleep, clock, ctxDone, outcome>>

(* Mutant: waits for the time that has passed.                           *)
RemainingSwapped == sinceLast

(* 100ms - elapsed                                                         *)
Remaining == Delay - sinceLast

(* Under the mutex: the request goes out, and lastReqTime is now...        *)
Dispatch(t) ==
    /\ Become(t, "requesting")
    /\ sinceLast' = 0
    /\ age' = [age EXCEPT ![t] = 0]

CheckSpacing(t) ==
    /\ live /\ task[t] = "checking" /\ sinceLast >= Delay
    /\ Dispatch(t)
    /\ UNCHANGED <<site, stage, results, sleep, ctxDone, outcome>>

(* ... or it is too early, and the goroutine sleeps without the mutex.     *)
GoToSleep(t) ==
    /\ live /\ task[t] = "checking" /\ sinceLast < Delay
    /\ Become(t, "sleeping")
    /\ sleep' = [sleep EXCEPT ![t] = Remaining]
    /\ UNCHANGED <<site, stage, results, clock, ctxDone, outcome>>

(* It wakes up, takes the mutex and sends its request: it does not look at *)
(* lastReqTime again.                                                      *)
WakeUp(t) ==
    /\ task[t] = "sleeping" /\ sleep[t] = 0
    /\ Dispatch(t)
    /\ UNCHANGED <<site, stage, results, sleep, ctxDone, outcome>>

(* <-ctx.Done() while asleep: an error of the processor.                   *)
SleepCancelled(t) ==
    /\ task[t] = "sleeping" /\ ctxDone
    /\ Become(t, "failed")
    /\ sleep' = [sleep EXCEPT ![t] = 0]
    /\ UNCHANGED <<site, stage, results, clock, ctxDone, outcome>>

(* Any other site: a context that is done is an error...                   *)
CheckContext(t) ==
    /\ ~live /\ task[t] = "checking" /\ ctxDone
    /\ Become(t, "failed")
    /\ UNCHANGED <<site, stage, results, sleep, clock, ctxDone, outcome>>

(* ... and so is a page that the collectors, whose clones share a store,   *)
(* have visited before...                                                  *)
CheckVisited(t) ==
    /\ ~live /\ task[t] = "checking" /\ ~ctxDone
    /\ Become(t, IF Page(t) \in visited THEN "failed" ELSE "visiting")
    /\ UNCHANGED <<site, stage, results, sleep, clock, ctxDone, outcome>>

(* ... or are visiting now: that is looked up and then noted.              *)
Visit(t) ==
    /\ task[t] = "visiting"
    /\ Become(t, "requesting")
    /\ visited' = visited \cup {Page(t)}
    /\ UNCHANGED <<live, stage, results, sleep, clock, ctxDone, outcome>>

(* What the parser of its layer finds on the page of t.                    *)
ParsedBy(t) ==
    UNION {{[by |-> t, row |-> r, as |-> x] : x \in Parsed(Layer(t), Row[r])} :
              r \in {r \in Rows : On[r] = Page(t)}}

(* The page arrives and is parsed and its results are appended, under the  *)
(* mutex; or the answer is an error document of status 200, in which       *)
(* nothing is found; or anything went wrong, and the error is kept for     *)
(* later and stops no other goroutine.                                     *)
Reply(t) ==
    /\ task[t] = "requesting"
    /\ \/ Become(t, "ok") /\ results' = results \cup ParsedBy(t)
       \/ Become(t, "void") /\ UNCHANGED results
       \/ Become(t, "failed") /\ UNCHANGED results
    /\ UNCHANGED <<site, stage, sleep, clock, ctxDone, outcome>>

Finished == \A t \in Tasks : task[t] \in {"none", "ok", "void", "failed", "cancelled"}
SomeAre(s) == \E t \in Tasks : task[t] = s

(* What this layer returned: each is a task of the next one.               *)
Linked == {f.row : f \in {x \in results : Layer(x.by) = stage}}

(* Mutant: the collected errors are not looked at.                         *)
WaitIgnoringErrors ==
    /\ outcome = "none" /\ Finished
    /\ IF SomeAre("cancelled") THEN outcome' = "cancelled" /\ UNCHANGED <<stage, task>>
       ELSE IF stage < 3
            THEN /\ stage' = stage + 1
                 /\ task' = [t \in Tasks |-> IF t \in Linked THEN "waiting" ELSE task[t]]
                 /\ UNCHANGED outcome
            ELSE outcome' = "ok" /\ UNCHANGED <<stage, task>>
    /\ UNCHANGED <<site, results, sleep, clock, ctxDone>>

(* g.Wait(), and what boundedFanOut and Orchestrate make of it: the        *)
(* errgroup's error, else the collected ones, else the next layer.         *)
Wait ==
    /\ outcome = "none" /\ Finished
    /\ \/ /\ SomeAre("cancelled")
          /\ outcome' = "cancelled"
          /\ UNCHANGED <<stage, task>>
       \/ /\ SomeAre("failed") /\ ~SomeAre("cancelled")
          /\ outcome' = "error"
          /\ UNCHANGED <<stage, task>>
       \/ /\ ~SomeAre("failed") /\ ~SomeAre("cancelled")
          /\ stage < 3
          /\ stage' = stage + 1
          /\ task' = [t \in Tasks |-> IF t \in Linked THEN "waiting" ELSE task[t]]
          /\ UNCHANGED outcome
       \/ /\ ~SomeAre("failed") /\ ~SomeAre("cancelled")
          /\ stage = 3
          /\ outcome' = "ok"
          /\ UNCHANGED <<stage, task>>
    /\ UNCHANGED <<site, results, sleep, clock, ctxDone>>

Cancel == /\ ~ctxDone /\ outcome = "none"
          /\ ctxDone' = TRUE
          /\ UNCHANGED <<site, stage, task, results, sleep, clock, outcome>>

Aged(n) == IF n < Delay THEN n + 1 ELSE n

Tick == /\ outcome = "none"
        /\ sinceLast' = Aged(sinceLast)
        /\ age' = [t \in Tasks |-> Aged(age[t])]
        /\ sleep' = [t \in Tasks |-> IF sleep[t] > 0 THEN sleep[t] - 1 ELSE 0]
        /\ UNCHANGED <<site, stage, task, results, ctxDone, outcome>>

Fetch(t) == \/ Acquire(t) \/ GiveUp(t) \/ CheckSpacing(t) \/ GoToSleep(t)
            \/ WakeUp(t) \/ SleepCancelled(t)
            \/ CheckContext(t) \/ CheckVisited(t) \/ Visit(t) \/ Reply(t)

Next == (\E t \in Tasks : Fetch(t)) \/ Wait \/ Cancel \/ Tick

Spec == Init /\ [][Next]_vars

(* Goroutines run, requests have a timeout of 10 s, and time passes.       *)
FairSpec == /\ Spec
            /\ \A t \in Tasks : WF_vars(Fetch(t))
            /\ WF_vars(Wait)
            /\ WF_vars(Tick)

-----------------------------------------------------------------------------
TypeOK ==
    /\ live \in BOOLEAN
    /\ stage \in 1 .. 3
    /\ task \in [Tasks -> States]
    /\ \A x \in results : x.by \in Tasks /\ x.row \in Rows
    /\ sleep \in [Tasks -> 0 .. Delay]
    /\ sinceLast \in 0 .. Delay
    /\ age \in [Tasks -> 0 .. Delay]
    /\ visited \subseteq Pages
    /\ ctxDone \in BOOLEAN
    /\ outcome \in {"none", "ok", "error", "cancelled"}

(* A row that the parser of its layer makes something of leads to a page.  *)
Leads(t) == t = Main \/ Parsed(IF On[t] = MainPage THEN 1 ELSE 2, Row[t]) # {}

(* The wiki is laid out as the parsers expect: of the rows on the pages    *)
(* that they are led to they make what is meant, and no franchise has the  *)
(* first page for its own.                                                 *)
LaidOut ==
    /\ \A t \in Tasks, r \in Rows :
          Leads(t) /\ On[r] = Page(t) => Parsed(Layer(t), Row[r]) = Meant[r]
    /\ \A r \in Rows : On[r] = MainPage /\ Leads(r) => To[r] # MainPage

(* A scrape that succeeds has read every page that it was led to, of all   *)
(* three layers, and returns of each page that had any content what the    *)
(* wiki means by its rows, no more and no less; a single failing page, or  *)
(* a cancelled goroutine, fails the whole scrape.                          *)
AllOrNothing ==
    outcome = "ok" =>
        /\ \A t \in Tasks : task[t] \in {"none", "ok", "void"}
        /\ \A x \in results : Layer(x.by) < 3 => task[x.row] # "none"
        /\ results = {x \in [by : Tasks, row : Rows, as : UNION {Meant[r] : r \in Rows}] :
                        task[x.by] = "ok" /\ On[x.row] = Page(x.by) /\ x.as \in Meant[x.row]}

(* Orchestrate returns: no goroutine waits for a slot that nobody frees,   *)
(* whichever pages fail and whenever the context is cancelled.             *)
Terminates == <>(outcome # "none")

(* "Enforce spacing and politeness delay": within any Delay ticks no more  *)
(* than concurrencyLimit requests go out.  (Not one, as the delay suggests:*)
(* goroutines that slept for the same deadline send together.)             *)
BurstBounded == Cardinality({t \in Tasks : age[t] < Delay}) <= Limit
=============================================================================
