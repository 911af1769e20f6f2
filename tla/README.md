# A verification project for queenx

TLA+ models of the parts of queenx that are hard to test, TLC runs that check
them on small instances, and TLAPS proofs for every value of the constants.
The source is `src/` (Go). Line numbers below are those of this commit; the
correspondence of every definition with its lines is in `PROJECT.json` ("map").

1. [Inventory](#1-inventory)
2. [Modules](#2-modules)
3. [How the models abstract from the code](#3-how-the-models-abstract-from-the-code)
4. [Runs](#4-runs)
5. [Fairness](#5-fairness)
6. [Proofs](#6-proofs)
7. [Where code and documentation differ](#7-where-code-and-documentation-differ)
8. [What is not modelled](#8-what-is-not-modelled)
9. [Plan](#9-plan)

## 1. Inventory

queenx is one Go process (`cmd/api/main.go`): an HTTP API, a background worker
that ingests a fan wiki, a PostgreSQL database with the core tables and a job
queue, and a Neo4j graph of relations between drag queens. Several instances
may run against the same databases.

| Component | State | Operations | Talks to |
|---|---|---|---|
| Job queue: `ingestion/repository/postgres/job_repository.go`, table in `core/repository/postgres/schema.go` | rows of `ingestion_jobs`: status, retries, max_retries, locked_until, created_at | Create, GetByID, Update (fenced by locked_until), ClaimNextJob (`FOR UPDATE SKIP LOCKED`) | called by handler and workers, concurrently, from several processes |
| Worker: `ingestion/worker.go` | the claimed job (a copy of its row), a progress channel of ten, the updater goroutine, an execution context | Start (poll), pollAndExecute, handleSuccess, handleFailure | queue (SQL), executeFn (call, channel) |
| Execution: `executeJob` in `cmd/api/main.go` | position in its script | scrape, then insert franchise after franchise, reporting progress | scraper, franchise repository, progress channel |
| Process: `run` in `cmd/api/main.go` | root context, connection pool, worker goroutine, server goroutine | connect, create the schema, serve; signal, cancel, wait at most 10 s for the worker, close the pool | worker, server, database |
| Scraper: `ingestion/scraper.go` | lastReqTime under a mutex, per layer a semaphore of four, results and errors; for other sites the collectors' visited pages | ScrapeFranchises, ScrapeSeasons, ScrapeEpisodes, Orchestrate, boundedFanOut | the live wiki |
| Parsers: `ingestion/parser/*` | none | rows of HTML tables to franchises, seasons, episodes | called by the scraper |
| Job handler: `api/handler/job_handler.go` | one SSE stream per client | CreateJob, GetJob, GetJobProgressSSE | queue |
| Rate limiter: `api/middleware/rate_limiter.go` | map from address to token bucket and lastSeen, under a mutex | request, cleanup every minute | every HTTP request |
| Core repositories: `core/repository/postgres/*` | the schema; franchises, seasons, episodes with `ON DELETE CASCADE` | EnsureSchema, create, update, delete, read | handlers, executeJob |
| Franchise handler: `api/handler/franchise_handler.go` | one request each | List, Get, ListSeasons (two statements) | core repositories |
| Lineage graph: `lineage/repository/neo4j/repository.go` | nodes, with unique ids if the constraints could be created, five kinds of relationships | EnsureConstraints, Create*, Add*, Get*, FindAestheticSiblings, FindQueensByClassifications | lineage handler, persona service |
| Persona: `api/handler/persona_handler.go`, `persona/service.go` | one SSE response per request | GeneratePersona: lineage context, Gemini stream, parse, Fal.ai image | lineage graph, both clients |
| Clients: `persona/client/gemini.go`, `fal.go` | a circuit breaker and a rate limiter each, shared by all requests | StreamGenerate, GenerateImage (three attempts with backoff) | Gemini, Fal.ai |
| LLM platform, server wiring, request log, demo command | none | - | - |

What is hard here, and what would make each part correct:

- **Queue and workers.** Workers of several processes race for rows; a lease
  expires while its worker is alive; a worker dies with a job in hand; a reply
  is lost; an UPDATE given up by its client is executed later. A closed job
  must stay closed, retries must be counted rightly, two workers may share a
  job only after a lease was outlived, and an abandoned job must come back.
- **Worker process.** Three goroutines, one bounded channel and two contexts:
  the updater must not write after the outcome, must not block the execution,
  and a shutdown must neither hang nor cost the job a retry. main waits for the
  worker only, and closes the pool under whoever still uses it.
- **Execution.** Executed at least once, by several workers, on a wiki that
  changes, with inserts that fail and have a new id each time: "completed" must
  mean saved, and an execution that is repeated should add nothing to what an
  earlier one saved (it does: 7).
- **Progress stream.** It ends at the first terminal status it reads: the job
  must really be over then, and the end must come.
- **Core store.** A schema created statement by statement, by starts that fail
  half-way; rows that move while their owners are deleted; an answer composed of
  two statements with a delete in between.
- **Scraper and parsers.** A slot must come free whatever fails; one failing page
  fails the whole; requests are spaced; cells are looked for by what they look
  like, and an odd table must not shift what is taken for a number or a date.
- **Rate limiter.** Forgetting an address must not give it a fresh allowance,
  and quiet addresses must be forgotten.
- **Persona.** Breakers are shared by concurrent requests; results of calls
  from before the breaker changed its mind must not count; requests must end;
  a breaker must recover.
- **Lineage graph.** Symmetric relations are written from either end, and rows
  of a Cypher query multiply: edges and scores must not. Without constraints an
  id may have several nodes, and every statement matches all of them.

`PROJECT.json` ("hazards") lists these at their lines, with the properties that
cover them, or why none does.

## 2. Modules

| Module | Models | Variables and what they are in the code |
|---|---|---|
| `JobLifecycle` | the abstract promise to a client of the queue: a job is submitted, started any number of times by any number of workers, and closed at most once | `phase`: the job as a client sees it; `runs`: the job a worker executes |
| `JobQueue` | the table, the repository's statements and the workers (`job_repository.go`, `worker.go`) | `row`: the table; `wk`: a worker's place in `pollAndExecute` and its copy of the job; `wire`: UPDATEs between client and server, numbered when nobody waits for them any more; `faults`, `collisions`: what is rare, counted |
| `ProgressStream` | extends `JobQueue` with the client that follows the oldest job (`GetJobProgressSSE`) | `stream`: the handler's loop, and the status it ended on |
| `Ingestion` | `executeJob` over the franchise table, composed with `JobLifecycle` (INSTANCE): it relies on the queue's promise and not on its details | `step`, `scraped`, `todo`: executeFn's locals; `copies`: rows per franchise; `page`: the wiki; `verdicts`, `result`, `promised`: outcomes reported and shown; `executions`: calls of executeFn |
| `WorkerProcess` | one process from its start to its end: main, poll loop, updater, executeFn, HTTP server and handlers, and the pool they share | `main`, `verdict`: where `run` is and why it left; `pc`, `upd`, `at`, `inCall`, `server`, `req`: the goroutines; `chan`: messages in `progressCh`; `cancelled`, `execDone`: the two contexts; `poolOpen`; `written`, `recorded`: what reached the row last, the recorded outcome |
| `WikiParsers` | the decisions of the three parsers on a row of a table, as operators | - |
| `Scraper` | extends `WikiParsers` with `Orchestrate`, `boundedFanOut`, and `fetchHTML` in its live and its Colly branch | `task`: the goroutine of a row's link; `results`: what the parsers returned; `sinceLast`: time since `lastReqTime`; `sleep`: a politeness delay; `visited`: Colly's store; `stage`, `outcome`: Orchestrate; `age`: a history of requests |
| `TokenBucket` | the abstract limiter: one bucket per address, never forgotten | `level` |
| `RateLimiter` | the middleware's map with its cleanup goroutine | `visitors`; `sinceCleanup`: the ticker; `window`: an observer |
| `Catalogue` | the abstract store: records that belong to one another and go with what they belong to | `owner` |
| `CoreStore` | EnsureSchema, the three repositories with their foreign keys, and the franchise handler | `objects`: tables and indexes; `boot`: the start; `franchises`, `seasons`, `episodes`: rows; `at`, `id`, `answer`: a request; `views`: a history of what was true during it |
| `CircuitBreaker` | the abstract breaker: it knows which calls it has in flight and has a timer that goes off | `state`, `left`, `calls`, `fails`, `passed` |
| `Persona` | requests through service and clients, and the two gobreakers they share | `breaker`; `req`: where a request is, its attempts, its context, whether there is a text; `streak`: a history of failures |
| `LineageGraph` | EnsureConstraints, the writes to Neo4j and the sibling score | `constrained`: labels with a constraint; `nodes`: by label, with the copies an id may have; one set of edges per kind |
| `JobQueueProofs`, `RateLimiterProofs`, `CoreStoreProofs`, `WorkerProofs`, `ScraperProofs`, `IngestionProofs`, `PersonaProofs`, `LineageProofs` | theorems about the module of that name (`WorkerProofs`: `WorkerProcess`; `LineageProofs`: `LineageGraph`; `JobQueueProofs` also `ProgressStream`) | |
| `MC*` | instances for TLC | |

How they compose: `JobQueue` implements `JobLifecycle` (refinement, checked and
proved); `Ingestion` is built on `JobLifecycle`, and proved to
implement it too: the executions behave as the workers of that promise; `ProgressStream` runs on `JobQueue` itself; `WorkerProcess` opens
the worker that `JobQueue` treats as one actor: its Join justifies that in
`JobQueue` a worker has at most one statement of its own on the wire when it
sends the final one. `RateLimiter` implements `TokenBucket`, and `CoreStore`
implements `Catalogue`; each of `Persona`'s two breakers implements `CircuitBreaker`. `Scraper` fetches what `WikiParsers` reads.

Every module with a mutable component has one action per operation or step that
other actors can observe. Operators called "Mutant" in a comment are variants
with a plausible mistake, used only to see that a property would notice; no
specification uses them.

## 3. How the models abstract from the code

- **Time** is relative. `JobQueue` keeps for a deadline the ticks left until it,
  `-1` once passed; `Tick` brings all nearer. Nothing depends on how long ago a
  deadline passed, so this loses nothing and keeps the state finite without a
  bound on time. Clocks of database and workers are taken to agree.
- **Equal deadlines.** Update's WHERE compares the row's `locked_until` with
  the value about to be set. The two are computed at different instants and
  are equal only if they fall on the same microsecond. A statement whose
  deadline has as many ticks left as the row's may therefore match or miss; that
  it matches is a collision, which is counted (`collisions`) and bounded
  (`MaxCollisions`). A property can then say what holds until one has happened.
- **Statements in flight.** Update is sent and executed in two steps. When a
  context is cancelled, the statement it belonged to is withdrawn or stays on
  its way with no one waiting (`Nobody`).
- **Faults** (crashes, lost replies, lost or orphaned statements, broken
  streams) are bounded by `MaxFaults`; besides collisions nothing else in
  `JobQueue` is bounded.
- **The claim** takes the oldest claimable row except those an UPDATE may hold
  locked, which `SKIP LOCKED` passes over.
- **The rate limiter** of golang.org/x/time/rate counts fractions of a token;
  here a token costs `Cost` units of what a tick refills. A request finds the
  map, its entry and its bucket under one lock (and `Allow`'s own), hence one action.
- **The channel** of the worker is a counter: only the number of messages
  decides who blocks.
- **A page of the wiki** is a set of rows, a row its cells and the link in its
  first cell, a cell what `cleanString` leaves of it up to what a parser can tell
  apart: blank, a footnote only (which the franchise parser, using `TrimSpace`,
  takes for a country), a number, a date, quoted, with "episode" in it. Dates and
  texts stand for the column they come from. `Meant` is what a reader of the
  wiki sees in a row; it is written down per row and not computed. Where the
  repository does not settle it, as for a row with two numbers, it follows the
  parser, so that AllOrNothing says nothing about such rows (7).
- **The two branches of fetchHTML** are chosen once (`live`), as isLiveFandom
  is. Colly looks up whether a page was visited and notes it in two steps.
- **Core tables.** Every statement is one transaction; one that is refused
  changes nothing, so refusals are guards. Columns that nothing depends on are
  left out; a franchise keeps one, so that an update can be seen.
- **The pool** refuses a statement once Close was called, and Close returns when
  the connections in use are given back. Statements of the worker's own
  goroutine are single steps; those of updater, executeFn and handlers take time.
- **Breakers** follow gobreaker v1.0.0: deadlines are looked at when a call
  begins or ends, a generation's counts take no result of an earlier one. Calls
  have no duration; rate limiters and backoffs delay by any amount.
- **Neo4j** executes each write as one transaction, under the uniqueness
  constraints that exist; without one, `CREATE` adds another node of the id
  (numbered copies), and a statement matches all. `MERGE` and `MATCH` are set operations on edges; a query's
  `count` counts paths, as rows of a Cypher result are paths.
- **A persona's text** is there or not. Lines are skipped when malformed and
  dropped when cut off, and what is left may be valid JSON all the same: so any
  text may be accepted or refused.
- Text, DTOs, logging, prompts and JSON are left out.

## 4. Runs

All passing runs are exhaustive for their bounds.

| Run | Properties | What it shows | Bounds and why |
|---|---|---|---|
| `queue_stream` | TypeOK, RetriesRespected, LeaseExclusive, EndedIsOver, FinishedIsFinal, ImplementsLifecycle, LeaseRecovery, OldestIsClosed, StreamEnds | no stale copy, late statement or reclaim makes a job exceed its retries, reopen, or leave the life `JobLifecycle` allows; leases exclude until deadlines collide; abandoned jobs return, jobs that do not fail for ever are closed, and the client's stream ends then and not before | two workers (each hazard involves a holder and a former holder); one job, as the claim prefers the oldest, of which alone something is promised; two retries; a lease of two ticks, as long as the backoff of the one retry that is not the last, so that the deadlines of a lease and of a retry can collide; one collision; one fault of any kind, broken streams included |
| `queue_fencing` | OnlyHolderUpdates (violated) | see 7 | neither fault nor collision is needed |
| `queue_hopeless` | HopelessJobFails (violated) | see 7 | one worker suffices, no fault, no collision |
| `limiter` | WindowBound, ImplementsTokenBucket, QuietIsForgotten | eviction never grants an allowance, and happens | two addresses (the map couples them through the cleanup only), burst of two requests, expiry just above the refill time, windows longer than the expiry |
| `worker_jobs` | NeverStuck, OutcomeIsLast, LeavesNothingBehind, ShutdownCostsNoRetry, ExecutionsEnd, StopsIfMessagesFit, ProcessExits | an execution waits for a dead updater only in the one case of `worker_long`, progress never overwrites the outcome, shutdown costs no retry, a graceful end leaves nothing half-done and no end cuts a statement off, executions and the process end, the worker stops if its messages fit the channel | a channel of five where the code has ten, and up to four franchises: as there, some executions fit and some do not (from three franchises on; in the code from eight); one request at a time |
| `worker_long` | WorkerStops (violated) | see 7 | as above |
| `scraper` | AllOrNothing, BurstBounded, Terminates | no partial scrape passes for a whole one, and what is returned is what the wiki means; slots are freed; bursts are bounded by the slots | five pages in three layers, seventeen rows with the layouts of `parser_test.go` and some more (blank and foreign links, a footnote only, no date, no number, a generic title), a season linked twice; two slots for up to three pages: one has to wait; live and not |
| `ingestion_saved` | CompletedMeansSaved | completed means that some execution saved all it scraped | two jobs, two workers, two franchises, three executions: they repeat and overlap |
| `ingestion_retried` | NoTwins (violated) | see 7 | one job and one worker, which stops and executes the job again |
| `core_store` | ServesWhole, RefersToExisting, AnswersExplained, ImplementsCatalogue | a server that serves has its whole schema, foreign keys hold, ListSeasons never answers from two moments but in one named case, and ids and belonging are as in `Catalogue` | two franchises and two seasons (one moves while its franchise is deleted), one episode for the second cascade, one request against any number of writes; ids and labels are interchangeable (symmetry) |
| `persona` | ProbesBounded, ImplementsBreaker, TripsOnStreak, RequestsEnd, FalRecovers | probes in flight and successful never exceed what a half-open breaker allows, both breakers do what `CircuitBreaker` promises, breakers trip on failures in a row, requests end, a recovered Fal.ai is used again | two requests, repeated for ever; two attempts, two probes and two failures to trip are the least for which "one more" differs from "the first" |
| `lineage` | NoReciprocals, ListedOnce, ScoreByTable | no symmetric relation is stored in both directions; constraints, once there, hold of what was written before; houses and seasons do not multiply each other | two queens, two houses (a second shared one is the hazard), one season, six nodes, up to two of an id; corrections of placements; two relations between queens, enough for a reciprocal pair |

Deadlock is checked but in `worker_jobs`, `worker_long` and `scraper`, where the
process or the scrape really comes to its end.

For each property of a passing run PROJECT.json names a mutant of a definition
of the model that TLC finds violating the property under the same configuration.

Notes on some properties:

- *TypeOK of JobQueue* says that retries never exceed max_retries. The type
  invariants of the other modules (no overdrawn bucket, no overfull channel, no
  edge that ends nowhere) are not run, being proved for every value of the constants.
- *LeaseExclusive* speaks of the time before the first collision: a retry that
  collides puts a job back behind a backoff, and the claim does not wait for it (7).
- *ImplementsCatalogue* is about ids and belonging. The unique name and country of
  `core/domain/repository.go:11` are left out of `Catalogue`, since the schema has
  no such key; *NoTwins* states them and is violated.
- *NeverStuck* is a safety property: it names the only state in which a send can
  wait for ever. *ExecutionsEnd* and *StopsIfMessagesFit* are about the rest.
- *ImplementsBreaker* is not a matter of course: gobreaker counts calls that
  began and compares numbers of generations, and moves its state only when
  somebody asks. A result that counted for a later generation would break it.
- *FinishedIsFinal* holds because claims leave closed rows alone and because a
  NULL deadline equals no token. Which of completed and failed it is may still
  change: the final update of a worker that lost its lease is not fenced (7).
- *OldestIsClosed* and *StreamEnds* assume that the work does not fail for ever.
- *StopsIfMessagesFit* is what remains of *WorkerStops*: an execution reports
  three messages and one per franchise; up to seven franchises fit the real ten.
- *LeavesNothingBehind* holds of the worker's job only if main left gracefully;
  that no statement is cut off holds always, since Close waits for connections.
- *AnswersExplained* has an exception because ListSeasons needs one: a franchise
  deleted between its two statements is answered with 200 and an empty list.
- *AllOrNothing* speaks of pages that had content: an error document of status
  200 is a page without rows, and nothing in the code can tell (7).
- *ListedOnce* is about starts: the first that gets through EnsureConstraints
  finds every violation made before it, as a constraint cannot be created over one.
- *NoReciprocals* is about directions only: a lip sync corrected later leaves two
  edges, both in the same direction (7).
- *BurstBounded* is what remains of the politeness delay of 100 ms: goroutines
  that slept for the same deadline send together, never more than the slots.
- *ScoreByTable* asks that no queen has a classification twice: the query counts
  the elements of one list that are in the other, so a repeated one counts twice.

## 5. Fairness

- `JobQueue`: weak fairness of Tick (time passes), of each worker's claim (its
  ticker polls every two seconds), of the end of its execution (requests have
  timeouts), of its return, and of the execution of statements that were sent.
  None for progress, arrivals or faults. `HopelessSpec` adds that no execution
  succeeds; `StreamSpec` that one that is tried over and over succeeds at last
  (strong fairness of FinishSuccess), and that the client comes back and the
  stream's ticker fires.
- `RateLimiter`: time passes and the cleanup ticker fires. `Scraper`: goroutines
  run, requests time out after ten seconds, time passes. `Persona`: a request goes on, as
  calls have timeouts; nothing says whether a call succeeds.
- `WorkerProcess`: weak fairness of every step of a goroutine that can run, and
  strong fairness of the updater's Quit: Go's select chooses at random among
  ready cases, so it does not choose the channel for ever over a cancelled
  context. main notices a worker that is done or a server that failed, closes
  the pool and exits; a handler's statement ends. Not assumed: that a job comes
  or a signal comes. That main's ten seconds run out is assumed by
  *ProcessExits* alone (as its premise): the other properties of a shutdown
  hold without it.
- `CoreStore`, `Ingestion`, `LineageGraph`: safety only, no fairness.

## 6. Proofs

TLAPS checks, for every set of workers, addresses, requests, ids or pages and every value of
the other constants that meets the assumptions named in the modules:

- `JobQueueProofs` (assumes `ConstantsOK`, `NullOK`, `NobodyOK`, `BackoffOK` and,
  for the stream, `OldestOK`: the followed job is one of the jobs)
  - *TypeCorrect, RetriesAreRespected*: from the inductive invariant `IInv`.
    Neither property is inductive: both depend on what is on the wire and in the
    workers' copies. `IInv` says of a statement (`StatementOK`), a row (`RowOK`)
    and a worker's copy (`WorkerOK`) how status, retries and deadline go
    together: a deadline is carried exactly when the job is left open, and
    retries are used up exactly when the job is failed.
  - *FinishedForever*: a closed row has no deadline; a statement that reopens
    has one, and matches no such row; the claim needs a deadline or an open row.
  - *Refinement*: each step is a step of `JobLifecycle` or leaves it alone. The
    extra invariant is `UntouchedAlone`: of a row that is absent, or pending and
    never locked, no worker and no statement knows.
  - *LeaseIsExclusive*: the invariant is that as long as `collisions` is 0, `LInv`
    holds: no row is ever pending behind a backoff, and a worker within its lease
    has the row of its job show that very deadline, unless the job was closed.
    A collision has happened for good (`CollisionsStay`).
  - *EndedStreamIsRight*: the stream ends on a row that is closed, and each step
    of the queue leaves a closed row closed (`FinishedStays`).
- `RateLimiterProofs` (assumes `LimiterOK` and `RefillsBeforeExpiry`: a bucket
  refills before its address is forgotten, in the server 2 s against 3 min)
  - *TypeCorrect*, *WindowIsBounded*, *Refinement*: the invariant is that an
    entry holds at least what its silence has refilled, so that a stale entry
    is full and forgetting it loses nothing; and that what a window has
    admitted plus what the bucket holds is covered by burst and time.
- `CoreStoreProofs` (assumes `StoreOK`: ids of different tables differ)
  - *TypeCorrect, ServesWithAllTables, ReferencesHold, AnswersAreExplained*: the
    inductive invariant adds that the objects of all executed statements of the
    schema exist (`Created`), that what the tables hold now is among a request's
    `views` (`Watching`), and that a request past its first check has seen its
    franchise (`Checked`).
  - *Refinement*: each statement is a step of `Catalogue` or leaves it alone;
    a cascade of two foreign keys is `Below`, the levels under a record.
- `WorkerProofs` (assumes `SizesOK`)
  - *TypeCorrect, OutcomeComesLast, ShutdownIsNoFailure, NothingIsLeftBehind*:
    the invariant says where executeFn can be in its script (`InScript`), that
    the updater is gone once the outcome is being recorded (`Ended`), which
    contexts and pool explain an execution's error (`Blamed`), and what main
    knows of the worker by the time it leaves (`Left`).
  - *SendsAreTaken*: the updater is gone during an execution only after a
    shutdown began (`Accompanied`); and the channel never holds more than the
    messages sent so far, of which an execution has a known number (`SentSoFar`).
- `ScraperProofs` (assumes `ScraperOK`)
  - *TypeCorrect*, and with it that no more goroutines hold slots than there are
    (`SlotsBounded`, a lemma).
  - *BurstIsBounded*: the slots bound the bursts, but that is not inductive, since
    sleepers send together when they wake. The invariant `Ahead(s)`, for every s up to the delay, counts together the
    requests that will still be recent in s ticks and the goroutines that will
    have woken by then: never more than the slots.
  - *ScrapesAllOrNothing*, on a wiki that is `LaidOut`: of the rows on the pages
    they are led to the parsers make what is meant, and no franchise has the first
    page for its own (TLC evaluates that on the wiki of the run). The invariant
    `Led` says which goroutines can have been started and that the links of
    earlier layers were all followed; none is started twice, the layer of a row
    being one more than that of the page it is on.
- `IngestionProofs` (assumes `IngestionOK`)
  - *CompletedIsSaved*: what an execution has scraped and has no more to do is in
    the table (`Saved`).
  - *TypeCorrect*: that rows of a franchise are no more than executions needs them
    counted together with the executions that still owe one; a start adds one
    to the executions, an insert takes its worker out of the debtors
    (cardinalities of `Owing`). Of a single execution it says nothing.
  - *Refinement*: each step is one of `JobLifecycle` or leaves the queue alone, an
    outcome that replaces an earlier one included. So `Ingestion` constrains the
    queue in no way that the promise does not, and `JobQueue` keeps the promise.
- `PersonaProofs` (assumes the module's constants are positive)
  - *TypeCorrect, ProbesAreBounded*: `AllProbing` says that calls in flight and
    successes of a generation never exceed the requests it has counted. The
    breaker's transitions are stated once as kinds of steps.
  - *TripsAfterStreak*: the failures that a closed breaker counts are never more
    than the streak behind them (`Behind`).
  - *Refinement*: the breakers implement `CircuitBreaker`. A breaker is mapped to
    what it will be when somebody next looks at it (`Now`: its deadline observed),
    its calls to those whose result it would count (`Calls`). The proof needs that
    the calls in flight and the successes are no more than the requests counted
    (`AllProbing`), so that who is let through by a count of begun calls is let
    through by the calls in flight, and that a half-open breaker, and no other,
    is without a deadline (`AllTimed`); then to begin is Admit, to return is Pass, Fail or
    nothing, and a tick is Elapse, where an expired generation forgets its calls.
    One lemma serves both breakers: `Abstract(u)` is the instance for either.
- `LineageProofs` (assumes `LineageOK`: ids are ordered, and `FiniteOK`: there are
  finitely many houses, seasons and tags)
  - *TypeCorrect*: relationships end in existing nodes, nodes being only added.
  - *NoReciprocalEdges*: `NoReciprocals` is not inductive, a new edge having to
    be compared with all old ones; the invariant `Sorted` says that each goes
    from the lower id to the higher, whatever the number of nodes.
  - *SiblingsAreListedOnce*: `Guarded`: labels with a constraint have unique ids,
    and constraints come in the order of the statements.
  - *ScoreIsByTable*: a queen has one participation in a season, however often it
    was corrected (`OnePlace`); so the paths that the query counts correspond one
    to one to the shared seasons, the classifications counted to the shared tags,
    and there is a path through a house exactly if one is shared. The cardinalities
    follow from the library's theorem on injections.
  - *CorrectionsReplace*, an action property: an edge ends in nodes that the MATCH
    finds (TypeCorrect), so SET reaches every edge between a queen and a season.

Only model-checked: all liveness (LeaseRecovery, OldestIsClosed, StreamEnds,
QuietIsForgotten, ExecutionsEnd, StopsIfMessagesFit, ProcessExits, Terminates,
RequestsEnd, FalRecovers), which is out of the prover's reach under fairness.
Every invariant and action property of a passing run is also a theorem.

## 7. Where code and documentation differ

Shown by a run (quotes in PROJECT.json, "findings"):

- `queue_fencing`: Update's WHERE looks at the token only when the new deadline
  is not NULL. Completing or failing a job sets NULL: the outcome of a worker
  that lost its lease overwrites the row of the present holder.
  (`job_repository.go:57` says that a finishing update only needs to match the
  id, so this is partly meant; it is not what line 56 promises.)
- `queue_hopeless`: the token is the new deadline, not the one the worker was
  granted. Recording a retry therefore matches no row; the job stays running
  until the lease expires and is executed again, with retries still 0, for
  ever. For the same reason progress updates reach no row, and never extend the lease.
- `worker_long`: executeJob sends progress with a plain send. After a signal the
  updater is gone; an execution with more messages than the channel holds blocks
  for ever, and main runs into its timeout.
- `ingestion_retried`: each execution gives its franchises new ids and the table
  has no key but the id (`main.go:116`, `schema.go:12`), so a job executed twice
  saves everything twice. `core/domain/repository.go:11` promises a unique name and
  country, `GEMINI.md:65` idempotent processing; the ErrAlreadyExists that
  `main.go:123` passes over never comes.

Seen while modelling, without a run:

- the claim takes pending rows whatever their deadline (`job_repository.go:82`),
  so the backoff of `worker.go:128` would not be waited for;
- `fetchHTML` does not look at lastReqTime again after its sleep (`scraper.go:106`);
- winnerId and song are part of the merged properties of a lip sync, so a pair
  has an edge per battle and a correction adds one, where
  `docs/LINEAGE_CONTEXT.md:66` says exactly one canonical directed edge;
- a classification listed twice scores twice;
- ErrTooManyRequests of a half-open breaker is retried as a failed connection
  (`fal.go:159`), and calls cancelled by clients count as failures (`fal.go:122`);
- executeJob saves franchises only: seasons and episodes are scraped by
  Orchestrate, which only the demo command calls;
- an error document of the wiki's API with status 200 decodes to an empty page
  (`scraper.go:146`): a job can complete having found nothing;
- off the live wiki Colly refuses a page that two rows lead to, which fails the
  whole scrape (`scraper.go:174`);
- CreateQueen's comment says that it "persists or merges"; it creates, and with a
  constraint an existing id is an error;
- an episode whose row has two number columns takes the first for its number,
  and whatever follows for its title if nothing is quoted; nothing in the
  repository says which is meant (`episode_parser.go:35` names both columns);
- a country cell with a footnote only is taken for a country
  (`franchise_parser.go:31` does not clean it, as the other parsers do);
- a stream from Gemini with a malformed line, or cut off in its last, is not an
  error (`gemini.go:195`, `:206`): what is left may be valid JSON with every field
  filled, and is then a persona (`platform/llm/parser.go:28`);
- `main.go` waits for the worker and not for the server's shutdown, so handlers
  can find the pool closed (`main.go:186`).

## 8. What is not modelled

- The lineage handler and the reads of single nodes, the search by
  classifications, the order and the cut-off of sibling lists: they change
  nothing and read a graph from which nothing is ever deleted.
- The demo command: one call of Orchestrate (modelled) and prints.
- The request log and route wiring; the generation of the LLM's JSON schema; the
  text of prompts and events.
- ListFranchises, ListJobs and other single-statement reads.
- Inside the libraries: pgx beyond its pool, gobreaker, Colly, the errgroup and
  the Neo4j driver are modelled from how the code uses them (marked external).

PROJECT.json says which component is modelled, partly modelled or not.

## 9. Plan

Done, in this order: the queue with its abstract life, what runs on it (stream,
execution, process), the independent components, then the core store, the
parsers and the proofs of every component. What is left:

1. The hazard of `job_repository.go:85`: a young job starved by an old one that
   fails for ever; how long it waits depends on the order of expiries, and a
   bound on it would need the queue with two jobs under fairness of arrivals.
2. `Ingestion`: saving into `CoreStore` instead of a count of rows.
3. An abstract specification of Orchestrate (all pages or an error) with a proof
   that `Scraper` implements it; its parts are proved as invariants.
