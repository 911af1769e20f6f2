------------------------------ MODULE JobQueue ------------------------------
(***************************************************************************)
(* The PostgreSQL job queue of the ingestion context: the ingestion_jobs   *)
(* table, the four statements of the job repository, and the workers that  *)
(* claim jobs, report progress and record how an execution ended.          *)
(*                                                                         *)
(* Time is relative: a deadline (locked_until) is the number of ticks left *)
(* until it, and -1 once it has passed.  Tick brings every deadline in the *)
(* system one tick nearer.  A tick is much coarser than the microsecond in *)
(* which the code compares timestamps, so two deadlines with the same      *)
(* number of ticks left need not be the same instant.  That they are is a  *)
(* collision: a rare event, counted and bounded as the faults are.         *)
(*                                                                         *)
(* An UPDATE statement is sent and executed in two steps: the worker can   *)
(* be cancelled or die in between, and the server may still execute the    *)
(* statement later.                                                        *)
(***************************************************************************)
EXTENDS Integers, FiniteSets

CONSTANTS
    Workers,      \* the worker processes, one per API instance
    NumJobs,      \* jobs are 1..NumJobs in the order of their created_at
    NULL,         \* SQL NULL
    Nobody,       \* the sender of a statement whose worker gave it up
    Lease,        \* ticks of leaseDuration
    MaxRetries,   \* max_retries of a job
    BackoffUnit,  \* ticks of backoffMultiplier seconds
    MaxFaults,    \* bound: crashes, lost replies, lost or orphaned statements
    MaxCollisions \* bound: deadlines taken for the token of another update

Jobs == 1 .. NumJobs

ASSUME ConstantsOK ==
    /\ NumJobs \in Nat
    /\ MaxRetries \in Nat \ {0}
    /\ Lease \in Nat
    /\ MaxFaults \in Nat
    /\ MaxCollisions \in Nat

ASSUME NullOK == NULL \notin Int

ASSUME NobodyOK == Nobody \notin Workers

(* math.Pow(2, retries) * backoffMultiplier, in ticks.                     *)
Backoff(r) == 2^r * BackoffUnit

ASSUME BackoffOK == \A r \in 1 .. MaxRetries : Backoff(r) \in Nat

VARIABLES
    row,          \* row[j]: status, retries and locked_until of job j's row
    wk,           \* wk[w]: what worker w is doing and its copy of the job
    wire,         \* UPDATE statements sent and not yet executed
    faults,       \* faults so far
    collisions    \* collisions so far

vars == <<row, wk, wire, faults, collisions>>

Deadlines == {NULL} \cup {d \in Int : d >= -1}
Passed(d) == d # NULL /\ d < 0
Later(d) == IF d = NULL \/ d = -1 THEN d ELSE d - 1

Statuses == {"pending", "running", "completed", "failed"}
Finished(j) == row[j].status \in {"completed", "failed"}

Rows == [status : Statuses \cup {"absent"}, retries : 0 .. MaxRetries, lock : Deadlines]

(* Of its copy of the job a worker uses the retries only: LockedUntil is   *)
(* set anew before every update.  lease is history, kept to state          *)
(* properties: the deadline that its claim was granted.                    *)
WorkerStates == [pc : {"idle", "executing", "finishing"},
                 job : Jobs \cup {0},
                 retries : 0 .. MaxRetries,
                 lease : {d \in Int : d >= -1}]

(* nr numbers the statements from nobody: two of them may say the same.    *)
Statements == [from : Workers \cup {Nobody}, nr : 0 .. MaxFaults,
               job : Jobs, status : Statuses,
               retries : 0 .. MaxRetries, lock : Deadlines]

NoRow == [status |-> "absent", retries |-> 0, lock |-> NULL]
NewRow == [status |-> "pending", retries |-> 0, lock |-> NULL]
Idle == [pc |-> "idle", job |-> 0, retries |-> 0, lease |-> -1]

Init == /\ row = [j \in Jobs |-> NoRow]
        /\ wk = [w \in Workers |-> Idle]
        /\ wire = {}
        /\ faults = 0
        /\ collisions = 0

-----------------------------------------------------------------------------
(* POST /jobs/ingest: created_at was stamped before the INSERT, so the     *)
(* rows may appear in another order than their numbers.                    *)
CreateJob(j) ==
    /\ row[j] = NoRow
    /\ row' = [row EXCEPT ![j] = NewRow]
    /\ UNCHANGED <<wk, wire, faults, collisions>>

(* Mutants: the lease of a running job not looked at; the retries of a     *)
(* failed job not looked at.                                               *)
ClaimableThoughLeased(j) == row[j].status \in {"pending", "running"}
ClaimableThoughExhausted(j) ==
    \/ row[j].status \in {"pending", "failed"}
    \/ row[j].status = "running" /\ Passed(row[j].lock)

(* Mutant: lost leases are not looked for.                                 *)
ClaimablePendingOnly(j) == row[j].status = "pending"

(* The WHERE of ClaimNextJob's subquery.                                   *)
Claimable(j) ==
    \/ row[j].status = "pending"
    \/ row[j].status = "running" /\ Passed(row[j].lock)
    \/ row[j].status = "failed" /\ row[j].retries < MaxRetries /\ Passed(row[j].lock)

(* ORDER BY created_at LIMIT 1 FOR UPDATE SKIP LOCKED: the oldest          *)
(* claimable row, where only a row some UPDATE holds locked is skipped.    *)
NextJob(j) ==
    /\ Claimable(j)
    /\ \A i \in 1 .. j - 1 : Claimable(i) => \E m \in wire : m.job = i

(* The SET of ClaimNextJob.                                                *)
Claimed(j) == [row EXCEPT ![j].status = "running", ![j].lock = Lease]

ClaimNextJob(w) ==
    /\ wk[w].pc = "idle"
    /\ \E j \in Jobs :
        /\ NextJob(j)
        /\ row' = Claimed(j)
        /\ wk' = [wk EXCEPT ![w] = [pc |-> "executing", job |-> j,
                                    retries |-> row[j].retries, lease |-> Lease]]
    /\ UNCHANGED <<wire, faults, collisions>>

(* The claim commits but its reply is lost: the worker logs the error and  *)
(* polls again at the next tick of its ticker.                             *)
ClaimReplyLost(w) ==
    /\ wk[w].pc = "idle"
    /\ faults < MaxFaults
    /\ \E j \in Jobs : NextJob(j) /\ row' = Claimed(j)
    /\ faults' = faults + 1
    /\ UNCHANGED <<wk, wire, collisions>>

Statement(w, status, retries, lock) ==
    [from |-> w, nr |-> 0, job |-> wk[w].job, status |-> status, retries |-> retries,
     lock |-> lock]

Outstanding(w) == {m \in wire : m.from = w}

(* The progress updater takes a message, sets the new deadline on its copy *)
(* of the job and sends the copy.  It waits for one reply at a time.       *)
SendProgress(w) ==
    /\ wk[w].pc = "executing"
    /\ Outstanding(w) = {}
    /\ wire' = wire \cup {Statement(w, "running", wk[w].retries, Lease)}
    /\ UNCHANGED <<row, wk, faults, collisions>>

(* The wire when w gives up the reply it waits for: the statement is       *)
(* withdrawn, or it stays on its way to the server, from nobody.           *)
Withdrawn(w) == wire \ Outstanding(w)
Orphaned(w) ==
    Withdrawn(w) \cup {[m EXCEPT !.from = Nobody, !.nr = faults + 1] : m \in Outstanding(w)}

(* executeFn has returned: cancel() stops the updater, whose statement may *)
(* survive it, and the worker sends the final UPDATE.                      *)
Finish(w, final) ==
    /\ wk[w].pc = "executing"
    /\ wk' = [wk EXCEPT ![w].pc = "finishing", ![w].retries = final.retries]
    /\ \/ /\ wire' = Withdrawn(w) \cup {final}
          /\ UNCHANGED faults
       \/ /\ Outstanding(w) # {}
          /\ faults < MaxFaults
          /\ wire' = Orphaned(w) \cup {final}
          /\ faults' = faults + 1
    /\ UNCHANGED <<row, collisions>>

(* Mutant: the deadline is not cleared.                                    *)
SuccessUpdateKeepingLock(w) == Statement(w, "completed", wk[w].retries, wk[w].lease)

(* handleSuccess.                                                          *)
SuccessUpdate(w) == Statement(w, "completed", wk[w].retries, NULL)

FinishSuccess(w) == Finish(w, SuccessUpdate(w))

(* Mutant: the comparison with the maximum off by one.                     *)
FailureUpdateOneTooFew(w) ==
    LET r == wk[w].retries + 1
    IN IF r + 1 >= MaxRetries
       THEN Statement(w, "failed", r, NULL)
       ELSE Statement(w, "pending", r, Backoff(r))

(* handleFailure: one more retry; failed for good when they are used up,   *)
(* else pending again behind a backoff deadline.                           *)
FailureUpdate(w) ==
    LET r == wk[w].retries + 1
    IN IF r >= MaxRetries
       THEN Statement(w, "failed", r, NULL)
       ELSE Statement(w, "pending", r, Backoff(r))

FinishFailure(w) == Finish(w, FailureUpdate(w))

(* Two deadlines that are equal to the microsecond: as many ticks left.    *)
Collides(m) ==
    collisions < MaxCollisions /\ row[m.job].lock = m.lock

(* Mutant: a row without a deadline taken for one that nobody holds.       *)
MayMatchUnlocked(m) == m.lock = NULL \/ Collides(m) \/ row[m.job].lock = NULL

(* The WHERE of Update: its token is the deadline it is about to set, so   *)
(* it matches a row that has this deadline already, to the microsecond,    *)
(* and a NULL deadline is not compared at all.                             *)
MayMatch(m) == m.lock = NULL \/ Collides(m)
MayMiss(m) == m.lock # NULL

(* The server executes a statement.                                        *)
ExecuteUpdate(m) ==
    /\ wire' = wire \ {m}
    /\ \/ /\ MayMatch(m)
          /\ row' = [row EXCEPT ![m.job] = [status |-> m.status, retries |-> m.retries,
                                            lock |-> m.lock]]
          /\ collisions' = IF m.lock = NULL THEN collisions ELSE collisions + 1
       \/ MayMiss(m) /\ UNCHANGED <<row, collisions>>
    /\ UNCHANGED <<wk, faults>>

(* The statement never reaches the server; its sender sees an error and    *)
(* only logs it.                                                           *)
LoseUpdate(m) ==
    /\ faults < MaxFaults
    /\ faults' = faults + 1
    /\ wire' = wire \ {m}
    /\ UNCHANGED <<row, wk, collisions>>

(* The final Update has returned, with or without an error.                *)
Return(w) ==
    /\ wk[w].pc = "finishing"
    /\ Outstanding(w) = {}
    /\ wk' = [wk EXCEPT ![w] = Idle]
    /\ UNCHANGED <<row, wire, faults, collisions>>

(* The process dies, or is shut down with its context cancelled, and is    *)
(* restarted: nothing but the row remembers what it was doing.             *)
Crash(w) ==
    /\ wk[w].pc # "idle"
    /\ faults < MaxFaults
    /\ faults' = faults + 1
    /\ wk' = [wk EXCEPT ![w] = Idle]
    /\ wire' \in {Withdrawn(w), Orphaned(w)}
    /\ UNCHANGED <<row, collisions>>

Tick ==
    /\ row' = [j \in Jobs |-> [row[j] EXCEPT !.lock = Later(@)]]
    /\ wk' = [w \in Workers |-> [wk[w] EXCEPT !.lease = Later(@)]]
    /\ wire' = {[m EXCEPT !.lock = Later(@)] : m \in wire}
    /\ UNCHANGED <<faults, collisions>>

WorkerStep(w) == \/ ClaimNextJob(w) \/ ClaimReplyLost(w)
                 \/ SendProgress(w)
                 \/ FinishSuccess(w) \/ FinishFailure(w) \/ Return(w)
                 \/ Crash(w)

Next == \/ \E j \in Jobs : CreateJob(j)
        \/ \E w \in Workers : WorkerStep(w)
        \/ \E m \in wire : ExecuteUpdate(m) \/ LoseUpdate(m)
        \/ Tick

Spec == Init /\ [][Next]_vars

(* What the code's scheduling gives: time passes, every worker's ticker    *)
(* goes on polling, a statement that was sent is executed, a worker that   *)
(* has its reply goes on, and the executions themselves end, the requests  *)
(* of the scraper having a timeout.  Nothing obliges a worker to report    *)
(* progress, a request to arrive or a fault to happen.                     *)
ExecuteUpdateOf(f) == \E m \in wire : m.from = f /\ ExecuteUpdate(m)

Fairness ==
    /\ WF_vars(Tick)
    /\ \A w \in Workers : /\ WF_vars(ClaimNextJob(w))
                           /\ WF_vars(FinishSuccess(w) \/ FinishFailure(w))
                           /\ WF_vars(Return(w))
    /\ \A f \in Workers \cup {Nobody} : WF_vars(ExecuteUpdateOf(f))

FairSpec == Spec /\ Fairness

(* Moreover the work of every job fails, every time.                       *)
HopelessSpec ==
    Init /\ [][Next /\ \A w \in Workers : ~FinishSuccess(w)]_vars /\ Fairness

-----------------------------------------------------------------------------
TypeOK ==
    /\ row \in [Jobs -> Rows]
    /\ wk \in [Workers -> WorkerStates]
    /\ wire \in SUBSET Statements
    /\ faults \in 0 .. MaxFaults
    /\ collisions \in 0 .. MaxCollisions

Abandoned(j) == row[j].status = "running" /\ \A w \in Workers : wk[w].job # j
Oldest == 1

(* A job that was closed, as completed or as failed, stays closed: no      *)
(* claim, no late progress report and no retry of a worker that lost its   *)
(* lease brings the row back to pending or running.  (Which of the two it  *)
(* is may still change: see OnlyHolderUpdates.)  The two things in charge  *)
(* are the claim's filter and the fence of Update, a NULL deadline being   *)
(* equal to no token.                                                      *)
FinishedIsFinal == [][\A j \in Jobs : Finished(j) => Finished(j)']_vars

(* Nobody works on a job whose retries are used up, and a job is given up  *)
(* as failed only with its retries used up, whatever stale copies of it    *)
(* the workers carry and in whatever order their updates arrive.           *)
RetriesRespected ==
    /\ \A w \in Workers : wk[w].pc = "executing" => wk[w].retries < MaxRetries
    /\ \A j \in Jobs : row[j].status = "failed" => row[j].retries = MaxRetries

(* While no two deadlines have collided, the lease is exclusive: of two    *)
(* workers executing the same job, one at least has outlived the lease its *)
(* claim was granted.                                                      *)
LeaseExclusive ==
    collisions = 0 =>
        \A v, w \in Workers :
            /\ v # w
            /\ wk[v].pc = "executing" /\ wk[w].pc = "executing"
            /\ wk[v].job = wk[w].job
            => wk[v].lease = -1 \/ wk[w].lease = -1

(* Crash recovery: the oldest job, when the row says running and its       *)
(* worker is gone, is claimed again or turns out to be finished.           *)
LeaseRecovery ==
    Abandoned(Oldest) ~> (Finished(Oldest) \/ \E w \in Workers : wk[w].job = Oldest)

(* At-least-once, up to the end: if the work does not fail for ever, the   *)
(* oldest job is closed.                                                   *)
OldestIsClosed == row[Oldest] # NoRow ~> Finished(Oldest)

(* The queue implements JobLifecycle: a row that is pending and was never  *)
(* locked waits, a running or retried one is started.                      *)
Phase(j) ==
    CASE row[j].status = "absent" -> "absent"
      [] row[j].status = "pending" /\ row[j].lock = NULL -> "waiting"
      [] row[j].status = "pending" /\ row[j].lock # NULL -> "started"
      [] row[j].status = "running" -> "started"
      [] Finished(j) -> "closed"

Lifecycle == INSTANCE JobLifecycle
                 WITH NoJob <- 0,
                      phase <- [j \in Jobs |-> Phase(j)],
                      runs <- [w \in Workers |-> wk[w].job]

(* Every step of table, workers and statements in flight is a step of the  *)
(* life the client is promised, or changes nothing of it.                  *)
ImplementsLifecycle == Lifecycle!Spec

-----------------------------------------------------------------------------
(* What the repository says of the queue and the code does not do.         *)

(* "Ensure we only update if we still hold the lock": an update that       *)
(* changes the row comes from the worker whose lease the row shows.        *)
OnlyHolderUpdates ==
    [][\A m \in wire : m \notin wire' /\ m.from \in Workers /\ row' # row /\ wk' = wk
                       => row[m.job].lock = wk[m.from].lease]_vars

(* A job whose work always fails is given up after max_retries.            *)
HopelessJobFails == row[Oldest] # NoRow ~> row[Oldest].status = "failed"
=============================================================================
