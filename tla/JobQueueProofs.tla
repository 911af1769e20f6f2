--------------------------- MODULE JobQueueProofs ---------------------------
(***************************************************************************)
(* Theorems about JobQueue, and about the stream that reads its rows, for  *)
(* every number of workers and jobs and every lease, backoff and retry     *)
(* limit.                                                                  *)
(***************************************************************************)
EXTENDS ProgressStream, TLAPS

(* Deadlines come nearer, stay deadlines and stay NULL or not.             *)
LEMMA LaterType ==
    ASSUME NEW d \in Deadlines
    PROVE  /\ Later(d) \in Deadlines
           /\ Later(d) = NULL <=> d = NULL
BY NullOK DEF Later, Deadlines

LEMMA LeaseLaterType ==
    ASSUME NEW d \in {e \in Int : e >= -1}
    PROVE  Later(d) \in {e \in Int : e >= -1}
BY NullOK DEF Later

LEMMA LeaseIsDeadline == Lease \in Deadlines /\ Lease # NULL
BY ConstantsOK, NullOK DEF Deadlines

LEMMA BackoffIsDeadline ==
    ASSUME NEW r \in 1 .. MaxRetries
    PROVE  Backoff(r) \in Deadlines /\ Backoff(r) # NULL
<1>1. Backoff(r) \in Nat
  BY BackoffOK
<1> QED
  BY <1>1, NullOK DEF Deadlines

-----------------------------------------------------------------------------
(* Typing.                                                                 *)

(* What an UPDATE changes of a row and of a worker is well typed, whoever  *)
(* sends it.                                                               *)
LEMMA FinalStatements ==
    ASSUME TypeOK, NEW w \in Workers, wk[w].job \in Jobs, wk[w].retries < MaxRetries
    PROVE  /\ SuccessUpdate(w) \in Statements
           /\ FailureUpdate(w) \in Statements
<1>1. wk[w].retries \in 0 .. MaxRetries
  BY DEF TypeOK, WorkerStates
<1>2. SuccessUpdate(w) \in Statements
  BY <1>1, ConstantsOK DEF SuccessUpdate, Statement, Statements, Statuses, Deadlines
<1>3. CASE wk[w].retries + 1 >= MaxRetries
  <2>1. wk[w].retries + 1 \in 0 .. MaxRetries
    BY <1>1, ConstantsOK
  <2> QED
    BY <1>2, <1>3, <2>1, ConstantsOK DEF FailureUpdate, Statement, Statements, Statuses, Deadlines
<1>4. CASE ~(wk[w].retries + 1 >= MaxRetries)
  <2>1. wk[w].retries + 1 \in 1 .. MaxRetries
    BY <1>1, <1>4, ConstantsOK
  <2>2. Backoff(wk[w].retries + 1) \in Deadlines
    BY <2>1, BackoffIsDeadline
  <2> QED
    BY <1>2, <1>4, <2>1, <2>2, ConstantsOK DEF FailureUpdate, Statement, Statements, Statuses
<1> QED
  BY <1>3, <1>4

(* Withdrawing or orphaning statements leaves well-typed statements, and   *)
(* none that says what no statement said.                                  *)
LEMMA WireTypes ==
    ASSUME wire \in SUBSET Statements, faults \in 0 .. MaxFaults, NEW w \in Workers
    PROVE  /\ Withdrawn(w) \in SUBSET Statements
           /\ faults < MaxFaults => Orphaned(w) \in SUBSET Statements
           /\ \A m \in Withdrawn(w) \cup Orphaned(w) :
                \E n \in wire : /\ m.job = n.job /\ m.status = n.status
                               /\ m.retries = n.retries /\ m.lock = n.lock
<1> DEFINE Orphan(n) == [n EXCEPT !.from = Nobody, !.nr = faults + 1]
<1>1. ASSUME NEW n \in Statements
      PROVE  /\ Orphan(n).job = n.job /\ Orphan(n).status = n.status
             /\ Orphan(n).retries = n.retries /\ Orphan(n).lock = n.lock
             /\ faults + 1 \in 0 .. MaxFaults => Orphan(n) \in Statements
  BY DEF Statements
<1>2. faults < MaxFaults => faults + 1 \in 0 .. MaxFaults
  BY ConstantsOK
<1>3. Withdrawn(w) \subseteq wire /\ Outstanding(w) \subseteq wire
  BY DEF Withdrawn, Outstanding
<1>4. Orphaned(w) = Withdrawn(w) \cup {Orphan(n) : n \in Outstanding(w)}
  BY DEF Orphaned
<1> HIDE DEF Orphan
<1> QED
  BY <1>1, <1>2, <1>3, <1>4

-----------------------------------------------------------------------------
(* The inductive invariant.  A statement carries a deadline exactly when   *)
(* it leaves the job open, and retries that are used up exactly when it    *)
(* fails the job; so do the rows, with the one exception of a new row,     *)
(* which is pending without a deadline; and a worker with a job to do has  *)
(* a copy of it whose retries are not used up.                             *)
StatementOK(m) ==
    /\ m.lock = NULL <=> m.status \in {"completed", "failed"}
    /\ m.status = "failed" => m.retries = MaxRetries
    /\ m.status # "failed" => m.retries < MaxRetries

RowOK(j) ==
    /\ Finished(j) => row[j].lock = NULL
    /\ row[j].status = "running" => row[j].lock # NULL
    /\ row[j].status = "failed" => row[j].retries = MaxRetries
    /\ row[j].status # "failed" => row[j].retries < MaxRetries

WorkerOK(w) ==
    /\ wk[w].pc = "idle" => wk[w] = Idle
    /\ wk[w].pc # "idle" => wk[w].job \in Jobs
    /\ wk[w].pc = "executing" => wk[w].retries < MaxRetries

IInv == /\ TypeOK
        /\ \A m \in wire : StatementOK(m)
        /\ \A j \in Jobs : RowOK(j)
        /\ \A w \in Workers : WorkerOK(w)

LEMMA InitIInv == Init => IInv
<1> SUFFICES ASSUME Init PROVE IInv
  OBVIOUS
<1> USE ConstantsOK, NullOK
<1>1. TypeOK
  BY DEF Init, TypeOK, Rows, NoRow, WorkerStates, Idle, Deadlines, Statuses
<1>2. \A j \in Jobs : RowOK(j)
  BY DEF Init, RowOK, Finished, NoRow
<1>3. \A w \in Workers : WorkerOK(w)
  BY DEF Init, WorkerOK, Idle
<1> QED
  BY <1>1, <1>2, <1>3 DEF IInv, Init

(* The facts about the claim that every use of it needs.                   *)
LEMMA ClaimedRow ==
    ASSUME IInv, NEW j \in Jobs, NextJob(j), row' = Claimed(j)
    PROVE  /\ row' \in [Jobs -> Rows]
           /\ \A i \in Jobs : RowOK(i)'
           /\ ~Finished(j)
           /\ row[j].retries < MaxRetries
<1>1. Claimable(j)
  BY DEF NextJob
<1>2. row[j] \in Rows /\ RowOK(j)
  BY DEF IInv, TypeOK
<1>3. row[j].status \in {"pending", "running"}
  BY <1>1, <1>2 DEF Claimable, RowOK, Finished, Passed, Rows
<1>4. ~Finished(j) /\ row[j].retries < MaxRetries
  BY <1>2, <1>3 DEF Finished, RowOK
<1>5. row' = [row EXCEPT ![j] = [row[j] EXCEPT !.status = "running", !.lock = Lease]]
  BY <1>2 DEF Claimed, IInv, TypeOK, Rows
<1>6. [row[j] EXCEPT !.status = "running", !.lock = Lease] \in Rows
  BY <1>2, LeaseIsDeadline DEF Rows, Statuses
<1>7. row' \in [Jobs -> Rows]
  BY <1>5, <1>6 DEF IInv, TypeOK
<1>8. ASSUME NEW i \in Jobs PROVE RowOK(i)'
  <2>1. CASE i = j
    BY <1>2, <1>4, <1>5, <2>1, LeaseIsDeadline DEF RowOK, Finished, IInv, TypeOK, Rows
  <2>2. CASE i # j
    BY <1>5, <2>2 DEF RowOK, Finished, IInv, TypeOK
  <2> QED
    BY <2>1, <2>2
<1> QED
  BY <1>4, <1>7, <1>8

(* The end of an execution, successful or not, preserves the invariant.    *)
LEMMA FinishIInv ==
    ASSUME IInv, NEW w \in Workers, NEW final \in Statements,
           final.from = w, StatementOK(final), Finish(w, final)
    PROVE  IInv'
<1> USE DEF Finish
<1>1. wk[w].pc = "executing" /\ wk[w] \in WorkerStates /\ WorkerOK(w)
  BY DEF IInv, TypeOK
<1>2. /\ row' = row
      /\ wk' = [wk EXCEPT ![w] = [wk[w] EXCEPT !.pc = "finishing",
                                               !.retries = final.retries]]
  BY DEF IInv, TypeOK, WorkerStates
<1>3. [wk[w] EXCEPT !.pc = "finishing", !.retries = final.retries] \in WorkerStates
  BY <1>1 DEF WorkerStates, Statements
<1>4. wk' \in [Workers -> WorkerStates]
  BY <1>2, <1>3 DEF IInv, TypeOK
<1>5. wire' \in SUBSET Statements
  BY WireTypes DEF IInv, TypeOK
<1>6. faults' \in 0 .. MaxFaults
  BY ConstantsOK DEF IInv, TypeOK
<1>7. ASSUME NEW m \in wire' PROVE StatementOK(m)
  <2>1. CASE m = final
    BY <2>1
  <2>2. CASE m # final
    BY <1>7, <2>2, WireTypes DEF IInv, TypeOK, StatementOK
  <2> QED
    BY <2>1, <2>2
<1>8. ASSUME NEW v \in Workers PROVE WorkerOK(v)'
  BY <1>1, <1>2, <1>3 DEF IInv, TypeOK, WorkerOK, WorkerStates
<1>9. \A j \in Jobs : RowOK(j)'
  BY <1>2 DEF IInv, RowOK, Finished
<1> QED
  BY <1>2, <1>4, <1>5, <1>6, <1>7, <1>8, <1>9 DEF IInv, TypeOK, StatementOK

(* Time touches deadlines only, and makes none of them NULL.               *)
LEMMA TickIInv == IInv /\ Tick => IInv'
<1> SUFFICES ASSUME IInv, Tick PROVE IInv'
  OBVIOUS
<1>1. ASSUME NEW j \in Jobs
      PROVE  /\ row'[j] \in Rows
             /\ row'[j].status = row[j].status
             /\ row'[j].retries = row[j].retries
             /\ row'[j].lock = NULL <=> row[j].lock = NULL
  <2>1. row'[j] = [row[j] EXCEPT !.lock = Later(row[j].lock)] /\ row[j] \in Rows
    BY DEF Tick, IInv, TypeOK
  <2> QED
    BY <2>1, LaterType DEF Rows
<1>2. ASSUME NEW w \in Workers
      PROVE  /\ wk'[w] \in WorkerStates
             /\ wk'[w].pc = wk[w].pc
             /\ wk'[w].job = wk[w].job
             /\ wk'[w].retries = wk[w].retries
             /\ wk[w] = Idle => wk'[w] = Idle
  <2>1. /\ wk'[w] = [wk[w] EXCEPT !.lease = Later(wk[w].lease)]
        /\ wk[w] \in WorkerStates
    BY DEF Tick, IInv, TypeOK, WorkerStates
  <2>2. Later(wk[w].lease) \in {d \in Int : d >= -1}
    BY <2>1, LeaseLaterType DEF WorkerStates
  <2>3. ASSUME wk[w] = Idle PROVE wk'[w] = Idle
    <3>1. Later(Idle.lease) = -1
      BY DEF Later, Idle
    <3>2. wk'[w] = [Idle EXCEPT !.lease = -1]
      BY <2>1, <2>3, <3>1
    <3> QED
      BY <3>2 DEF Idle
  <2> QED
    BY <2>1, <2>2, <2>3 DEF WorkerStates
<1>3. ASSUME NEW m \in wire' PROVE m \in Statements /\ StatementOK(m)
  <2>1. PICK n \in wire : m = [n EXCEPT !.lock = Later(n.lock)]
    BY <1>3 DEF Tick
  <2>2. n \in Statements /\ StatementOK(n)
    BY DEF IInv, TypeOK
  <2>3. Later(n.lock) \in Deadlines /\ (Later(n.lock) = NULL <=> n.lock = NULL)
    BY <2>2, LaterType DEF Statements
  <2> QED
    BY <2>1, <2>2, <2>3 DEF Statements, StatementOK
<1>4. TypeOK'
  <2>1. row' \in [Jobs -> Rows]
    BY <1>1 DEF Tick
  <2>2. wk' \in [Workers -> WorkerStates]
    BY <1>2 DEF Tick
  <2> QED
    BY <1>3, <2>1, <2>2 DEF Tick, TypeOK, IInv
<1>5. \A j \in Jobs : RowOK(j)'
  BY <1>1 DEF IInv, RowOK, Finished
<1>6. \A w \in Workers : WorkerOK(w)'
  BY <1>2 DEF IInv, WorkerOK
<1> QED
  BY <1>3, <1>4, <1>5, <1>6 DEF IInv, StatementOK

(* Every step preserves the invariant.                                     *)
LEMMA NextIInv == IInv /\ [Next]_vars => IInv'
<1> SUFFICES ASSUME IInv, [Next]_vars PROVE IInv'
  OBVIOUS
<1> USE DEF IInv
<1>1. ASSUME NEW j \in Jobs, CreateJob(j) PROVE IInv'
  <2>1. NewRow \in Rows
    BY ConstantsOK DEF NewRow, Rows, Statuses, Deadlines
  <2>2. TypeOK'
    BY <1>1, <2>1 DEF CreateJob, TypeOK
  <2>3. \A i \in Jobs : RowOK(i)'
    BY <1>1, ConstantsOK DEF CreateJob, NewRow, RowOK, Finished, TypeOK
  <2> QED
    BY <1>1, <2>2, <2>3 DEF CreateJob, WorkerOK, StatementOK
<1>2. ASSUME NEW w \in Workers, ClaimNextJob(w) PROVE IInv'
  <2>1. PICK j \in Jobs :
          /\ NextJob(j)
          /\ row' = Claimed(j)
          /\ wk' = [wk EXCEPT ![w] = [pc |-> "executing", job |-> j,
                                      retries |-> row[j].retries, lease |-> Lease]]
    BY <1>2 DEF ClaimNextJob
  <2>2. /\ row' \in [Jobs -> Rows]
        /\ \A i \in Jobs : RowOK(i)'
        /\ row[j].retries < MaxRetries
    BY <2>1, ClaimedRow
  <2>3. wk' \in [Workers -> WorkerStates]
    <3>1. row[j].retries \in 0 .. MaxRetries /\ Lease \in {d \in Int : d >= -1}
      BY ConstantsOK DEF TypeOK, Rows
    <3>2. [pc |-> "executing", job |-> j, retries |-> row[j].retries,
           lease |-> Lease] \in WorkerStates
      BY <3>1 DEF WorkerStates
    <3> QED
      BY <2>1, <3>2 DEF TypeOK
  <2>4. \A v \in Workers : WorkerOK(v)'
    BY <2>1, <2>2 DEF WorkerOK, TypeOK
  <2> QED
    BY <1>2, <2>2, <2>3, <2>4 DEF ClaimNextJob, TypeOK, StatementOK
<1>3. ASSUME NEW w \in Workers, ClaimReplyLost(w) PROVE IInv'
  <2>1. PICK j \in Jobs : NextJob(j) /\ row' = Claimed(j)
    BY <1>3 DEF ClaimReplyLost
  <2>2. row' \in [Jobs -> Rows] /\ \A i \in Jobs : RowOK(i)'
    BY <2>1, ClaimedRow
  <2> QED
    BY <1>3, <2>2, ConstantsOK DEF ClaimReplyLost, TypeOK, WorkerOK, StatementOK
<1>4. ASSUME NEW w \in Workers, SendProgress(w) PROVE IInv'
  <2>1. /\ wk[w] \in WorkerStates
        /\ wk[w].pc = "executing" /\ wk[w].job \in Jobs /\ wk[w].retries < MaxRetries
    BY <1>4 DEF SendProgress, WorkerOK, TypeOK
  <2>2. LET m == Statement(w, "running", wk[w].retries, Lease)
        IN m \in Statements /\ StatementOK(m)
    BY <2>1, LeaseIsDeadline, ConstantsOK
       DEF Statement, Statements, StatementOK, WorkerStates, Statuses
  <2> QED
    BY <1>4, <2>2 DEF SendProgress, TypeOK, WorkerOK, RowOK, Finished, StatementOK
<1>5. ASSUME NEW w \in Workers, FinishSuccess(w) \/ FinishFailure(w) PROVE IInv'
  <2>1. /\ wk[w] \in WorkerStates
        /\ wk[w].pc = "executing" /\ wk[w].job \in Jobs /\ wk[w].retries < MaxRetries
    BY <1>5 DEF FinishSuccess, FinishFailure, Finish, WorkerOK, TypeOK
  <2>2. SuccessUpdate(w) \in Statements /\ FailureUpdate(w) \in Statements
    BY <2>1, FinalStatements
  <2>3. CASE FinishSuccess(w)
    <3>1. SuccessUpdate(w).from = w /\ StatementOK(SuccessUpdate(w))
      BY <2>1 DEF SuccessUpdate, Statement, StatementOK
    <3> QED
      BY <2>2, <2>3, <3>1, FinishIInv DEF FinishSuccess
  <2>4. CASE FinishFailure(w)
    <3>1. wk[w].retries + 1 \in 1 .. MaxRetries
      BY <2>1, ConstantsOK DEF WorkerStates
    <3>2. Backoff(wk[w].retries + 1) # NULL
      BY <3>1, BackoffIsDeadline
    <3>3. FailureUpdate(w).from = w /\ StatementOK(FailureUpdate(w))
      BY <3>1, <3>2, ConstantsOK DEF FailureUpdate, Statement, StatementOK
    <3> QED
      BY <2>2, <2>4, <3>3, FinishIInv DEF FinishFailure
  <2> QED
    BY <1>5, <2>3, <2>4
<1>6. ASSUME NEW w \in Workers, Return(w) PROVE IInv'
  <2>1. Idle \in WorkerStates
    BY ConstantsOK DEF Idle, WorkerStates
  <2> QED
    BY <1>6, <2>1 DEF Return, TypeOK, WorkerOK, Idle, RowOK, Finished, StatementOK
<1>7. ASSUME NEW w \in Workers, Crash(w) PROVE IInv'
  <2>1. Idle \in WorkerStates
    BY ConstantsOK DEF Idle, WorkerStates
  <2>2. wire' \in SUBSET Statements
    BY <1>7, WireTypes DEF Crash, TypeOK
  <2>3. ASSUME NEW m \in wire' PROVE StatementOK(m)
    BY <1>7, <2>3, WireTypes DEF Crash, TypeOK, StatementOK
  <2> QED
    BY <1>7, <2>1, <2>2, <2>3, ConstantsOK
       DEF Crash, TypeOK, WorkerOK, Idle, RowOK, Finished, StatementOK
<1>8. ASSUME NEW m \in wire, ExecuteUpdate(m) PROVE IInv'
  <2>0. collisions' \in 0 .. MaxCollisions
    BY <1>8, ConstantsOK DEF ExecuteUpdate, MayMatch, Collides, TypeOK
  <2>1. m \in Statements /\ StatementOK(m)
    BY DEF TypeOK
  <2>2. CASE row' = row
    BY <1>8, <2>0, <2>2 DEF ExecuteUpdate, TypeOK, WorkerOK, RowOK, Finished, StatementOK
  <2>3. CASE row' = [row EXCEPT ![m.job] = [status |-> m.status, retries |-> m.retries,
                                            lock |-> m.lock]]
    <3>1. [status |-> m.status, retries |-> m.retries, lock |-> m.lock] \in Rows
      BY <2>1 DEF Statements, Rows
    <3>2. \A j \in Jobs : RowOK(j)'
      BY <2>1, <2>3 DEF StatementOK, Statements, RowOK, Finished, TypeOK, Statuses
    <3> QED
      BY <1>8, <2>0, <2>1, <2>3, <3>1, <3>2 DEF ExecuteUpdate, TypeOK, Statements, WorkerOK, StatementOK
  <2> QED
    BY <1>8, <2>2, <2>3 DEF ExecuteUpdate
<1>9. ASSUME NEW m \in wire, LoseUpdate(m) PROVE IInv'
  BY <1>9, ConstantsOK DEF LoseUpdate, TypeOK, WorkerOK, RowOK, Finished, StatementOK
<1>10. ASSUME Tick PROVE IInv'
  BY <1>10, TickIInv
<1>11. CASE UNCHANGED vars
  BY <1>11 DEF vars, TypeOK, WorkerOK, RowOK, Finished, StatementOK
<1> QED
  BY <1>1, <1>2, <1>3, <1>4, <1>5, <1>6, <1>7, <1>8, <1>9, <1>10, <1>11 DEF Next, WorkerStep

-----------------------------------------------------------------------------
(* The theorems.                                                           *)

(* The inductive invariant holds in every reachable state.                 *)
THEOREM Invariance == Spec => []IInv
<1>1. Init => IInv
  BY InitIInv
<1>2. IInv /\ [Next]_vars => IInv'
  BY NextIInv
<1> QED
  BY <1>1, <1>2, PTL DEF Spec

(* Rows, workers and statements in flight keep their types: in particular  *)
(* no stale copy of a job takes its retries beyond max_retries.            *)
THEOREM TypeCorrect == Spec => []TypeOK
<1>1. IInv => TypeOK
  BY DEF IInv
<1> QED
  BY <1>1, Invariance, PTL

(* Whatever stale copies the workers carry and in whatever order their     *)
(* updates arrive, nobody works on a job whose retries are used up, and a  *)
(* failed job has used them up.                                            *)
THEOREM RetriesAreRespected == Spec => []RetriesRespected
<1>1. IInv => RetriesRespected
  BY DEF IInv, WorkerOK, RowOK, RetriesRespected
<1> QED
  BY <1>1, Invariance, PTL

(* A closed row has no deadline, so it matches no statement that has one,  *)
(* and every statement that would reopen it has one.                       *)
LEMMA FinishedStays ==
    ASSUME IInv, [Next]_vars, NEW j \in Jobs, Finished(j)
    PROVE Finished(j)'
<1>1. row[j] \in Rows /\ row[j].lock = NULL /\ row[j].status # "absent"
  BY DEF IInv, TypeOK, RowOK, Finished
<1>2. ASSUME NEW i \in Jobs, CreateJob(i) PROVE Finished(j)'
  BY <1>1, <1>2 DEF CreateJob, NoRow, Finished, IInv, TypeOK
<1>3. ASSUME NEW i \in Jobs, NextJob(i), row' = Claimed(i) PROVE Finished(j)'
  <2>1. ~Finished(i)
    BY <1>3, ClaimedRow
  <2> QED
    BY <1>3, <2>1 DEF Claimed, Finished, IInv, TypeOK
<1>4. ASSUME NEW m \in wire, ExecuteUpdate(m) PROVE Finished(j)'
  <2>1. m \in Statements /\ StatementOK(m)
    BY DEF IInv, TypeOK
  <2>2. CASE m.job = j /\ MayMatch(m)
    <3>1. m.lock = NULL
      BY <1>1, <2>2 DEF MayMatch, Collides
    <3>2. m.status \in {"completed", "failed"}
      BY <2>1, <3>1 DEF StatementOK
    <3> QED
      BY <1>4, <2>2, <3>2 DEF ExecuteUpdate, Finished, IInv, TypeOK
  <2>3. CASE ~(m.job = j /\ MayMatch(m))
    BY <1>4, <2>1, <2>3 DEF ExecuteUpdate, Finished, IInv, TypeOK, Statements
  <2> QED
    BY <2>2, <2>3
<1>5. CASE Tick
  BY <1>1, <1>5 DEF Tick, Finished, Rows
<1>6. CASE row' = row
  BY <1>6 DEF Finished
<1> QED
  BY <1>2, <1>3, <1>4, <1>5, <1>6
     DEF Next, WorkerStep, vars, ClaimNextJob, ClaimReplyLost, SendProgress,
         FinishSuccess, FinishFailure, Finish, Return, Crash, LoseUpdate

(* A closed job is never claimed again nor brought back by a late update,  *)
(* even when deadlines collide.                                            *)
THEOREM FinishedForever == Spec => FinishedIsFinal
<1>1. IInv /\ [Next]_vars => [\A j \in Jobs : Finished(j) => Finished(j)']_vars
  BY FinishedStays
<1> QED
  BY <1>1, Invariance, PTL DEF Spec, FinishedIsFinal

(* A stream that has ended told its client the truth and goes on doing so: *)
(* whatever claims and updates come after its last event, the job stays    *)
(* closed.                                                                 *)
THEOREM EndedStreamIsRight == StreamSpec => []EndedIsOver
<1>1. StreamInit => IInv /\ EndedIsOver
  BY InitIInv DEF StreamInit, EndedIsOver, Ended
<1>2. IInv /\ EndedIsOver /\ [StreamNext]_<<vars, stream>> => IInv' /\ EndedIsOver'
  <2> SUFFICES ASSUME IInv, EndedIsOver, [StreamNext]_<<vars, stream>>
               PROVE IInv' /\ EndedIsOver'
    OBVIOUS
  <2>1. CASE [Next]_vars /\ UNCHANGED stream
    BY <2>1, OldestOK, NextIInv, FinishedStays DEF EndedIsOver, Ended
  <2>2. CASE Open \/ Poll
    <3>1. UNCHANGED vars /\ IInv'
      BY <2>2, NextIInv DEF Open, Poll
    <3> QED
      BY <2>2, <3>1 DEF Open, Poll, EndedIsOver, Ended, Terminal, Finished, vars
  <2>3. CASE Disconnect
    <3>0. faults \in 0 .. MaxFaults
      BY DEF IInv, TypeOK
    <3>1. /\ row' = row /\ wk' = wk /\ wire' = wire /\ collisions' = collisions
          /\ faults' \in 0 .. MaxFaults
      BY <2>3, <3>0, ConstantsOK DEF Disconnect
    <3>2. IInv'
      BY <3>1 DEF IInv, TypeOK, StatementOK, RowOK, WorkerOK, Finished
    <3> QED
      BY <2>3, <3>2 DEF Disconnect, EndedIsOver, Ended, Finished
  <2> QED
    BY <2>1, <2>2, <2>3 DEF StreamNext, StreamStep, vars
<1> QED
  BY <1>1, <1>2, PTL DEF StreamSpec

-----------------------------------------------------------------------------
(* A job that was never claimed is on no worker's hands and in no          *)
(* statement.                                                              *)
Untouched(j) ==
    \/ row[j].status = "absent"
    \/ row[j].status = "pending" /\ row[j].lock = NULL

Alone(j) == /\ \A w \in Workers : wk[w].job # j
            /\ \A m \in wire : m.job # j

UntouchedAlone == \A j \in Jobs : Untouched(j) => Alone(j)

LEMMA UntouchedInvariant == Spec => []UntouchedAlone
<1>1. Init => UntouchedAlone
  BY DEF Init, UntouchedAlone, Alone, Idle, Jobs
<1>2. IInv /\ UntouchedAlone /\ [Next]_vars => UntouchedAlone'
  <2> SUFFICES ASSUME IInv, UntouchedAlone, [Next]_vars, NEW j \in Jobs, Untouched(j)'
               PROVE  Alone(j)'
    BY DEF UntouchedAlone
  <2> USE DEF IInv, TypeOK, Alone
  <2>1. ASSUME row'[j] = row[j] PROVE Alone(j)
    BY <2>1 DEF Untouched, UntouchedAlone
  <2>2. ASSUME NEW i \in Jobs, CreateJob(i) PROVE Alone(j)'
    <3>1. CASE i = j
      BY <2>2, <3>1 DEF CreateJob, NoRow, Untouched, UntouchedAlone
    <3>2. CASE i # j
      BY <2>1, <2>2, <3>2 DEF CreateJob
    <3> QED
      BY <3>1, <3>2
  <2>3. ASSUME NEW i \in Jobs, row' = Claimed(i) PROVE i # j /\ Alone(j)
    <3>1. i # j
      BY <2>3, LeaseIsDeadline DEF Claimed, Untouched, Rows
    <3>2. row'[j] = row[j]
      BY <2>3, <3>1 DEF Claimed
    <3> QED
      BY <2>1, <3>1, <3>2
  <2>4. ASSUME NEW w \in Workers, ClaimNextJob(w) PROVE Alone(j)'
    BY <2>3, <2>4 DEF ClaimNextJob
  <2>5. ASSUME NEW w \in Workers, ClaimReplyLost(w) PROVE Alone(j)'
    BY <2>3, <2>5 DEF ClaimReplyLost
  <2>6. ASSUME NEW w \in Workers, SendProgress(w) PROVE Alone(j)'
    BY <2>1, <2>6 DEF SendProgress, Statement, WorkerStates
  <2>7. ASSUME NEW w \in Workers, NEW final, final.job = wk[w].job, Finish(w, final)
        PROVE  Alone(j)'
    <3>1. Alone(j)
      BY <2>1, <2>7 DEF Finish
    <3>2. \A v \in Workers : wk'[v].job = wk[v].job
      BY <2>7 DEF Finish, WorkerStates
    <3>3. \A m \in wire' : m = final \/ \E n \in wire : m.job = n.job
      BY <2>7, WireTypes DEF Finish
    <3> QED
      BY <2>7, <3>1, <3>2, <3>3
  <2>8. ASSUME NEW w \in Workers, FinishSuccess(w) \/ FinishFailure(w) PROVE Alone(j)'
    BY <2>7, <2>8 DEF FinishSuccess, FinishFailure, SuccessUpdate, FailureUpdate, Statement
  <2>9. ASSUME NEW w \in Workers, Return(w) PROVE Alone(j)'
    BY <2>1, <2>9 DEF Return, Idle, Jobs
  <2>10. ASSUME NEW w \in Workers, Crash(w) PROVE Alone(j)'
    <3>1. Alone(j)
      BY <2>1, <2>10 DEF Crash
    <3>2. \A m \in wire' : \E n \in wire : m.job = n.job
      BY <2>10, WireTypes DEF Crash
    <3> QED
      BY <2>10, <3>1, <3>2 DEF Crash, Idle, Jobs
  <2>11. ASSUME NEW m \in wire, ExecuteUpdate(m) PROVE Alone(j)'
    <3>1. m \in Statements /\ StatementOK(m)
      OBVIOUS
    <3>2. CASE row'[j] = row[j]
      BY <2>1, <2>11, <3>2 DEF ExecuteUpdate
    <3>3. CASE row'[j] # row[j]
      <4>1. /\ m.job = j
            /\ row'[j] = [status |-> m.status, retries |-> m.retries, lock |-> m.lock]
        BY <2>11, <3>1, <3>3 DEF ExecuteUpdate, Statements
      <4> QED
        BY <3>1, <4>1 DEF Untouched, StatementOK, Statements, Statuses
    <3> QED
      BY <3>2, <3>3
  <2>12. ASSUME NEW m \in wire, LoseUpdate(m) PROVE Alone(j)'
    BY <2>1, <2>12 DEF LoseUpdate
  <2>13. CASE Tick
    <3>1. Untouched(j)
      BY <2>13, LaterType DEF Tick, Untouched, Rows
    <3>2. \A v \in Workers : wk'[v].job = wk[v].job
      BY <2>13 DEF Tick, WorkerStates
    <3>3. \A m \in wire' : \E n \in wire : m.job = n.job
      BY <2>13 DEF Tick, Statements
    <3> QED
      BY <3>1, <3>2, <3>3 DEF UntouchedAlone
  <2>14. CASE UNCHANGED vars
    BY <2>1, <2>14 DEF vars
  <2> QED
    BY <2>2, <2>4, <2>5, <2>6, <2>8, <2>9, <2>10, <2>11, <2>12, <2>13, <2>14
       DEF Next, WorkerStep
<1> QED
  BY <1>1, <1>2, Invariance, PTL DEF Spec

-----------------------------------------------------------------------------
(* The lease.  Before any two deadlines collide, an update with a deadline *)
(* changes nothing, so a pending row was never claimed, and the row of an  *)
(* unfinished job shows the deadline its only live lease was granted.      *)
NeverRetried == \A j \in Jobs : row[j].status = "pending" => row[j].lock = NULL

Holds(w) ==
    wk[w].pc = "executing" /\ wk[w].lease # -1
    => \/ Finished(wk[w].job)
       \/ /\ row[wk[w].job].status = "running"
          /\ row[wk[w].job].lock = wk[w].lease

LInv == /\ IInv
        /\ UntouchedAlone
        /\ NeverRetried
        /\ \A w \in Workers : Holds(w)
        /\ LeaseExclusive

(* A job that can be claimed is under nobody's live lease.                 *)
LEMMA ClaimableIsFree ==
    ASSUME LInv, NEW j \in Jobs, NextJob(j), NEW w \in Workers,
           wk[w].pc = "executing", wk[w].job = j
    PROVE  wk[w].lease = -1
<1>1. ~Untouched(j)
  BY DEF LInv, UntouchedAlone, Alone
<1>2. row[j].status = "running" /\ Passed(row[j].lock)
  BY <1>1 DEF LInv, NeverRetried, Untouched, NextJob, Claimable, IInv, RowOK, Finished, Passed
<1>3. row[j].lock \in Deadlines
  BY DEF LInv, IInv, TypeOK, Rows
<1>4. row[j].lock = -1
  BY <1>2, <1>3 DEF Passed, Deadlines
<1> QED
  BY <1>2, <1>4 DEF LInv, Holds, Finished

LEMMA LeaseStep ==
    ASSUME LInv, collisions = 0, [Next]_vars, collisions' = 0, IInv', UntouchedAlone'
    PROVE  LInv'
<1> USE DEF LInv, IInv, TypeOK
<1> DEFINE Rest == NeverRetried /\ (\A w \in Workers : Holds(w)) /\ LeaseExclusive
<1>1. ASSUME NEW j \in Jobs, CreateJob(j) PROVE Rest'
  <2>1. Alone(j)
    BY <1>1 DEF CreateJob, NoRow, Untouched, UntouchedAlone
  <2>2. NeverRetried'
    BY <1>1 DEF CreateJob, NewRow, NeverRetried
  <2>3. \A w \in Workers : Holds(w)'
    BY <1>1, <2>1 DEF CreateJob, Alone, Holds, Finished, WorkerOK
  <2> QED
    BY <1>1, <2>2, <2>3 DEF CreateJob, LeaseExclusive
<1>2. ASSUME NEW j \in Jobs, NextJob(j), row' = Claimed(j)
      PROVE  /\ NeverRetried'
             /\ row'[j].status = "running" /\ row'[j].lock = Lease
             /\ \A w \in Workers :
                  wk'[w] = wk[w] => Holds(w)'
  <2>1. row'[j].status = "running" /\ row'[j].lock = Lease
    BY <1>2 DEF Claimed, Rows
  <2>2. \A i \in Jobs : i # j => row'[i] = row[i]
    BY <1>2 DEF Claimed
  <2>3. NeverRetried'
    BY <2>1, <2>2 DEF NeverRetried
  <2>4. ASSUME NEW w \in Workers, wk'[w] = wk[w] PROVE Holds(w)'
    <3>1. CASE wk[w].job = j
      BY <1>2, <2>4, <3>1, ClaimableIsFree DEF Holds
    <3>2. CASE wk[w].job # j
      BY <2>2, <2>4, <3>2 DEF Holds, Finished, WorkerOK
    <3> QED
      BY <3>1, <3>2
  <2> QED
    BY <2>1, <2>3, <2>4
<1>3. ASSUME NEW w \in Workers, ClaimNextJob(w) PROVE Rest'
  <2>1. PICK j \in Jobs :
          /\ NextJob(j)
          /\ row' = Claimed(j)
          /\ wk' = [wk EXCEPT ![w] = [pc |-> "executing", job |-> j,
                                      retries |-> row[j].retries, lease |-> Lease]]
    BY <1>3 DEF ClaimNextJob
  <2>2. NeverRetried' /\ \A v \in Workers : Holds(v)'
    <3>1. Holds(w)'
      BY <1>2, <2>1 DEF Holds
    <3> QED
      BY <1>2, <2>1, <3>1
  <2>3. \A v \in Workers \ {w} : wk'[v] = wk[v]
    BY <2>1
  <2>4. \A v \in Workers \ {w} : wk[v].pc = "executing" /\ wk[v].job = j => wk[v].lease = -1
    BY <2>1, ClaimableIsFree
  <2>5. wk'[w].job = j
    BY <2>1
  <2> QED
    BY <2>2, <2>3, <2>4, <2>5 DEF LeaseExclusive
<1>4. ASSUME NEW w \in Workers, ClaimReplyLost(w) PROVE Rest'
  BY <1>2, <1>4 DEF ClaimReplyLost, LeaseExclusive
<1>5. ASSUME NEW w \in Workers, SendProgress(w) PROVE Rest'
  <2>1. /\ row' = row
        /\ \A v \in Workers : /\ wk'[v].pc = wk[v].pc
                              /\ wk'[v].job = wk[v].job
                              /\ wk'[v].lease = wk[v].lease
    BY <1>5 DEF SendProgress, WorkerStates
  <2> QED
    BY <2>1 DEF NeverRetried, Holds, Finished, LeaseExclusive
<1>6. ASSUME NEW w \in Workers, NEW final, Finish(w, final) PROVE Rest'
  <2>1. /\ row' = row
        /\ wk'[w].pc = "finishing"
        /\ \A v \in Workers \ {w} : wk'[v] = wk[v]
    BY <1>6 DEF Finish, WorkerStates
  <2> QED
    BY <2>1 DEF NeverRetried, Holds, Finished, LeaseExclusive
<1>7. ASSUME NEW w \in Workers, row' = row, wk' = [wk EXCEPT ![w] = Idle] PROVE Rest'
  <2>1. wk'[w].pc = "idle" /\ \A v \in Workers \ {w} : wk'[v] = wk[v]
    BY <1>7 DEF Idle
  <2> QED
    BY <1>7, <2>1 DEF NeverRetried, Holds, Finished, LeaseExclusive
<1>8. ASSUME NEW m \in wire, ExecuteUpdate(m) PROVE Rest'
  <2>1. m \in Statements /\ StatementOK(m)
    OBVIOUS
  <2>2. CASE row' = row
    BY <1>8, <2>2 DEF ExecuteUpdate, NeverRetried, Holds, Finished, LeaseExclusive
  <2>3. CASE row' # row
    <3>1. m.status \in {"completed", "failed"}
      BY <1>8, <2>1, <2>3 DEF ExecuteUpdate, MayMatch, Collides, StatementOK
    <3>2. /\ row'[m.job].status = m.status
          /\ \A i \in Jobs \ {m.job} : row'[i] = row[i]
      BY <1>8, <2>1, <2>3 DEF ExecuteUpdate, Statements
    <3>3. NeverRetried'
      BY <3>1, <3>2 DEF NeverRetried
    <3>4. \A w \in Workers : Holds(w)'
      BY <1>8, <3>1, <3>2 DEF ExecuteUpdate, Holds, Finished, WorkerOK
    <3> QED
      BY <1>8, <3>3, <3>4 DEF ExecuteUpdate, LeaseExclusive
  <2> QED
    BY <2>2, <2>3
<1>9. ASSUME Tick PROVE Rest'
  <2>1. ASSUME NEW j \in Jobs
        PROVE row'[j].status = row[j].status /\ row'[j].lock = Later(row[j].lock)
    BY <1>9 DEF Tick, Rows
  <2>2. ASSUME NEW w \in Workers
        PROVE  /\ wk'[w].pc = wk[w].pc
               /\ wk'[w].job = wk[w].job
               /\ wk'[w].lease = Later(wk[w].lease)
               /\ wk[w].lease = -1 => wk'[w].lease = -1
    <3>1. /\ wk'[w].pc = wk[w].pc
          /\ wk'[w].job = wk[w].job
          /\ wk'[w].lease = Later(wk[w].lease)
      BY <1>9 DEF Tick, WorkerStates
    <3> QED
      BY <3>1 DEF Later
  <2>3. NeverRetried'
    BY <2>1, NullOK DEF NeverRetried, Later
  <2>4. \A w \in Workers : Holds(w)'
    BY <2>1, <2>2 DEF Holds, Finished, WorkerOK
  <2> QED
    BY <2>2, <2>3, <2>4 DEF LeaseExclusive
<1>10. ASSUME row' = row, wk' = wk PROVE Rest'
  BY <1>10 DEF NeverRetried, Holds, Finished, LeaseExclusive
<1>11. Rest'
  BY <1>1, <1>3, <1>4, <1>5, <1>6, <1>7, <1>8, <1>9, <1>10
     DEF Next, WorkerStep, vars, FinishSuccess, FinishFailure, Return, Crash, LoseUpdate
<1> QED
  BY <1>11

(* A collision is never forgotten.                                         *)
LEMMA CollisionsStay ==
    ASSUME IInv, [Next]_vars, collisions' = 0
    PROVE  collisions = 0
<1>1. collisions \in Nat
  BY ConstantsOK DEF IInv, TypeOK
<1>2. collisions' = collisions \/ collisions' = collisions + 1
  BY DEF Next, WorkerStep, vars, CreateJob, ClaimNextJob, ClaimReplyLost, SendProgress,
         FinishSuccess, FinishFailure, Finish, Return, Crash, ExecuteUpdate, LoseUpdate, Tick
<1> QED
  BY <1>1, <1>2

(* As long as no two deadlines have collided, two workers execute the same *)
(* job only if one of them has outlived its lease.                         *)
THEOREM LeaseIsExclusive == Spec => []LeaseExclusive
<1> DEFINE I == collisions = 0 => LInv
<1>1. Init /\ IInv /\ UntouchedAlone => I
  BY DEF Init, LInv, NeverRetried, NoRow, Holds, Idle, LeaseExclusive
<1>2. I /\ IInv /\ [Next]_vars /\ IInv' /\ UntouchedAlone' => I'
  BY CollisionsStay, LeaseStep
<1>3. I => LeaseExclusive
  BY DEF LInv, LeaseExclusive
<1> HIDE DEF I
<1> QED
  BY <1>1, <1>2, <1>3, Invariance, UntouchedInvariant, PTL DEF Spec

-----------------------------------------------------------------------------
(* The queue implements the life of a job that clients are promised.       *)

LEMMA PhaseCases ==
    ASSUME IInv, NEW j \in Jobs
    PROVE  /\ row[j].status = "absent" => Phase(j) = "absent"
           /\ row[j].status = "pending" /\ row[j].lock = NULL => Phase(j) = "waiting"
           /\ row[j].status = "pending" /\ row[j].lock # NULL => Phase(j) = "started"
           /\ row[j].status = "running" => Phase(j) = "started"
           /\ Finished(j) => Phase(j) = "closed"
           /\ row[j].status \in Statuses \cup {"absent"}
BY DEF Phase, Finished, IInv, TypeOK, Rows

(* A step that keeps every row's phase and every worker's job is a stutter *)
(* of JobLifecycle.                                                        *)
LEMMA Stutter ==
    ASSUME \A j \in Jobs : Phase(j)' = Phase(j),
           \A w \in Workers : wk'[w].job = wk[w].job
    PROVE  UNCHANGED Lifecycle!vars
BY DEF Lifecycle!vars

LEMMA LifecycleStep ==
    ASSUME IInv, IInv', UntouchedAlone, [Next]_vars
    PROVE  [Lifecycle!Next]_(Lifecycle!vars)
<1> DEFINE phase == [j \in Jobs |-> Phase(j)]
           runs == [w \in Workers |-> wk[w].job]
<1>1. ASSUME row' = row PROVE \A j \in Jobs : Phase(j)' = Phase(j)
  BY <1>1 DEF Phase, Finished
<1>2. ASSUME NEW j \in Jobs, CreateJob(j) PROVE Lifecycle!Submit(j)
  <2>1. /\ row[j].status = "absent"
        /\ row'[j].status = "pending" /\ row'[j].lock = NULL
        /\ \A i \in Jobs \ {j} : row'[i] = row[i]
    BY <1>2 DEF CreateJob, NoRow, NewRow, IInv, TypeOK
  <2>2. Phase(j) = "absent" /\ Phase(j)' = "waiting"
    BY <2>1, PhaseCases DEF Phase, Finished
  <2>3. \A i \in Jobs \ {j} : Phase(i)' = Phase(i)
    BY <2>1 DEF Phase, Finished
  <2>4. phase' = [phase EXCEPT ![j] = "waiting"] /\ runs' = runs
    BY <1>2, <2>2, <2>3 DEF CreateJob
  <2> QED
    BY <2>2, <2>4 DEF Lifecycle!Submit
<1>3. ASSUME NEW j \in Jobs, NextJob(j), row' = Claimed(j)
      PROVE  phase[j] \in {"waiting", "started"} /\ phase' = [phase EXCEPT ![j] = "started"]
  <2>1. row'[j].status = "running" /\ \A i \in Jobs \ {j} : row'[i] = row[i]
    BY <1>3 DEF Claimed, IInv, TypeOK, Rows
  <2>2. Phase(j)' = "started" /\ \A i \in Jobs \ {j} : Phase(i)' = Phase(i)
    BY <2>1 DEF Phase, Finished
  <2>3. ~Finished(j) /\ row[j].status # "absent"
    BY <1>3, ClaimedRow DEF NextJob, Claimable
  <2>4. Phase(j) \in {"waiting", "started"}
    BY <2>3, PhaseCases DEF Finished, Statuses
  <2> QED
    BY <2>2, <2>4
<1>4. ASSUME NEW w \in Workers, ClaimNextJob(w) PROVE \E j \in Jobs : Lifecycle!Start(w, j)
  <2>1. PICK j \in Jobs :
          /\ NextJob(j)
          /\ row' = Claimed(j)
          /\ wk' = [wk EXCEPT ![w] = [pc |-> "executing", job |-> j,
                                      retries |-> row[j].retries, lease |-> Lease]]
    BY <1>4 DEF ClaimNextJob
  <2>2. wk[w].job = 0
    BY <1>4 DEF ClaimNextJob, IInv, WorkerOK, Idle
  <2>3. runs' = [runs EXCEPT ![w] = j]
    BY <2>1 DEF IInv, TypeOK
  <2> QED
    BY <1>3, <2>1, <2>2, <2>3 DEF Lifecycle!Start
<1>5. ASSUME NEW w \in Workers, ClaimReplyLost(w) PROVE \E j \in Jobs : Lifecycle!Misstart(j)
  BY <1>3, <1>5 DEF ClaimReplyLost, Lifecycle!Misstart
<1>6. ASSUME NEW w \in Workers, SendProgress(w) PROVE UNCHANGED Lifecycle!vars
  <2>1. \A v \in Workers : wk'[v].job = wk[v].job
    BY <1>6 DEF SendProgress, IInv, TypeOK, WorkerStates
  <2> QED
    BY <1>1, <1>6, <2>1, Stutter DEF SendProgress
<1>7. ASSUME NEW w \in Workers, NEW final, Finish(w, final) PROVE UNCHANGED Lifecycle!vars
  <2>1. \A v \in Workers : wk'[v].job = wk[v].job
    BY <1>7 DEF Finish, IInv, TypeOK, WorkerStates
  <2> QED
    BY <1>1, <1>7, <2>1, Stutter DEF Finish
<1>8. ASSUME NEW w \in Workers, wk[w].pc # "idle", row' = row, wk' = [wk EXCEPT ![w] = Idle]
      PROVE  Lifecycle!Stop(w)
  <2>1. wk[w].job # 0
    BY <1>8 DEF IInv, WorkerOK, Jobs
  <2>2. phase' = phase /\ runs' = [runs EXCEPT ![w] = 0]
    BY <1>1, <1>8 DEF Idle, IInv, TypeOK
  <2> QED
    BY <2>1, <2>2 DEF Lifecycle!Stop
<1>9. ASSUME NEW m \in wire, ExecuteUpdate(m)
      PROVE  UNCHANGED Lifecycle!vars \/ \E j \in Jobs : Lifecycle!Close(j)
  <2>1. m \in Statements /\ StatementOK(m)
    BY DEF IInv, TypeOK
  <2>2. CASE row' = row
    BY <1>1, <1>9, <2>2, Stutter DEF ExecuteUpdate
  <2>3. CASE row' # row
    <3> DEFINE j == m.job
    <3>1. /\ MayMatch(m)
          /\ row' = [row EXCEPT ![j] = [status |-> m.status, retries |-> m.retries,
                                        lock |-> m.lock]]
      BY <1>9, <2>3 DEF ExecuteUpdate
    <3>2. j \in Jobs /\ row[j] \in Rows
      BY <2>1 DEF Statements, IInv, TypeOK
    <3>3. /\ row'[j].status = m.status /\ row'[j].lock = m.lock
          /\ \A i \in Jobs \ {j} : row'[i] = row[i]
      BY <3>1, <3>2 DEF IInv, TypeOK
    <3>4. \A i \in Jobs \ {j} : Phase(i)' = Phase(i)
      BY <3>3 DEF Phase, Finished
    <3>5. row[j].status # "absent" /\ ~(row[j].status = "pending" /\ row[j].lock = NULL)
      BY <3>2 DEF UntouchedAlone, Alone, Untouched
    <3>6. Phase(j) = IF Finished(j) THEN "closed" ELSE "started"
      BY <3>2, <3>5, PhaseCases DEF Finished, Statuses
    <3>7. CASE m.lock = NULL
      <4>1. m.status \in {"completed", "failed"}
        BY <2>1, <3>7 DEF StatementOK
      <4>2. Phase(j)' = "closed"
        BY <3>3, <4>1 DEF Phase, Finished
      <4>3. CASE Finished(j)
        <5>1. \A i \in Jobs : Phase(i)' = Phase(i)
          BY <3>4, <3>6, <4>2, <4>3
        <5> QED
          BY <1>9, <5>1, Stutter DEF ExecuteUpdate
      <4>4. CASE ~Finished(j)
        <5>1. phase[j] = "started" /\ phase' = [phase EXCEPT ![j] = "closed"] /\ runs' = runs
          BY <1>9, <3>2, <3>4, <3>6, <4>2, <4>4 DEF ExecuteUpdate
        <5> QED
          BY <3>2, <5>1 DEF Lifecycle!Close
      <4> QED
        BY <4>3, <4>4
    <3>8. CASE m.lock # NULL
      <4>1. row[j].lock # NULL /\ m.status \in {"pending", "running"}
        BY <2>1, <3>1, <3>8 DEF MayMatch, Collides, StatementOK, Statements, Statuses
      <4>2. ~Finished(j)
        BY <3>2, <4>1 DEF IInv, RowOK
      <4>3. Phase(j)' = "started"
        BY <3>3, <3>8, <4>1 DEF Phase, Finished
      <4>4. \A i \in Jobs : Phase(i)' = Phase(i)
        BY <3>4, <3>6, <4>2, <4>3
      <4> QED
        BY <1>9, <4>4, Stutter DEF ExecuteUpdate
    <3> QED
      BY <3>7, <3>8
  <2> QED
    BY <2>2, <2>3
<1>10. ASSUME Tick PROVE UNCHANGED Lifecycle!vars
  <2>1. ASSUME NEW j \in Jobs PROVE Phase(j)' = Phase(j)
    <3>1. /\ row'[j].status = row[j].status
          /\ row'[j].lock = NULL <=> row[j].lock = NULL
      BY <1>10, LaterType DEF Tick, IInv, TypeOK, Rows
    <3> QED
      BY <3>1 DEF Phase, Finished
  <2>2. \A v \in Workers : wk'[v].job = wk[v].job
    BY <1>10 DEF Tick, IInv, TypeOK, WorkerStates
  <2> QED
    BY <2>1, <2>2, Stutter
<1>11. ASSUME row' = row, wk' = wk PROVE UNCHANGED Lifecycle!vars
  BY <1>1, <1>11, Stutter
<1> QED
  BY <1>2, <1>4, <1>5, <1>6, <1>7, <1>8, <1>9, <1>10, <1>11
     DEF Next, WorkerStep, vars, FinishSuccess, FinishFailure, Return, Crash, LoseUpdate,
         Lifecycle!Next

(* Clients see a life of their job as JobLifecycle describes it: closed    *)
(* only after it was started, and then for ever.                           *)
THEOREM Refinement == Spec => ImplementsLifecycle
<1>1. Init => Lifecycle!Init
  BY DEF Init, NoRow, Idle, Phase, Finished, Lifecycle!Init
<1>2. IInv /\ IInv' /\ UntouchedAlone /\ [Next]_vars => [Lifecycle!Next]_(Lifecycle!vars)
  BY LifecycleStep
<1> QED
  BY <1>1, <1>2, Invariance, UntouchedInvariant, PTL
     DEF Spec, ImplementsLifecycle, Lifecycle!Spec
=============================================================================
