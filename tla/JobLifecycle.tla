---------------------------- MODULE JobLifecycle ----------------------------
(***************************************************************************)
(* What the ingestion job queue promises the client that POSTs a job and   *)
(* then follows its progress: a job waits, is started, possibly several    *)
(* times and by several workers ("at least once"), and is closed by an     *)
(* execution that ended.  A closed job is never started again and never    *)
(* reopened, and no job is closed that was not started.                    *)
(*                                                                         *)
(* JobQueue implements this specification.                                 *)
(***************************************************************************)
CONSTANTS Jobs, Workers, NoJob

VARIABLES phase,    \* phase[j]: where job j is in its life
          runs      \* runs[w]: the job worker w is executing, or NoJob

vars == <<phase, runs>>

Phases == {"absent", "waiting", "started", "closed"}

TypeOK == /\ phase \in [Jobs -> Phases]
          /\ runs \in [Workers -> Jobs \cup {NoJob}]

Init == /\ phase = [j \in Jobs |-> "absent"]
        /\ runs = [w \in Workers |-> NoJob]

(* A client enqueues the job.                                              *)
Submit(j) == /\ phase[j] = "absent"
             /\ phase' = [phase EXCEPT ![j] = "waiting"]
             /\ UNCHANGED runs

(* A free worker takes a job that is not closed, started before or not.    *)
Start(w, j) == /\ runs[w] = NoJob
               /\ phase[j] \in {"waiting", "started"}
               /\ phase' = [phase EXCEPT ![j] = "started"]
               /\ runs' = [runs EXCEPT ![w] = j]

(* The database hands the job to a worker that never learns of it.         *)
Misstart(j) == /\ phase[j] \in {"waiting", "started"}
               /\ phase' = [phase EXCEPT ![j] = "started"]
               /\ UNCHANGED runs

(* The execution ends: it returned, or its process died.                   *)
Stop(w) == /\ runs[w] # NoJob
           /\ runs' = [runs EXCEPT ![w] = NoJob]
           /\ UNCHANGED phase

(* The outcome of an execution is recorded.                                *)
Close(j) == /\ phase[j] = "started"
            /\ phase' = [phase EXCEPT ![j] = "closed"]
            /\ UNCHANGED runs

Next == \/ \E j \in Jobs : Submit(j) \/ Misstart(j) \/ Close(j)
        \/ \E w \in Workers : Stop(w) \/ \E j \in Jobs : Start(w, j)

Spec == Init /\ [][Next]_vars
=============================================================================
