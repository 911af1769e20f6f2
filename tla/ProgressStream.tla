--------------------------- MODULE ProgressStream ---------------------------
(***************************************************************************)
(* The client that posted the oldest job and follows it: the handlers      *)
(* CreateJob and GetJobProgressSSE over the rows of JobQueue.  The stream  *)
(* reads the row every half second, sends what it reads and ends after a   *)
(* status that it takes for the last one.                                  *)
(***************************************************************************)
EXTENDS JobQueue

ASSUME OldestOK == Oldest \in Jobs

VARIABLE stream   \* the handler: closed, open, or the status it ended on

StreamInit == Init /\ stream = "closed"

(* The initial fetch: a job that does not exist is answered with 404 and   *)
(* no stream.                                                              *)
Open == /\ stream = "closed"
        /\ row[Oldest] # NoRow
        /\ stream' = "open"
        /\ UNCHANGED vars

(* Mutant: the comparison with completed forgotten.                        *)
TerminalOnFailure(status) == status = "failed"

(* job.Status == StatusCompleted || job.Status == StatusFailed             *)
Terminal(status) == status \in {"completed", "failed"}

(* case <-ticker.C: read the row, send it, and return after a terminal     *)
(* status; after any other there is nothing to remember.                   *)
Poll ==
    /\ stream = "open"
    /\ stream' = IF Terminal(row[Oldest].status) THEN row[Oldest].status ELSE "open"
    /\ UNCHANGED vars

(* The client goes away, or a read fails and the handler returns its       *)
(* error: the client may come back with a new request.                     *)
Disconnect ==
    /\ stream = "open"
    /\ faults < MaxFaults
    /\ faults' = faults + 1
    /\ stream' = "closed"
    /\ UNCHANGED <<row, wk, wire, collisions>>

StreamStep == Open \/ Poll \/ Disconnect

StreamNext == (Next /\ UNCHANGED stream) \/ StreamStep

(* The queue's fairness, a client that comes back, and a ticker.           *)
StreamSpec ==
    /\ StreamInit
    /\ [][StreamNext]_<<vars, stream>>
    /\ Fairness
    /\ \A w \in Workers : SF_vars(FinishSuccess(w))
    /\ WF_stream(Open)
    /\ WF_stream(Poll)

-----------------------------------------------------------------------------
Ended == stream \notin {"closed", "open"}

(* A client whose stream ended was told that the job is over, and it stays *)
(* over, though nothing in the stream looks at the job again: the end of   *)
(* the stream relies on the filter of the claim and on the fence of every  *)
(* update that is still on its way.                                        *)
EndedIsOver == Ended => Finished(Oldest)

(* The client gets to the end: if the work does not fail for ever, the     *)
(* stream of the oldest job, reconnected when it breaks, ends.             *)
StreamEnds == row[Oldest] # NoRow ~> Ended
=============================================================================
