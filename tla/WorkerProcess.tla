--------------------------- MODULE WorkerProcess ----------------------------
(***************************************************************************)
(* The goroutines of one API process: the worker's polling loop, the       *)
(* progress updater it starts for every job, the executeFn of cmd/api,     *)
(* which reports its progress on a bounded channel between calls that      *)
(* honour the context, the HTTP server with the requests it handles, and   *)
(* main, which starts them all, cancels everything on a signal, waits for  *)
(* the worker, but not for ever, and closes the pool of connections that   *)
(* all of them use.                                                        *)
(*                                                                         *)
(* JobQueue has the table and several processes, and sees of each what     *)
(* this module shows from the inside.                                      *)
(***************************************************************************)
EXTENDS Integers

CONSTANTS ChanSize,       \* progressChanSize
          MaxFranchises,  \* bound: franchises found by one scrape
          Requests        \* bound: HTTP requests handled at a time

ASSUME SizesOK == ChanSize \in Nat \ {0} /\ MaxFranchises \in Nat

VARIABLES
    main,       \* where run() of cmd/api is
    verdict,    \* why it left its select, or its start
    cancelled,  \* the root context
    poolOpen,   \* pool.Close was not called
    server,     \* the goroutine of server.Start
    req,        \* req[r]: a request and its handler
    pc,         \* the worker goroutine
    execDone,   \* cancel() of the execution's own context was called
    at,         \* position of executeFn in its script
    inCall,     \* executeFn is inside a scrape or a save
    found,      \* franchises scraped by this execution
    err,        \* what executeFn returned: none, work, cancelled, or closed (the pool)
    chan,       \* messages in the progress channel
    upd,        \* the updater goroutine
    written,    \* kind of the last UPDATE of this execution that was applied
    recorded    \* the outcome recorded for this execution

process == <<main, verdict, cancelled, poolOpen, server, req>>
exec == <<execDone, at, inCall, found, err>>
worker == <<pc, exec, chan, upd, written, recorded>>
vars == <<process, worker>>

(* The steps of run before it starts its goroutines.                       *)
Startup == {"ping", "schema", "driver"}
Running == main \notin Startup \cup {"exited"}

(* execCtx is derived from the root context.                               *)
Done == cancelled \/ execDone

(* executeJob: report, scrape, report; then for each franchise report and  *)
(* save; report.                                                           *)
Steps(n) == 4 + 2 * n
IsCall(i) == i = 2 \/ (i > 4 /\ i % 2 = 1)

(* Connections of the pool that are in use: by the updater, by executeJob  *)
(* saving a franchise, by handlers.  Other statements are single steps.    *)
Connected == \/ upd = "updating" \/ (inCall /\ at # 2)
             \/ \E r \in Requests : req[r] = "querying"

Init == /\ main = "ping" /\ verdict = "none" /\ cancelled = FALSE
        /\ poolOpen = TRUE /\ server = "none"
        /\ req = [r \in Requests |-> "idle"]
        /\ pc = "polling" /\ execDone = TRUE
        /\ at = 1 /\ inCall = FALSE /\ found = 0 /\ err = "none"
        /\ chan = 0 /\ upd = "exited"
        /\ written = "none" /\ recorded = "none"

-----------------------------------------------------------------------------
(* The worker.                                                             *)

(* The ticker fires and a job is claimed; with a cancelled context, a      *)
(* closed pool or no job the claim fails and the worker stays in its       *)
(* select.                                                                 *)
Claim == /\ Running /\ pc = "polling" /\ ~cancelled /\ poolOpen
         /\ pc' = "executing" /\ execDone' = FALSE
         /\ at' = 1 /\ inCall' = FALSE /\ found' = 0 /\ err' = "none"
         /\ chan' = 0 /\ upd' = "waiting"
         /\ written' = "none" /\ recorded' = "none"
         /\ UNCHANGED process

Stop == /\ Running /\ pc = "polling" /\ cancelled
        /\ pc' = "stopped"
        /\ UNCHANGED <<process, exec, chan, upd, written, recorded>>

(* progress <- ...: a plain send, which waits for room and for nothing     *)
(* else.                                                                   *)
Send == /\ Running /\ pc = "executing" /\ ~inCall
        /\ at <= Steps(found) /\ ~IsCall(at)
        /\ chan < ChanSize
        /\ chan' = chan + 1
        /\ at' = at + 1
        /\ UNCHANGED <<process, pc, execDone, inCall, found, err, upd, written, recorded>>

(* executeFn returns e, and cancel() follows.                              *)
EndExecution(e) ==
    /\ err' = e
    /\ pc' = "joining"
    /\ execDone' = TRUE
    /\ inCall' = FALSE

(* ScrapeFranchises or franchiseRepo.Create begins; under a cancelled      *)
(* context it fails at once, and so does Create when the pool is closed.   *)
BeginCall ==
    /\ Running /\ pc = "executing" /\ ~inCall /\ IsCall(at) /\ at <= Steps(found)
    /\ \/ /\ ~Done /\ (poolOpen \/ at = 2)
          /\ inCall' = TRUE
          /\ UNCHANGED <<pc, execDone, err>>
       \/ Done /\ EndExecution("cancelled")
       \/ ~poolOpen /\ at # 2 /\ EndExecution("closed")
    /\ UNCHANGED <<process, at, found, chan, upd, written, recorded>>

(* It returns: what was scraped, or an error of its own, or the            *)
(* context's.                                                              *)
EndCall ==
    /\ Running /\ pc = "executing" /\ inCall
    /\ \/ /\ at' = at + 1 /\ inCall' = FALSE
          /\ IF at = 2 THEN found' \in 0 .. MaxFranchises ELSE found' = found
          /\ UNCHANGED <<pc, execDone, err>>
       \/ /\ EndExecution("work")
          /\ UNCHANGED <<at, found>>
       \/ /\ Done /\ EndExecution("cancelled")
          /\ UNCHANGED <<at, found>>
    /\ UNCHANGED <<process, chan, upd, written, recorded>>

EndScript ==
    /\ Running /\ pc = "executing" /\ at > Steps(found)
    /\ EndExecution("none")
    /\ UNCHANGED <<process, at, found, chan, upd, written, recorded>>

(* Mutant: the worker does not wait for progressDoneCh.                    *)
JoinAtOnce ==
    /\ Running /\ pc = "joining"
    /\ pc' = "recording"
    /\ UNCHANGED <<process, exec, chan, upd, written, recorded>>

(* <-progressDoneCh                                                        *)
Join == /\ Running /\ pc = "joining" /\ upd = "exited"
        /\ pc' = "recording"
        /\ UNCHANGED <<process, exec, chan, upd, written, recorded>>

(* Mutant: the final update is sent with a context that is not cancelled,  *)
(* on a connection of its own.                                             *)
RecordInBackground ==
    /\ Running /\ pc = "recording"
    /\ pc' = "polling"
    /\ recorded' = IF err = "none" THEN "success" ELSE "failure"
    /\ written' = "final"
    /\ UNCHANGED <<process, exec, chan, upd>>

(* handleSuccess or handleFailure: the final Update, with the worker's     *)
(* context and the pool, which may fail and is only logged.                *)
Record ==
    /\ Running /\ pc = "recording"
    /\ pc' = "polling"
    /\ \/ /\ ~cancelled /\ poolOpen
          /\ recorded' = IF err = "none" THEN "success" ELSE "failure"
          /\ written' = "final"
       \/ UNCHANGED <<recorded, written>>
    /\ UNCHANGED <<process, exec, chan, upd>>

-----------------------------------------------------------------------------
(* The progress updater.  Its select may choose either ready case.         *)

(* <-progressCh, and jobRepo.Update begins, or fails at once.              *)
Take == /\ Running /\ upd = "waiting" /\ chan > 0
        /\ chan' = chan - 1
        /\ upd' = IF poolOpen THEN "updating" ELSE "waiting"
        /\ UNCHANGED <<process, pc, exec, written, recorded>>

(* Mutant: the updater gives up when an update fails.                      *)
ReportOrQuit ==
    /\ Running /\ upd = "updating"
    /\ \/ upd' = "waiting" /\ written' = "progress"
       \/ upd' = "exited" /\ UNCHANGED written
    /\ UNCHANGED <<process, pc, exec, chan, recorded>>

(* The progress Update returns, applied or not; an error is logged.        *)
Report == /\ Running /\ upd = "updating"
          /\ upd' = "waiting"
          /\ written' \in {"progress", written}
          /\ UNCHANGED <<process, pc, exec, chan, recorded>>

(* Mutant: the updater ends only when the channel is closed, which nobody  *)
(* does.                                                                   *)
QuitOnClose == FALSE /\ UNCHANGED vars

(* <-execCtx.Done()                                                        *)
Quit == /\ Running /\ upd = "waiting" /\ Done
        /\ upd' = "exited"
        /\ UNCHANGED <<process, pc, exec, chan, written, recorded>>

-----------------------------------------------------------------------------
(* main                                                                    *)

Leave(v) == main' = "closing" /\ verdict' = v

(* Ping, EnsureSchema, the driver: an error of any ends run.  Connectivity *)
(* and constraints of Neo4j are only warned of.                            *)
Boot == /\ main \in Startup
        /\ \/ /\ main' = [ping |-> "schema", schema |-> "driver", driver |-> "serving"][main]
              /\ server' = IF main = "driver" THEN "listening" ELSE server
              /\ UNCHANGED verdict
           \/ Leave("failed") /\ UNCHANGED server
        /\ UNCHANGED <<cancelled, poolOpen, req, worker>>

(* SIGINT or SIGTERM: cancel, then wait for the worker.                    *)
Signal == /\ main = "serving"
          /\ main' = "draining"
          /\ cancelled' = TRUE
          /\ UNCHANGED <<verdict, poolOpen, server, req, worker>>

(* The server's error arrives: run returns at once.  The context is        *)
(* cancelled by the first of its defers, which runs last.                  *)
ServerFails == /\ main = "serving" /\ server = "failed"
               /\ Leave("failed")
               /\ UNCHANGED <<cancelled, poolOpen, server, req, worker>>

WorkerDone == /\ main = "draining" /\ pc = "stopped"
              /\ Leave("graceful")
              /\ UNCHANGED <<cancelled, poolOpen, server, req, worker>>

(* Mutant: main waits for the worker only.                                 *)
NoTimeout == FALSE /\ UNCHANGED vars

(* shutdownTimeout expires first.                                          *)
Timeout == /\ main = "draining"
           /\ Leave("forced")
           /\ UNCHANGED <<cancelled, poolOpen, server, req, worker>>

(* The deferred pool.Close: from now on nobody is given a connection...    *)
ClosePool == /\ main = "closing" /\ poolOpen
             /\ poolOpen' = FALSE
             /\ UNCHANGED <<main, verdict, cancelled, server, req, worker>>

(* ... it returns when all are given back, and the process ends, whatever  *)
(* its other goroutines are doing.                                         *)
Exit == /\ main = "closing" /\ ~poolOpen /\ ~Connected
        /\ main' = "exited"
        /\ cancelled' = TRUE
        /\ UNCHANGED <<verdict, poolOpen, server, req, worker>>

Main == Boot \/ Signal \/ ServerFails \/ WorkerDone \/ Timeout \/ ClosePool \/ Exit

-----------------------------------------------------------------------------
(* The HTTP server.                                                        *)

ListenerFails == /\ Running /\ server = "listening"
                 /\ server' = "failed"
                 /\ UNCHANGED <<main, verdict, cancelled, poolOpen, req, worker>>

(* <-ctx.Done(): echo.Shutdown closes the listener...                      *)
Shutdown == /\ Running /\ server = "listening" /\ cancelled
            /\ server' = "stopping"
            /\ UNCHANGED <<main, verdict, cancelled, poolOpen, req, worker>>

(* ... and waits, without a limit, for the requests in progress.  Nobody   *)
(* waits for it.                                                           *)
ShutdownDone == /\ Running /\ server = "stopping" /\ \A r \in Requests : req[r] = "idle"
                /\ server' = "stopped"
                /\ UNCHANGED <<main, verdict, cancelled, poolOpen, req, worker>>

Become(r, s) == /\ req' = [req EXCEPT ![r] = s]
                /\ UNCHANGED <<main, verdict, cancelled, poolOpen, server, worker>>

Accept(r) == Running /\ server = "listening" /\ req[r] = "idle" /\ Become(r, "handling")

(* A repository call of a handler; with the pool closed it fails at once.  *)
Query(r) == Running /\ req[r] = "handling" /\ poolOpen /\ Become(r, "querying")
EndQuery(r) == Running /\ req[r] = "querying" /\ Become(r, "handling")

(* An answer or an error.                                                  *)
Answer(r) == Running /\ req[r] = "handling" /\ Become(r, "idle")

Server == \/ ListenerFails \/ Shutdown \/ ShutdownDone
          \/ \E r \in Requests : Accept(r) \/ Query(r) \/ EndQuery(r) \/ Answer(r)

Worker == Claim \/ Stop \/ Send \/ BeginCall \/ EndCall \/ EndScript \/ Join \/ Record
Updater == Take \/ Report \/ Quit

Next == Worker \/ Updater \/ Main \/ Server

Spec == Init /\ [][Next]_vars

(* Goroutines that can run do; calls return, each having a timeout or a    *)
(* context; main notices a worker that is done.  That a job is there to    *)
(* claim, a signal comes or the time for the shutdown runs out is not      *)
(* assumed.  The updater's select is fair to a cancelled context.          *)
Fairness ==
    /\ WF_vars(Stop) /\ WF_vars(Send) /\ WF_vars(BeginCall) /\ WF_vars(EndCall)
    /\ WF_vars(EndScript) /\ WF_vars(Join) /\ WF_vars(Record)
    /\ WF_vars(Take) /\ WF_vars(Report) /\ SF_vars(Quit)
    /\ WF_vars(WorkerDone) /\ WF_vars(ServerFails) /\ WF_vars(ClosePool) /\ WF_vars(Exit)
    /\ \A r \in Requests : WF_vars(EndQuery(r))

FairSpec == Spec /\ Fairness

-----------------------------------------------------------------------------
TypeOK ==
    /\ main \in Startup \cup {"serving", "draining", "closing", "exited"}
    /\ verdict \in {"none", "graceful", "forced", "failed"}
    /\ cancelled \in BOOLEAN /\ poolOpen \in BOOLEAN
    /\ server \in {"none", "listening", "stopping", "stopped", "failed"}
    /\ req \in [Requests -> {"idle", "handling", "querying"}]
    /\ pc \in {"polling", "executing", "joining", "recording", "stopped"}
    /\ execDone \in BOOLEAN
    /\ at \in 1 .. Steps(MaxFranchises) + 1
    /\ inCall \in BOOLEAN
    /\ found \in 0 .. MaxFranchises
    /\ err \in {"none", "work", "cancelled", "closed"}
    /\ chan \in 0 .. ChanSize
    /\ upd \in {"waiting", "updating", "exited"}
    /\ written \in {"none", "progress", "final"}
    /\ recorded \in {"none", "success", "failure"}

(* The recorded outcome of an execution is its last word: no progress      *)
(* update of the updater lands after it.                                   *)
OutcomeIsLast == recorded # "none" => written = "final"

(* An execution that a shutdown interrupts, by its context or by closing   *)
(* the pool under it, is not recorded as a failure: it costs the job no    *)
(* retry, the row staying as it is until the lease expires.                *)
ShutdownCostsNoRetry == recorded = "failure" => err = "work"

(* executeFn waits for room in the channel only while the updater is there *)
(* to make some, or when the process is being shut down and the messages   *)
(* of the execution, three and one for each franchise, exceed the channel: *)
(* whatever calls fail, a plain send is never the end of an execution that *)
(* nobody interrupts, nor of one that the channel can hold.                *)
Sending == pc = "executing" /\ ~inCall /\ at <= Steps(found) /\ ~IsCall(at)

NeverStuck ==
    Sending /\ chan = ChanSize => upd # "exited" \/ (cancelled /\ found + 3 > ChanSize)

(* A process that ends gracefully leaves nothing of a job behind: neither  *)
(* executeFn nor the updater is at work, and whatever main returns, no     *)
(* statement is cut off half-way.                                          *)
LeavesNothingBehind ==
    main = "exited" => /\ ~Connected
                       /\ verdict = "graceful" => pc = "stopped" /\ upd = "exited"

(* After a signal, an error of the server or a failed start the process    *)
(* ends, whatever the worker and the requests are doing, if its timer      *)
(* fires.                                                                  *)
ProcessExits == WF_vars(Timeout) => (cancelled \/ main = "closing" ~> main = "exited")

(* While nobody shuts the process down every execution comes to its end:   *)
(* executeFn and the updater do not block each other, whether or not the   *)
(* progress updates succeed.                                               *)
ExecutionsEnd == pc = "executing" ~> pc = "polling" \/ cancelled \/ main = "closing"

(* After a signal the worker stops of itself if the messages of its        *)
(* execution, three and one for each franchise, fit the channel: nobody    *)
(* takes them once the updater is gone.                                    *)
StopsIfMessagesFit ==
    main = "draining" ~> pc = "stopped" \/ main # "draining" \/ found + 3 > ChanSize

(* "Context-based graceful shutdowns": after a signal the worker stops of  *)
(* itself, whatever it was executing.                                      *)
WorkerStops == main = "draining" ~> pc = "stopped" \/ main # "draining"
=============================================================================
