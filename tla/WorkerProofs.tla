---------------------------- MODULE WorkerProofs -----------------------------
(***************************************************************************)
(* Theorems about WorkerProcess, for every size of the channel, number of  *)
(* franchises and set of requests.                                         *)
(***************************************************************************)
EXTENDS WorkerProcess, TLAPS

(* TypeOK, in parts, with executeFn never past the end of its script.      *)
Places ==
    /\ main \in Startup \cup {"serving", "draining", "closing", "exited"}
    /\ verdict \in {"none", "graceful", "forced", "failed"}
    /\ server \in {"none", "listening", "stopping", "stopped", "failed"}
    /\ req \in [Requests -> {"idle", "handling", "querying"}]
    /\ pc \in {"polling", "executing", "joining", "recording", "stopped"}
    /\ err \in {"none", "work", "cancelled", "closed"}
    /\ upd \in {"waiting", "updating", "exited"}
    /\ written \in {"none", "progress", "final"}
    /\ recorded \in {"none", "success", "failure"}

Flags == cancelled \in BOOLEAN /\ poolOpen \in BOOLEAN /\ execDone \in BOOLEAN /\ inCall \in BOOLEAN

InScript == /\ found \in 0 .. MaxFranchises
            /\ at \in 1 .. Steps(found) + 1
            /\ inCall => at <= Steps(found)

Typed == Places /\ Flags /\ InScript /\ chan \in 0 .. ChanSize

(* The updater is gone before an outcome is recorded, and no outcome is    *)
(* recorded before that.                                                   *)
Ended == /\ pc \in {"recording", "polling", "stopped"} => upd = "exited"
         /\ pc \in {"executing", "joining", "recording"} => recorded = "none"
         /\ recorded # "none" => written = "final"

(* What executeFn blames on a shutdown is one, and shutdowns last.         *)
Blamed == /\ pc = "executing" => ~execDone
          /\ err = "cancelled" => cancelled
          /\ err = "closed" => ~poolOpen
          /\ recorded = "failure" => err = "work"

(* main saw the worker stop, or did not wait for it.                       *)
Left == /\ main = "exited" => ~Connected
        /\ verdict = "graceful" => main \in {"closing", "exited"} /\ pc = "stopped"

LEMMA TypedIsTypeOK == Typed => TypeOK
<1> SUFFICES ASSUME Typed PROVE TypeOK
  OBVIOUS
<1>1. at \in 1 .. Steps(MaxFranchises) + 1
  BY SizesOK DEF Typed, InScript, Steps
<1> QED
  BY <1>1 DEF TypeOK, Typed, Places, Flags, InScript

-----------------------------------------------------------------------------
LEMMA InitInv == Init => Typed /\ Ended /\ Blamed /\ Left
<1> SUFFICES ASSUME Init PROVE Typed /\ Ended /\ Blamed /\ Left
  OBVIOUS
<1>1. Typed
  <2>1. Places
    BY DEF Init, Places, Startup
  <2>2. Flags
    BY DEF Init, Flags
  <2>3. InScript /\ chan \in 0 .. ChanSize
    BY SizesOK DEF Init, InScript, Steps
  <2> QED
    BY <2>1, <2>2, <2>3 DEF Typed
<1>2. Ended /\ Blamed
  BY DEF Init, Ended, Blamed
<1>3. Left
  BY DEF Init, Left
<1> QED
  BY <1>1, <1>2, <1>3

(* The worker's goroutine outside executeFn.                               *)
LEMMA LoopKeepsInv ==
    ASSUME Typed, Ended, Blamed, Left, Claim \/ Stop \/ Join \/ Record
    PROVE  Typed' /\ Ended' /\ Blamed' /\ Left'
<1>1. CASE Claim
  <2>1. Typed'
    <3>1. Places'
      BY <1>1 DEF Typed, Places, Claim, process
    <3>2. Flags'
      BY <1>1 DEF Typed, Flags, Claim, process
    <3>3. InScript'
      BY <1>1, SizesOK DEF Typed, InScript, Steps, Claim, process
    <3>4. chan' \in 0 .. ChanSize
      BY <1>1, SizesOK DEF Typed, Claim, process
    <3> QED
      BY <3>1, <3>2, <3>3, <3>4 DEF Typed
  <2>2. Ended' /\ Blamed'
    BY <1>1 DEF Ended, Blamed, Claim, process
  <2>3. Left'
    BY <1>1 DEF Left, Claim, process, Running
  <2> QED
    BY <2>1, <2>2, <2>3
<1>2. CASE Stop \/ Join
  <2>1. Typed'
    <3>1. Places'
      BY <1>2 DEF Typed, Places, Stop, Join, process, exec
    <3>2. Flags'
      BY <1>2 DEF Typed, Flags, Stop, Join, process, exec
    <3>3. InScript'
      BY <1>2, SizesOK DEF Typed, InScript, Steps, Stop, Join, process, exec
    <3>4. chan' \in 0 .. ChanSize
      BY <1>2, SizesOK DEF Typed, Stop, Join, process, exec
    <3> QED
      BY <3>1, <3>2, <3>3, <3>4 DEF Typed
  <2>2. Ended' /\ Blamed'
    BY <1>2 DEF Ended, Blamed, Stop, Join, process, exec
  <2>3. Left'
    BY <1>2 DEF Left, Stop, Join, process, exec, Running, Connected
  <2> QED
    BY <2>1, <2>2, <2>3
<1>3. CASE Record
  <2>1. Typed'
    <3>1. Places'
      BY <1>3 DEF Typed, Places, Record, process, exec
    <3>2. Flags'
      BY <1>3 DEF Typed, Flags, Record, process, exec
    <3>3. InScript'
      BY <1>3, SizesOK DEF Typed, InScript, Steps, Record, process, exec
    <3>4. chan' \in 0 .. ChanSize
      BY <1>3, SizesOK DEF Typed, Record, process, exec
    <3> QED
      BY <3>1, <3>2, <3>3, <3>4 DEF Typed
  <2>2. Ended' /\ Blamed'
    BY <1>3 DEF Typed, Places, Flags, Ended, Blamed, Record, process, exec
  <2>3. Left'
    BY <1>3 DEF Left, Record, process, exec, Running, Connected
  <2> QED
    BY <2>1, <2>2, <2>3
<1> QED
  BY <1>1, <1>2, <1>3

(* executeFn.                                                              *)
LEMMA ExecutionKeepsInv ==
    ASSUME Typed, Ended, Blamed, Left, Send \/ BeginCall \/ EndCall \/ EndScript
    PROVE  Typed' /\ Ended' /\ Blamed' /\ Left'
<1>1. CASE Send
  <2>1. Typed'
    <3>1. Places'
      BY <1>1 DEF Typed, Places, Send, process
    <3>2. Flags'
      BY <1>1 DEF Typed, Flags, Send, process
    <3>3. InScript'
      BY <1>1, SizesOK DEF Typed, InScript, Steps, Send, process
    <3>4. chan' \in 0 .. ChanSize
      BY <1>1, SizesOK DEF Typed, Send, process
    <3> QED
      BY <3>1, <3>2, <3>3, <3>4 DEF Typed
  <2>2. Ended' /\ Blamed'
    BY <1>1 DEF Ended, Blamed, Send, process
  <2>3. Left'
    BY <1>1 DEF Left, Send, process, Running
  <2> QED
    BY <2>1, <2>2, <2>3
<1>2. CASE BeginCall
  <2>1. Typed'
    <3>1. Places'
      BY <1>2 DEF Typed, Places, BeginCall, EndExecution, process
    <3>2. Flags'
      BY <1>2 DEF Typed, Flags, BeginCall, EndExecution, process
    <3>3. InScript'
      BY <1>2, SizesOK DEF Typed, InScript, Steps, BeginCall, EndExecution, process
    <3>4. chan' \in 0 .. ChanSize
      BY <1>2, SizesOK DEF Typed, BeginCall, EndExecution, process
    <3> QED
      BY <3>1, <3>2, <3>3, <3>4 DEF Typed
  <2>2. Ended' /\ Blamed'
    BY <1>2 DEF Ended, Blamed, BeginCall, EndExecution, Done, process
  <2>3. Left'
    BY <1>2 DEF Left, BeginCall, EndExecution, process, Running
  <2> QED
    BY <2>1, <2>2, <2>3
<1>3. CASE EndCall
  <2>1. Typed'
    <3>1. Places'
      BY <1>3 DEF Typed, Places, EndCall, EndExecution, process
    <3>2. Flags'
      BY <1>3 DEF Typed, Flags, EndCall, EndExecution, process
    <3>3. InScript'
      BY <1>3, SizesOK DEF Typed, InScript, Steps, EndCall, EndExecution, process
    <3>4. chan' \in 0 .. ChanSize
      BY <1>3, SizesOK DEF Typed, EndCall, EndExecution, process
    <3> QED
      BY <3>1, <3>2, <3>3, <3>4 DEF Typed
  <2>2. Ended' /\ Blamed'
    BY <1>3 DEF Ended, Blamed, EndCall, EndExecution, Done, process
  <2>3. Left'
    BY <1>3 DEF Left, EndCall, EndExecution, process, Running
  <2> QED
    BY <2>1, <2>2, <2>3
<1>4. CASE EndScript
  <2>1. Typed'
    <3>1. Places'
      BY <1>4 DEF Typed, Places, EndScript, EndExecution, process
    <3>2. Flags'
      BY <1>4 DEF Typed, Flags, EndScript, EndExecution, process
    <3>3. InScript'
      BY <1>4, SizesOK DEF Typed, InScript, Steps, EndScript, EndExecution, process
    <3>4. chan' \in 0 .. ChanSize
      BY <1>4, SizesOK DEF Typed, EndScript, EndExecution, process
    <3> QED
      BY <3>1, <3>2, <3>3, <3>4 DEF Typed
  <2>2. Ended' /\ Blamed'
    BY <1>4 DEF Ended, Blamed, EndScript, EndExecution, process
  <2>3. Left'
    BY <1>4 DEF Left, EndScript, EndExecution, process, Running
  <2> QED
    BY <2>1, <2>2, <2>3
<1> QED
  BY <1>1, <1>2, <1>3, <1>4

(* The updater is at work only while an execution is.                      *)
LEMMA UpdaterKeepsInv ==
    ASSUME Typed, Ended, Blamed, Left, Updater
    PROVE  Typed' /\ Ended' /\ Blamed' /\ Left'
<1>1. CASE Take
  <2>1. Typed'
    <3>1. Places'
      BY <1>1 DEF Typed, Places, Take, process, exec
    <3>2. Flags'
      BY <1>1 DEF Typed, Flags, Take, process, exec
    <3>3. InScript'
      BY <1>1, SizesOK DEF Typed, InScript, Steps, Take, process, exec
    <3>4. chan' \in 0 .. ChanSize
      BY <1>1, SizesOK DEF Typed, Take, process, exec
    <3> QED
      BY <3>1, <3>2, <3>3, <3>4 DEF Typed
  <2>2. Ended' /\ Blamed'
    BY <1>1 DEF Ended, Blamed, Take, process, exec
  <2>3. Left'
    BY <1>1 DEF Left, Take, process, exec, Running
  <2> QED
    BY <2>1, <2>2, <2>3
<1>2. CASE Report \/ Quit
  <2>1. Typed'
    <3>1. Places'
      BY <1>2 DEF Typed, Places, Report, Quit, process, exec
    <3>2. Flags'
      BY <1>2 DEF Typed, Flags, Report, Quit, process, exec
    <3>3. InScript'
      BY <1>2, SizesOK DEF Typed, InScript, Steps, Report, Quit, process, exec
    <3>4. chan' \in 0 .. ChanSize
      BY <1>2, SizesOK DEF Typed, Report, Quit, process, exec
    <3> QED
      BY <3>1, <3>2, <3>3, <3>4 DEF Typed
  <2>2. Ended' /\ Blamed'
    BY <1>2 DEF Typed, Places, Flags, Ended, Blamed, Report, Quit, process, exec
  <2>3. Left'
    BY <1>2 DEF Left, Report, Quit, process, exec, Running
  <2> QED
    BY <2>1, <2>2, <2>3
<1> QED
  BY <1>1, <1>2 DEF Updater

LEMMA MainKeepsInv ==
    ASSUME Typed, Ended, Blamed, Left, Main
    PROVE  Typed' /\ Ended' /\ Blamed' /\ Left'
<1>1. UNCHANGED <<pc, execDone, at, inCall, found, err, chan, upd, written, recorded, req>>
  BY DEF Main, Boot, Signal, ServerFails, WorkerDone, Timeout, ClosePool, Exit, worker, exec
<1>2. (cancelled => cancelled') /\ (~poolOpen => ~poolOpen')
  BY DEF Main, Boot, Signal, ServerFails, WorkerDone, Timeout, ClosePool, Exit
<1>3. cancelled' \in BOOLEAN /\ poolOpen' \in BOOLEAN
  BY DEF Main, Boot, Signal, ServerFails, WorkerDone, Timeout, ClosePool, Exit, Typed, Flags
<1>4. /\ main' \in Startup \cup {"serving", "draining", "closing", "exited"}
      /\ verdict' \in {"none", "graceful", "forced", "failed"}
      /\ server' \in {"none", "listening", "stopping", "stopped", "failed"}
  <2>1. CASE Boot
    BY <2>1 DEF Boot, Leave, Startup, Typed, Places
  <2>2. CASE Signal \/ ServerFails \/ WorkerDone \/ Timeout \/ ClosePool \/ Exit
    BY <2>2 DEF Signal, ServerFails, WorkerDone, Timeout, ClosePool, Exit, Leave, Typed, Places
  <2> QED
    BY <2>1, <2>2 DEF Main
<1>5. Typed'
  <2>1. Places'
    BY <1>1, <1>4 DEF Typed, Places
  <2>2. Flags'
    BY <1>1, <1>3 DEF Typed, Flags
  <2>3. InScript' /\ chan' \in 0 .. ChanSize
    BY <1>1 DEF Typed, InScript
  <2> QED
    BY <2>1, <2>2, <2>3 DEF Typed
<1>6. Ended' /\ Blamed'
  BY <1>1, <1>2 DEF Ended, Blamed
<1>7. Left'
  <2>1. CASE Boot
    BY <1>1, <2>1 DEF Boot, Leave, Startup, Left
  <2>2. CASE Signal \/ ServerFails \/ WorkerDone \/ Timeout \/ ClosePool
    BY <1>1, <2>2 DEF Signal, ServerFails, WorkerDone, Timeout, ClosePool, Leave, Left
  <2>3. CASE Exit
    BY <1>1, <2>3 DEF Exit, Left, Connected
  <2> QED
    BY <2>1, <2>2, <2>3 DEF Main
<1> QED
  BY <1>5, <1>6, <1>7

LEMMA ServerKeepsInv ==
    ASSUME Typed, Ended, Blamed, Left, Server
    PROVE  Typed' /\ Ended' /\ Blamed' /\ Left'
<1>1. UNCHANGED <<main, verdict, cancelled, poolOpen, worker>> /\ main # "exited"
  BY DEF Server, ListenerFails, Shutdown, ShutdownDone, Accept, Query, EndQuery, Answer, Become,
         Running
<1>2. /\ req' \in [Requests -> {"idle", "handling", "querying"}]
      /\ server' \in {"none", "listening", "stopping", "stopped", "failed"}
  BY DEF Server, ListenerFails, Shutdown, ShutdownDone, Accept, Query, EndQuery, Answer, Become,
         Typed, Places
<1>3. Typed'
  BY <1>1, <1>2 DEF Typed, Places, Flags, InScript, worker, exec
<1>4. Ended' /\ Blamed'
  BY <1>1 DEF Ended, Blamed, worker, exec
<1>5. Left'
  BY <1>1 DEF Left, worker
<1> QED
  BY <1>3, <1>4, <1>5

LEMMA StepInv ==
    Typed /\ Ended /\ Blamed /\ Left /\ [Next]_vars => Typed' /\ Ended' /\ Blamed' /\ Left'
<1>1. ASSUME Typed, Ended, Blamed, Left, Next
      PROVE  Typed' /\ Ended' /\ Blamed' /\ Left'
  BY <1>1, LoopKeepsInv, ExecutionKeepsInv, UpdaterKeepsInv, MainKeepsInv, ServerKeepsInv
     DEF Next, Worker
<1>2. ASSUME Typed, Ended, Blamed, Left, UNCHANGED vars
      PROVE  Typed' /\ Ended' /\ Blamed' /\ Left'
  <2>1. Typed'
    <3>1. Places'
      BY <1>2 DEF Typed, Places, vars, process, worker, exec
    <3>2. Flags'
      BY <1>2 DEF Typed, Flags, vars, process, worker, exec
    <3>3. InScript'
      BY <1>2, SizesOK DEF Typed, InScript, Steps, vars, process, worker, exec
    <3>4. chan' \in 0 .. ChanSize
      BY <1>2, SizesOK DEF Typed, vars, process, worker, exec
    <3> QED
      BY <3>1, <3>2, <3>3, <3>4 DEF Typed
  <2>2. Ended' /\ Blamed' /\ Left'
    BY <1>2 DEF Ended, Blamed, Left, Connected, vars, process, worker, exec
  <2> QED
    BY <2>1, <2>2
<1> QED
  BY <1>1, <1>2

-----------------------------------------------------------------------------
(* Every goroutine is where it can be, the channel within its size and     *)
(* executeFn within its script, however many franchises were found.        *)
THEOREM TypeCorrect == Spec => []TypeOK
BY TypedIsTypeOK, InitInv, StepInv, PTL DEF Spec

(* No progress update lands after the outcome of its execution.            *)
THEOREM OutcomeComesLast == Spec => []OutcomeIsLast
<1>1. Ended => OutcomeIsLast
  BY DEF Ended, OutcomeIsLast
<1> QED
  BY <1>1, InitInv, StepInv, PTL DEF Spec

(* Only an error of the work itself is recorded as a failure.              *)
THEOREM ShutdownIsNoFailure == Spec => []ShutdownCostsNoRetry
<1>1. Blamed => ShutdownCostsNoRetry
  BY DEF Blamed, ShutdownCostsNoRetry
<1> QED
  BY <1>1, InitInv, StepInv, PTL DEF Spec

(* No process ends with a statement half-way, and none that ends           *)
(* gracefully with a job half-way.                                         *)
THEOREM NothingIsLeftBehind == Spec => []LeavesNothingBehind
<1>1. Ended /\ Left => LeavesNothingBehind
  BY DEF Ended, Left, LeavesNothingBehind
<1> QED
  BY <1>1, InitInv, StepInv, PTL DEF Spec

-----------------------------------------------------------------------------
(* Who waits for whom.  The updater outlives the execution unless the      *)
(* process is shut down, and the channel holds no more than was sent up to *)
(* at: two messages before and after the scrape, and then one for every    *)
(* two steps.                                                              *)
Accompanied == pc = "executing" /\ upd = "exited" => cancelled

SentSoFar == pc = "executing" => 2 * chan <= at + 1 /\ (at < 4 => 2 * chan <= at)

LEMMA LessSent ==
    ASSUME NEW a \in Nat, NEW b \in Nat, NEW n \in Nat, b <= a,
           2 * a <= n + 1 /\ (n < 4 => 2 * a <= n)
    PROVE  2 * b <= n + 1 /\ (n < 4 => 2 * b <= n)
OBVIOUS

(* What any step that is not the worker's own can do to these.             *)
LEMMA OthersKeepRoom ==
    ASSUME Typed, Accompanied, SentSoFar,
           UNCHANGED <<at, pc>>, chan' \in Nat, chan' <= chan,
           upd' = "exited" => upd = "exited" \/ pc # "executing" \/ cancelled',
           cancelled => cancelled'
    PROVE  Accompanied' /\ SentSoFar'
<1>1. chan \in Nat /\ at \in Nat
  BY SizesOK DEF Typed, InScript, Steps
<1>2. Accompanied'
  <2> SUFFICES ASSUME pc' = "executing", upd' = "exited" PROVE cancelled'
    BY DEF Accompanied
  <2>1. pc = "executing"
    OBVIOUS
  <2>2. upd = "exited" => cancelled
    BY <2>1 DEF Accompanied
  <2> QED
    BY <2>1, <2>2
<1>3. SentSoFar'
  <2> SUFFICES ASSUME pc = "executing"
               PROVE  2 * chan' <= at + 1 /\ (at < 4 => 2 * chan' <= at)
    BY DEF SentSoFar
  <2>1. 2 * chan <= at + 1 /\ (at < 4 => 2 * chan <= at)
    BY DEF SentSoFar
  <2>2. chan' \in Nat /\ chan' <= chan
    OBVIOUS
  <2> QED
    BY <1>1, <2>1, <2>2, LessSent
<1> QED
  BY <1>2, <1>3

LEMMA StepRoom ==
    Typed /\ Typed' /\ Blamed /\ Accompanied /\ SentSoFar /\ [Next]_vars
        => Accompanied' /\ SentSoFar'
<1> SUFFICES ASSUME Typed, Typed', Blamed, Accompanied, SentSoFar, [Next]_vars
             PROVE  Accompanied' /\ SentSoFar'
  OBVIOUS
<1>1. chan \in Nat /\ chan' \in Nat /\ at \in Nat /\ at >= 1
  BY SizesOK DEF Typed, InScript, Steps
<1>2. CASE Claim
  BY <1>2 DEF Claim, Accompanied, SentSoFar
<1>3. CASE Send
  <2>1. /\ chan' = chan + 1 /\ at' = at + 1 /\ pc' = pc /\ pc = "executing"
        /\ at # 2 /\ (at > 4 => at % 2 = 0)
        /\ upd' = upd /\ cancelled' = cancelled
    BY <1>1, <1>3 DEF Send, IsCall, process
  <2>2. 2 * chan <= at + 1 /\ (at < 4 => 2 * chan <= at)
    BY <2>1 DEF SentSoFar
  <2>3. 2 * (chan + 1) <= at + 2 /\ (at + 1 < 4 => 2 * (chan + 1) <= at + 1)
    <3>1. CASE at \in {1, 3, 4}
      BY <1>1, <2>2, <3>1
    <3>2. CASE at > 4
      <4>1. at % 2 = 0 /\ 2 * chan <= at + 1
        BY <1>1, <2>1, <2>2, <3>2
      <4>2. 2 * chan <= at
        BY <1>1, <4>1
      <4> QED
        BY <1>1, <3>2, <4>2
    <3> QED
      BY <1>1, <2>1, <3>1, <3>2
  <2> QED
    BY <1>1, <2>1, <2>3 DEF Accompanied, SentSoFar
<1>4. CASE EndCall
  <2>1. /\ chan' = chan /\ upd' = upd /\ cancelled' = cancelled
        /\ pc' = "executing" => pc = "executing" /\ at' = at + 1
    BY <1>4 DEF EndCall, EndExecution, process
  <2> QED
    BY <1>1, <2>1 DEF Accompanied, SentSoFar
<1>5. CASE pc' # "executing"
  BY <1>5 DEF Accompanied, SentSoFar
<1>6. CASE pc' = "executing" /\ ~Claim /\ ~Send /\ ~EndCall
  <2>1. UNCHANGED <<at, pc>> /\ chan' <= chan
    <3>1. CASE Worker
      <4>1. CASE Stop \/ EndScript \/ Join \/ Record
        BY <1>6, <4>1 DEF Stop, EndScript, EndExecution, Join, Record
      <4>2. CASE BeginCall
        BY <1>1, <1>6, <4>2 DEF BeginCall, EndExecution
      <4> QED
        BY <1>6, <3>1, <4>1, <4>2 DEF Worker
    <3>2. CASE Updater
      BY <1>1, <3>2 DEF Updater, Take, Report, Quit, exec
    <3>3. CASE Main \/ Server \/ UNCHANGED vars
      BY <1>1, <3>3 DEF Main, Boot, Signal, ServerFails, WorkerDone, Timeout, ClosePool, Exit,
                        Server, ListenerFails, Shutdown, ShutdownDone, Accept, Query, EndQuery,
                        Answer, Become, worker, exec, vars
    <3> QED
      BY <3>1, <3>2, <3>3 DEF Next
  <2>2. cancelled => cancelled'
    <3>1. CASE Worker \/ Updater \/ UNCHANGED vars
      BY <3>1 DEF Worker, Claim, Stop, Send, BeginCall, EndCall, EndScript, Join, Record,
                  Updater, Take, Report, Quit, process, vars
    <3>2. CASE Main
      BY <3>2 DEF Main, Boot, Signal, ServerFails, WorkerDone, Timeout, ClosePool, Exit
    <3>3. CASE Server
      BY <3>3 DEF Server, ListenerFails, Shutdown, ShutdownDone, Accept, Query, EndQuery, Answer,
                  Become
    <3> QED
      BY <3>1, <3>2, <3>3 DEF Next
  <2>3. upd' = "exited" => upd = "exited" \/ Quit
    BY <1>6 DEF Next, Worker, Stop, BeginCall, EndScript, Join, Record,
           Updater, Take, Report, process, exec,
           Main, Boot, Signal, ServerFails, WorkerDone, Timeout, ClosePool, Exit,
           Server, ListenerFails, Shutdown, ShutdownDone, Accept, Query, EndQuery, Answer, Become,
           worker, vars
  <2>4. Quit => pc # "executing" \/ cancelled'
    BY DEF Quit, Done, Blamed, process
  <2> QED
    BY <1>1, <2>1, <2>2, <2>3, <2>4, OthersKeepRoom
<1> QED
  BY <1>2, <1>3, <1>4, <1>5, <1>6

(* A plain send waits for ever only in a shutdown, of an execution whose   *)
(* messages exceed the channel, for any channel and number of franchises.  *)
THEOREM SendsAreTaken == Spec => []NeverStuck
<1>1. Init => Accompanied /\ SentSoFar
  BY DEF Init, Accompanied, SentSoFar
<1>2. Typed /\ Accompanied /\ SentSoFar => NeverStuck
  <2> SUFFICES ASSUME Typed, Accompanied, SentSoFar, Sending, chan = ChanSize, upd = "exited",
                      found + 3 <= ChanSize
               PROVE  FALSE
    BY SizesOK DEF NeverStuck, Accompanied, Sending, Typed, InScript
  <2>1. /\ chan \in Nat /\ at \in Nat /\ found \in Nat /\ at >= 1
        /\ at <= 4 + 2 * found /\ at # 2 /\ (at > 4 => at % 2 = 0)
        /\ 2 * chan <= at + 1 /\ (at < 4 => 2 * chan <= at)
        /\ found + 3 <= chan
    BY SizesOK DEF Typed, InScript, Steps, Sending, IsCall, SentSoFar
  <2>2. CASE at <= 4
    BY <2>1, <2>2
  <2>3. CASE at > 4
    <3>1. at % 2 = 0 /\ 2 * chan <= at + 1
      BY <2>1, <2>3
    <3>2. 2 * chan <= at
      BY <2>1, <3>1
    <3> QED
      BY <2>1, <3>2
  <2> QED
    BY <2>1, <2>2, <2>3
<1> QED
  BY <1>1, <1>2, InitInv, StepInv, StepRoom, PTL DEF Spec
=============================================================================
