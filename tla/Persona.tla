------------------------------ MODULE Persona -------------------------------
(***************************************************************************)
(* Persona generation: every request streams a persona from Gemini, parses *)
(* it, and asks Fal.ai for a portrait with retries.  The requests run side *)
(* by side and share the two clients, each with a circuit breaker          *)
(* (sony/gobreaker) around its HTTP calls.                                 *)
(*                                                                         *)
(* A breaker's deadline is the number of ticks left until it, and -1 once  *)
(* it has passed.  As in gobreaker a deadline is looked at when a call     *)
(* begins or ends, not before, and a call's result counts only in the      *)
(* generation of counts in which it began.                                 *)
(*                                                                         *)
(* Rate limiters only delay a call here, and a backoff delay has any       *)
(* length.  Of the persona's text it matters only whether there is any:    *)
(* what validation makes of it is left open.                               *)
(***************************************************************************)
EXTENDS Integers, FiniteSets

CONSTANTS
    Requests,      \* concurrent requests for a persona
    Attempts,      \* maxRetries of GenerateImage
    MaxRequests,   \* Settings.MaxRequests
    Trip,          \* consecutive failures that open a breaker
    Interval,      \* ticks of Settings.Interval
    Timeout        \* ticks of Settings.Timeout

ASSUME PersonaOK ==
    /\ Attempts \in Nat \ {0}
    /\ MaxRequests \in Nat \ {0}
    /\ Trip \in Nat \ {0}
    /\ Interval \in Nat
    /\ Timeout \in Nat

Upstreams == {"gemini", "fal"}

VARIABLES
    breaker,    \* breaker[u]: state, deadline and counts
    req,        \* req[r]: where request r is, its attempts, its context, its text
    streak      \* streak[u]: calls that failed since one that counts succeeded

vars == <<breaker, req, streak>>

Never == Interval + Timeout + 1

Fresh(state, left) == [state |-> state, left |-> left, requests |-> 0, fails |-> 0, succs |-> 0]

Closed == Fresh("closed", Interval)
Opened == Fresh("open", Timeout)
HalfOpen == Fresh("half-open", Never)

(* counted: the call in flight belongs to the present generation.          *)
(* text: some was accumulated from Gemini's stream, or none.               *)
Idle == [pc |-> "idle", attempt |-> 0, counted |-> FALSE, gone |-> FALSE, text |-> "none"]

(* The last event was sent.                                                *)
Error == [Idle EXCEPT !.pc = "error"]
Image == [Idle EXCEPT !.pc = "image"]
Over(r) == req[r].pc \in {"idle", "error", "image"}

Init == /\ breaker = [u \in Upstreams |-> Closed]
        /\ req = [r \in Requests |-> Idle]
        /\ streak = [u \in Upstreams |-> 0]

-----------------------------------------------------------------------------
(* gobreaker, with the settings of the two clients.                        *)

Expired(b) == b.left < 0

(* currentState: an expired deadline begins a new generation.              *)
Current(b) == IF ~Expired(b) \/ b.state = "half-open" THEN b
              ELSE IF b.state = "closed" THEN Closed ELSE HalfOpen

(* Mutant: probes of a half-open breaker not counted.                      *)
RejectsOpenOnly(b) == Current(b).state = "open"

(* beforeRequest                                                           *)
Rejects(b) == \/ Current(b).state = "open"
              \/ Current(b).state = "half-open" /\ Current(b).requests >= MaxRequests

(* The requests of a closed breaker are counted too, but never looked at.  *)
Begun(b) == IF Current(b).state = "half-open"
            THEN [Current(b) EXCEPT !.requests = @ + 1]
            ELSE Current(b)

(* Mutant: all failures count, consecutive or not.                         *)
SucceededKeepingFails(b) ==
    IF b.state = "closed" THEN b
    ELSE IF b.succs + 1 >= MaxRequests THEN Closed
    ELSE [b EXCEPT !.succs = @ + 1, !.fails = 0]

(* afterRequest, of a call of the present generation                       *)
Succeeded(b) ==
    IF b.state = "closed" THEN [b EXCEPT !.fails = 0]
    ELSE IF b.succs + 1 >= MaxRequests THEN Closed
    ELSE [b EXCEPT !.succs = @ + 1, !.fails = 0]

(* ReadyToTrip                                                             *)
ReadyToTrip(b) == b.fails + 1 >= Trip

Failed(b) ==
    IF b.state = "closed" /\ ~ReadyToTrip(b)
    THEN [b EXCEPT !.fails = @ + 1]
    ELSE Opened

Upstream(pc) == IF pc = "handshake" THEN "gemini" ELSE IF pc = "posting" THEN "fal" ELSE "none"

(* The requests when upstream u's breaker becomes b and request r goes on  *)
(* as v: the calls in flight of an earlier generation count no more.       *)
NewGeneration(u, b) == \/ b.state # breaker[u].state
                       \/ b = Closed /\ Expired(breaker[u])

Requested(r, v, u, b) ==
    [q \in Requests |->
        IF q = r THEN v
        ELSE IF NewGeneration(u, b) /\ Upstream(req[q].pc) = u
             THEN [req[q] EXCEPT !.counted = FALSE]
             ELSE req[q]]

BreakerBecomes(u, b) == breaker' = [breaker EXCEPT ![u] = b]

(* breaker.Execute begins, and the request goes on at pc.                  *)
Begin(r, u, pc) ==
    /\ ~Rejects(breaker[u])
    /\ BreakerBecomes(u, Begun(breaker[u]))
    /\ req' = Requested(r, [req[r] EXCEPT !.pc = pc, !.counted = TRUE], u, Begun(breaker[u]))
    /\ UNCHANGED streak

(* It is rejected.                                                         *)
Reject(r, u, v) ==
    /\ Rejects(breaker[u])
    /\ BreakerBecomes(u, Current(breaker[u]))
    /\ req' = Requested(r, v, u, Current(breaker[u]))
    /\ UNCHANGED streak

(* Mutant: results of an earlier generation count too.                     *)
CountsOfOldCalls(r, u) == Current(breaker[u]) = breaker[u]

(* The call returns, and the request goes on as v.                         *)
Counts(r, u) == req[r].counted /\ Current(breaker[u]) = breaker[u]

Return(r, u, ok, v) ==
    LET b == IF ~Counts(r, u) THEN Current(breaker[u])
             ELSE IF ok THEN Succeeded(breaker[u]) ELSE Failed(breaker[u])
    IN /\ BreakerBecomes(u, b)
       /\ req' = Requested(r, v, u, b)
       /\ streak' = [streak EXCEPT ![u] = IF ok /\ Counts(r, u) THEN 0
                                          ELSE IF ~ok /\ @ < Trip THEN @ + 1 ELSE @]

-----------------------------------------------------------------------------
At(r, pc) == [req[r] EXCEPT !.pc = pc, !.counted = FALSE]

Goes(r, v) == req' = [req EXCEPT ![r] = v] /\ UNCHANGED <<breaker, streak>>

(* A request with traits: the lineage is asked for similar queens, and the *)
(* generation goes on whether it answers or not.                           *)
Start(r) == /\ Over(r)
            /\ Goes(r, [Idle EXCEPT !.pc = "asking"])

(* The client goes away: its context is cancelled.                         *)
Disconnect(r) == /\ ~Over(r) /\ ~req[r].gone
                 /\ Goes(r, [req[r] EXCEPT !.gone = TRUE])

(* limiter.Wait with a cancelled context                                   *)
GiveUp(r) == /\ req[r].pc \in {"asking", "drawing"} /\ req[r].gone
             /\ Goes(r, Error)

AskGemini(r) == /\ req[r].pc = "asking" /\ ~req[r].gone
                /\ Begin(r, "gemini", "handshake")

(* Whatever the breaker's error, the request is over.                      *)
GeminiRejected(r) == /\ req[r].pc = "asking" /\ ~req[r].gone
                     /\ Reject(r, "gemini", Error)

(* The answer's status is 200, or not, or there is none.                   *)
Handshake(r) ==
    /\ req[r].pc = "handshake"
    /\ \/ Return(r, "gemini", TRUE, At(r, "streaming"))
       \/ Return(r, "gemini", FALSE, Error)

(* A line with text, which is accumulated and written to the client, in    *)
(* vain if need be.  A line that is malformed, and a last one that breaks  *)
(* off, are passed over and leave no trace.                                *)
Chunk(r) ==
    /\ req[r].pc = "streaming"
    /\ Goes(r, [req[r] EXCEPT !.text = "some"])

(* The stream ends, and what it left, if anything, is valid JSON of a      *)
(* valid persona or is not, whatever lines are missing in it; or it is     *)
(* broken off or cancelled.  The breaker learns of none of this.           *)
EndStream(r) ==
    /\ req[r].pc = "streaming"
    /\ \/ req[r].text = "some" /\ Goes(r, At(r, "drawing"))
       \/ Goes(r, Error)

AskFal(r) == /\ req[r].pc = "drawing" /\ ~req[r].gone
             /\ Begin(r, "fal", "posting")

(* ErrOpenState ends the request; ErrTooManyRequests, of a half-open       *)
(* breaker, is taken for a connection that failed.                         *)
FalRejected(r) ==
    /\ req[r].pc = "drawing" /\ ~req[r].gone
    /\ \/ /\ Current(breaker["fal"]).state = "open"
          /\ Reject(r, "fal", Error)
       \/ /\ Current(breaker["fal"]).state = "half-open"
          /\ Reject(r, "fal", At(r, "sleeping"))

(* Mutant: every status but 200 an error of the call, as Gemini's client   *)
(* has it.                                                                 *)
FalRepliesRefusalFails(r) ==
    /\ req[r].pc = "posting"
    /\ \/ Return(r, "fal", TRUE, Image)
       \/ Return(r, "fal", FALSE, Error)
       \/ Return(r, "fal", FALSE, At(r, "sleeping"))

(* An image; or a status below 500 and no image, which is the end too; or  *)
(* a status to be retried, or no answer.                                   *)
FalReplies(r) ==
    /\ req[r].pc = "posting"
    /\ \/ Return(r, "fal", TRUE, Image)
       \/ Return(r, "fal", TRUE, Error)
       \/ Return(r, "fal", FALSE, At(r, "sleeping"))

(* Mutant: the loop never counts.                                          *)
RetryForEver(r) ==
    /\ req[r].pc = "sleeping"
    /\ IF req[r].gone THEN Goes(r, Error) ELSE Goes(r, At(r, "drawing"))

(* The backoff ends: the next attempt, or there is none; or the context is *)
(* cancelled meanwhile.                                                    *)
Retry(r) ==
    /\ req[r].pc = "sleeping"
    /\ \/ /\ req[r].gone
          /\ Goes(r, Error)
       \/ /\ req[r].attempt + 1 < Attempts
          /\ Goes(r, [At(r, "drawing") EXCEPT !.attempt = @ + 1])
       \/ /\ req[r].attempt + 1 >= Attempts
          /\ Goes(r, Error)

Tick == /\ breaker' = [u \in Upstreams |->
                         IF breaker[u].left \in 0 .. Never - 1
                         THEN [breaker[u] EXCEPT !.left = @ - 1]
                         ELSE breaker[u]]
        /\ UNCHANGED <<req, streak>>

Proceed(r) == \/ GiveUp(r)
              \/ AskGemini(r) \/ GeminiRejected(r) \/ Handshake(r) \/ EndStream(r)
              \/ AskFal(r) \/ FalRejected(r) \/ FalReplies(r) \/ Retry(r)

Next == (\E r \in Requests : Start(r) \/ Disconnect(r) \/ Chunk(r) \/ Proceed(r)) \/ Tick

Spec == Init /\ [][Next]_vars

(* Requests go on: calls have a timeout, limiters and backoffs end.  Time  *)
(* passes.                                                                 *)
FairSpec == Spec /\ WF_vars(Tick) /\ \A r \in Requests : WF_vars(Proceed(r))

-----------------------------------------------------------------------------
TypeOK ==
    /\ breaker \in [Upstreams -> [state : {"closed", "open", "half-open"},
                                  left : -1 .. Never,
                                  requests : 0 .. MaxRequests,
                                  fails : 0 .. Trip - 1,
                                  succs : 0 .. MaxRequests - 1]]
    /\ req \in [Requests -> [pc : {"idle", "asking", "handshake", "streaming", "drawing",
                                   "posting", "sleeping", "error", "image"},
                             attempt : 0 .. Attempts - 1,
                             counted : BOOLEAN,
                             gone : BOOLEAN,
                             text : {"none", "some"}]]
    /\ streak \in [Upstreams -> 0 .. Trip]

Counted(u) == {r \in Requests : Upstream(req[r].pc) = u /\ req[r].counted}

(* "Fails fast to prevent resource exhaustion during vendor outages": no   *)
(* call of the present generation is in flight to an upstream whose        *)
(* breaker is open, and while it is half open the probes in flight and     *)
(* those that succeeded are together no more than the settings allow,      *)
(* whichever requests sent them and in whatever order they return.  (Calls *)
(* in flight when the breaker opened are of another generation.)           *)
ProbesBounded ==
    \A u \in Upstreams :
        /\ breaker[u].state = "open" => Counted(u) = {}
        /\ breaker[u].state = "half-open" =>
               Cardinality(Counted(u)) + breaker[u].succs <= MaxRequests

(* Each breaker implements CircuitBreaker, seen as it will be when it is   *)
(* next looked at: a deadline that has passed has already had its effect,  *)
(* and the calls of the generation it ended count no more.                 *)
Now(u) == Current(breaker[u])
Calls(u) == IF Now(u) = breaker[u] THEN Counted(u) ELSE {}

Gemini == INSTANCE CircuitBreaker
              WITH Callers <- Requests, state <- Now("gemini").state, left <- Now("gemini").left,
                   calls <- Calls("gemini"), fails <- Now("gemini").fails,
                   passed <- Now("gemini").succs

Fal == INSTANCE CircuitBreaker
           WITH Callers <- Requests, state <- Now("fal").state, left <- Now("fal").left,
                calls <- Calls("fal"), fails <- Now("fal").fails, passed <- Now("fal").succs

(* Counting what begins is as good as knowing what is in flight, and lazy  *)
(* deadlines as good as timers: whatever the requests that share a breaker *)
(* do, it lets calls through, trips, forgets and recovers as one that      *)
(* knows, and no call of another generation has a say.                     *)
ImplementsBreaker == Gemini!Spec /\ Fal!Spec

(* A breaker that was closed opens only after failures in a row, of        *)
(* whichever requests: a success in between starts the count again, and a  *)
(* refusal by Fal.ai is one.  (Except the success of a call that began     *)
(* before the counts were last cleared.)                                   *)
TripsOnStreak ==
    [][\A u \in Upstreams : breaker[u].state = "closed" /\ breaker'[u].state = "open"
                            => streak'[u] >= Trip]_vars

(* Every request comes to its end, whatever becomes of the breakers it     *)
(* shares with the others.                                                 *)
RequestsEnd == \A r \in Requests : ~Over(r) ~> Over(r)

(* If from some time on no call to Fal.ai fails and images are asked for   *)
(* again and again, its breaker closes.                                    *)
FalFails == \E r \in Requests : req[r].pc = "posting" /\ req'[r].pc = "sleeping"

FalAsked ==
    \E r \in Requests : req[r].pc = "drawing" /\ ~req[r].gone /\ req'[r].pc # "drawing"

FalRecovers ==
    (<>[][~FalFails]_vars /\ []<><<FalAsked>>_vars)
        => <>[](breaker["fal"].state = "closed")
=============================================================================
