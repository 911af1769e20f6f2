---------------------------- MODULE PersonaProofs ----------------------------
(***************************************************************************)
(* Theorems about Persona, for every set of requests, number of attempts   *)
(* and settings of the breakers.                                           *)
(***************************************************************************)
EXTENDS Persona, FiniteSetTheorems, TLAPS

(* The parts of TypeOK.                                                    *)
Breakers == [state : {"closed", "open", "half-open"}, left : -1 .. Never,
             requests : 0 .. MaxRequests, fails : 0 .. Trip - 1, succs : 0 .. MaxRequests - 1]

Stages == {"idle", "asking", "handshake", "streaming", "drawing", "posting", "sleeping",
           "error", "image"}

Texts == {"none", "some"}

Reqs == [pc : Stages, attempt : 0 .. Attempts - 1, counted : BOOLEAN, gone : BOOLEAN, text : Texts]

Typed == /\ breaker \in [Upstreams -> Breakers]
         /\ req \in [Requests -> Reqs]
         /\ streak \in [Upstreams -> 0 .. Trip]

LEMMA TypedIsTypeOK == Typed <=> TypeOK
BY DEF Typed, TypeOK, Breakers, Reqs, Stages, Texts

-----------------------------------------------------------------------------
(* The breaker's operations on a breaker that is well typed.               *)

LEMMA FreshBreakers ==
    /\ Closed \in Breakers /\ Closed.state = "closed"
    /\ Opened \in Breakers /\ Opened.state = "open"
    /\ HalfOpen \in Breakers /\ HalfOpen.state = "half-open"
    /\ HalfOpen.requests = 0 /\ HalfOpen.succs = 0
<1>1. /\ Interval \in -1 .. Never /\ Timeout \in -1 .. Never /\ Never \in -1 .. Never
      /\ 0 \in 0 .. MaxRequests /\ 0 \in 0 .. Trip - 1 /\ 0 \in 0 .. MaxRequests - 1
  BY PersonaOK DEF Never
<1> QED
  BY <1>1 DEF Closed, Opened, HalfOpen, Fresh, Breakers

LEMMA CurrentBreaker ==
    ASSUME NEW b \in Breakers
    PROVE  /\ Current(b) \in Breakers
           /\ \/ Current(b) = b
              \/ Current(b) = Closed /\ b.state = "closed" /\ Expired(b)
              \/ Current(b) = HalfOpen /\ b.state = "open"
<1>1. b.state \in {"closed", "open", "half-open"}
  BY DEF Breakers
<1> QED
  BY <1>1, FreshBreakers DEF Current

(* What a breaker becomes when a call begins.                              *)
LEMMA BegunBreaker ==
    ASSUME NEW b \in Breakers, ~Rejects(b)
    PROVE  /\ Begun(b) \in Breakers
           /\ \/ Begun(b).state = "closed"
              \/ /\ Begun(b).state = "half-open" /\ Current(b).state = "half-open"
                 /\ Begun(b).requests = Current(b).requests + 1
                 /\ Begun(b).succs = Current(b).succs
<1>1. Current(b) \in Breakers /\ Current(b).state # "open"
  BY CurrentBreaker DEF Rejects
<1>2. CASE Current(b).state = "half-open"
  <2>1. Current(b).requests \in 0 .. MaxRequests - 1
    BY <1>1, <1>2, PersonaOK DEF Rejects, Breakers
  <2>2. Current(b).requests + 1 \in 0 .. MaxRequests
    BY <2>1, PersonaOK
  <2>3. Begun(b) = [Current(b) EXCEPT !.requests = @ + 1]
    BY <1>2 DEF Begun
  <2> QED
    BY <1>1, <1>2, <2>2, <2>3 DEF Breakers
<1>3. CASE Current(b).state = "closed"
  BY <1>1, <1>3 DEF Begun
<1> QED
  BY <1>1, <1>2, <1>3 DEF Breakers

(* A rejection changes nothing.                                            *)
LEMMA RejectingBreaker ==
    ASSUME NEW b \in Breakers, Rejects(b)
    PROVE  Current(b) = b
<1>1. CASE Current(b) = Closed
  BY <1>1, FreshBreakers DEF Rejects
<1>2. CASE Current(b) = HalfOpen
  BY <1>2, FreshBreakers, PersonaOK DEF Rejects
<1> QED
  BY <1>1, <1>2, CurrentBreaker

LEMMA SucceededBreaker ==
    ASSUME NEW b \in Breakers
    PROVE  /\ Succeeded(b) \in Breakers
           /\ b.state = "half-open" =>
                  \/ Succeeded(b).state = "closed"
                  \/ /\ Succeeded(b).state = "half-open"
                     /\ Succeeded(b).requests = b.requests
                     /\ Succeeded(b).succs = b.succs + 1
           /\ b.state = "closed" => Succeeded(b).state = "closed"
<1>1. 0 \in 0 .. Trip - 1
  BY PersonaOK
<1>2. CASE b.state = "closed"
  BY <1>1, <1>2 DEF Succeeded, Breakers
<1>3. CASE b.state # "closed" /\ b.succs + 1 >= MaxRequests
  BY <1>3, FreshBreakers DEF Succeeded
<1>4. CASE b.state # "closed" /\ ~(b.succs + 1 >= MaxRequests)
  <2>1. b.succs + 1 \in 0 .. MaxRequests - 1
    BY <1>4, PersonaOK DEF Breakers
  <2>2. Succeeded(b) = [b EXCEPT !.succs = @ + 1, !.fails = 0]
    BY <1>4 DEF Succeeded
  <2> QED
    BY <1>1, <1>4, <2>1, <2>2 DEF Breakers
<1> QED
  BY <1>2, <1>3, <1>4

LEMMA FailedBreaker ==
    ASSUME NEW b \in Breakers
    PROVE  /\ Failed(b) \in Breakers
           /\ Failed(b) = Opened \/ (b.state = "closed" /\ Failed(b).state = "closed")
<1>1. CASE b.state = "closed" /\ ~ReadyToTrip(b)
  <2>1. b.fails + 1 \in 0 .. Trip - 1
    BY <1>1, PersonaOK DEF ReadyToTrip, Breakers
  <2>2. Failed(b) = [b EXCEPT !.fails = @ + 1]
    BY <1>1 DEF Failed
  <2> QED
    BY <1>1, <2>1, <2>2 DEF Breakers
<1>2. CASE ~(b.state = "closed" /\ ~ReadyToTrip(b))
  BY <1>2, FreshBreakers DEF Failed
<1> QED
  BY <1>1, <1>2

(* Of the other requests only what counts can change.                      *)
LEMMA OtherRequests ==
    ASSUME Typed, NEW r \in Requests, NEW v \in Reqs, NEW u, NEW b, req' = Requested(r, v, u, b)
    PROVE  /\ req' \in [Requests -> Reqs]
           /\ req'[r] = v
           /\ \A q \in Requests \ {r} :
                  /\ req'[q].pc = req[q].pc
                  /\ req'[q].counted => req[q].counted
           /\ NewGeneration(u, b) =>
                  \A q \in Requests \ {r} : Upstream(req[q].pc) = u => ~req'[q].counted
BY DEF Typed, Requested, Reqs

-----------------------------------------------------------------------------
(* The four ways in which a request goes on.                               *)

LEMMA GoesTyped ==
    ASSUME Typed, NEW r \in Requests, NEW v \in Reqs, Goes(r, v)
    PROVE  Typed' /\ req'[r] = v /\ \A q \in Requests \ {r} : req'[q] = req[q]
BY DEF Typed, Goes

LEMMA BeginTyped ==
    ASSUME Typed, NEW r \in Requests, NEW u \in Upstreams, NEW p \in Stages, Begin(r, u, p)
    PROVE  /\ Typed'
           /\ req' = Requested(r, [req[r] EXCEPT !.pc = p, !.counted = TRUE], u, Begun(breaker[u]))
           /\ [req[r] EXCEPT !.pc = p, !.counted = TRUE] \in Reqs
<1>1. [req[r] EXCEPT !.pc = p, !.counted = TRUE] \in Reqs
  BY DEF Typed, Reqs
<1>2. breaker' \in [Upstreams -> Breakers]
  BY BegunBreaker DEF Typed, Begin, BreakerBecomes
<1>3. req' \in [Requests -> Reqs]
  BY <1>1, OtherRequests DEF Begin
<1> QED
  BY <1>1, <1>2, <1>3 DEF Typed, Begin

LEMMA RejectTyped ==
    ASSUME Typed, NEW r \in Requests, NEW u \in Upstreams, NEW v \in Reqs, Reject(r, u, v)
    PROVE  /\ Typed' /\ breaker' = breaker
           /\ req' = Requested(r, v, u, breaker[u])
<1>1. Current(breaker[u]) = breaker[u]
  BY RejectingBreaker DEF Typed, Reject
<1>2. req' = Requested(r, v, u, breaker[u]) /\ breaker' = breaker /\ streak' = streak
  BY <1>1 DEF Typed, Reject, BreakerBecomes
<1>3. req' \in [Requests -> Reqs]
  BY <1>2, OtherRequests
<1> QED
  BY <1>2, <1>3 DEF Typed

(* The breaker after a call that returned.                                 *)
Returned(r, u, ok) ==
    IF ~Counts(r, u) THEN Current(breaker[u])
    ELSE IF ok THEN Succeeded(breaker[u]) ELSE Failed(breaker[u])

LEMMA ReturnTyped ==
    ASSUME Typed, NEW r \in Requests, NEW u \in Upstreams, NEW ok \in BOOLEAN, NEW v \in Reqs,
           Return(r, u, ok, v)
    PROVE  /\ Typed'
           /\ breaker' = [breaker EXCEPT ![u] = Returned(r, u, ok)]
           /\ req' = Requested(r, v, u, Returned(r, u, ok))
<1>1. /\ breaker' = [breaker EXCEPT ![u] = Returned(r, u, ok)]
      /\ req' = Requested(r, v, u, Returned(r, u, ok))
      /\ streak' = [streak EXCEPT ![u] = IF ok /\ Counts(r, u) THEN 0
                                         ELSE IF ~ok /\ @ < Trip THEN @ + 1 ELSE @]
  BY DEF Return, BreakerBecomes, Returned
<1>2. breaker[u] \in Breakers
  BY DEF Typed
<1>3. Returned(r, u, ok) \in Breakers
  BY <1>2, CurrentBreaker, SucceededBreaker, FailedBreaker DEF Returned
<1>4. breaker' \in [Upstreams -> Breakers]
  BY <1>1, <1>3 DEF Typed
<1>5. req' \in [Requests -> Reqs]
  BY <1>1, OtherRequests
<1>6. streak' \in [Upstreams -> 0 .. Trip]
  <2>1. \A s \in 0 .. Trip : 0 \in 0 .. Trip /\ (s < Trip => s + 1 \in 0 .. Trip)
    BY PersonaOK
  <2> QED
    BY <1>1, <2>1 DEF Typed
<1> QED
  BY <1>1, <1>4, <1>5, <1>6 DEF Typed

(* The values that requests go on as.                                      *)
LEMMA Values ==
    ASSUME Typed, NEW r \in Requests
    PROVE  /\ Idle \in Reqs /\ Error \in Reqs /\ Image \in Reqs
           /\ \A p \in Stages : At(r, p) \in Reqs /\ At(r, p).pc = p
           /\ Error.pc = "error" /\ Image.pc = "image"
<1>1. Idle \in Reqs
  BY PersonaOK DEF Idle, Reqs, Stages, Texts
<1>2. Error \in Reqs /\ Error.pc = "error"
  BY <1>1 DEF Error, Reqs, Stages
<1>3. Image \in Reqs /\ Image.pc = "image"
  BY <1>1 DEF Image, Reqs, Stages
<1>4. \A p \in Stages : At(r, p) \in Reqs /\ At(r, p).pc = p
  BY DEF Typed, At, Reqs
<1> QED
  BY <1>1, <1>2, <1>3, <1>4

-----------------------------------------------------------------------------
(* Every action of a request is one of the four.                           *)

IsGoing(r) ==
    \E v \in Reqs : /\ Goes(r, v)
                    /\ \/ Upstream(v.pc) = "none" /\ Upstream(req[r].pc) = "none"
                       \/ v.pc = req[r].pc /\ v.counted = req[r].counted

IsBeginning(r) ==
    \E u \in Upstreams, p \in Stages :
        /\ Begin(r, u, p)
        /\ Upstream(req[r].pc) = "none" /\ Upstream(p) = u

IsRejected(r) ==
    \E u \in Upstreams, v \in Reqs :
        /\ Reject(r, u, v)
        /\ Upstream(req[r].pc) = "none" /\ Upstream(v.pc) = "none"

IsReturning(r) ==
    \E u \in Upstreams, ok \in BOOLEAN, v \in Reqs :
        /\ Return(r, u, ok, v)
        /\ Upstream(req[r].pc) = u /\ Upstream(v.pc) = "none"

Acts(r) == Start(r) \/ Disconnect(r) \/ Chunk(r) \/ Proceed(r)

LEMMA Kinds ==
    ASSUME Typed, NEW r \in Requests, Acts(r)
    PROVE  IsGoing(r) \/ IsBeginning(r) \/ IsRejected(r) \/ IsReturning(r)
<1> USE DEF Stages, Upstreams, Upstream
<1>1. CASE Start(r)
  <2>1. [Idle EXCEPT !.pc = "asking"] \in Reqs /\ [Idle EXCEPT !.pc = "asking"].pc = "asking"
    BY Values DEF Reqs, Idle
  <2> QED
    BY <1>1, <2>1 DEF Start, Over, IsGoing
<1>2. CASE Disconnect(r)
  <2> DEFINE v == [req[r] EXCEPT !.gone = TRUE]
  <2>1. v \in Reqs /\ v.pc = req[r].pc /\ v.counted = req[r].counted
    BY DEF Typed, Reqs
  <2>2. Goes(r, v)
    BY <1>2 DEF Disconnect
  <2> QED
    BY <2>1, <2>2 DEF IsGoing
<1>3. CASE Chunk(r)
  <2> DEFINE v == [req[r] EXCEPT !.text = "some"]
  <2>1. req[r].pc = "streaming" /\ Goes(r, v)
    BY <1>3 DEF Chunk
  <2>2. v \in Reqs /\ v.pc = "streaming"
    BY <2>1 DEF Typed, Reqs, Texts
  <2> QED
    BY <2>1, <2>2 DEF IsGoing
<1>4. CASE GiveUp(r)
  BY <1>4, Values DEF GiveUp, IsGoing
<1>5. CASE AskGemini(r)
  BY <1>5 DEF AskGemini, IsBeginning
<1>6. CASE GeminiRejected(r)
  BY <1>6, Values DEF GeminiRejected, IsRejected
<1>7. CASE Handshake(r)
  BY <1>7, Values DEF Handshake, IsReturning
<1>8. CASE EndStream(r)
  BY <1>8, Values DEF EndStream, IsGoing
<1>9. CASE AskFal(r)
  BY <1>9 DEF AskFal, IsBeginning
<1>10. CASE FalRejected(r)
  BY <1>10, Values DEF FalRejected, IsRejected
<1>11. CASE FalReplies(r)
  BY <1>11, Values DEF FalReplies, IsReturning
<1>12. CASE Retry(r)
  <2> DEFINE again == [At(r, "drawing") EXCEPT !.attempt = @ + 1]
  <2>0. req[r].pc = "sleeping"
    BY <1>12 DEF Retry
  <2>1. CASE Goes(r, Error)
    BY <2>0, <2>1, Values DEF IsGoing
  <2>2. CASE req[r].attempt + 1 < Attempts /\ Goes(r, again)
    <3>1. req[r].attempt + 1 \in 0 .. Attempts - 1
      BY <2>2, PersonaOK DEF Typed, Reqs
    <3>2. At(r, "drawing").attempt = req[r].attempt
      BY DEF Typed, Reqs, At
    <3>3. again \in Reqs /\ again.pc = "drawing"
      BY <3>1, <3>2, Values DEF Reqs
    <3> QED
      BY <2>0, <2>2, <3>3 DEF IsGoing
  <2> QED
    BY <1>12, <2>1, <2>2 DEF Retry
<1> QED
  BY <1>1, <1>2, <1>3, <1>4, <1>5, <1>6, <1>7, <1>8, <1>9, <1>10, <1>11, <1>12 DEF Acts, Proceed

-----------------------------------------------------------------------------
LEMMA InitTyped == Init => Typed
<1>1. 0 \in 0 .. Trip
  BY PersonaOK
<1>2. Idle \in Reqs
  BY PersonaOK DEF Idle, Reqs, Stages, Texts
<1> QED
  BY <1>1, <1>2, FreshBreakers DEF Init, Typed

LEMMA TickTyped ==
    ASSUME Typed, Tick
    PROVE  Typed' /\ req' = req /\ \A u \in Upstreams :
               /\ breaker'[u].state = breaker[u].state
               /\ breaker'[u].requests = breaker[u].requests
               /\ breaker'[u].succs = breaker[u].succs
<1>1. ASSUME NEW u \in Upstreams
      PROVE  /\ breaker'[u] \in Breakers
             /\ breaker'[u].state = breaker[u].state
             /\ breaker'[u].requests = breaker[u].requests
             /\ breaker'[u].succs = breaker[u].succs
  <2>1. \A n \in 0 .. Never - 1 : n - 1 \in -1 .. Never
    BY PersonaOK DEF Never
  <2> QED
    BY <2>1 DEF Typed, Tick, Breakers
<1> QED
  BY <1>1 DEF Typed, Tick

LEMMA StepTyped == Typed /\ [Next]_vars => Typed'
<1>1. ASSUME Typed, NEW r \in Requests, Acts(r) PROVE Typed'
  BY <1>1, Kinds, GoesTyped, BeginTyped, RejectTyped, ReturnTyped
     DEF IsGoing, IsBeginning, IsRejected, IsReturning
<1>2. ASSUME Typed, UNCHANGED vars PROVE Typed'
  BY <1>2 DEF Typed, vars
<1> QED
  BY <1>1, <1>2, TickTyped DEF Next, Acts

(* Breakers and requests are what they are: no count of a breaker exceeds  *)
(* its settings and no request its attempts.                               *)
THEOREM TypeCorrect == Spec => []TypeOK
BY InitTyped, StepTyped, TypedIsTypeOK, PTL DEF Spec

-----------------------------------------------------------------------------
(* Probes: while a breaker is half open those in flight and those that     *)
(* succeeded are among the requests it has counted, and it lets no more    *)
(* begin than it may count.                                                *)

Probing(u) ==
    /\ breaker[u].state = "open" => Counted(u) = {}
    /\ breaker[u].state = "half-open" =>
           /\ IsFiniteSet(Counted(u))
           /\ Cardinality(Counted(u)) + breaker[u].succs <= breaker[u].requests

AllProbing == \A u \in Upstreams : Probing(u)

(* Fewer calls count, of a breaker that stays as it is.                    *)
LEMMA FewerProbing ==
    ASSUME Typed, Typed', NEW u \in Upstreams, Probing(u), Counted(u)' \subseteq Counted(u),
           breaker'[u].state = breaker[u].state,
           breaker'[u].requests = breaker[u].requests,
           breaker'[u].succs = breaker[u].succs
    PROVE  Probing(u)'
<1>1. CASE breaker[u].state = "half-open"
  <2>1. IsFiniteSet(Counted(u)) /\ Cardinality(Counted(u)) + breaker[u].succs <= breaker[u].requests
    BY <1>1 DEF Probing
  <2>2. /\ IsFiniteSet(Counted(u)')
        /\ Cardinality(Counted(u)') <= Cardinality(Counted(u))
    BY <2>1, FS_Subset
  <2>3. Cardinality(Counted(u)') \in Nat /\ Cardinality(Counted(u)) \in Nat
    BY <2>1, <2>2, FS_CardinalityType
  <2>4. breaker[u].succs \in Nat /\ breaker[u].requests \in Nat
    BY PersonaOK DEF Typed, Breakers
  <2> QED
    BY <1>1, <2>1, <2>2, <2>3, <2>4 DEF Probing
<1>2. CASE breaker[u].state # "half-open"
  BY <1>2 DEF Probing
<1> QED
  BY <1>1, <1>2

(* A breaker that is new, or whose generation begins with r alone.         *)
LEMMA NoneProbing ==
    ASSUME NEW u \in Upstreams, Typed', Counted(u)' = {}, breaker'[u].succs = 0
    PROVE  Probing(u)'
<1>1. IsFiniteSet({}) /\ Cardinality({}) = 0
  BY FS_EmptySet
<1>2. breaker'[u].requests \in Nat
  BY PersonaOK DEF Typed, Breakers
<1> QED
  BY <1>1, <1>2 DEF Probing

(* One call more, which the breaker has counted.                           *)
LEMMA BeginProbing ==
    ASSUME Typed, AllProbing, NEW r \in Requests, NEW u \in Upstreams, Typed',
           ~Rejects(breaker[u]), breaker'[u] = Begun(breaker[u]),
           Counted(u)' \subseteq Counted(u) \cup {r}
    PROVE  Probing(u)'
<1>1. breaker[u] \in Breakers
  BY DEF Typed
<1>2. CASE Begun(breaker[u]).state = "closed"
  BY <1>2 DEF Probing
<1>3. CASE /\ Begun(breaker[u]).state = "half-open" /\ Current(breaker[u]).state = "half-open"
           /\ Begun(breaker[u]).requests = Current(breaker[u]).requests + 1
           /\ Begun(breaker[u]).succs = Current(breaker[u]).succs
  <2>1. /\ IsFiniteSet(Counted(u))
        /\ Cardinality(Counted(u)) + Current(breaker[u]).succs <= Current(breaker[u]).requests
    <3>1. CASE Current(breaker[u]) = breaker[u]
      BY <1>3, <3>1 DEF AllProbing, Probing
    <3>2. CASE Current(breaker[u]) = HalfOpen /\ breaker[u].state = "open"
      <4>1. Counted(u) = {}
        BY <3>2 DEF AllProbing, Probing
      <4> QED
        BY <3>2, <4>1, FreshBreakers, FS_EmptySet
    <3> QED
      BY <1>1, <1>3, <3>1, <3>2, CurrentBreaker, FreshBreakers
  <2>2. /\ IsFiniteSet(Counted(u) \cup {r})
        /\ Cardinality(Counted(u) \cup {r}) \in {Cardinality(Counted(u)), Cardinality(Counted(u)) + 1}
    BY <2>1, FS_AddElement
  <2>3. /\ IsFiniteSet(Counted(u)')
        /\ Cardinality(Counted(u)') <= Cardinality(Counted(u) \cup {r})
    BY <2>2, FS_Subset
  <2>4. Cardinality(Counted(u)) \in Nat /\ Cardinality(Counted(u)') \in Nat
    BY <2>1, <2>3, FS_CardinalityType
  <2>5. Current(breaker[u]).requests \in Nat /\ Current(breaker[u]).succs \in Nat
    BY <1>1, CurrentBreaker, PersonaOK DEF Breakers
  <2> QED
    BY <1>3, <2>1, <2>2, <2>3, <2>4, <2>5 DEF Probing
<1> QED
  BY <1>1, <1>2, <1>3, BegunBreaker

(* A call that returns is one the less, and counts as a success, or opens  *)
(* the breaker and with it the next generation, or counts no more.         *)
LEMMA ReturnProbing ==
    ASSUME Typed, AllProbing, NEW r \in Requests, NEW u \in Upstreams, NEW ok \in BOOLEAN,
           Typed', Upstream(req[r].pc) = u, breaker'[u] = Returned(r, u, ok),
           Counted(u)' \subseteq Counted(u) \ {r},
           NewGeneration(u, Returned(r, u, ok)) => Counted(u)' = {}
    PROVE  Probing(u)'
<1>1. breaker[u] \in Breakers /\ breaker[u].state \in {"closed", "open", "half-open"}
  BY DEF Typed, Breakers
<1>2. CASE ~Counts(r, u)
  <2>1. breaker'[u] = Current(breaker[u])
    BY <1>2 DEF Returned
  <2>2. CASE Current(breaker[u]) = breaker[u]
    BY <2>1, <2>2, FewerProbing DEF AllProbing
  <2>3. CASE Current(breaker[u]) = Closed
    BY <2>1, <2>3, FreshBreakers DEF Probing
  <2>4. CASE Current(breaker[u]) = HalfOpen /\ breaker[u].state = "open"
    <3>1. Counted(u)' = {}
      BY <2>4 DEF AllProbing, Probing
    <3> QED
      BY <2>1, <2>4, <3>1, FreshBreakers, NoneProbing
  <2> QED
    BY <1>1, <2>2, <2>3, <2>4, CurrentBreaker
<1>3. CASE Counts(r, u)
  <2>1. r \in Counted(u)
    BY <1>3 DEF Counts, Counted
  <2>2. breaker[u].state \in {"closed", "half-open"}
    BY <1>1, <2>1 DEF AllProbing, Probing
  <2>3. CASE ok
    <3>1. breaker'[u] = Succeeded(breaker[u])
      BY <1>3, <2>3 DEF Returned
    <3>2. CASE Succeeded(breaker[u]).state = "closed"
      BY <3>1, <3>2 DEF Probing
    <3>3. CASE /\ breaker[u].state = "half-open"
               /\ Succeeded(breaker[u]).state = "half-open"
               /\ Succeeded(breaker[u]).requests = breaker[u].requests
               /\ Succeeded(breaker[u]).succs = breaker[u].succs + 1
      <4>1. /\ IsFiniteSet(Counted(u))
            /\ Cardinality(Counted(u)) + breaker[u].succs <= breaker[u].requests
        BY <3>3 DEF AllProbing, Probing
      <4>2. /\ IsFiniteSet(Counted(u) \ {r})
            /\ Cardinality(Counted(u) \ {r}) = Cardinality(Counted(u)) - 1
        BY <2>1, <4>1, FS_RemoveElement
      <4>3. /\ IsFiniteSet(Counted(u)')
            /\ Cardinality(Counted(u)') <= Cardinality(Counted(u) \ {r})
        BY <4>2, FS_Subset
      <4>4. Cardinality(Counted(u)) \in Nat /\ Cardinality(Counted(u)') \in Nat
        BY <4>1, <4>3, FS_CardinalityType
      <4>5. breaker[u].requests \in Nat /\ breaker[u].succs \in Nat
        BY <1>1, PersonaOK DEF Breakers
      <4> QED
        BY <3>1, <3>3, <4>1, <4>2, <4>3, <4>4, <4>5 DEF Probing
    <3> QED
      BY <1>1, <2>2, <3>2, <3>3, SucceededBreaker
  <2>4. CASE ~ok
    <3>1. Returned(r, u, ok) = Failed(breaker[u])
      BY <1>3, <2>4 DEF Returned
    <3>2. CASE Failed(breaker[u]) = Opened
      <4>1. NewGeneration(u, Opened)
        BY <2>2, FreshBreakers DEF NewGeneration
      <4>2. Counted(u)' = {}
        BY <3>1, <3>2, <4>1
      <4> QED
        BY <3>1, <3>2, <4>2, FreshBreakers DEF Probing
    <3>3. CASE Failed(breaker[u]).state = "closed"
      BY <3>1, <3>3 DEF Probing
    <3> QED
      BY <1>1, <3>2, <3>3, FailedBreaker
  <2> QED
    BY <2>3, <2>4
<1> QED
  BY <1>2, <1>3

LEMMA ActsKeepProbing ==
    ASSUME Typed, AllProbing, NEW r \in Requests, Acts(r)
    PROVE  AllProbing'
<1> SUFFICES ASSUME NEW w \in Upstreams PROVE Probing(w)'
  BY DEF AllProbing
<1>0. Typed' /\ Probing(w) /\ w # "none"
  BY StepTyped DEF Next, Acts, AllProbing, Upstreams
<1>1. CASE IsGoing(r)
  <2>1. PICK v \in Reqs : /\ Goes(r, v)
                          /\ \/ Upstream(v.pc) = "none"
                             \/ v.pc = req[r].pc /\ v.counted = req[r].counted
    BY <1>1 DEF IsGoing
  <2>2. breaker' = breaker /\ req'[r] = v /\ \A q \in Requests \ {r} : req'[q] = req[q]
    BY <2>1, GoesTyped DEF Goes
  <2>3. Counted(w)' \subseteq Counted(w)
    BY <1>0, <2>1, <2>2 DEF Counted
  <2> QED
    BY <1>0, <2>2, <2>3, FewerProbing
<1>2. CASE IsBeginning(r)
  <2>1. PICK u \in Upstreams, p \in Stages : Begin(r, u, p) /\ Upstream(p) = u
    BY <1>2 DEF IsBeginning
  <2> DEFINE v == [req[r] EXCEPT !.pc = p, !.counted = TRUE]
  <2>2. v \in Reqs /\ req' = Requested(r, v, u, Begun(breaker[u]))
    BY <2>1, BeginTyped
  <2>3. v.pc = p
    BY DEF Typed, Reqs
  <2>4. /\ req'[r] = v
        /\ \A q \in Requests \ {r} : req'[q].pc = req[q].pc /\ (req'[q].counted => req[q].counted)
    BY <2>2, OtherRequests
  <2>5. breaker' = [breaker EXCEPT ![u] = Begun(breaker[u])] /\ ~Rejects(breaker[u])
    BY <2>1 DEF Begin, BreakerBecomes
  <2>6. CASE w = u
    <3>1. Counted(u)' \subseteq Counted(u) \cup {r}
      BY <2>4 DEF Counted
    <3>2. breaker'[u] = Begun(breaker[u])
      BY <2>5 DEF Typed
    <3> QED
      BY <1>0, <2>5, <2>6, <3>1, <3>2, BeginProbing
  <2>7. CASE w # u
    <3>1. Counted(w)' \subseteq Counted(w)
      BY <2>1, <2>3, <2>4, <2>7 DEF Counted
    <3>2. breaker'[w] = breaker[w]
      BY <2>5, <2>7 DEF Typed
    <3> QED
      BY <1>0, <3>1, <3>2, FewerProbing
  <2> QED
    BY <2>6, <2>7
<1>3. CASE IsRejected(r)
  <2>1. PICK u \in Upstreams, v \in Reqs : Reject(r, u, v) /\ Upstream(v.pc) = "none"
    BY <1>3 DEF IsRejected
  <2>2. breaker' = breaker /\ req' = Requested(r, v, u, breaker[u])
    BY <2>1, RejectTyped
  <2>3. /\ req'[r] = v
        /\ \A q \in Requests \ {r} : req'[q].pc = req[q].pc /\ (req'[q].counted => req[q].counted)
    BY <2>2, OtherRequests
  <2>4. Counted(w)' \subseteq Counted(w)
    BY <1>0, <2>1, <2>3 DEF Counted
  <2> QED
    BY <1>0, <2>2, <2>4, FewerProbing
<1>4. CASE IsReturning(r)
  <2>1. PICK u \in Upstreams, ok \in BOOLEAN, v \in Reqs :
            Return(r, u, ok, v) /\ Upstream(req[r].pc) = u /\ Upstream(v.pc) = "none"
    BY <1>4 DEF IsReturning
  <2> DEFINE b == Returned(r, u, ok)
  <2>2. breaker' = [breaker EXCEPT ![u] = b] /\ req' = Requested(r, v, u, b)
    BY <2>1, ReturnTyped
  <2> HIDE DEF b
  <2>3. /\ req'[r] = v
        /\ \A q \in Requests \ {r} : req'[q].pc = req[q].pc /\ (req'[q].counted => req[q].counted)
    BY <2>2, OtherRequests
  <2>4. NewGeneration(u, b) =>
            \A q \in Requests \ {r} : Upstream(req[q].pc) = u => ~req'[q].counted
    <3>1. req' = Requested(r, v, u, b)
      BY <2>2
    <3> QED
      BY <3>1, OtherRequests
  <2>5. Counted(w)' \subseteq Counted(w) \ {r}
    BY <1>0, <2>1, <2>3 DEF Counted
  <2>6. CASE w = u
    <3>1. NewGeneration(u, b) => Counted(u)' = {}
      BY <1>0, <2>1, <2>3, <2>4, <2>6 DEF Counted
    <3>2. breaker'[u] = b
      BY <2>2 DEF Typed
    <3> QED
      BY <1>0, <2>1, <2>5, <2>6, <3>1, <3>2, ReturnProbing DEF b
  <2>7. CASE w # u
    <3>1. breaker'[w] = breaker[w]
      BY <2>2, <2>7 DEF Typed
    <3> QED
      BY <1>0, <2>5, <3>1, FewerProbing
  <2> QED
    BY <2>6, <2>7
<1> QED
  BY <1>1, <1>2, <1>3, <1>4, Kinds

LEMMA StepProbing == Typed /\ AllProbing /\ [Next]_vars => AllProbing'
<1>1. ASSUME Typed, AllProbing, Tick PROVE AllProbing'
  BY <1>1, TickTyped, FewerProbing DEF AllProbing, Counted
<1>2. ASSUME Typed, AllProbing, UNCHANGED vars PROVE AllProbing'
  BY <1>2 DEF AllProbing, Probing, Counted, vars
<1> QED
  BY <1>1, <1>2, ActsKeepProbing DEF Next, Acts

(* A breaker lets no more probes begin than its settings allow, in flight  *)
(* or come back, and none while it is open.                                *)
THEOREM ProbesAreBounded == Spec => []ProbesBounded
<1>1. Init => AllProbing
  BY FreshBreakers DEF Init, AllProbing, Probing
<1>2. Typed /\ AllProbing => ProbesBounded
  <2> SUFFICES ASSUME Typed, AllProbing, NEW u \in Upstreams, breaker[u].state = "half-open"
               PROVE  Cardinality(Counted(u)) + breaker[u].succs <= MaxRequests
    BY DEF ProbesBounded, AllProbing, Probing
  <2>1. /\ IsFiniteSet(Counted(u))
        /\ Cardinality(Counted(u)) + breaker[u].succs <= breaker[u].requests
    BY DEF AllProbing, Probing
  <2>2. Cardinality(Counted(u)) \in Nat
    BY <2>1, FS_CardinalityType
  <2>3. breaker[u].requests \in 0 .. MaxRequests /\ breaker[u].succs \in 0 .. MaxRequests - 1
    BY DEF Typed, Breakers
  <2> QED
    BY <2>1, <2>2, <2>3, PersonaOK
<1> QED
  BY <1>1, <1>2, InitTyped, StepTyped, StepProbing, PTL DEF Spec

-----------------------------------------------------------------------------
(* Streaks: a breaker has counted no more failures than there were in a    *)
(* row, and one that is closed opens at the failure that makes them Trip.  *)

Behind(u) == breaker[u].fails <= streak[u]

AllBehind == \A u \in Upstreams : Behind(u)

OpensLate(u) == breaker[u].state = "closed" /\ breaker'[u].state = "open" => streak'[u] >= Trip

(* A breaker that begins anew has counted nothing.                         *)
LEMMA FreshFails == Closed.fails = 0 /\ Opened.fails = 0 /\ HalfOpen.fails = 0
BY DEF Closed, Opened, HalfOpen, Fresh

LEMMA CurrentFails ==
    ASSUME NEW b \in Breakers
    PROVE  /\ Current(b).fails \in {0, b.fails} /\ Begun(b).fails = Current(b).fails
           /\ b.state = "closed" => Current(b).state = "closed" /\ Begun(b).state = "closed"
<1>1. /\ Current(b) \in Breakers
      /\ \/ Current(b) = b
         \/ Current(b) = Closed /\ b.state = "closed"
         \/ Current(b) = HalfOpen /\ b.state = "open"
  BY CurrentBreaker
<1>2. Begun(b).fails = Current(b).fails /\ Begun(b).state = Current(b).state
  BY <1>1 DEF Begun, Breakers
<1> QED
  BY <1>1, <1>2, FreshFails, FreshBreakers

LEMMA SucceededFails ==
    ASSUME NEW b \in Breakers
    PROVE  Succeeded(b).fails = 0 /\ (b.state = "closed" => Succeeded(b).state = "closed")
BY FreshFails, SucceededBreaker DEF Succeeded, Breakers

LEMMA FailedFails ==
    ASSUME NEW b \in Breakers
    PROVE  \/ Failed(b).fails = b.fails + 1 /\ Failed(b).state = "closed" /\ b.fails + 1 < Trip
           \/ Failed(b).fails = 0 /\ (b.state = "closed" => b.fails + 1 >= Trip)
<1>1. CASE b.state = "closed" /\ ~ReadyToTrip(b)
  <2>1. b.fails + 1 < Trip
    BY <1>1, PersonaOK DEF ReadyToTrip, Breakers
  <2> QED
    BY <1>1, <2>1 DEF Failed, Breakers
<1>2. CASE ~(b.state = "closed" /\ ~ReadyToTrip(b))
  BY <1>2, FreshFails DEF Failed, ReadyToTrip
<1> QED
  BY <1>1, <1>2

(* A call returns: it ends the streak, or is one failure more, which its   *)
(* breaker counts at most.                                                 *)
LEMMA ReturnBehind ==
    ASSUME Typed, AllBehind, NEW r \in Requests, NEW u \in Upstreams, NEW ok \in BOOLEAN,
           NEW v, Return(r, u, ok, v)
    PROVE  /\ Behind(u)' /\ OpensLate(u)
           /\ \A w \in Upstreams \ {u} : breaker'[w] = breaker[w] /\ streak'[w] = streak[w]
<1> DEFINE b == breaker[u]
           s == streak[u]
<1>1. b \in Breakers /\ b.fails \in Nat /\ s \in 0 .. Trip /\ b.fails <= s
  BY PersonaOK DEF Typed, Breakers, AllBehind, Behind
<1>2. /\ breaker' = [breaker EXCEPT ![u] = Returned(r, u, ok)]
      /\ streak' = [streak EXCEPT ![u] = IF ok /\ Counts(r, u) THEN 0
                                         ELSE IF ~ok /\ @ < Trip THEN @ + 1 ELSE @]
  BY DEF Return, BreakerBecomes, Returned
<1>3. /\ breaker'[u] = Returned(r, u, ok)
      /\ streak'[u] = IF ok /\ Counts(r, u) THEN 0 ELSE IF ~ok /\ s < Trip THEN s + 1 ELSE s
      /\ \A w \in Upstreams \ {u} : breaker'[w] = breaker[w] /\ streak'[w] = streak[w]
  BY <1>2 DEF Typed
<1>4. CASE ~Counts(r, u)
  <2>1. breaker'[u] = Current(b)
    BY <1>3, <1>4 DEF Returned
  <2>2. /\ breaker'[u].fails \in {0, b.fails}
        /\ b.state = "closed" => breaker'[u].state = "closed"
    BY <1>1, <2>1, CurrentFails
  <2>3. streak'[u] \in {s, s + 1}
    BY <1>3, <1>4
  <2> QED
    BY <1>1, <1>3, <2>2, <2>3 DEF Behind, OpensLate
<1>5. CASE Counts(r, u) /\ ok
  <2>1. breaker'[u] = Succeeded(b) /\ streak'[u] = 0
    BY <1>3, <1>5 DEF Returned
  <2>2. /\ breaker'[u].fails = 0
        /\ b.state = "closed" => breaker'[u].state = "closed"
    BY <1>1, <2>1, SucceededFails
  <2> QED
    BY <1>3, <2>1, <2>2 DEF Behind, OpensLate
<1>6. CASE Counts(r, u) /\ ~ok
  <2>1. breaker'[u] = Failed(b) /\ streak'[u] = IF s < Trip THEN s + 1 ELSE s
    BY <1>3, <1>6 DEF Returned
  <2>2. \/ /\ breaker'[u].fails = b.fails + 1 /\ b.fails + 1 < Trip
           /\ breaker'[u].state = "closed"
        \/ breaker'[u].fails = 0 /\ (b.state = "closed" => b.fails + 1 >= Trip)
    BY <1>1, <2>1, FailedFails
  <2> QED
    BY <1>1, <1>3, <2>1, <2>2, PersonaOK DEF Behind, OpensLate
<1> QED
  BY <1>4, <1>5, <1>6

LEMMA ActsBehind ==
    ASSUME Typed, AllBehind, NEW r \in Requests, Acts(r), NEW w \in Upstreams
    PROVE  Behind(w)' /\ OpensLate(w)
<1>1. Behind(w) /\ breaker[w] \in Breakers /\ streak[w] \in 0 .. Trip
  BY DEF AllBehind, Typed
<1>2. ASSUME breaker'[w] = breaker[w], streak'[w] = streak[w] PROVE Behind(w)' /\ OpensLate(w)
  BY <1>1, <1>2 DEF Behind, OpensLate
<1>3. CASE IsGoing(r)
  BY <1>2, <1>3 DEF IsGoing, Goes
<1>4. CASE IsBeginning(r)
  <2>1. PICK u \in Upstreams, p \in Stages : Begin(r, u, p)
    BY <1>4 DEF IsBeginning
  <2>2. breaker' = [breaker EXCEPT ![u] = Begun(breaker[u])] /\ streak' = streak
    BY <2>1 DEF Begin, BreakerBecomes
  <2>3. CASE w # u
    BY <1>2, <2>2, <2>3 DEF Typed
  <2>4. CASE w = u
    <3>1. breaker'[w] = Begun(breaker[w]) /\ streak'[w] = streak[w]
      BY <2>2, <2>4 DEF Typed
    <3>2. /\ breaker'[w].fails \in {0, breaker[w].fails}
          /\ breaker[w].state = "closed" => breaker'[w].state = "closed"
      BY <1>1, <3>1, CurrentFails
    <3> QED
      BY <1>1, <3>1, <3>2 DEF Behind, OpensLate
  <2> QED
    BY <2>3, <2>4
<1>5. CASE IsRejected(r)
  BY <1>2, <1>5, RejectTyped DEF IsRejected, Reject
<1>6. CASE IsReturning(r)
  <2>1. PICK u \in Upstreams, ok \in BOOLEAN, v \in Reqs : Return(r, u, ok, v)
    BY <1>6 DEF IsReturning
  <2> QED
    BY <1>2, <2>1, ReturnBehind
<1> QED
  BY <1>3, <1>4, <1>5, <1>6, Kinds

(* A closed breaker opens only at the last of Trip failures in a row, of   *)
(* whichever requests and whatever else happens between them.              *)
THEOREM TripsAfterStreak == Spec => TripsOnStreak
<1>1. Init => AllBehind
  BY FreshFails DEF Init, AllBehind, Behind
<1>2. ASSUME Typed, AllBehind, [Next]_vars
      PROVE  \A w \in Upstreams : Behind(w)' /\ OpensLate(w)
  <2> USE <1>2
  <2>1. CASE Tick
    <3>1. ASSUME NEW w \in Upstreams
          PROVE  /\ breaker'[w].fails = breaker[w].fails /\ breaker'[w].state = breaker[w].state
                 /\ streak'[w] = streak[w]
      BY <2>1 DEF Tick, Typed, Breakers
    <3> QED
      BY <3>1 DEF AllBehind, Behind, OpensLate
  <2>2. CASE UNCHANGED vars
    BY <2>2 DEF vars, AllBehind, Behind, OpensLate
  <2>3. ASSUME NEW r \in Requests, Acts(r)
        PROVE  \A w \in Upstreams : Behind(w)' /\ OpensLate(w)
    BY <2>3, ActsBehind
  <2> QED
    BY <2>1, <2>2, <2>3 DEF Next, Acts
<1>3. Typed /\ AllBehind /\ [Next]_vars => AllBehind'
  BY <1>2 DEF AllBehind
<1>4. Typed /\ AllBehind /\ [Next]_vars =>
          [\A u \in Upstreams : breaker[u].state = "closed" /\ breaker'[u].state = "open"
                                => streak'[u] >= Trip]_vars
  BY <1>2 DEF OpensLate
<1> QED
  BY <1>1, <1>3, <1>4, InitTyped, StepTyped, PTL DEF Spec, TripsOnStreak

-----------------------------------------------------------------------------
(* The refinement.  A half-open breaker has no deadline and any other has  *)
(* one; so a breaker is as it will be when it is next looked at exactly    *)
(* when its deadline has not passed.                                       *)
Timed(b) == /\ b.state = "half-open" => b.left = Never
            /\ b.state # "half-open" => b.left < Never

AllTimed == \A u \in Upstreams : Timed(breaker[u])

Abstract(u) ==
    INSTANCE CircuitBreaker
        WITH Callers <- Requests, state <- Now(u).state, left <- Now(u).left,
             calls <- Calls(u), fails <- Now(u).fails, passed <- Now(u).succs

(* The cardinality that an instance knows is the one of FiniteSets.        *)
LEMMA SameCardinality ==
    ASSUME NEW u, NEW S
    PROVE  /\ Abstract(u)!Cardinality(S) = Cardinality(S)
           /\ Gemini!Cardinality(S) = Cardinality(S)
           /\ Fal!Cardinality(S) = Cardinality(S)
BY DEF Abstract!Cardinality, Gemini!Cardinality, Fal!Cardinality, Cardinality

Shown(u) == <<Now(u).state, Now(u).left, Calls(u), Now(u).fails, Now(u).succs>>

LEMMA FreshTimed ==
    /\ Closed.left = Interval /\ Opened.left = Timeout /\ HalfOpen.left = Never
    /\ Closed.succs = 0 /\ Opened.succs = 0 /\ HalfOpen.succs = 0
    /\ Timed(Closed) /\ Timed(Opened) /\ Timed(HalfOpen)
    /\ ~Expired(Closed) /\ ~Expired(Opened) /\ ~Expired(HalfOpen)
<1>1. /\ Interval \in Nat /\ Timeout \in Nat /\ Never \in Nat
      /\ Interval < Never /\ Timeout < Never
  BY PersonaOK DEF Never
<1>2. /\ Closed.left = Interval /\ Opened.left = Timeout /\ HalfOpen.left = Never
      /\ Closed.succs = 0 /\ Opened.succs = 0 /\ HalfOpen.succs = 0
  BY DEF Closed, Opened, HalfOpen, Fresh
<1>3. Timed(Closed) /\ Timed(Opened) /\ Timed(HalfOpen)
  BY <1>1, <1>2, FreshBreakers DEF Timed
<1>4. ~Expired(Closed) /\ ~Expired(Opened) /\ ~Expired(HalfOpen)
  BY <1>1, <1>2 DEF Expired
<1> QED
  BY <1>2, <1>3, <1>4

LEMMA CurrentTimed ==
    ASSUME NEW b \in Breakers, Timed(b)
    PROVE  /\ Timed(Current(b)) /\ ~Expired(Current(b))
           /\ Current(b) = b <=> ~Expired(b)
           /\ Expired(b) => b.state # "half-open"
           /\ Expired(b) /\ b.state = "closed" => Current(b) = Closed
           /\ Expired(b) /\ b.state = "open" => Current(b) = HalfOpen
<1>1. b.state \in {"closed", "open", "half-open"} /\ Never \in Nat
  BY PersonaOK DEF Breakers, Never
<1>2. CASE ~Expired(b)
  BY <1>2 DEF Current
<1>3. CASE Expired(b)
  <2>1. b.state # "half-open"
    BY <1>1, <1>3 DEF Timed, Expired
  <2>2. \/ b.state = "closed" /\ Current(b) = Closed
        \/ b.state = "open" /\ Current(b) = HalfOpen
    BY <1>1, <1>3, <2>1 DEF Current
  <2> QED
    BY <1>3, <2>1, <2>2, FreshTimed, FreshBreakers
<1> QED
  BY <1>2, <1>3

(* What a breaker that was looked at and changed is seen as is itself.     *)
LEMMA SeenAsItIs ==
    ASSUME NEW u, ~Expired(breaker'[u])
    PROVE  Now(u)' = breaker'[u] /\ Calls(u)' = Counted(u)'
BY DEF Now, Calls, Current, Expired

LEMMA NotSeen ==
    ASSUME NEW u, breaker'[u] = breaker[u], Counted(u)' = Counted(u)
    PROVE  UNCHANGED Shown(u)
BY DEF Shown, Now, Calls

(* The calls that count when request r goes on as v.                       *)
LEMMA CountedAfter ==
    ASSUME Typed, NEW r \in Requests, NEW v \in Reqs, NEW u, NEW b,
           req' = Requested(r, v, u, b), NEW w
    PROVE  Counted(w)' = (IF w = u /\ NewGeneration(u, b) THEN {} ELSE Counted(w) \ {r})
                          \cup (IF Upstream(v.pc) = w /\ v.counted THEN {r} ELSE {})
<1>1. req'[r] = v
  BY DEF Requested
<1>2. ASSUME NEW q \in Requests \ {r}
      PROVE  q \in Counted(w)' <=> q \in Counted(w) /\ ~(w = u /\ NewGeneration(u, b))
  <2>1. req[q] \in Reqs
    BY DEF Typed
  <2>2. CASE NewGeneration(u, b) /\ Upstream(req[q].pc) = u
    <3>1. req'[q] = [req[q] EXCEPT !.counted = FALSE]
      BY <2>2 DEF Requested
    <3>2. req'[q].pc = req[q].pc /\ req'[q].counted = FALSE
      BY <2>1, <3>1 DEF Reqs
    <3> QED
      BY <2>2, <3>2 DEF Counted
  <2>3. CASE ~(NewGeneration(u, b) /\ Upstream(req[q].pc) = u)
    <3>1. req'[q] = req[q]
      BY <2>3 DEF Requested
    <3> QED
      BY <2>3, <3>1 DEF Counted
  <2> QED
    BY <2>2, <2>3
<1>3. r \in Counted(w)' <=> Upstream(v.pc) = w /\ v.counted
  BY <1>1 DEF Counted
<1>4. Counted(w) \subseteq Requests /\ Counted(w)' \subseteq Requests
  BY DEF Counted
<1> QED
  BY <1>2, <1>3, <1>4

(* A call begins, on a breaker that has counted no fewer than are in       *)
(* flight or came back.                                                    *)
LEMMA BeginIsAdmit ==
    ASSUME Typed, AllTimed, AllProbing, NEW r \in Requests, NEW u \in Upstreams, NEW p \in Stages,
           Begin(r, u, p), Upstream(req[r].pc) # u, Upstream(p) = u
    PROVE  Abstract(u)!Admit(r) /\ Timed(breaker'[u])
<1> DEFINE b == breaker[u]
           n == Current(b)
           v == [req[r] EXCEPT !.pc = p, !.counted = TRUE]
<1>1. b \in Breakers /\ Timed(b) /\ Probing(u)
  BY DEF Typed, AllTimed, AllProbing
<1>2. /\ breaker'[u] = Begun(b) /\ ~Rejects(b)
      /\ req' = Requested(r, v, u, Begun(b)) /\ v \in Reqs
  BY BeginTyped DEF Typed, Begin, BreakerBecomes
<1>3. v.pc = p /\ v.counted
  BY DEF Typed, Reqs
<1>4. /\ n \in Breakers /\ Timed(n) /\ ~Expired(n)
      /\ n = b <=> ~Expired(b)
  BY <1>1, CurrentBreaker, CurrentTimed
<1>5. /\ Begun(b).state = n.state /\ Begun(b).left = n.left
      /\ Begun(b).fails = n.fails /\ Begun(b).succs = n.succs
  BY <1>4 DEF Begun, Breakers
<1>6. Now(u)' = Begun(b) /\ Calls(u)' = Counted(u)' /\ Timed(breaker'[u])
  BY <1>2, <1>4, <1>5, SeenAsItIs DEF Timed, Expired
<1>7. NewGeneration(u, Begun(b)) <=> Expired(b)
  <2>1. CASE Expired(b)
    <3>1. \/ b.state = "closed" /\ n = Closed
          \/ b.state = "open" /\ n = HalfOpen
      BY <1>1, <2>1, CurrentTimed DEF Breakers
    <3>2. CASE b.state = "closed" /\ n = Closed
      BY <2>1, <3>2, FreshBreakers DEF Begun, NewGeneration
    <3>3. CASE b.state = "open" /\ n = HalfOpen
      BY <1>5, <2>1, <3>3, FreshBreakers DEF NewGeneration
    <3> QED
      BY <2>1, <3>1, <3>2, <3>3
  <2>2. CASE ~Expired(b)
    BY <1>4, <1>5, <2>2 DEF NewGeneration
  <2> QED
    BY <2>1, <2>2
<1>8. r \notin Counted(u)
  BY DEF Counted
<1>9. Calls(u)' = Calls(u) \cup {r} /\ r \notin Calls(u)
  <2>1. Counted(u)' = (IF Expired(b) THEN {} ELSE Counted(u) \ {r}) \cup {r}
    <3> HIDE DEF v
    <3>1. Counted(u)' = (IF u = u /\ NewGeneration(u, Begun(b)) THEN {} ELSE Counted(u) \ {r})
                         \cup (IF Upstream(v.pc) = u /\ v.counted THEN {r} ELSE {})
      BY <1>2, CountedAfter
    <3> QED
      BY <1>3, <1>7, <3>1
  <2>2. Calls(u) = IF Expired(b) THEN {} ELSE Counted(u)
    BY <1>4 DEF Calls, Now
  <2> QED
    BY <1>6, <1>8, <2>1, <2>2
<1>10. n.state # "open" /\ (n.state = "half-open" => Cardinality(Calls(u)) + n.succs < MaxRequests)
  <2>1. n.state # "open" /\ (n.state = "half-open" => n.requests < MaxRequests)
    BY <1>2, <1>4, PersonaOK DEF Rejects, Breakers
  <2>2. CASE n.state = "half-open" /\ Expired(b)
    <3>1. n = HalfOpen /\ Calls(u) = {}
      BY <1>1, <1>4, <2>2, CurrentTimed, FreshBreakers DEF Calls, Now, Breakers
    <3> QED
      BY <2>1, <3>1, FreshTimed, FS_EmptySet, PersonaOK
  <2>3. CASE n.state = "half-open" /\ ~Expired(b)
    <3>1. n = b /\ Calls(u) = Counted(u)
      BY <1>4, <2>3 DEF Calls, Now
    <3>2. IsFiniteSet(Calls(u)) /\ Cardinality(Calls(u)) + n.succs <= n.requests
      BY <1>1, <2>3, <3>1 DEF Probing
    <3>3. Cardinality(Calls(u)) \in Nat /\ n.succs \in Nat /\ n.requests \in Nat
      BY <1>4, <3>2, FS_CardinalityType, PersonaOK DEF Breakers
    <3> QED
      BY <2>1, <2>3, <3>2, <3>3, PersonaOK
  <2> QED
    BY <2>1, <2>2, <2>3
<1>11. /\ Now(u).state = n.state
       /\ Now(u)'.state = Now(u).state /\ Now(u)'.left = Now(u).left
       /\ Now(u)'.fails = Now(u).fails /\ Now(u)'.succs = Now(u).succs
       /\ Now(u).succs = n.succs
  BY <1>5, <1>6 DEF Now
<1> HIDE DEF n
<1> QED
  BY <1>6, <1>9, <1>10, <1>11, SameCardinality DEF Abstract!Admit

(* A call returns.                                                         *)
LEMMA ReturnIsResult ==
    ASSUME Typed, AllTimed, AllProbing, NEW r \in Requests, NEW u \in Upstreams,
           NEW ok \in BOOLEAN, NEW v \in Reqs,
           Return(r, u, ok, v), Upstream(req[r].pc) = u, Upstream(v.pc) # u
    PROVE  /\ Abstract(u)!Pass(r) \/ Abstract(u)!Fail(r) \/ UNCHANGED Shown(u)
           /\ Timed(breaker'[u])
<1> DEFINE b == breaker[u]
           n == Returned(r, u, ok)
<1>1. b \in Breakers /\ Timed(b) /\ Probing(u) /\ b.state \in {"closed", "open", "half-open"}
  BY DEF Typed, AllTimed, AllProbing, Breakers
<1>2. breaker'[u] = n /\ req' = Requested(r, v, u, n)
  BY ReturnTyped DEF Typed
<1>3. Counted(u)' = IF NewGeneration(u, n) THEN {} ELSE Counted(u) \ {r}
  <2> HIDE DEF n
  <2> QED
    BY <1>2, CountedAfter
<1>4. CASE Expired(b)
  <2>1. n = Current(b)
    BY <1>1, <1>4, CurrentTimed DEF Counts, Returned
  <2>2. ~Expired(n) /\ Timed(n) /\ NewGeneration(u, n)
    <3>1. \/ b.state = "closed" /\ n = Closed
          \/ b.state = "open" /\ n = HalfOpen
      BY <1>1, <1>4, <2>1, CurrentTimed
    <3> QED
      BY <1>4, <3>1, FreshTimed, FreshBreakers DEF NewGeneration
  <2>3. Now(u)' = n /\ Calls(u)' = {}
    BY <1>2, <1>3, <2>2, SeenAsItIs
  <2>4. Now(u) = n /\ Calls(u) = {}
    BY <1>1, <1>4, <2>1, CurrentTimed DEF Now, Calls
  <2> QED
    BY <1>2, <2>2, <2>3, <2>4 DEF Shown
<1>5. CASE ~Expired(b) /\ ~req[r].counted
  <2>1. n = b
    BY <1>1, <1>5, CurrentTimed DEF Counts, Returned
  <2>2. ~NewGeneration(u, n) /\ r \notin Counted(u)
    BY <1>5, <2>1 DEF NewGeneration, Counted
  <2> QED
    BY <1>1, <1>2, <1>3, <2>1, <2>2, NotSeen
<1>6. CASE ~Expired(b) /\ req[r].counted
  <2>1. Now(u) = b /\ Calls(u) = Counted(u) /\ Counts(r, u)
    BY <1>1, <1>6, CurrentTimed DEF Now, Calls, Counts
  <2>2. r \in Calls(u)
    BY <1>6, <2>1 DEF Counted
  <2>3. b.state \in {"closed", "half-open"}
    BY <1>1, <2>1, <2>2 DEF Probing
  <2>4. CASE n \in {Closed, Opened} /\ n.state # b.state
    <3>1. ~Expired(n) /\ Timed(n) /\ NewGeneration(u, n)
      BY <2>4, FreshTimed DEF NewGeneration
    <3>2. Now(u)' = n /\ Calls(u)' = {}
      BY <1>2, <1>3, <3>1, SeenAsItIs
    <3>3. /\ n = Closed => /\ b.state = "half-open" /\ b.succs + 1 >= MaxRequests
                           /\ Abstract(u)!Become("closed", Interval)
          /\ n = Opened => Abstract(u)!Become("open", Timeout)
      <4>1. n = Closed => b.state = "half-open" /\ b.succs + 1 >= MaxRequests
        BY <1>1, <2>1, <2>3, <2>4, FreshBreakers, FailedBreaker DEF Returned, Succeeded, Breakers
      <4>2. n.fails = 0 /\ n.succs = 0
        BY <2>4, FreshFails, FreshTimed
      <4> QED
        BY <3>2, <4>1, <4>2, FreshTimed, FreshBreakers DEF Abstract!Become
    <3>4. ASSUME n = Opened, b.state = "closed" PROVE b.fails + 1 >= Trip
      <4>1. ~ok
        BY <1>1, <2>1, <3>4, FreshBreakers, SucceededBreaker DEF Returned
      <4>2. Failed(b).state = "open"
        BY <2>1, <3>4, <4>1, FreshBreakers DEF Returned
      <4> QED
        BY <1>1, <3>4, <4>2 DEF Failed, ReadyToTrip, Breakers
    <3> QED
      BY <1>2, <2>1, <2>2, <2>3, <2>4, <3>1, <3>3, <3>4
         DEF Abstract!Pass, Abstract!Fail
  <2>5. CASE n.state = b.state /\ n.left = b.left
    <3>1. ~Expired(n) /\ Timed(n) /\ ~NewGeneration(u, n)
      BY <1>1, <1>6, <2>5 DEF NewGeneration, Expired, Timed
    <3>2. Now(u)' = n /\ Calls(u)' = Calls(u) \ {r}
      BY <1>2, <1>3, <2>1, <3>1, SeenAsItIs
    <3>3. \/ /\ b.state = "closed"
             /\ \/ n.fails = 0 /\ n.succs = b.succs
                \/ b.fails + 1 < Trip /\ n.fails = b.fails + 1 /\ n.succs = b.succs
          \/ /\ b.state = "half-open" /\ b.succs + 1 < MaxRequests
             /\ n.fails = 0 /\ n.succs = b.succs + 1
      <4>1. CASE ok
        <5>1. n = Succeeded(b)
          BY <2>1, <4>1 DEF Returned
        <5>2. CASE b.state = "closed"
          BY <1>1, <5>1, <5>2 DEF Succeeded, Breakers
        <5>3. CASE b.state = "half-open" /\ ~(b.succs + 1 >= MaxRequests)
          BY <1>1, <5>1, <5>3, PersonaOK DEF Succeeded, Breakers
        <5>4. CASE b.state = "half-open" /\ b.succs + 1 >= MaxRequests
          BY <2>5, <5>1, <5>4, FreshBreakers DEF Succeeded
        <5> QED
          BY <2>3, <5>2, <5>3, <5>4
      <4>2. CASE ~ok
        <5>1. n = Failed(b)
          BY <2>1, <4>2 DEF Returned
        <5>2. b.state = "closed" /\ ~ReadyToTrip(b)
          BY <2>3, <2>5, <5>1, FreshBreakers DEF Failed
        <5> QED
          BY <1>1, <5>1, <5>2, PersonaOK DEF Failed, ReadyToTrip, Breakers
      <4> QED
        BY <4>1, <4>2
    <3> QED
      BY <1>2, <2>1, <2>2, <2>5, <3>1, <3>2, <3>3 DEF Abstract!Pass, Abstract!Fail
  <2>6. \/ n \in {Closed, Opened} /\ n.state # b.state
        \/ n.state = b.state /\ n.left = b.left
    <3>1. CASE ok
      BY <1>1, <2>1, <2>3, <3>1, FreshBreakers DEF Returned, Succeeded, Breakers
    <3>2. CASE ~ok
      BY <1>1, <2>1, <2>3, <3>2, FreshBreakers DEF Returned, Failed, Breakers
    <3> QED
      BY <3>1, <3>2
  <2> QED
    BY <2>4, <2>5, <2>6
<1> QED
  BY <1>4, <1>5, <1>6

(* Every action of a request is for each breaker a call admitted, a result *)
(* or nothing.                                                             *)
LEMMA ActsRefine ==
    ASSUME Typed, AllTimed, AllProbing, NEW r \in Requests, Acts(r), NEW w \in Upstreams
    PROVE  /\ Abstract(w)!Admit(r) \/ Abstract(w)!Pass(r) \/ Abstract(w)!Fail(r)
                  \/ UNCHANGED Shown(w)
           /\ Timed(breaker'[w])
<1>1. Timed(breaker[w]) /\ w # "none"
  BY DEF AllTimed, Upstreams
<1>2. CASE IsGoing(r)
  <2>1. PICK v \in Reqs :
            /\ Goes(r, v)
            /\ \/ Upstream(v.pc) = "none" /\ Upstream(req[r].pc) = "none"
               \/ v.pc = req[r].pc /\ v.counted = req[r].counted
    BY <1>2 DEF IsGoing
  <2>2. breaker' = breaker /\ req'[r] = v /\ \A q \in Requests \ {r} : req'[q] = req[q]
    BY <2>1, GoesTyped DEF Goes
  <2>3. Counted(w)' = Counted(w)
    BY <1>1, <2>1, <2>2 DEF Counted
  <2> QED
    BY <1>1, <2>2, <2>3, NotSeen
<1>3. CASE IsBeginning(r)
  <2>1. PICK u \in Upstreams, p \in Stages :
            Begin(r, u, p) /\ Upstream(req[r].pc) = "none" /\ Upstream(p) = u
    BY <1>3 DEF IsBeginning
  <2>2. CASE w = u
    BY <1>1, <2>1, <2>2, BeginIsAdmit
  <2>3. CASE w # u
    <3> DEFINE v == [req[r] EXCEPT !.pc = p, !.counted = TRUE]
    <3>1. v \in Reqs /\ req' = Requested(r, v, u, Begun(breaker[u])) /\ breaker'[w] = breaker[w]
      BY <2>1, <2>3, BeginTyped DEF Begin, BreakerBecomes, Typed
    <3>2. Upstream(v.pc) # w /\ r \notin Counted(w)
      BY <1>1, <2>1, <2>3 DEF Typed, Reqs, Counted
    <3> HIDE DEF v
    <3>3. Counted(w)' = Counted(w) \ {r}
      BY <2>3, <3>1, <3>2, CountedAfter
    <3> QED
      BY <1>1, <3>1, <3>2, <3>3, NotSeen
  <2> QED
    BY <2>2, <2>3
<1>4. CASE IsRejected(r)
  <2>1. PICK u \in Upstreams, v \in Reqs :
            Reject(r, u, v) /\ Upstream(req[r].pc) = "none" /\ Upstream(v.pc) = "none"
    BY <1>4 DEF IsRejected
  <2>2. breaker' = breaker /\ req' = Requested(r, v, u, breaker[u])
    BY <2>1, RejectTyped
  <2>3. ~NewGeneration(u, breaker[u])
    BY FreshTimed DEF NewGeneration
  <2>4. Counted(w)' = Counted(w) \ {r}
    BY <1>1, <2>1, <2>2, <2>3, CountedAfter
  <2>5. r \notin Counted(w)
    BY <1>1, <2>1 DEF Counted
  <2> QED
    BY <1>1, <2>2, <2>4, <2>5, NotSeen
<1>5. CASE IsReturning(r)
  <2>1. PICK u \in Upstreams, ok \in BOOLEAN, v \in Reqs :
            Return(r, u, ok, v) /\ Upstream(req[r].pc) = u /\ Upstream(v.pc) = "none"
    BY <1>5 DEF IsReturning
  <2>2. CASE w = u
    BY <1>1, <2>1, <2>2, ReturnIsResult
  <2>3. CASE w # u
    <3>1. breaker'[w] = breaker[w] /\ req' = Requested(r, v, u, Returned(r, u, ok))
      BY <2>1, <2>3, ReturnTyped DEF Typed
    <3>2. Counted(w)' = Counted(w) \ {r}
      BY <1>1, <2>1, <2>3, <3>1, CountedAfter
    <3>3. r \notin Counted(w)
      BY <2>1, <2>3 DEF Counted
    <3> QED
      BY <1>1, <3>1, <3>2, <3>3, NotSeen
  <2> QED
    BY <2>2, <2>3
<1> QED
  BY <1>2, <1>3, <1>4, <1>5, Kinds

(* A tick is one of both timers, unless they are not running.              *)
LEMMA TickRefines ==
    ASSUME Typed, AllTimed, Tick, NEW w \in Upstreams
    PROVE  (Abstract(w)!Elapse \/ UNCHANGED Shown(w)) /\ Timed(breaker'[w])
<1> DEFINE b == breaker[w]
<1>1. b \in Breakers /\ Timed(b) /\ Never \in Nat
  BY PersonaOK DEF Typed, AllTimed, Never
<1>2. b.left \in -1 .. Never /\ b.state \in {"closed", "open", "half-open"}
  BY <1>1 DEF Breakers
<1>3. Counted(w)' = Counted(w)
  BY DEF Tick, Counted
<1>4. breaker'[w] = IF b.left \in 0 .. Never - 1 THEN [b EXCEPT !.left = b.left - 1] ELSE b
  BY DEF Tick
<1>5. CASE b.left \notin 0 .. Never - 1
  BY <1>1, <1>3, <1>4, <1>5, NotSeen
<1>6. CASE b.left \in 0 .. Never - 1
  <2>1. /\ breaker'[w].left = b.left - 1 /\ breaker'[w].state = b.state
        /\ breaker'[w].fails = b.fails /\ breaker'[w].succs = b.succs
        /\ breaker'[w] \in Breakers
    BY <1>1, <1>4, <1>6, TickTyped DEF Breakers, Typed
  <2>2. b.state # "half-open" /\ b.left < Never
    BY <1>1, <1>2, <1>6 DEF Timed
  <2>3. Timed(breaker'[w])
    BY <1>1, <1>2, <1>6, <2>1, <2>2 DEF Timed
  <2>4. Now(w) = b /\ Calls(w) = Counted(w)
    BY <1>1, <1>6, CurrentTimed DEF Now, Calls, Expired
  <2>5. CASE b.left > 0
    <3>1. Now(w)' = breaker'[w] /\ Calls(w)' = Calls(w)
      BY <1>2, <1>3, <2>1, <2>4, <2>5, SeenAsItIs DEF Expired
    <3> QED
      BY <2>1, <2>2, <2>3, <2>4, <2>5, <3>1 DEF Abstract!Elapse
  <2>6. CASE b.left = 0
    <3>1. Expired(breaker'[w]) /\ Current(breaker'[w]) # breaker'[w]
      BY <2>1, <2>3, <2>6, CurrentTimed DEF Expired
    <3>2. Calls(w)' = {} /\ Now(w)' = Current(breaker'[w])
      BY <3>1 DEF Calls, Now
    <3>3. CASE b.state = "closed"
      <4>1. Now(w)' = Closed
        BY <2>1, <2>3, <3>1, <3>2, <3>3, CurrentTimed
      <4> QED
        BY <2>3, <2>4, <2>6, <3>2, <3>3, <4>1, FreshTimed, FreshFails, FreshBreakers
           DEF Abstract!Elapse, Abstract!Become
    <3>4. CASE b.state = "open"
      <4>1. Now(w)' = HalfOpen
        BY <2>1, <2>3, <3>1, <3>2, <3>4, CurrentTimed
      <4> QED
        BY <2>3, <2>4, <2>6, <3>2, <3>4, <4>1, FreshTimed, FreshFails, FreshBreakers
           DEF Abstract!Elapse, Abstract!Become
    <3> QED
      BY <1>2, <2>2, <3>3, <3>4
  <2> QED
    BY <1>6, <2>5, <2>6
<1> QED
  BY <1>5, <1>6

LEMMA StepRefines ==
    ASSUME Typed, AllTimed, AllProbing, [Next]_vars
    PROVE  /\ \A w \in Upstreams : Abstract(w)!Next \/ UNCHANGED Shown(w)
           /\ AllTimed'
<1>1. CASE Tick
  BY <1>1, TickRefines DEF AllTimed, Abstract!Next
<1>2. ASSUME NEW r \in Requests, Acts(r)
      PROVE  /\ \A w \in Upstreams : Abstract(w)!Next \/ UNCHANGED Shown(w)
             /\ AllTimed'
  BY <1>2, ActsRefine DEF AllTimed, Abstract!Next
<1>3. CASE UNCHANGED vars
  BY <1>3, NotSeen DEF vars, Counted, AllTimed
<1> QED
  BY <1>1, <1>2, <1>3 DEF Next, Acts

LEMMA InitRefines == Init => Gemini!Init /\ Fal!Init /\ AllTimed
<1> SUFFICES ASSUME Init PROVE Gemini!Init /\ Fal!Init /\ AllTimed
  OBVIOUS
<1>1. ASSUME NEW u \in Upstreams PROVE Now(u) = Closed /\ Calls(u) = {} /\ Timed(breaker[u])
  <2>1. breaker[u] = Closed
    BY DEF Init
  <2>2. Counted(u) = {}
    BY DEF Init, Counted, Idle, Upstream, Upstreams
  <2> QED
    BY <2>1, <2>2, FreshTimed DEF Now, Calls, Current
<1>2. "gemini" \in Upstreams /\ "fal" \in Upstreams
  BY DEF Upstreams
<1> QED
  BY <1>1, <1>2, FreshTimed, FreshFails, FreshBreakers DEF Gemini!Init, Fal!Init, AllTimed

(* Each of the two breakers, which count what begins and look at their     *)
(* deadlines when somebody calls, lets calls through, trips and recovers   *)
(* as one that knows its calls in flight and has timers: for any number of *)
(* requests that share it and any settings.                                *)
THEOREM Refinement == Spec => ImplementsBreaker
<1>1. Init => AllProbing
  BY FreshBreakers DEF Init, AllProbing, Probing
<1>2. Typed /\ AllProbing /\ AllTimed /\ [Next]_vars => AllTimed'
  BY StepRefines
<1>3. Typed /\ AllProbing /\ AllTimed /\ [Next]_vars
          => [Gemini!Next]_(Gemini!vars) /\ [Fal!Next]_(Fal!vars)
  <2> SUFFICES ASSUME Typed, AllProbing, AllTimed, [Next]_vars
               PROVE  [Gemini!Next]_(Gemini!vars) /\ [Fal!Next]_(Fal!vars)
    OBVIOUS
  <2>1. /\ Abstract("gemini")!Next \/ UNCHANGED Shown("gemini")
        /\ Abstract("fal")!Next \/ UNCHANGED Shown("fal")
    BY StepRefines DEF Upstreams
  <2>2. Abstract("gemini")!Next => Gemini!Next
    BY SameCardinality
       DEF Abstract!Next, Abstract!Elapse, Abstract!Admit, Abstract!Pass, Abstract!Fail,
           Abstract!Become,
           Gemini!Next, Gemini!Elapse, Gemini!Admit, Gemini!Pass, Gemini!Fail, Gemini!Become
  <2>3. Abstract("fal")!Next => Fal!Next
    BY SameCardinality
       DEF Abstract!Next, Abstract!Elapse, Abstract!Admit, Abstract!Pass, Abstract!Fail,
           Abstract!Become,
           Fal!Next, Fal!Elapse, Fal!Admit, Fal!Pass, Fal!Fail, Fal!Become
  <2> QED
    BY <2>1, <2>2, <2>3 DEF Shown, Gemini!vars, Fal!vars
<1> QED
  BY <1>1, <1>2, <1>3, InitRefines, InitTyped, StepTyped, StepProbing, PTL
     DEF Spec, ImplementsBreaker, Gemini!Spec, Fal!Spec
=============================================================================
