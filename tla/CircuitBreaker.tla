--------------------------- MODULE CircuitBreaker ---------------------------
(***************************************************************************)
(* What the clients of Gemini and of Fal.ai rely on, each with a breaker   *)
(* of its own: a breaker with timers that go off by themselves, and that   *)
(* knows which calls it has in flight.  A call that began before the       *)
(* breaker last changed its state, or last forgot its counts, is none of   *)
(* them: what becomes of it does not matter.                               *)
(*                                                                         *)
(* Persona, whose breakers count begun requests, mark generations and look *)
(* at a deadline only when somebody calls, implements this specification.  *)
(***************************************************************************)
EXTENDS Integers, FiniteSets

CONSTANTS Callers,       \* who calls
          MaxRequests,   \* probes let through, and successes that close the breaker
          Trip,          \* consecutive failures that open it
          Interval,      \* ticks after which a closed breaker forgets its counts
          Timeout,       \* ticks for which it stays open
          Never          \* the timer of a half-open breaker

VARIABLES state,    \* closed, open or half-open
          left,     \* ticks until the timer goes off
          calls,    \* callers whose calls in flight count
          fails,    \* failures since a success
          passed    \* probes that succeeded

vars == <<state, left, calls, fails, passed>>

Init == /\ state = "closed" /\ left = Interval
        /\ calls = {} /\ fails = 0 /\ passed = 0

(* Every call in flight and every count belongs to the past.               *)
Become(s, timer) == /\ state' = s /\ left' = timer
                    /\ calls' = {} /\ fails' = 0 /\ passed' = 0

(* A call begins: never while the breaker is open, and while it is half    *)
(* open only as one of MaxRequests.                                        *)
Admit(c) == /\ state # "open" /\ c \notin calls
            /\ state = "half-open" => Cardinality(calls) + passed < MaxRequests
            /\ calls' = calls \cup {c}
            /\ UNCHANGED <<state, left, fails, passed>>

(* A call that counts succeeds; the last probe closes the breaker.         *)
Pass(c) == /\ c \in calls
           /\ \/ /\ state = "closed"
                 /\ calls' = calls \ {c} /\ fails' = 0
                 /\ UNCHANGED <<state, left, passed>>
              \/ /\ state = "half-open" /\ passed + 1 < MaxRequests
                 /\ calls' = calls \ {c} /\ fails' = 0 /\ passed' = passed + 1
                 /\ UNCHANGED <<state, left>>
              \/ /\ state = "half-open" /\ passed + 1 >= MaxRequests
                 /\ Become("closed", Interval)

(* A call that counts fails; the last of a streak, or any probe, opens the *)
(* breaker.                                                                *)
Fail(c) == /\ c \in calls
           /\ \/ /\ state = "closed" /\ fails + 1 < Trip
                 /\ calls' = calls \ {c} /\ fails' = fails + 1
                 /\ UNCHANGED <<state, left, passed>>
              \/ /\ state = "closed" /\ fails + 1 >= Trip
                 /\ Become("open", Timeout)
              \/ /\ state = "half-open"
                 /\ Become("open", Timeout)

(* Time passes, and the timer goes off after zero.                         *)
Elapse == /\ state # "half-open"
          /\ \/ /\ left > 0 /\ left' = left - 1
                /\ UNCHANGED <<state, calls, fails, passed>>
             \/ left = 0 /\ state = "closed" /\ Become("closed", Interval)
             \/ left = 0 /\ state = "open" /\ Become("half-open", Never)

Next == Elapse \/ \E c \in Callers : Admit(c) \/ Pass(c) \/ Fail(c)

Spec == Init /\ [][Next]_vars
=============================================================================
