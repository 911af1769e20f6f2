---------------------------- MODULE TokenBucket -----------------------------
(***************************************************************************)
(* What the rate limiter promises: every client address has a bucket of    *)
(* its own, full at first, that refills as time passes; a request is       *)
(* admitted exactly when its address can pay for it.  The bucket of an     *)
(* address is never forgotten, and nobody else's requests touch it.        *)
(*                                                                         *)
(* RateLimiter, which forgets addresses to bound its memory, implements    *)
(* this specification.                                                     *)
(***************************************************************************)
EXTENDS Integers

CONSTANTS Ips,    \* client addresses
          Cap,    \* the contents of a full bucket, in units of one tick's refill
          Cost    \* the price of a request, in the same units

VARIABLE level    \* level[ip]: the contents of ip's bucket

TypeOK == level \in [Ips -> 0 .. Cap]

Init == level = [ip \in Ips |-> Cap]

Admit(ip) == /\ level[ip] >= Cost
             /\ level' = [level EXCEPT ![ip] = @ - Cost]

Refilled(n) == IF n < Cap THEN n + 1 ELSE n

Refill == level' = [ip \in Ips |-> Refilled(level[ip])]

Next == Refill \/ \E ip \in Ips : Admit(ip)

Spec == Init /\ [][Next]_level
=============================================================================
