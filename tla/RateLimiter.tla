---------------------------- MODULE RateLimiter -----------------------------
(***************************************************************************)
(* The per-address rate limiter of the HTTP API: a map from the addresses  *)
(* seen lately to a golang.org/x/time/rate limiter and the time of the     *)
(* last request, guarded by a mutex, and a goroutine that forgets the      *)
(* addresses that have been quiet for longer than visitorExpire.           *)
(*                                                                         *)
(* Time advances in ticks.  A limiter's tokens are counted in units of     *)
(* what one tick refills, so that a token costs Cost of them and a full    *)
(* bucket holds Cap = burst * Cost.                                        *)
(***************************************************************************)
EXTENDS Integers

CONSTANTS Ips,              \* client addresses
          Cap, Cost,        \* the limiter: burst and price of one request
          Expire,           \* ticks of visitorExpire
          CleanupInterval,  \* ticks of cleanupInterval
          MaxWindow         \* bound: ticks for which a window is observed

ASSUME LimiterOK ==
    /\ Cost \in Nat \ {0}
    /\ Cap \in Nat
    /\ Expire \in Nat
    /\ CleanupInterval \in Nat \ {0}
    /\ MaxWindow \in Nat

(* An address is forgotten only after its bucket would have refilled.  In  *)
(* the server a bucket refills in 10/5 = 2 seconds and visitorExpire is 3  *)
(* minutes.                                                                *)
ASSUME RefillsBeforeExpiry == Cap <= Expire + 1

VARIABLES
    visitors,   \* visitors[ip]: the limiter's tokens and the ticks since lastSeen
    sinceCleanup,   \* ticks since the cleanup ticker last fired
    window      \* window[ip]: an observer that counts what ip was admitted

vars == <<visitors, sinceCleanup, window>>

(* The entry of an address that is not in the map.                         *)
NoVisitor == [known |-> FALSE, level |-> Cap, idle |-> 0]

(* idle stops counting once it exceeds Expire.                             *)
Visitors == [known : BOOLEAN, level : 0 .. Cap, idle : 0 .. Expire + 1]

NoWindow == [open |-> FALSE, spent |-> 0, elapsed |-> 0]

Init == /\ visitors = [ip \in Ips |-> NoVisitor]
        /\ sinceCleanup = 0
        /\ window = [ip \in Ips |-> NoWindow]

-----------------------------------------------------------------------------
(* Mutant: lastSeen is set for a new address only.                         *)
SeenOnce(ip) == IF visitors[ip].known
                THEN visitors[ip]
                ELSE [known |-> TRUE, level |-> Cap, idle |-> 0]

(* The entry under which a request is judged: a new address gets a new     *)
(* limiter, whose bucket is full; lastSeen becomes now.                    *)
Seen(ip) == IF visitors[ip].known
            THEN [visitors[ip] EXCEPT !.idle = 0]
            ELSE [known |-> TRUE, level |-> Cap, idle |-> 0]

(* limiter.Allow: pays a token, or refuses and takes nothing.              *)
Allow(v) == v.level >= Cost

Admit(ip) ==
    /\ Allow(Seen(ip))
    /\ visitors' = [visitors EXCEPT ![ip] = [Seen(ip) EXCEPT !.level = @ - Cost]]
    /\ window' = [window EXCEPT ![ip].spent = IF window[ip].open THEN @ + Cost ELSE @]
    /\ UNCHANGED sinceCleanup

Refuse(ip) ==
    /\ ~Allow(Seen(ip))
    /\ visitors' = [visitors EXCEPT ![ip] = Seen(ip)]
    /\ UNCHANGED <<sinceCleanup, window>>

(* Mutants of the test of the cleanup loop: turned round, and measured     *)
(* from any time at all.                                                   *)
StillActive(v) == v.known /\ v.idle < Expire
AnyVisitor(v) == v.known

(* time.Since(v.lastSeen) > visitorExpire                                  *)
Stale(v) == v.known /\ v.idle > Expire

(* The cleanup goroutine wakes up at a tick of its ticker or later, and    *)
(* goes through the whole map under the mutex.                             *)
Cleanup ==
    /\ sinceCleanup = CleanupInterval
    /\ sinceCleanup' = 0
    /\ visitors' = [ip \in Ips |-> IF Stale(visitors[ip]) THEN NoVisitor ELSE visitors[ip]]
    /\ UNCHANGED window

Refilled(n) == IF n < Cap THEN n + 1 ELSE n
Capped(n, max) == IF n < max THEN n + 1 ELSE n

Tick ==
    /\ visitors' = [ip \in Ips |->
                      IF visitors[ip].known
                      THEN [visitors[ip] EXCEPT !.level = Refilled(@),
                                                !.idle = Capped(@, Expire + 1)]
                      ELSE visitors[ip]]
    /\ sinceCleanup' = Capped(sinceCleanup, CleanupInterval)
    /\ window' = [ip \in Ips |->
                    IF window[ip].open
                    THEN IF window[ip].elapsed < MaxWindow
                         THEN [window[ip] EXCEPT !.elapsed = @ + 1]
                         ELSE NoWindow
                    ELSE window[ip]]

(* The observer starts to count at any moment.                             *)
OpenWindow(ip) ==
    /\ ~window[ip].open
    /\ window' = [window EXCEPT ![ip] = [open |-> TRUE, spent |-> 0, elapsed |-> 0]]
    /\ UNCHANGED <<visitors, sinceCleanup>>

Next == \/ \E ip \in Ips : Admit(ip) \/ Refuse(ip) \/ OpenWindow(ip)
        \/ Cleanup
        \/ Tick

Spec == Init /\ [][Next]_vars

(* Time passes and the cleanup goroutine gets the mutex.                   *)
FairSpec == Spec /\ WF_vars(Tick) /\ WF_vars(Cleanup)

-----------------------------------------------------------------------------
TypeOK ==
    /\ visitors \in [Ips -> Visitors]
    /\ sinceCleanup \in 0 .. CleanupInterval
    /\ window \in [Ips -> [open : BOOLEAN, spent : Nat, elapsed : 0 .. MaxWindow]]

(* In no window of time, wherever it starts, is an address admitted more   *)
(* than the burst and what the elapsed time refills, forgotten and seen    *)
(* anew in between or not: 10 requests and 5 per second in the server.     *)
WindowBound ==
    \A ip \in Ips : window[ip].open => window[ip].spent <= Cap + window[ip].elapsed

(* Forgetting an address cannot be noticed: the map behaves as one bucket  *)
(* per address that is never dropped.                                      *)
Bucket == INSTANCE TokenBucket WITH level <- [ip \in Ips |-> visitors[ip].level]
ImplementsTokenBucket == Bucket!Spec

(* The map does not grow for ever: an address that has gone quiet is       *)
(* forgotten, or comes back.                                               *)
QuietIsForgotten ==
    \A ip \in Ips :
        visitors[ip].known /\ visitors[ip].idle > 0
        ~> ~visitors[ip].known \/ visitors[ip].idle = 0
=============================================================================
