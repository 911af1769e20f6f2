------------------------- MODULE RateLimiterProofs --------------------------
(***************************************************************************)
(* Theorems about RateLimiter, for every set of addresses, burst, price,   *)
(* expiry and cleanup interval such that a bucket refills before its       *)
(* address is forgotten.                                                   *)
(***************************************************************************)
EXTENDS RateLimiter, TLAPS

(* The inductive invariant.  An address that is not in the map counts as   *)
(* one with a full bucket.  The bucket of one in the map holds at least    *)
(* what its silence has refilled.  And what a window has seen admitted,    *)
(* with what the bucket still holds, is covered by the burst and the time. *)
VisitorOK(ip) ==
    /\ ~visitors[ip].known => visitors[ip] = NoVisitor
    /\ visitors[ip].level = Cap \/ visitors[ip].level >= visitors[ip].idle

WindowOK(ip) ==
    window[ip].open => window[ip].spent + visitors[ip].level <= Cap + window[ip].elapsed

IInv == /\ TypeOK
        /\ \A ip \in Ips : VisitorOK(ip) /\ WindowOK(ip)

Windows == [open : BOOLEAN, spent : Nat, elapsed : 0 .. MaxWindow]

LEMMA NoVisitorType == NoVisitor \in Visitors /\ NoWindow \in Windows
BY LimiterOK DEF NoVisitor, Visitors, NoWindow, Windows

LEMMA InitIInv == Init => IInv
BY NoVisitorType, LimiterOK
   DEF Init, IInv, TypeOK, VisitorOK, WindowOK, NoVisitor, NoWindow, Windows

(* The entry a request is judged under has the bucket the address had.     *)
LEMMA SeenFacts ==
    ASSUME IInv, NEW ip \in Ips
    PROVE  /\ Seen(ip) \in Visitors
           /\ Seen(ip).known = TRUE
           /\ Seen(ip).idle = 0
           /\ Seen(ip).level = visitors[ip].level
<1>1. visitors[ip] \in Visitors /\ VisitorOK(ip)
  BY DEF IInv, TypeOK
<1>2. CASE visitors[ip].known
  BY <1>1, <1>2, LimiterOK DEF Seen, Visitors
<1>3. CASE ~visitors[ip].known
  BY <1>1, <1>3, LimiterOK DEF Seen, Visitors, VisitorOK, NoVisitor
<1> QED
  BY <1>2, <1>3

(* A stale entry has a full bucket, and so has the entry that replaces it. *)
LEMMA StaleIsFull ==
    ASSUME IInv, NEW ip \in Ips, Stale(visitors[ip])
    PROVE  visitors[ip].level = Cap
<1>1. visitors[ip].idle > Expire
  BY DEF Stale
<1>2. visitors[ip] \in Visitors
  BY DEF IInv, TypeOK
<1>3. visitors[ip].level = Cap \/ visitors[ip].level >= visitors[ip].idle
  BY DEF IInv, VisitorOK
<1>4. visitors[ip].level \in 0 .. Cap /\ visitors[ip].idle \in 0 .. Expire + 1
  BY <1>2 DEF Visitors
<1> QED
  BY <1>1, <1>3, <1>4, RefillsBeforeExpiry, LimiterOK

LEMMA TickFacts ==
    ASSUME IInv, Tick, NEW ip \in Ips
    PROVE  /\ visitors'[ip] \in Visitors
           /\ visitors'[ip].level = Refilled(visitors[ip].level)
           /\ VisitorOK(ip)'
<1>1. visitors[ip] \in Visitors /\ VisitorOK(ip)
  BY DEF IInv, TypeOK
<1>2. CASE visitors[ip].known
  <2>1. visitors'[ip] = [visitors[ip] EXCEPT !.level = Refilled(visitors[ip].level),
                                             !.idle = Capped(visitors[ip].idle, Expire + 1)]
    BY <1>2 DEF Tick
  <2>2. /\ Refilled(visitors[ip].level) \in 0 .. Cap
        /\ Capped(visitors[ip].idle, Expire + 1) \in 0 .. Expire + 1
    BY <1>1, LimiterOK DEF Visitors, Refilled, Capped
  <2>3. /\ visitors'[ip] \in Visitors
        /\ visitors'[ip].known = TRUE
        /\ visitors'[ip].level = Refilled(visitors[ip].level)
        /\ visitors'[ip].idle = Capped(visitors[ip].idle, Expire + 1)
    BY <1>1, <1>2, <2>1, <2>2 DEF Visitors
  <2>4. visitors'[ip].level = Cap \/ visitors'[ip].level >= visitors'[ip].idle
    BY <1>1, <2>3, LimiterOK DEF VisitorOK, Visitors, Refilled, Capped
  <2> QED
    BY <2>3, <2>4 DEF VisitorOK
<1>3. CASE ~visitors[ip].known
  <2>1. visitors'[ip] = visitors[ip]
    BY <1>3 DEF Tick
  <2>2. visitors[ip] = NoVisitor
    BY <1>1, <1>3 DEF VisitorOK
  <2>3. visitors[ip].level = Cap
    BY <2>2 DEF NoVisitor
  <2> QED
    BY <1>1, <2>1, <2>3, LimiterOK DEF VisitorOK, Refilled
<1> QED
  BY <1>2, <1>3

LEMMA NextIInv == IInv /\ [Next]_vars => IInv'
<1> SUFFICES ASSUME IInv, [Next]_vars PROVE IInv'
  OBVIOUS
<1>1. ASSUME NEW ip \in Ips, Admit(ip) PROVE IInv'
  <2>1. /\ visitors[ip] \in Visitors /\ window[ip] \in Windows /\ WindowOK(ip)
        /\ Seen(ip) \in Visitors /\ Seen(ip).known = TRUE /\ Seen(ip).idle = 0
        /\ Seen(ip).level = visitors[ip].level /\ Seen(ip).level >= Cost
    BY <1>1, SeenFacts DEF IInv, TypeOK, Windows, Admit, Allow
  <2>2. visitors' = [visitors EXCEPT ![ip] = [Seen(ip) EXCEPT !.level = Seen(ip).level - Cost]]
    BY <1>1 DEF Admit
  <2>3. /\ visitors' \in [Ips -> Visitors]
        /\ visitors'[ip].known = TRUE /\ visitors'[ip].idle = 0
        /\ visitors'[ip].level = visitors[ip].level - Cost
        /\ \A i \in Ips \ {ip} : visitors'[i] = visitors[i]
    BY <2>1, <2>2, LimiterOK DEF IInv, TypeOK, Visitors
  <2>4. /\ window' \in [Ips -> Windows]
        /\ \A i \in Ips \ {ip} : window'[i] = window[i]
        /\ window'[ip].open = window[ip].open
        /\ window[ip].open => /\ window'[ip].spent = window[ip].spent + Cost
                              /\ window'[ip].elapsed = window[ip].elapsed
    <3> DEFINE paid == IF window[ip].open THEN window[ip].spent + Cost ELSE window[ip].spent
    <3>1. window' = [window EXCEPT ![ip] = [window[ip] EXCEPT !.spent = paid]]
      BY <1>1 DEF Admit, IInv, TypeOK
    <3>2. paid \in Nat
      BY <2>1, LimiterOK DEF Windows
    <3>3. window \in [Ips -> Windows]
      BY DEF IInv, TypeOK, Windows
    <3> QED
      BY <2>1, <3>1, <3>2, <3>3 DEF Windows
  <2>5. \A i \in Ips : VisitorOK(i)'
    BY <2>1, <2>3, LimiterOK DEF IInv, VisitorOK, Visitors
  <2>6. WindowOK(ip)'
    BY <2>1, <2>3, <2>4, LimiterOK DEF WindowOK, Visitors, Windows
  <2>7. \A i \in Ips : WindowOK(i)'
    BY <2>3, <2>4, <2>6 DEF IInv, WindowOK
  <2> QED
    BY <1>1, <2>3, <2>4, <2>5, <2>7 DEF IInv, TypeOK, Admit, Windows
<1>2. ASSUME NEW ip \in Ips, Refuse(ip) PROVE IInv'
  <2>1. /\ visitors' \in [Ips -> Visitors]
        /\ visitors'[ip].known = TRUE /\ visitors'[ip].idle = 0
        /\ \A i \in Ips : visitors'[i].level = visitors[i].level
        /\ \A i \in Ips \ {ip} : visitors'[i] = visitors[i]
    BY <1>2, SeenFacts DEF Refuse, IInv, TypeOK
  <2>2. \A i \in Ips : VisitorOK(i)'
    BY <2>1, LimiterOK DEF IInv, TypeOK, VisitorOK, Visitors
  <2> QED
    BY <1>2, <2>1, <2>2 DEF Refuse, IInv, TypeOK, WindowOK
<1>3. ASSUME NEW ip \in Ips, OpenWindow(ip) PROVE IInv'
  <2>1. /\ window' \in [Ips -> Windows]
        /\ window'[ip].spent = 0 /\ window'[ip].elapsed = 0
        /\ \A i \in Ips \ {ip} : window'[i] = window[i]
    BY <1>3, LimiterOK DEF OpenWindow, IInv, TypeOK, Windows
  <2>2. \A i \in Ips : WindowOK(i)'
    BY <1>3, <2>1, LimiterOK DEF OpenWindow, IInv, TypeOK, WindowOK, Visitors
  <2> QED
    BY <1>3, <2>1, <2>2 DEF OpenWindow, IInv, TypeOK, VisitorOK, NoVisitor, Windows
<1>4. ASSUME Cleanup PROVE IInv'
  <2>1. ASSUME NEW ip \in Ips
        PROVE  /\ visitors'[ip] \in Visitors
               /\ visitors'[ip].level = visitors[ip].level
               /\ VisitorOK(ip)'
    <3>1. CASE Stale(visitors[ip])
      <4>1. visitors'[ip] = NoVisitor /\ visitors[ip].level = Cap
        BY <1>4, <3>1, StaleIsFull DEF Cleanup
      <4> QED
        BY <4>1, NoVisitorType DEF VisitorOK, NoVisitor
    <3>2. CASE ~Stale(visitors[ip])
      <4>1. visitors'[ip] = visitors[ip]
        BY <1>4, <3>2 DEF Cleanup
      <4> QED
        BY <4>1 DEF IInv, TypeOK, VisitorOK, NoVisitor
    <3> QED
      BY <3>1, <3>2
  <2> QED
    BY <1>4, <2>1, LimiterOK DEF Cleanup, IInv, TypeOK, WindowOK
<1>5. ASSUME Tick PROVE IInv'
  <2>1. \A ip \in Ips : /\ visitors'[ip] \in Visitors
                        /\ visitors'[ip].level = Refilled(visitors[ip].level)
                        /\ VisitorOK(ip)'
    BY <1>5, TickFacts
  <2>2. ASSUME NEW ip \in Ips PROVE window'[ip] \in Windows /\ WindowOK(ip)'
    <3>1. window[ip] \in Windows /\ WindowOK(ip) /\ visitors[ip] \in Visitors
      BY DEF IInv, TypeOK, Windows
    <3>2. CASE window[ip].open /\ window[ip].elapsed < MaxWindow
      <4>1. window'[ip] = [window[ip] EXCEPT !.elapsed = window[ip].elapsed + 1]
        BY <1>5, <3>2 DEF Tick
      <4>2. /\ window'[ip] \in Windows
            /\ window'[ip].spent = window[ip].spent
            /\ window'[ip].elapsed = window[ip].elapsed + 1
        BY <3>1, <3>2, <4>1, LimiterOK DEF Windows
      <4> QED
        BY <2>1, <3>1, <3>2, <4>2, LimiterOK DEF WindowOK, Windows, Visitors, Refilled
    <3>3. CASE window[ip].open /\ ~(window[ip].elapsed < MaxWindow)
      BY <1>5, <3>3, NoVisitorType DEF Tick, WindowOK, NoWindow
    <3>4. CASE ~window[ip].open
      BY <1>5, <3>1, <3>4 DEF Tick, WindowOK
    <3> QED
      BY <3>2, <3>3, <3>4
  <2>3. sinceCleanup' \in 0 .. CleanupInterval
    <3>1. sinceCleanup \in 0 .. CleanupInterval
      BY DEF IInv, TypeOK
    <3>2. sinceCleanup' = Capped(sinceCleanup, CleanupInterval)
      BY <1>5 DEF Tick
    <3> QED
      BY <3>1, <3>2, LimiterOK DEF Capped
  <2>4. visitors' \in [Ips -> Visitors] /\ window' \in [Ips -> Windows]
    BY <1>5, <2>1, <2>2 DEF Tick
  <2> QED
    BY <2>1, <2>2, <2>3, <2>4 DEF IInv, TypeOK, Windows
<1>6. CASE UNCHANGED vars
  BY <1>6 DEF vars, IInv, TypeOK, VisitorOK, WindowOK, NoVisitor
<1> QED
  BY <1>1, <1>2, <1>3, <1>4, <1>5, <1>6 DEF Next

(* The inductive invariant holds in every reachable state.                 *)
THEOREM Invariance == Spec => []IInv
<1> QED
  BY InitIInv, NextIInv, PTL DEF Spec

(* Types: in particular no bucket is overdrawn or overfull.                *)
THEOREM TypeCorrect == Spec => []TypeOK
<1>1. IInv => TypeOK
  BY DEF IInv
<1> QED
  BY <1>1, Invariance, PTL

(* In no window of time is an address admitted more than the burst and     *)
(* what the window refills, however often it is forgotten.                 *)
THEOREM WindowIsBounded == Spec => []WindowBound
<1>1. IInv => WindowBound
  BY LimiterOK DEF IInv, TypeOK, WindowOK, WindowBound, Visitors
<1> QED
  BY <1>1, Invariance, PTL

(* The limiter that forgets quiet addresses implements one that never      *)
(* forgets.                                                                *)
THEOREM Refinement == Spec => ImplementsTokenBucket
<1> DEFINE level == [ip \in Ips |-> visitors[ip].level]
<1>1. Init => Bucket!Init
  BY DEF Init, NoVisitor, Bucket!Init
<1>2. IInv /\ [Next]_vars => [Bucket!Next]_level
  <2> SUFFICES ASSUME IInv, [Next]_vars PROVE [Bucket!Next]_level
    OBVIOUS
  <2>1. ASSUME NEW ip \in Ips, Admit(ip) PROVE Bucket!Admit(ip)
    <3>1. /\ visitors[ip].level >= Cost
          /\ visitors'[ip].level = visitors[ip].level - Cost
          /\ \A i \in Ips \ {ip} : visitors'[i] = visitors[i]
      BY <2>1, SeenFacts DEF Admit, Allow, IInv, TypeOK, Visitors
    <3>2. level' = [level EXCEPT ![ip] = level[ip] - Cost]
      BY <3>1
    <3> QED
      BY <3>1, <3>2 DEF Bucket!Admit
  <2>2. ASSUME \A ip \in Ips : visitors'[ip].level = visitors[ip].level PROVE level' = level
    BY <2>2
  <2>3. ASSUME NEW ip \in Ips, Refuse(ip) PROVE level' = level
    BY <2>2, <2>3, SeenFacts DEF Refuse, IInv, TypeOK
  <2>4. ASSUME Cleanup PROVE level' = level
    BY <2>2, <2>4, StaleIsFull DEF Cleanup, NoVisitor
  <2>5. ASSUME Tick PROVE Bucket!Refill
    BY <2>5, TickFacts DEF Bucket!Refill, Bucket!Refilled, Refilled
  <2>6. ASSUME visitors' = visitors PROVE level' = level
    BY <2>6
  <2> QED
    BY <2>1, <2>3, <2>4, <2>5, <2>6 DEF Next, vars, OpenWindow, Bucket!Next
<1> QED
  BY <1>1, <1>2, Invariance, PTL DEF Spec, ImplementsTokenBucket, Bucket!Spec
=============================================================================
