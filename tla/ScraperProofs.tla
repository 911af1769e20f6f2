---------------------------- MODULE ScraperProofs ----------------------------
(***************************************************************************)
(* Theorems about Scraper, for every wiki, limit and delay: the number of  *)
(* pages fetched at a time, and of requests sent within the delay.         *)
(***************************************************************************)
EXTENDS Scraper, FiniteSetTheorems, TLAPS

(* A set of at most n elements; Cardinality says nothing of infinite sets. *)
AtMost(S, n) == IsFiniteSet(S) /\ Cardinality(S) <= n

LEMMA AtMostOfSubset ==
    ASSUME NEW S, NEW T, NEW n \in Nat, T \subseteq S, AtMost(S, n)
    PROVE  AtMost(T, n)
<1>1. IsFiniteSet(T) /\ Cardinality(T) <= Cardinality(S)
  BY FS_Subset DEF AtMost
<1>2. Cardinality(S) \in Nat /\ Cardinality(T) \in Nat
  BY <1>1, FS_CardinalityType DEF AtMost
<1> QED
  BY <1>1, <1>2 DEF AtMost

LEMMA AtMostWithOneMore ==
    ASSUME NEW S, NEW x, NEW n \in Nat, IsFiniteSet(S), Cardinality(S) < n
    PROVE  AtMost(S \cup {x}, n)
<1>1. IsFiniteSet(S \cup {x})
  BY FS_AddElement
<1>2. Cardinality(S \cup {x}) = Cardinality(S) \/ Cardinality(S \cup {x}) = Cardinality(S) + 1
  BY FS_AddElement
<1>3. Cardinality(S) \in Nat
  BY FS_CardinalityType
<1> QED
  BY <1>1, <1>2, <1>3 DEF AtMost

-----------------------------------------------------------------------------
LEMMA InitTypeOK == Init => TypeOK
<1> SUFFICES ASSUME Init PROVE TypeOK
  OBVIOUS
<1>1. task \in [Tasks -> States]
  BY DEF Init, States
<1>2. 0 \in 0 .. Delay /\ Delay \in 0 .. Delay
  BY ScraperOK
<1>3. sleep \in [Tasks -> 0 .. Delay] /\ age \in [Tasks -> 0 .. Delay] /\ sinceLast \in 0 .. Delay
  BY <1>2 DEF Init
<1>4. stage \in 1 .. 3 /\ outcome \in {"none", "ok", "error", "cancelled"}
  BY DEF Init
<1>5. /\ \A x \in results : x.by \in Tasks /\ x.row \in Rows
      /\ visited \subseteq Pages
  BY DEF Init
<1>6. live \in BOOLEAN /\ ctxDone \in BOOLEAN
  BY DEF Init
<1> QED
  BY <1>1, <1>3, <1>4, <1>5, <1>6 DEF TypeOK

LEMMA PageOfTask == \A t \in Tasks : Page(t) \in Pages
BY ScraperOK DEF Page, Tasks

LEMMA ParsedByTask ==
    ASSUME NEW t \in Tasks, NEW x \in ParsedBy(t)
    PROVE  x.by \in Tasks /\ x.row \in Rows
BY DEF ParsedBy

(* Taking a slot and giving up.                                            *)
LEMMA SlotTypeOK ==
    ASSUME TypeOK, NEW t \in Tasks, Acquire(t) \/ GiveUp(t)
    PROVE  TypeOK'
BY DEF TypeOK, Acquire, GiveUp, Become, States, site, clock

(* The politeness delay of the live wiki.                                  *)
LEMMA SpacingTypeOK ==
    ASSUME TypeOK, NEW t \in Tasks,
           CheckSpacing(t) \/ GoToSleep(t) \/ WakeUp(t) \/ SleepCancelled(t)
    PROVE  TypeOK'
<1>0. Delay \in Nat
  BY ScraperOK
<1>1. CASE CheckSpacing(t) \/ WakeUp(t)
  BY <1>0, <1>1 DEF TypeOK, CheckSpacing, WakeUp, Dispatch, Become, States, site
<1>2. CASE GoToSleep(t)
  <2>1. Remaining \in 0 .. Delay
    BY <1>0, <1>2 DEF TypeOK, GoToSleep, Remaining
  <2> QED
    BY <1>2, <2>1 DEF TypeOK, GoToSleep, Become, States, site, clock
<1>3. CASE SleepCancelled(t)
  BY <1>0, <1>3 DEF TypeOK, SleepCancelled, Become, States, site, clock
<1> QED
  BY <1>1, <1>2, <1>3

(* The visits of any other site, and the answers.                          *)
LEMMA AnswerTypeOK ==
    ASSUME TypeOK, NEW t \in Tasks, CheckContext(t) \/ CheckVisited(t) \/ Visit(t) \/ Reply(t)
    PROVE  TypeOK'
<1>1. CASE CheckContext(t)
  BY <1>1 DEF TypeOK, CheckContext, Become, States, site, clock
<1>2. CASE CheckVisited(t)
  BY <1>2 DEF TypeOK, CheckVisited, Become, States, site, clock
<1>3. CASE Visit(t)
  BY <1>3, PageOfTask DEF TypeOK, Visit, Become, States, clock
<1>4. CASE Reply(t)
  <2>1. \A x \in results' : x.by \in Tasks /\ x.row \in Rows
    BY <1>4, ParsedByTask DEF TypeOK, Reply
  <2> QED
    BY <1>4, <2>1 DEF TypeOK, Reply, Become, States, site, clock
<1> QED
  BY <1>1, <1>2, <1>3, <1>4

LEMMA StepTypeOK == TypeOK /\ [Next]_vars => TypeOK'
<1>1. ASSUME TypeOK, NEW t \in Tasks, Fetch(t) PROVE TypeOK'
  BY <1>1, SlotTypeOK, SpacingTypeOK, AnswerTypeOK DEF Fetch
<1>2. ASSUME TypeOK, Wait PROVE TypeOK'
  <2>1. stage' \in 1 .. 3 /\ task' \in [Tasks -> States]
    BY <1>2 DEF TypeOK, Wait, States
  <2> QED
    BY <1>2, <2>1 DEF TypeOK, Wait, site, clock
<1>3. ASSUME TypeOK, Cancel PROVE TypeOK'
  BY <1>3 DEF TypeOK, Cancel, site, clock
<1>4. ASSUME TypeOK, Tick PROVE TypeOK'
  <2>1. \A n \in 0 .. Delay : Aged(n) \in 0 .. Delay
    BY ScraperOK DEF Aged
  <2>2. sleep' \in [Tasks -> 0 .. Delay]
    BY <1>4, ScraperOK DEF TypeOK, Tick
  <2> QED
    BY <1>4, <2>1, <2>2 DEF TypeOK, Tick, site
<1>5. ASSUME TypeOK, UNCHANGED vars PROVE TypeOK'
  BY <1>5 DEF TypeOK, vars
<1> QED
  BY <1>1, <1>2, <1>3, <1>4, <1>5 DEF Next

(* The goroutines, their clocks and what was found are what they are.      *)
THEOREM TypeCorrect == Spec => []TypeOK
BY InitTypeOK, StepTypeOK, PTL DEF Spec

-----------------------------------------------------------------------------
(* Only Acquire lets a goroutine into the semaphore, and it counts first.  *)

SlotsBounded == AtMost(Holders, Limit)

LEMMA OnlyAcquireEnters ==
    ASSUME TypeOK, [Next]_vars, \A t \in Tasks : ~Acquire(t)
    PROVE  Holders' \subseteq Holders
<1>1. ASSUME NEW t \in Tasks, Fetch(t) PROVE Holders' \subseteq Holders
  <2>1. CASE GiveUp(t) \/ SleepCancelled(t) \/ CheckContext(t)
    BY <2>1 DEF TypeOK, Holders, Holds, Holding, GiveUp, SleepCancelled, CheckContext, Become
  <2>2. CASE CheckSpacing(t) \/ GoToSleep(t) \/ WakeUp(t)
    BY <2>2 DEF TypeOK, Holders, Holds, Holding, CheckSpacing, GoToSleep, WakeUp, Dispatch, Become
  <2>3. CASE CheckVisited(t) \/ Visit(t)
    BY <2>3 DEF TypeOK, Holders, Holds, Holding, CheckVisited, Visit, Become
  <2>4. CASE Reply(t)
    BY <2>4 DEF TypeOK, Holders, Holds, Holding, Reply, Become
  <2> QED
    BY <1>1, <2>1, <2>2, <2>3, <2>4 DEF Fetch
<1>2. ASSUME Wait PROVE Holders' \subseteq Holders
  BY <1>2 DEF TypeOK, Holders, Holds, Holding, Wait
<1>3. ASSUME Cancel \/ Tick \/ UNCHANGED vars PROVE Holders' \subseteq Holders
  BY <1>3 DEF Holders, Holds, Cancel, Tick, vars
<1> QED
  BY <1>1, <1>2, <1>3 DEF Next

LEMMA InitSlotsBounded == Init => SlotsBounded
<1> SUFFICES ASSUME Init PROVE SlotsBounded
  OBVIOUS
<1>1. Holders \subseteq {Main}
  BY DEF Init, Holders, Holds, Holding
<1>2. AtMost({Main}, Limit)
  <2>1. IsFiniteSet({Main}) /\ Cardinality({Main}) = 1
    BY FS_Singleton
  <2> QED
    BY <2>1, ScraperOK DEF AtMost
<1> QED
  BY <1>1, <1>2, AtMostOfSubset, ScraperOK DEF SlotsBounded

LEMMA StepSlotsBounded == TypeOK /\ SlotsBounded /\ [Next]_vars => SlotsBounded'
<1> SUFFICES ASSUME TypeOK, SlotsBounded, [Next]_vars PROVE SlotsBounded'
  OBVIOUS
<1>1. CASE \E t \in Tasks : Acquire(t)
  <2>1. PICK t \in Tasks : Acquire(t)
    BY <1>1
  <2>2. Holders' = Holders \cup {t}
    BY <2>1 DEF TypeOK, Acquire, Become, Holders, Holds, Holding
  <2>3. IsFiniteSet(Holders) /\ Cardinality(Holders) < Limit
    BY <2>1 DEF Acquire, SlotsBounded, AtMost
  <2>4. AtMost(Holders \cup {t}, Limit)
    BY <2>3, AtMostWithOneMore, ScraperOK
  <2> QED
    BY <2>2, <2>4 DEF SlotsBounded
<1>2. CASE \A t \in Tasks : ~Acquire(t)
  BY <1>2, OnlyAcquireEnters, AtMostOfSubset, ScraperOK DEF SlotsBounded
<1> QED
  BY <1>1, <1>2

-----------------------------------------------------------------------------
(* The requests of the last Delay ticks.  Ahead(s) has those that will     *)
(* still be recent in s ticks, if they went out already, and the           *)
(* goroutines that may have woken up by then.                              *)

Recent(s) == {t \in Tasks : age[t] + s < Delay}
WakingBy(s) == {t \in Tasks : task[t] = "sleeping" /\ sleep[t] <= s}
Ahead(s) == Recent(s) \cup WakingBy(s)

Spaced == /\ \A t \in Tasks : age[t] >= sinceLast
          /\ \A s \in 0 .. Delay : AtMost(Ahead(s), Limit)

LEMMA SleepersHold == \A s : WakingBy(s) \subseteq Holders
BY DEF WakingBy, Holders, Holds, Holding

LEMMA InitSpaced == Init => Spaced
<1> SUFFICES ASSUME Init PROVE Spaced
  OBVIOUS
<1>1. \A s \in 0 .. Delay : Ahead(s) = {}
  BY ScraperOK DEF Init, Ahead, Recent, WakingBy
<1>2. AtMost({}, Limit)
  BY ScraperOK, FS_EmptySet DEF AtMost
<1>3. \A t \in Tasks : age[t] >= sinceLast
  BY ScraperOK DEF Init
<1> QED
  BY <1>1, <1>2, <1>3 DEF Spaced

(* Steps that send nothing and put nobody to sleep only shrink the sets.   *)
LEMMA QuietSpaced ==
    ASSUME TypeOK, Spaced, UNCHANGED clock,
           \A t \in Tasks : task'[t] = "sleeping" => task[t] = "sleeping" /\ sleep'[t] = sleep[t]
    PROVE  Spaced'
<1>1. \A s \in 0 .. Delay : Ahead(s)' \subseteq Ahead(s)
  BY DEF Ahead, Recent, WakingBy, clock
<1>2. \A s \in 0 .. Delay : AtMost(Ahead(s)', Limit)
  BY <1>1, AtMostOfSubset, ScraperOK DEF Spaced
<1> QED
  BY <1>2 DEF Spaced, clock

(* A request that may go out at once finds no other recent.                *)
LEMMA CheckSpacingSpaced ==
    ASSUME TypeOK, SlotsBounded, Spaced, NEW t \in Tasks, CheckSpacing(t)
    PROVE  Spaced'
<1>1. \A u \in Tasks : age'[u] \in 0 .. Delay /\ (u # t => age'[u] = age[u] /\ age[u] >= Delay)
  BY ScraperOK DEF CheckSpacing, Dispatch, TypeOK, Spaced
<1>2. t \in Holders
  BY DEF CheckSpacing, Holders, Holds, Holding
<1>3. ASSUME NEW s \in 0 .. Delay PROVE Ahead(s)' \subseteq Holders
  <2>1. Recent(s)' \subseteq {t}
    BY <1>1, ScraperOK DEF Recent
  <2>2. WakingBy(s)' \subseteq WakingBy(s)
    BY DEF WakingBy, CheckSpacing, Dispatch, Become, TypeOK
  <2> QED
    BY <1>2, <2>1, <2>2, SleepersHold DEF Ahead
<1>4. \A s \in 0 .. Delay : AtMost(Ahead(s)', Limit)
  BY <1>3, AtMostOfSubset, ScraperOK DEF SlotsBounded
<1>5. sinceLast' = 0
  BY DEF CheckSpacing, Dispatch
<1> QED
  BY <1>1, <1>4, <1>5 DEF Spaced

(* A goroutine that goes to sleep wakes up when nothing is recent that is  *)
(* now, beside others that hold a slot.                                    *)
LEMMA GoToSleepSpaced ==
    ASSUME TypeOK, SlotsBounded, Spaced, NEW t \in Tasks, GoToSleep(t)
    PROVE  Spaced'
<1>1. /\ \A u \in Tasks : age[u] \in 0 .. Delay /\ age[u] >= sinceLast
      /\ sinceLast \in 0 .. Delay /\ Delay \in Nat
  BY ScraperOK DEF TypeOK, Spaced
<1>2. /\ \A u \in Tasks \ {t} : task'[u] = task[u] /\ sleep'[u] = sleep[u]
      /\ sleep'[t] = Delay - sinceLast
      /\ age' = age /\ sinceLast' = sinceLast
  BY DEF GoToSleep, Become, TypeOK, Remaining, clock
<1>3. t \in Holders
  BY DEF GoToSleep, Holders, Holds, Holding
<1>4. ASSUME NEW s \in 0 .. Delay PROVE AtMost(Ahead(s)', Limit)
  <2>1. CASE s < Delay - sinceLast
    <3>1. Ahead(s)' \subseteq Ahead(s)
      BY <1>1, <1>2, <2>1 DEF Ahead, Recent, WakingBy
    <3> QED
      BY <3>1, AtMostOfSubset, ScraperOK DEF Spaced
  <2>2. CASE s >= Delay - sinceLast
    <3>1. Recent(s)' = {}
      BY <1>1, <1>2, <2>2 DEF Recent
    <3>2. WakingBy(s)' \subseteq WakingBy(s) \cup {t}
      BY <1>2 DEF WakingBy
    <3>3. Ahead(s)' \subseteq Holders
      BY <1>3, <3>1, <3>2, SleepersHold DEF Ahead
    <3> QED
      BY <3>3, AtMostOfSubset, ScraperOK DEF SlotsBounded
  <2> QED
    BY <1>1, <2>1, <2>2
<1> QED
  BY <1>1, <1>2, <1>4 DEF Spaced

(* One that wakes up is recent instead of about to wake up.                *)
LEMMA WakeUpSpaced ==
    ASSUME TypeOK, Spaced, NEW t \in Tasks, WakeUp(t)
    PROVE  Spaced'
<1>1. /\ \A u \in Tasks \ {t} : task'[u] = task[u] /\ age'[u] = age[u]
      /\ age'[t] = 0 /\ task'[t] = "requesting" /\ sinceLast' = 0 /\ sleep' = sleep
      /\ task[t] = "sleeping" /\ sleep[t] = 0
  BY DEF WakeUp, Dispatch, Become, TypeOK
<1>2. \A s \in 0 .. Delay : t \in WakingBy(s)
  BY <1>1 DEF WakingBy
<1>3. ASSUME NEW s \in 0 .. Delay PROVE Ahead(s)' \subseteq Ahead(s)
  BY <1>1, <1>2 DEF Ahead, Recent, WakingBy
<1>4. \A s \in 0 .. Delay : AtMost(Ahead(s)', Limit)
  BY <1>3, AtMostOfSubset, ScraperOK DEF Spaced
<1>5. \A u \in Tasks : age'[u] >= 0
  BY <1>1, ScraperOK DEF TypeOK
<1> QED
  BY <1>1, <1>4, <1>5 DEF Spaced

(* A tick later what is s ticks ahead was s + 1 ticks ahead.               *)
LEMMA TickSpaced ==
    ASSUME TypeOK, SlotsBounded, Spaced, Tick
    PROVE  Spaced'
<1>1. /\ \A u \in Tasks : age[u] \in 0 .. Delay /\ age[u] >= sinceLast /\ sleep[u] \in 0 .. Delay
      /\ sinceLast \in 0 .. Delay /\ Delay \in Nat
  BY ScraperOK DEF TypeOK, Spaced
<1>2. /\ \A u \in Tasks : age'[u] = IF age[u] < Delay THEN age[u] + 1 ELSE age[u]
      /\ sinceLast' = IF sinceLast < Delay THEN sinceLast + 1 ELSE sinceLast
      /\ \A u \in Tasks : sleep'[u] = IF sleep[u] > 0 THEN sleep[u] - 1 ELSE 0
      /\ task' = task
  BY DEF Tick, Aged
<1>3. \A u \in Tasks : age'[u] >= sinceLast'
  BY <1>1, <1>2
<1>4. ASSUME NEW s \in 0 .. Delay PROVE AtMost(Ahead(s)', Limit)
  <2>1. CASE s < Delay
    <3>1. Recent(s)' \subseteq Recent(s + 1)
      BY <1>1, <1>2 DEF Recent
    <3>2. WakingBy(s)' \subseteq WakingBy(s + 1)
      BY <1>1, <1>2 DEF WakingBy
    <3>3. s + 1 \in 0 .. Delay
      BY <1>1, <2>1
    <3>4. AtMost(Ahead(s + 1), Limit)
      BY <3>3 DEF Spaced
    <3> QED
      BY <3>1, <3>2, <3>4, AtMostOfSubset, ScraperOK DEF Ahead
  <2>2. CASE s = Delay
    <3>1. Recent(s)' = {}
      BY <1>1, <1>2, <2>2 DEF Recent
    <3>2. WakingBy(s)' \subseteq Holders
      BY <1>2 DEF WakingBy, Holders, Holds, Holding
    <3> QED
      BY <3>1, <3>2, AtMostOfSubset, ScraperOK DEF Ahead, SlotsBounded
  <2> QED
    BY <1>1, <2>1, <2>2
<1> QED
  BY <1>3, <1>4 DEF Spaced

LEMMA StepSpaced == TypeOK /\ SlotsBounded /\ Spaced /\ [Next]_vars => Spaced'
<1> SUFFICES ASSUME TypeOK, SlotsBounded, Spaced, [Next]_vars PROVE Spaced'
  OBVIOUS
<1>1. ASSUME NEW t \in Tasks, Fetch(t) PROVE Spaced'
  <2>1. CASE CheckSpacing(t)
    BY <2>1, CheckSpacingSpaced
  <2>2. CASE GoToSleep(t)
    BY <2>2, GoToSleepSpaced
  <2>3. CASE WakeUp(t)
    BY <2>3, WakeUpSpaced
  <2>4. CASE Acquire(t) \/ GiveUp(t) \/ SleepCancelled(t)
    BY <2>4, QuietSpaced DEF TypeOK, Acquire, GiveUp, SleepCancelled, Become
  <2>5. CASE CheckContext(t) \/ CheckVisited(t) \/ Visit(t) \/ Reply(t)
    BY <2>5, QuietSpaced DEF TypeOK, CheckContext, CheckVisited, Visit, Reply, Become, clock
  <2> QED
    BY <1>1, <2>1, <2>2, <2>3, <2>4, <2>5 DEF Fetch
<1>2. ASSUME Wait PROVE Spaced'
  BY <1>2, QuietSpaced DEF TypeOK, Wait
<1>3. ASSUME Cancel \/ UNCHANGED vars PROVE Spaced'
  BY <1>3, QuietSpaced DEF Cancel, vars, clock
<1>4. ASSUME Tick PROVE Spaced'
  BY <1>4, TickSpaced
<1> QED
  BY <1>1, <1>2, <1>3, <1>4 DEF Next

(* Within the politeness delay no more than concurrencyLimit requests go   *)
(* to the live wiki, however long the goroutines sleep.                    *)
THEOREM BurstIsBounded == Spec => []BurstBounded
<1>1. TypeOK /\ Spaced => BurstBounded
  <2> SUFFICES ASSUME TypeOK, Spaced PROVE BurstBounded
    OBVIOUS
  <2>1. {t \in Tasks : age[t] < Delay} \subseteq Ahead(0)
    BY ScraperOK DEF TypeOK, Ahead, Recent
  <2>2. AtMost(Ahead(0), Limit)
    BY ScraperOK DEF Spaced
  <2>3. AtMost({t \in Tasks : age[t] < Delay}, Limit)
    BY <2>1, <2>2, AtMostOfSubset, ScraperOK
  <2> QED
    BY <2>3 DEF AtMost, BurstBounded
<1> QED
  BY <1>1, InitTypeOK, StepTypeOK, InitSlotsBounded, StepSlotsBounded, InitSpaced, StepSpaced,
     PTL DEF Spec

-----------------------------------------------------------------------------
(* What is returned.  Not inductive: it depends on which goroutines were   *)
(* started, and on none being started twice.                               *)

Running == {"waiting"} \cup Holding

(* Each goroutine was led to its page, in this layer or an earlier one     *)
(* whose goroutines are done; what was found is what the successful ones   *)
(* found; and the layers before this one had all their links followed.     *)
Led ==
    /\ \A t \in Tasks : task[t] # "none" => Leads(t) /\ Layer(t) <= stage
    /\ \A t \in Tasks : task[t] \in Running => Layer(t) = stage
    /\ \A x \in results : \E t \in Tasks : task[t] = "ok" /\ x \in ParsedBy(t)
    /\ \A t \in Tasks : task[t] = "ok" => ParsedBy(t) \subseteq results
    /\ \A x \in results : Layer(x.by) < stage => task[x.row] # "none"
    /\ outcome = "ok" => stage = 3 /\ \A t \in Tasks : task[t] \in {"none", "ok", "void"}

LEMMA LayersOfTasks == \A t \in Tasks : Layer(t) \in 1 .. 3
BY DEF Layer

LEMMA InitLed == Init => Led
<1> SUFFICES ASSUME Init PROVE Led
  OBVIOUS
<1>1. \A t \in Tasks : (task[t] = "checking" /\ t = Main) \/ task[t] = "none"
  BY DEF Init
<1>2. \A t \in Tasks : task[t] # "none" => Leads(t) /\ Layer(t) = 1
  BY <1>1 DEF Leads, Layer
<1>3. \A t \in Tasks : task[t] \in Running => task[t] # "none"
  BY DEF Running, Holding
<1> QED
  BY <1>1, <1>2, <1>3 DEF Init, Led

(* A goroutine moves on without being done.                                *)
LEMMA MoveLed ==
    ASSUME TypeOK, Led, NEW t \in Tasks, NEW s \in States \ {"none", "ok"},
           task[t] \in Running, Become(t, s),
           UNCHANGED <<stage, results, outcome>>
    PROVE  Led'
<1>1. \A u \in Tasks : /\ task'[u] = "ok" <=> task[u] = "ok"
                       /\ task'[u] = "none" <=> task[u] = "none"
                       /\ task'[u] \in Running => task[u] \in Running
  BY DEF Become, TypeOK, Running, Holding
<1>2. \A x \in results : x.row \in Tasks
  BY DEF TypeOK, Tasks
<1>3. outcome # "ok"
  BY DEF Led, Running, Holding
<1>4. stage' = stage /\ results' = results /\ outcome' = outcome
  OBVIOUS
<1> QED
  BY <1>1, <1>2, <1>3, <1>4 DEF Led, ParsedBy

(* A page is parsed.                                                       *)
LEMMA ParsedLed ==
    ASSUME TypeOK, Led, NEW t \in Tasks, task[t] = "requesting", Become(t, "ok"),
           results' = results \cup ParsedBy(t), UNCHANGED <<stage, outcome>>
    PROVE  Led'
<1>1. \A u \in Tasks : /\ task'[u] = "ok" <=> task[u] = "ok" \/ u = t
                       /\ task'[u] = "none" <=> task[u] = "none"
                       /\ task'[u] \in Running => task[u] \in Running
  BY DEF Become, TypeOK, Running, Holding
<1>2. \A x \in ParsedBy(t) : x.by = t
  BY DEF ParsedBy
<1>3. outcome # "ok"
  BY DEF Led
<1>4. Layer(t) = stage
  BY DEF Led, Running, Holding
<1>5. \A x \in results : x.row \in Tasks
  BY DEF TypeOK, Tasks
<1>6. ASSUME NEW x \in results', Layer(x.by) < stage PROVE x \in results
  BY <1>2, <1>4, <1>6 DEF TypeOK
<1>7. \A x \in results' : \E u \in Tasks : task'[u] = "ok" /\ x \in ParsedBy(u)
  BY <1>1 DEF Led
<1>8. \A u \in Tasks : task'[u] = "ok" => ParsedBy(u) \subseteq results'
  BY <1>1 DEF Led
<1>9. \A x \in results' : Layer(x.by) < stage => task'[x.row] # "none"
  BY <1>1, <1>5, <1>6 DEF Led
<1>10. \A u \in Tasks : /\ task'[u] # "none" => Leads(u) /\ Layer(u) <= stage
                        /\ task'[u] \in Running => Layer(u) = stage
  BY <1>1 DEF Led
<1> QED
  BY <1>3, <1>7, <1>8, <1>9, <1>10 DEF Led, ParsedBy

(* The next layer is started by the rows found in this one.                *)
LEMMA NextLayerLed ==
    ASSUME LaidOut, TypeOK, Led, Finished, ~SomeAre("failed"), ~SomeAre("cancelled"),
           outcome = "none", stage < 3, stage' = stage + 1,
           task' = [t \in Tasks |-> IF t \in Linked THEN "waiting" ELSE task[t]],
           UNCHANGED <<results, outcome>>
    PROVE  Led'
<1>1. ASSUME NEW x \in results, Layer(x.by) = stage
      PROVE  /\ x.row \in Rows /\ Leads(x.row)
             /\ Layer(x.row) = stage + 1
  <2>1. PICK t \in Tasks : task[t] = "ok" /\ x \in ParsedBy(t)
    BY DEF Led
  <2>2. /\ x.by = t /\ x.row \in Rows /\ On[x.row] = Page(t)
        /\ Parsed(Layer(t), Row[x.row]) # {}
    BY <2>1 DEF ParsedBy
  <2>3. Leads(t) /\ stage = Layer(t) /\ Layer(t) \in {1, 2}
    BY <1>1, <2>1, <2>2, LayersOfTasks DEF Led
  <2>4. x.row # Main
    BY <2>2, ScraperOK
  <2>5. CASE Layer(t) = 1
    <3>1. t = Main
      BY <2>5 DEF Layer
    <3>2. On[x.row] = MainPage
      BY <2>2, <3>1 DEF Page
    <3> QED
      BY <2>2, <2>3, <2>4, <2>5, <3>2 DEF Layer, Leads
  <2>6. CASE Layer(t) = 2
    <3>1. t \in Rows /\ t # Main /\ On[t] = MainPage
      BY <2>6 DEF Layer, Tasks
    <3>2. On[x.row] # MainPage
      BY <2>2, <2>3, <3>1 DEF Page, LaidOut
    <3> QED
      BY <2>2, <2>3, <2>4, <2>6, <3>2 DEF Layer, Leads
  <2> QED
    BY <2>3, <2>5, <2>6
<1>2. \A t \in Linked : t \in Tasks /\ Leads(t) /\ Layer(t) = stage + 1
  BY <1>1 DEF Linked, Tasks
<1>3. \A t \in Linked : task[t] = "none"
  BY <1>2 DEF Led, TypeOK
<1>4. \A t \in Tasks : task[t] \in {"none", "ok", "void"}
  BY DEF Finished, SomeAre
<1>5. \A t \in Tasks : task'[t] = "ok" <=> task[t] = "ok"
  BY <1>3
<1>6. /\ \A x \in results' : \E t \in Tasks : task'[t] = "ok" /\ x \in ParsedBy(t)
      /\ \A t \in Tasks : task'[t] = "ok" => ParsedBy(t) \subseteq results'
  BY <1>5 DEF Led
<1>7. \A t \in Tasks : task'[t] # "none" => Leads(t) /\ Layer(t) <= stage + 1
  BY <1>2, LayersOfTasks DEF Led, TypeOK
<1>8. \A t \in Tasks : task'[t] \in Running => Layer(t) = stage + 1
  BY <1>2, <1>4 DEF Running, Holding
<1>9. ASSUME NEW x \in results, Layer(x.by) < stage + 1 PROVE task'[x.row] # "none"
  <2>1. x.row \in Tasks /\ x.by \in Tasks
    BY DEF TypeOK, Tasks
  <2>2. CASE Layer(x.by) = stage
    <3>1. x.row \in Linked
      BY <2>2 DEF Linked
    <3> QED
      BY <2>1, <3>1
  <2>3. CASE Layer(x.by) < stage
    BY <2>1, <2>3 DEF Led
  <2> QED
    BY <1>9, <2>1, <2>2, <2>3, LayersOfTasks DEF TypeOK
<1> QED
  BY <1>6, <1>7, <1>8, <1>9 DEF Led, ParsedBy

LEMMA StepLed == LaidOut /\ TypeOK /\ Led /\ [Next]_vars => Led'
<1> SUFFICES ASSUME LaidOut, TypeOK, Led, [Next]_vars PROVE Led'
  OBVIOUS
<1>1. ASSUME NEW t \in Tasks, Fetch(t) PROVE Led'
  <2>1. CASE Acquire(t) \/ GiveUp(t)
    BY <2>1, MoveLed DEF Acquire, GiveUp, States, Running, Holding
  <2>2. CASE CheckSpacing(t) \/ WakeUp(t)
    BY <2>2, MoveLed DEF CheckSpacing, WakeUp, Dispatch, States, Running, Holding
  <2>3. CASE GoToSleep(t) \/ SleepCancelled(t)
    BY <2>3, MoveLed DEF GoToSleep, SleepCancelled, States, Running, Holding
  <2>4. CASE CheckContext(t) \/ CheckVisited(t) \/ Visit(t)
    BY <2>4, MoveLed DEF CheckContext, CheckVisited, Visit, States, Running, Holding
  <2>5. CASE Reply(t)
    BY <2>5, MoveLed, ParsedLed DEF Reply, States, Running, Holding
  <2> QED
    BY <1>1, <2>1, <2>2, <2>3, <2>4, <2>5 DEF Fetch
<1>2. ASSUME Wait PROVE Led'
  <2>1. CASE stage' = stage + 1
    BY <1>2, <2>1, NextLayerLed DEF Wait, TypeOK
  <2>2. CASE UNCHANGED <<stage, task>>
    <3>1. outcome' = "ok" => stage = 3 /\ \A t \in Tasks : task[t] \in {"none", "ok", "void"}
      BY <1>2, <2>2 DEF Wait, Finished, SomeAre, TypeOK
    <3>2. results' = results
      BY <1>2 DEF Wait
    <3> QED
      BY <2>2, <3>1, <3>2 DEF Led
  <2> QED
    BY <1>2, <2>1, <2>2 DEF Wait
<1>3. ASSUME Cancel \/ Tick \/ UNCHANGED vars PROVE Led'
  BY <1>3 DEF Led, Cancel, Tick, vars
<1> QED
  BY <1>1, <1>2, <1>3 DEF Next

(* On a wiki that is laid out as the parsers expect, a scrape that         *)
(* succeeds returns what is meant by every page it was led to, and nothing *)
(* else, whichever pages fail and in whatever order they come.             *)
THEOREM ScrapesAllOrNothing == ASSUME LaidOut PROVE Spec => []AllOrNothing
<1>1. ASSUME TypeOK, Led, outcome = "ok" PROVE AllOrNothing
  <2> DEFINE Whole == {x \in [by : Tasks, row : Rows, as : UNION {Meant[r] : r \in Rows}] :
                         task[x.by] = "ok" /\ On[x.row] = Page(x.by) /\ x.as \in Meant[x.row]}
  <2>1. \A t \in Tasks, r \in Rows :
           task[t] = "ok" /\ On[r] = Page(t) => Parsed(Layer(t), Row[r]) = Meant[r]
    BY <1>1 DEF Led, LaidOut
  <2>2. ASSUME NEW x \in results PROVE x \in Whole
    <3>1. PICK t \in Tasks : task[t] = "ok" /\ x \in ParsedBy(t)
      BY <1>1 DEF Led
    <3>2. PICK r \in Rows : On[r] = Page(t) /\ \E y \in Parsed(Layer(t), Row[r]) :
                                                 x = [by |-> t, row |-> r, as |-> y]
      BY <3>1 DEF ParsedBy
    <3>3. PICK y \in Meant[r] : x = [by |-> t, row |-> r, as |-> y]
      BY <2>1, <3>1, <3>2
    <3> QED
      BY <3>1, <3>2, <3>3
  <2>3. ASSUME NEW x \in Whole PROVE x \in results
    <3>1. /\ x = [by |-> x.by, row |-> x.row, as |-> x.as]
          /\ x.by \in Tasks /\ x.row \in Rows /\ task[x.by] = "ok"
          /\ On[x.row] = Page(x.by) /\ x.as \in Parsed(Layer(x.by), Row[x.row])
      BY <2>1
    <3>2. x \in ParsedBy(x.by)
      BY <3>1 DEF ParsedBy
    <3> QED
      BY <1>1, <3>1, <3>2 DEF Led
  <2>4. results = Whole
    BY <2>2, <2>3
  <2>5. /\ \A t \in Tasks : task[t] \in {"none", "ok", "void"}
        /\ \A x \in results : Layer(x.by) < 3 => task[x.row] # "none"
    BY <1>1 DEF Led
  <2> QED
    BY <2>4, <2>5 DEF AllOrNothing
<1>2. TypeOK /\ Led => AllOrNothing
  BY <1>1 DEF AllOrNothing
<1>3. TypeOK /\ Led /\ [Next]_vars => Led'
  BY StepLed
<1> QED
  BY <1>2, <1>3, InitTypeOK, StepTypeOK, InitLed, PTL DEF Spec
=============================================================================
