--------------------------- MODULE IngestionProofs ---------------------------
(***************************************************************************)
(* Theorems about Ingestion, for every set of jobs, workers and franchises *)
(* and any number of executions.                                           *)
(***************************************************************************)
EXTENDS Ingestion, FiniteSetTheorems, TLAPS

(* TypeOK but for a bound on the copies.                                   *)
Typed ==
    /\ Queue!TypeOK
    /\ page \subseteq Names
    /\ step \in [Workers -> {"none", "scraping", "saving", "over"}]
    /\ scraped \in [Workers -> SUBSET Names]
    /\ todo \in [Workers -> SUBSET Names]
    /\ copies \in [Names -> Nat]
    /\ executions \in 0 .. MaxExecutions
    /\ verdicts \in [Jobs -> SUBSET {"completed", "failed"}]
    /\ result \in [Jobs -> {"none", "completed", "failed"}]
    /\ promised \in [Jobs -> SUBSET Names]

(* What an execution has inserted, or had inserted, is in the table.       *)
Saved ==
    /\ \A w \in Workers : step[w] = "saving" => \A n \in scraped[w] \ todo[w] : copies[n] > 0
    /\ \A j \in Jobs : \A n \in promised[j] : copies[n] > 0

(* Executions that have n still to insert.                                 *)
Owing(n) == {w \in Workers : step[w] = "scraping" \/ (step[w] = "saving" /\ n \in todo[w])}

(* The rows of a franchise, with those still to come, are no more than the *)
(* executions.  (Cardinality says nothing of infinite sets.)               *)
Accounted(n) ==
    IsFiniteSet(Owing(n)) /\ copies[n] + Cardinality(Owing(n)) <= executions

AllAccounted == \A n \in Names : Accounted(n)

LEMMA CountOfSubset ==
    ASSUME NEW S, NEW T, IsFiniteSet(S), T \subseteq S
    PROVE  /\ IsFiniteSet(T)
           /\ Cardinality(T) \in Nat /\ Cardinality(S) \in Nat
           /\ Cardinality(T) <= Cardinality(S)
BY FS_Subset, FS_CardinalityType

LEMMA CountOfRemoved ==
    ASSUME NEW S, NEW T, NEW x \in S, IsFiniteSet(S), T \subseteq S \ {x}
    PROVE  /\ IsFiniteSet(T)
           /\ Cardinality(T) \in Nat /\ Cardinality(S) \in Nat
           /\ Cardinality(T) + 1 <= Cardinality(S)
<1>1. /\ IsFiniteSet(S \ {x})
      /\ Cardinality(S \ {x}) = Cardinality(S) - 1
  BY FS_RemoveElement
<1>2. /\ IsFiniteSet(T) /\ Cardinality(T) \in Nat
      /\ Cardinality(T) <= Cardinality(S \ {x})
  BY <1>1, CountOfSubset
<1>3. Cardinality(S) \in Nat
  BY FS_CardinalityType
<1> QED
  BY <1>1, <1>2, <1>3

LEMMA CountWithOneMore ==
    ASSUME NEW S, NEW T, NEW x, IsFiniteSet(S), T \subseteq S \cup {x}
    PROVE  /\ IsFiniteSet(T)
           /\ Cardinality(T) \in Nat /\ Cardinality(S) \in Nat
           /\ Cardinality(T) <= Cardinality(S) + 1
<1>1. /\ IsFiniteSet(S \cup {x})
      /\ Cardinality(S \cup {x}) = Cardinality(S) \/ Cardinality(S \cup {x}) = Cardinality(S) + 1
  BY FS_AddElement
<1>2. /\ IsFiniteSet(T) /\ Cardinality(T) \in Nat
      /\ Cardinality(T) <= Cardinality(S \cup {x})
  BY <1>1, CountOfSubset
<1>3. Cardinality(S) \in Nat
  BY FS_CardinalityType
<1> QED
  BY <1>1, <1>2, <1>3

-----------------------------------------------------------------------------
LEMMA InitTyped == Init => Typed
<1> SUFFICES ASSUME Init PROVE Typed
  OBVIOUS
<1>1. Queue!TypeOK
  BY DEF Init, Queue!Init, Queue!TypeOK, Queue!Phases
<1>2. executions \in 0 .. MaxExecutions
  BY IngestionOK DEF Init
<1>3. /\ step \in [Workers -> {"none", "scraping", "saving", "over"}]
      /\ scraped \in [Workers -> SUBSET Names] /\ todo \in [Workers -> SUBSET Names]
      /\ copies \in [Names -> Nat]
  BY DEF Init
<1>4. /\ verdicts \in [Jobs -> SUBSET {"completed", "failed"}]
      /\ result \in [Jobs -> {"none", "completed", "failed"}]
      /\ promised \in [Jobs -> SUBSET Names]
  BY DEF Init
<1> QED
  BY <1>1, <1>2, <1>3, <1>4 DEF Init, Typed

LEMMA QueueTyped ==
    ASSUME Queue!TypeOK,
           \/ \E j \in Jobs : \/ Queue!Submit(j) \/ Queue!Misstart(j) \/ Queue!Close(j)
                              \/ \E w \in Workers : Queue!Start(w, j)
           \/ \E w \in Workers : Queue!Stop(w)
    PROVE  Queue!TypeOK'
BY DEF Queue!TypeOK, Queue!Phases, Queue!Submit, Queue!Misstart, Queue!Close, Queue!Start,
       Queue!Stop

LEMMA QueueUnchanged == Queue!TypeOK /\ UNCHANGED queue => Queue!TypeOK'
BY DEF Queue!TypeOK, queue

(* The steps of the queue and of the wiki.                                 *)
LEMMA OutsideTyped ==
    ASSUME Typed, NEW j \in Jobs,
           \/ Submit(j) \/ Misstart(j) \/ Close(j) \/ Edit
           \/ \E w \in Workers : Start(w, j)
    PROVE  Typed'
<1>1. CASE Submit(j) \/ Misstart(j)
  BY <1>1, QueueTyped DEF Typed, Submit, Misstart, local, books
<1>2. CASE Close(j)
  <2>1. Queue!TypeOK'
    BY <1>2, QueueTyped, QueueUnchanged DEF Typed, Close
  <2>2. result' \in [Jobs -> {"none", "completed", "failed"}]
    BY <1>2 DEF Typed, Close
  <2> QED
    BY <1>2, <2>1, <2>2 DEF Typed, Close, local
<1>3. CASE Edit
  BY <1>3, QueueUnchanged DEF Typed, Edit, local, books
<1>4. ASSUME NEW w \in Workers, Start(w, j) PROVE Typed'
  <2>1. Queue!TypeOK'
    BY <1>4, QueueTyped DEF Typed, Start
  <2>2. executions' \in 0 .. MaxExecutions
    BY <1>4, IngestionOK DEF Typed, Start
  <2> QED
    BY <1>4, <2>1, <2>2 DEF Typed, Start, books
<1> QED
  BY <1>1, <1>2, <1>3, <1>4

(* The steps of an execution.                                              *)
LEMMA ExecutionTyped ==
    ASSUME Typed, NEW w \in Workers, Execution(w)
    PROVE  Typed'
<1>1. CASE Scrape(w)
  BY <1>1, QueueUnchanged DEF Typed, Scrape, books
<1>2. \A n \in Names : Inserted(n) \in [Names -> Nat]
  BY DEF Typed, Inserted
<1>3. CASE Save(w)
  BY <1>2, <1>3, QueueUnchanged DEF Typed, Save, books
<1>4. ASSUME NEW v \in {"completed", "failed"}, Reported(w, v)
      PROVE  verdicts' \in [Jobs -> SUBSET {"completed", "failed"}]
  BY <1>4 DEF Typed, Reported
<1>5. CASE ScrapeFails(w)
  BY <1>4, <1>5, QueueUnchanged DEF Typed, ScrapeFails
<1>6. CASE CreateFails(w)
  <2>1. copies' \in [Names -> Nat]
    BY <1>2, <1>6 DEF Typed, CreateFails
  <2> QED
    BY <1>4, <1>6, <2>1, QueueUnchanged DEF Typed, CreateFails
<1>7. CASE Done(w)
  BY <1>4, <1>7, QueueUnchanged DEF Typed, Done
<1>8. CASE Stop(w)
  BY <1>8, QueueTyped DEF Typed, Stop, books
<1> QED
  BY <1>1, <1>3, <1>5, <1>6, <1>7, <1>8 DEF Execution

LEMMA StepTyped == Typed /\ [Next]_vars => Typed'
<1>1. ASSUME Typed, Next PROVE Typed'
  <2>1. CASE Edit
    BY <1>1, <2>1, QueueUnchanged DEF Typed, Edit, local, books
  <2> QED
    BY <1>1, <2>1, OutsideTyped, ExecutionTyped DEF Next
<1>2. ASSUME Typed, UNCHANGED vars PROVE Typed'
  BY <1>2, QueueUnchanged DEF Typed, vars, queue
<1> QED
  BY <1>1, <1>2

-----------------------------------------------------------------------------
LEMMA InitSaved == Init => Saved
BY DEF Init, Saved

LEMMA StepSaved == Typed /\ Saved /\ [Next]_vars => Saved'
<1> SUFFICES ASSUME Typed, Saved, [Next]_vars PROVE Saved'
  OBVIOUS
<1>0. \A n \in Names : copies[n] \in Nat /\ copies'[n] \in Nat
  BY StepTyped DEF Typed
<1>1. ASSUME \A n \in Names : copies'[n] >= copies[n],
             UNCHANGED promised,
             \A w \in Workers :
                 step'[w] = "saving" =>
                     \/ step[w] = "saving" /\ scraped'[w] = scraped[w] /\ todo'[w] = todo[w]
                     \/ scraped'[w] = todo'[w]
      PROVE  Saved'
  <2>1. ASSUME NEW n \in Names, copies[n] > 0 PROVE copies'[n] > 0
    BY <1>0, <1>1, <2>1
  <2>2. ASSUME NEW w \in Workers, step'[w] = "saving", NEW n \in scraped'[w] \ todo'[w]
        PROVE  copies'[n] > 0
    <3>1. step[w] = "saving" /\ n \in scraped[w] \ todo[w]
      BY <1>1, <2>2
    <3> QED
      BY <2>1, <3>1 DEF Typed, Saved
  <2>3. ASSUME NEW j \in Jobs, NEW n \in promised'[j] PROVE copies'[n] > 0
    BY <1>1, <2>1, <2>3 DEF Typed, Saved
  <2> QED
    BY <2>2, <2>3 DEF Saved
<1>2. ASSUME NEW j \in Jobs,
             \/ Submit(j) \/ Misstart(j) \/ Close(j)
             \/ \E w \in Workers : Start(w, j)
      PROVE  Saved'
  BY <1>1, <1>2 DEF Typed, Submit, Misstart, Close, Start, local, books
<1>3. ASSUME Edit PROVE Saved'
  BY <1>1, <1>3 DEF Typed, Edit, local, books
<1>4. ASSUME NEW w \in Workers, Execution(w) PROVE Saved'
  <2>1. CASE Scrape(w)
    <3>1. PICK answer \in {page, {}} : /\ scraped' = [scraped EXCEPT ![w] = answer]
                                       /\ todo' = [todo EXCEPT ![w] = answer]
      BY <2>1 DEF Scrape
    <3>2. \A v \in Workers \ {w} : step'[v] = step[v]
      BY <2>1 DEF Typed, Scrape
    <3> QED
      BY <1>1, <2>1, <3>1, <3>2 DEF Typed, Scrape, books
  <2>2. CASE ScrapeFails(w)
    BY <1>1, <2>2 DEF Typed, ScrapeFails
  <2>3. CASE Save(w)
    <3>1. PICK n \in todo[w] : copies' = Inserted(n) /\ todo' = [todo EXCEPT ![w] = @ \ {n}]
      BY <2>3 DEF Save
    <3>2. n \in Names /\ \A k \in Names : copies'[k] = IF k = n THEN copies[k] + 1 ELSE copies[k]
      BY <3>1 DEF Typed, Inserted
    <3> QED
      BY <2>3, <3>1, <3>2 DEF Typed, Saved, Save, books
  <2>4. CASE CreateFails(w)
    <3>1. \A k \in Names : copies'[k] >= copies[k]
      BY <2>4 DEF Typed, CreateFails, Inserted
    <3> QED
      BY <1>1, <2>4, <3>1 DEF Typed, CreateFails
  <2>5. CASE Done(w)
    <3>1. \A n \in scraped[w] : copies[n] > 0
      BY <2>5 DEF Typed, Saved, Done
    <3>2. \A j \in Jobs : promised'[j] \subseteq promised[j] \cup scraped[w]
      BY <2>5 DEF Typed, Done
    <3>3. /\ copies' = copies /\ scraped' = scraped /\ todo' = todo
          /\ \A v \in Workers : step'[v] = "saving" => step[v] = "saving"
      BY <2>5 DEF Typed, Done
    <3> QED
      BY <3>1, <3>2, <3>3 DEF Saved
  <2>6. CASE Stop(w)
    BY <1>1, <2>6 DEF Typed, Stop, books
  <2> QED
    BY <1>4, <2>1, <2>2, <2>3, <2>4, <2>5, <2>6 DEF Execution
<1>5. ASSUME UNCHANGED vars PROVE Saved'
  BY <1>1, <1>5 DEF Typed, vars
<1> QED
  BY <1>2, <1>3, <1>4, <1>5 DEF Next

(* A job that a client is shown as completed has saved what it scraped.    *)
THEOREM CompletedIsSaved == Spec => []CompletedMeansSaved
<1>1. Saved => CompletedMeansSaved
  BY DEF Saved, CompletedMeansSaved
<1> QED
  BY <1>1, InitTyped, StepTyped, InitSaved, StepSaved, PTL DEF Spec

-----------------------------------------------------------------------------
LEMMA InitAccounted == Init => AllAccounted
<1> SUFFICES ASSUME Init, NEW n \in Names PROVE Accounted(n)
  BY DEF AllAccounted
<1>1. Owing(n) = {}
  BY DEF Init, Owing
<1>2. IsFiniteSet({}) /\ Cardinality({}) = 0
  BY FS_EmptySet
<1> QED
  BY <1>1, <1>2 DEF Init, Accounted

(* Nothing is inserted and nobody owes more.                               *)
LEMMA QuietAccounted ==
    ASSUME Typed, AllAccounted, UNCHANGED <<executions, copies>>,
           \A n \in Names : Owing(n)' \subseteq Owing(n)
    PROVE  AllAccounted'
<1> SUFFICES ASSUME NEW n \in Names PROVE Accounted(n)'
  BY DEF AllAccounted
<1>1. /\ IsFiniteSet(Owing(n)')
      /\ Cardinality(Owing(n)') \in Nat /\ Cardinality(Owing(n)) \in Nat
      /\ Cardinality(Owing(n)') <= Cardinality(Owing(n))
  BY CountOfSubset DEF AllAccounted, Accounted
<1>2. copies[n] + Cardinality(Owing(n)) <= executions
  BY DEF AllAccounted, Accounted
<1> QED
  BY <1>1, <1>2 DEF Typed, Accounted

(* A franchise that w owed is inserted, and w owes it no more.             *)
LEMMA InsertAccounted ==
    ASSUME Typed, AllAccounted, NEW w \in Workers, NEW m \in todo[w],
           step[w] = "saving", copies' = Inserted(m), UNCHANGED executions,
           \A n \in Names : Owing(n)' \subseteq Owing(n),
           w \notin Owing(m)'
    PROVE  AllAccounted'
<1> SUFFICES ASSUME NEW n \in Names PROVE Accounted(n)'
  BY DEF AllAccounted
<1>1. IsFiniteSet(Owing(n)) /\ copies[n] + Cardinality(Owing(n)) <= executions
  BY DEF AllAccounted, Accounted
<1>2. m \in Names /\ copies'[n] = IF n = m THEN copies[n] + 1 ELSE copies[n]
  BY DEF Typed, Inserted
<1>3. CASE n = m
  <2>1. w \in Owing(n)
    BY <1>3 DEF Owing
  <2>2. Owing(n)' \subseteq Owing(n) \ {w}
    BY <1>3
  <2>3. /\ IsFiniteSet(Owing(n)')
        /\ Cardinality(Owing(n)') \in Nat /\ Cardinality(Owing(n)) \in Nat
        /\ Cardinality(Owing(n)') + 1 <= Cardinality(Owing(n))
    BY <1>1, <2>1, <2>2, CountOfRemoved
  <2> QED
    BY <1>1, <1>2, <1>3, <2>3 DEF Typed, Accounted
<1>4. CASE n # m
  <2>1. /\ IsFiniteSet(Owing(n)')
        /\ Cardinality(Owing(n)') \in Nat /\ Cardinality(Owing(n)) \in Nat
        /\ Cardinality(Owing(n)') <= Cardinality(Owing(n))
    BY <1>1, CountOfSubset
  <2> QED
    BY <1>1, <1>2, <1>4, <2>1 DEF Typed, Accounted
<1> QED
  BY <1>3, <1>4

LEMMA StartAccounted ==
    ASSUME Typed, AllAccounted, NEW w \in Workers, NEW j \in Jobs, Start(w, j)
    PROVE  AllAccounted'
<1> SUFFICES ASSUME NEW n \in Names PROVE Accounted(n)'
  BY DEF AllAccounted
<1>1. IsFiniteSet(Owing(n)) /\ copies[n] + Cardinality(Owing(n)) <= executions
  BY DEF AllAccounted, Accounted
<1>2. Owing(n)' \subseteq Owing(n) \cup {w}
  BY DEF Typed, Start, Owing
<1>3. /\ IsFiniteSet(Owing(n)')
      /\ Cardinality(Owing(n)') \in Nat /\ Cardinality(Owing(n)) \in Nat
      /\ Cardinality(Owing(n)') <= Cardinality(Owing(n)) + 1
  BY <1>1, <1>2, CountWithOneMore
<1>4. executions' = executions + 1 /\ copies' = copies
  BY DEF Start
<1> QED
  BY <1>1, <1>3, <1>4 DEF Typed, Accounted

LEMMA ExecutionAccounted ==
    ASSUME Typed, AllAccounted, NEW w \in Workers, Execution(w)
    PROVE  AllAccounted'
<1>1. ASSUME NEW n \in Names PROVE Owing(n)' \subseteq Owing(n)
  <2>1. CASE Scrape(w) \/ ScrapeFails(w)
    BY <2>1 DEF Typed, Scrape, ScrapeFails, Owing
  <2>2. CASE Save(w)
    BY <2>2 DEF Typed, Save, Owing
  <2>3. CASE CreateFails(w) \/ Done(w) \/ Stop(w)
    BY <2>3 DEF Typed, CreateFails, Done, Stop, Owing
  <2> QED
    BY <2>1, <2>2, <2>3 DEF Execution
<1>2. CASE UNCHANGED copies
  <2>1. UNCHANGED executions
    BY DEF Execution, Scrape, ScrapeFails, Save, CreateFails, Done, Stop
  <2> QED
    BY <1>1, <1>2, <2>1, QuietAccounted
<1>3. CASE \E m \in todo[w] : step[w] = "saving" /\ copies' = Inserted(m)
                                /\ (Save(w) => todo'[w] = todo[w] \ {m})
  <2>1. PICK m \in todo[w] : /\ step[w] = "saving" /\ copies' = Inserted(m)
                             /\ Save(w) => todo'[w] = todo[w] \ {m}
    BY <1>3
  <2>2. CASE Save(w)
    <3>1. w \notin Owing(m)'
      BY <2>1, <2>2 DEF Owing, Save
    <3> QED
      BY <1>1, <2>1, <2>2, <3>1, InsertAccounted DEF Save
  <2>3. CASE CreateFails(w)
    <3>1. w \notin Owing(m)'
      BY <2>3 DEF Typed, Owing, CreateFails
    <3> QED
      BY <1>1, <2>1, <2>3, <3>1, InsertAccounted DEF CreateFails
  <2>4. CASE UNCHANGED copies
    BY <1>2, <2>4
  <2> QED
    BY <2>2, <2>3, <2>4 DEF Execution, Scrape, ScrapeFails, Done, Stop
<1>4. \/ UNCHANGED copies
      \/ \E m \in todo[w] : step[w] = "saving" /\ copies' = Inserted(m)
                              /\ (Save(w) => todo'[w] = todo[w] \ {m})
  <2>1. CASE Save(w)
    BY <2>1 DEF Typed, Save
  <2>2. CASE ~Save(w)
    BY <2>2 DEF Execution, Scrape, ScrapeFails, CreateFails, Done, Stop
  <2> QED
    BY <2>1, <2>2
<1> QED
  BY <1>2, <1>3, <1>4

LEMMA StepAccounted == Typed /\ AllAccounted /\ [Next]_vars => AllAccounted'
<1> SUFFICES ASSUME Typed, AllAccounted, [Next]_vars PROVE AllAccounted'
  OBVIOUS
<1>1. ASSUME UNCHANGED <<executions, copies, step, todo>> PROVE AllAccounted'
  BY <1>1, QuietAccounted DEF Owing
<1>2. ASSUME NEW j \in Jobs, Submit(j) \/ Misstart(j) \/ Close(j) PROVE AllAccounted'
  BY <1>1, <1>2 DEF Submit, Misstart, Close, local
<1>3. ASSUME Edit \/ UNCHANGED vars PROVE AllAccounted'
  BY <1>1, <1>3 DEF Edit, local, vars
<1> QED
  BY <1>2, <1>3, StartAccounted, ExecutionAccounted DEF Next

(* The state is well typed, and the rows of a franchise never outnumber    *)
(* the executions: the table has one row for each execution that got there *)
(* at the most.                                                            *)
THEOREM TypeCorrect == Spec => []TypeOK
<1>1. Typed /\ AllAccounted => TypeOK
  <2> SUFFICES ASSUME Typed, AllAccounted PROVE TypeOK
    OBVIOUS
  <2>1. ASSUME NEW n \in Names PROVE copies[n] \in 0 .. MaxExecutions
    <3>1. Cardinality(Owing(n)) \in Nat
      BY FS_CardinalityType DEF AllAccounted, Accounted
    <3> QED
      BY <3>1, IngestionOK DEF Typed, AllAccounted, Accounted
  <2> QED
    BY <2>1 DEF Typed, TypeOK
<1> QED
  BY <1>1, InitTyped, StepTyped, InitAccounted, StepAccounted, PTL DEF Spec
-----------------------------------------------------------------------------
(* Executions may do with the franchises what they like: to the queue they *)
(* are the workers of JobLifecycle, and nothing they do moves a job        *)
(* otherwise.  JobQueue implements JobLifecycle too, so what holds of the  *)
(* table of franchises on that promise holds of it on the table of jobs.   *)
THEOREM Refinement == Spec => Queue!Spec
<1>1. Init => Queue!Init
  BY DEF Init
<1>2. [Next]_vars => [Queue!Next]_Queue!vars
  <2> SUFFICES ASSUME [Next]_vars PROVE Queue!Next \/ UNCHANGED Queue!vars
    OBVIOUS
  <2>1. ASSUME NEW j \in Jobs, Submit(j) \/ Misstart(j)
        PROVE  Queue!Next
    BY <2>1 DEF Submit, Misstart, Queue!Next
  (* An outcome that replaces another one is no step of the queue.         *)
  <2>2. ASSUME NEW j \in Jobs, Close(j)
        PROVE  Queue!Next \/ UNCHANGED Queue!vars
    BY <2>2 DEF Close, Queue!Next, Queue!vars, queue
  <2>3. ASSUME NEW w \in Workers, NEW j \in Jobs, Start(w, j)
        PROVE  Queue!Next
    BY <2>3 DEF Start, Queue!Next
  <2>4. ASSUME NEW w \in Workers, Execution(w)
        PROVE  Queue!Next \/ UNCHANGED Queue!vars
    <3>1. CASE Stop(w)
      BY <3>1 DEF Stop, Queue!Next
    <3>2. CASE Scrape(w) \/ ScrapeFails(w) \/ Save(w) \/ CreateFails(w) \/ Done(w)
      BY <3>2 DEF Scrape, ScrapeFails, Save, CreateFails, Done, Queue!vars, queue
    <3> QED
      BY <2>4, <3>1, <3>2 DEF Execution
  <2>5. CASE Edit \/ UNCHANGED vars
    BY <2>5 DEF Edit, vars, Queue!vars, queue
  <2> QED
    BY <2>1, <2>2, <2>3, <2>4, <2>5 DEF Next
<1> QED
  BY <1>1, <1>2, PTL DEF Spec, Queue!Spec
=============================================================================
