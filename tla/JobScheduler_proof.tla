------------------------- MODULE JobScheduler_proof -------------------------
(***************************************************************************)
(* Safety of the job scheduler for every set of jobs and workers, number   *)
(* of attempts and rate.  The inductive invariant is built in four layers, *)
(* each inductive relative to those before it:                             *)
(*   TypeInv   every variable has its type, and exactly the busy workers   *)
(*             hold a job;                                                 *)
(*   PlaceInv  where the jobs are;                                         *)
(*   FieldInv  what a job's fields say at each place;                      *)
(*   FlowInv   how the running thread's position, the futures and the      *)
(*             promised jobs relate to the places.                         *)
(***************************************************************************)
EXTENDS JobScheduler, RateLimiterCallers, FiniteSetTheorems, SequenceTheorems,
        TLAPS

(***************************************************************************)
(* Queues without repetition.                                              *)
(***************************************************************************)
NoRepeat(q) == \A m, n \in 1..Len(q) : q[m] = q[n] => m = n

(* What is put on a queue is added to its elements. *)
LEMMA AppendQueue ==
    ASSUME NEW S, NEW q \in Seq(S), NEW e \in S
    PROVE  /\ Append(q, e) \in Seq(S)
           /\ Range(Append(q, e)) = Range(q) \cup {e}
           /\ NoRepeat(q) /\ e \notin Range(q) => NoRepeat(Append(q, e))
  <1>1. /\ Append(q, e) \in Seq(S)
        /\ Len(Append(q, e)) = Len(q) + 1
        /\ Len(q) \in Nat
        /\ \A i \in 1..Len(q) : Append(q, e)[i] = q[i]
        /\ Append(q, e)[Len(q) + 1] = e
        /\ DOMAIN q = 1..Len(q)
        /\ DOMAIN Append(q, e) = 1..(Len(q) + 1)
    OBVIOUS
  <1>2. Range(Append(q, e)) = Range(q) \cup {e}
    <2>1. ASSUME NEW x \in Range(Append(q, e))
          PROVE  x \in Range(q) \cup {e}
      <3>1. PICK i \in 1..(Len(q) + 1) : x = Append(q, e)[i]
        BY <1>1, <2>1 DEF Range
      <3> QED
        BY <1>1, <3>1 DEF Range
    <2>2. ASSUME NEW x \in Range(q)
          PROVE  x \in Range(Append(q, e))
      <3>1. PICK i \in 1..Len(q) : x = q[i]
        BY <1>1, <2>2 DEF Range
      <3>2. i \in 1..(Len(q) + 1) /\ x = Append(q, e)[i]
        BY <1>1, <3>1
      <3> QED
        BY <1>1, <3>2 DEF Range
    <2>3. e \in Range(Append(q, e))
      <3>1. Len(q) + 1 \in 1..(Len(q) + 1)
        BY <1>1
      <3> QED
        BY <1>1, <3>1 DEF Range
    <2> QED
      BY <2>1, <2>2, <2>3
  <1>3. ASSUME NoRepeat(q), e \notin Range(q)
        PROVE  NoRepeat(Append(q, e))
    <2>1. \A i \in 1..Len(q) : q[i] # e
      BY <1>1, <1>3 DEF Range
    <2> QED
      BY <1>1, <1>3, <2>1 DEF NoRepeat
  <1> QED
    BY <1>1, <1>2, <1>3

(* What is taken from the head of a queue without repetition is no longer  *)
(* among its elements.                                                     *)
LEMMA TailQueue ==
    ASSUME NEW S, NEW q \in Seq(S), q # <<>>, NoRepeat(q)
    PROVE  /\ Tail(q) \in Seq(S)
           /\ Head(q) \in S
           /\ Head(q) \in Range(q)
           /\ Range(Tail(q)) = Range(q) \ {Head(q)}
           /\ NoRepeat(Tail(q))
  <1>1. /\ Tail(q) \in Seq(S)
        /\ Head(q) \in S
        /\ Head(q) = q[1]
        /\ Len(q) \in Nat \ {0}
        /\ Len(Tail(q)) = Len(q) - 1
        /\ \A i \in 1..(Len(q) - 1) : Tail(q)[i] = q[i + 1]
        /\ DOMAIN q = 1..Len(q)
        /\ DOMAIN Tail(q) = 1..(Len(q) - 1)
    OBVIOUS
  <1>2. Head(q) \in Range(q)
    BY <1>1 DEF Range
  <1>3. NoRepeat(Tail(q))
    BY <1>1 DEF NoRepeat
  <1>4. ASSUME NEW x \in Range(Tail(q))
        PROVE  x \in Range(q) \ {Head(q)}
    <2>1. PICK i \in 1..(Len(q) - 1) : x = Tail(q)[i]
      BY <1>1, <1>4 DEF Range
    <2>2. i + 1 \in 1..Len(q) /\ x = q[i + 1] /\ i + 1 # 1
      BY <1>1, <2>1
    <2>3. x # q[1]
      BY <1>1, <2>2 DEF NoRepeat
    <2> QED
      BY <1>1, <2>2, <2>3 DEF Range
  <1>5. ASSUME NEW x \in Range(q), x # Head(q)
        PROVE  x \in Range(Tail(q))
    <2>1. PICK i \in 1..Len(q) : x = q[i]
      BY <1>1, <1>5 DEF Range
    <2>2. i - 1 \in 1..(Len(q) - 1) /\ x = Tail(q)[i - 1]
      BY <1>1, <1>5, <2>1
    <2> QED
      BY <1>1, <2>2 DEF Range
  <1> QED
    BY <1>1, <1>2, <1>3, <1>4, <1>5

(* The elements of a queue are among those it may hold. *)
LEMMA QueueElements ==
    ASSUME NEW S, NEW q \in Seq(S)
    PROVE  /\ Range(q) \subseteq S
           /\ q = <<>> <=> Range(q) = {}
  <1>1. DOMAIN q = 1..Len(q) /\ Len(q) \in Nat /\ \A i \in 1..Len(q) : q[i] \in S
    OBVIOUS
  <1>2. q # <<>> => 1 \in 1..Len(q)
    BY EmptySeq, <1>1
  <1>3. q = <<>> => Range(q) = {}
    BY <1>1 DEF Range
  <1> QED
    BY <1>1, <1>2, <1>3 DEF Range

LEMMA EmptyQueue ==
    ASSUME NEW S
    PROVE  <<>> \in Seq(S) /\ Range(<<>>) = {} /\ NoRepeat(<<>>)
  BY DEF Range, NoRepeat

(***************************************************************************)
(* Layer one: types, with attempts not yet bounded.                        *)
(***************************************************************************)
LooseTypes ==
    /\ LimiterTypeOK
    /\ status \in [Jobs -> Statuses]
    /\ attempts \in [Jobs -> Nat]
    /\ hasResult \in [Jobs -> BOOLEAN]
    /\ completedAt \in [Jobs -> BOOLEAN]
    /\ results \subseteq Jobs
    /\ submitting \subseteq Jobs
    /\ jobQueue \in Seq(Jobs)
    /\ workQueue \in Seq(Jobs)
    /\ futures \subseteq Jobs
    /\ doneFutures \subseteq Jobs
    /\ pc \in [Workers -> {"idle", "loop", "begin", "calling", "storing"}]
    /\ hand \in [Workers -> Jobs \cup {NoJob}]
    /\ main \in {"idle", "draining", "waiting"}
    /\ runs \in 0..MaxRuns
    /\ promised \subseteq Jobs

BusyHold == \A w \in Workers : pc[w] = "idle" <=> hand[w] = NoJob

TypeInv == LooseTypes /\ BusyHold

(* A busy worker holds one of the jobs. *)
LEMMA BusyHand ==
    ASSUME TypeInv, NEW w \in Workers, pc[w] # "idle"
    PROVE  hand[w] \in Jobs /\ hand[w] # NoJob
  BY DEF TypeInv, LooseTypes, BusyHold

LEMMA CapacityIsNat == Capacity \in Nat
  BY LimiterAssumption DEF LimiterAssumption, Capacity

(* A pass of acquire and a tick keep the bucket's type. *)
LEMMA LimiterTyping ==
    ASSUME LimiterTypeOK, TakeToken \/ FindNoToken \/ Tick
    PROVE  LimiterTypeOK'
  <1>1. elapsed * PerTick \in Nat
    BY LimiterAssumption DEF LimiterAssumption, LimiterTypeOK
  <1>2. Available \in 0..Capacity
    BY <1>1, CapacityIsNat DEF LimiterTypeOK, Available
  <1>3. CASE Tick
    BY <1>3, LimiterAssumption
       DEF LimiterAssumption, LimiterTypeOK, Tick, Capacity
  <1>4. CASE TakeToken \/ FindNoToken
    <2>1. tokens' \in 0..Capacity /\ elapsed' = 0
      BY <1>2, <1>4, CapacityIsNat, LimiterAssumption
         DEF LimiterAssumption, TakeToken, FindNoToken
    <2> QED
      BY <2>1, LimiterAssumption
         DEF LimiterAssumption, LimiterTypeOK, Capacity
  <1> QED
    BY <1>3, <1>4

LEMMA InitTypeInv == Init => TypeInv
  BY LimiterAssumption, SchedulerAssumption, CapacityIsNat, EmptyQueue
     DEF LimiterAssumption, SchedulerAssumption, Init, TypeInv, LooseTypes,
         BusyHold, LimiterInit, LimiterTypeOK, Statuses

LEMMA NextTypeInv == TypeInv /\ [Next]_vars => TypeInv'
  <1> SUFFICES ASSUME TypeInv, [Next]_vars
               PROVE  TypeInv'
    OBVIOUS
  <1> USE DEF TypeInv, LooseTypes, BusyHold
  <1>0. UNCHANGED limiterVars => LimiterTypeOK'
    BY DEF limiterVars, LimiterTypeOK, Capacity
  <1>1. ASSUME NEW j \in Jobs, Register(j)
        PROVE  TypeInv'
    BY <1>0, <1>1 DEF Register, jobVars, poolVars, workerVars, runVars
  <1>2. ASSUME NEW j \in Jobs, Enqueue(j)
        PROVE  TypeInv'
    <2>1. jobQueue' \in Seq(Jobs)
      BY <1>2, AppendQueue DEF Enqueue
    <2> QED
      BY <1>0, <1>2, <2>1 DEF Enqueue, jobVars, poolVars, workerVars, runVars
  <1>3. CASE StartRun
    <2>1. Range(jobQueue) \subseteq Jobs
      BY QueueElements
    <2>2. runs' \in 0..MaxRuns
      BY <1>3, SchedulerAssumption DEF StartRun, SchedulerAssumption
    <2> QED
      BY <1>0, <1>3, <2>1, <2>2
         DEF StartRun, jobVars, queueVars, poolVars, workerVars
  <1>4. CASE Drain
    <2>1. Head(jobQueue) \in Jobs /\ jobQueue' \in Seq(Jobs)
      BY <1>4, HeadTailProperties DEF Drain
    <2>2. workQueue' \in Seq(Jobs)
      BY <1>4, <2>1, AppendQueue DEF Drain
    <2> QED
      BY <1>0, <1>4, <2>1, <2>2 DEF Drain, jobVars, workerVars, runVars
  <1>5. CASE DrainEnd
    BY <1>0, <1>5
       DEF DrainEnd, jobVars, queueVars, poolVars, workerVars
  <1>6. CASE Return
    BY <1>0, <1>6 DEF Return, jobVars, queueVars, poolVars, workerVars
  <1>7. ASSUME NEW w \in Workers, Take(w)
        PROVE  TypeInv'
    <2>1. Head(workQueue) \in Jobs /\ workQueue' \in Seq(Jobs)
      BY <1>7, HeadTailProperties DEF Take
    <2> QED
      BY <1>0, <1>7, <2>1, SchedulerAssumption
         DEF Take, jobVars, queueVars, runVars, SchedulerAssumption
  <1>8. ASSUME NEW w \in Workers, Acquire(w)
        PROVE  TypeInv'
    BY <1>8, LimiterTyping
       DEF Acquire, jobVars, queueVars, poolVars, runVars
  <1>9. ASSUME NEW w \in Workers, Poll(w)
        PROVE  TypeInv'
    BY <1>9, LimiterTyping
       DEF Poll, jobVars, queueVars, poolVars, workerVars, runVars
  <1>10. ASSUME NEW w \in Workers, Begin(w)
         PROVE  TypeInv'
    BY <1>0, <1>10, BusyHand
       DEF Begin, Statuses, queueVars, poolVars, runVars
  <1>11. ASSUME NEW w \in Workers, Succeed(w)
         PROVE  TypeInv'
    BY <1>0, <1>11 DEF Succeed, Statuses, queueVars, poolVars, runVars
  <1>12. ASSUME NEW w \in Workers, Store(w)
         PROVE  TypeInv'
    BY <1>0, <1>12, BusyHand DEF Store, queueVars, runVars
  <1>13. ASSUME NEW w \in Workers, Backoff(w)
         PROVE  TypeInv'
    BY <1>0, <1>13 DEF Backoff, Statuses, queueVars, poolVars, runVars
  <1>14. ASSUME NEW w \in Workers, GiveUp(w)
         PROVE  TypeInv'
    BY <1>0, <1>14 DEF GiveUp, Statuses, queueVars, poolVars, runVars
  <1>15. ASSUME NEW w \in Workers, LoopExit(w)
         PROVE  TypeInv'
    BY <1>0, <1>15, BusyHand DEF LoopExit, jobVars, queueVars, runVars
  <1>16. CASE Pass
    BY <1>16, LimiterTyping
       DEF Pass, jobVars, queueVars, poolVars, workerVars, runVars
  <1>17. CASE UNCHANGED vars
    BY <1>0, <1>17
       DEF vars, jobVars, queueVars, poolVars, workerVars, runVars
  <1> QED
    BY <1>1, <1>2, <1>3, <1>4, <1>5, <1>6, <1>7, <1>8, <1>9, <1>10, <1>11,
       <1>12, <1>13, <1>14, <1>15, <1>16, <1>17
       DEF Next, SubmitStep, RunStep, WorkerStep

(***************************************************************************)
(* Layer two: where the jobs are.                                          *)
(***************************************************************************)
Queued == Range(jobQueue)
Pooled == Range(workQueue)

(* A job at one place is at no other. *)
Apart ==
    /\ \A j \in submitting :
           j \notin Queued /\ j \notin Pooled /\ j \notin doneFutures
    /\ \A j \in Queued : j \notin Pooled /\ j \notin doneFutures
    /\ \A j \in Pooled : j \notin doneFutures
    /\ \A w \in Workers :
           /\ hand[w] \notin submitting
           /\ hand[w] \notin Queued
           /\ hand[w] \notin Pooled
           /\ hand[w] \notin doneFutures

(* The submitted jobs are those at some place. *)
Covered ==
    /\ submitting \cup Queued \cup Pooled \cup doneFutures \subseteq results
    /\ \A w \in Workers : hand[w] # NoJob => hand[w] \in results
    /\ \A j \in results :
           \/ j \in submitting \/ j \in Queued \/ j \in Pooled
           \/ j \in doneFutures
           \/ \E w \in Workers : hand[w] = j

Single ==
    /\ NoRepeat(jobQueue)
    /\ NoRepeat(workQueue)
    /\ \A v, w \in Workers : hand[v] = hand[w] => v = w \/ hand[v] = NoJob

PlaceInv == Apart /\ Covered /\ Single

LEMMA InitPlaceInv == Init => PlaceInv
  BY SchedulerAssumption, EmptyQueue
     DEF SchedulerAssumption, Init, PlaceInv, Apart, Covered, Single, Queued,
         Pooled

(* A step that leaves the queues and the workers' hands alone. *)
LEMMA SamePlaces ==
    ASSUME PlaceInv, UNCHANGED <<queueVars, workQueue, doneFutures, hand>>
    PROVE  PlaceInv'
  BY DEF PlaceInv, Apart, Covered, Single, Queued, Pooled, queueVars

(* A worker finishes its job. *)
LEMMA FinishPlaces ==
    ASSUME TypeInv, PlaceInv, NEW w \in Workers, pc[w] # "idle",
           UNCHANGED <<queueVars, workQueue>>,
           doneFutures' = doneFutures \cup {hand[w]},
           hand' = [hand EXCEPT ![w] = NoJob]
    PROVE  PlaceInv'
  <1>1. /\ hand[w] \in Jobs /\ hand[w] # NoJob
        /\ hand'[w] = NoJob
        /\ \A v \in Workers : v # w => hand'[v] = hand[v]
    BY BusyHand DEF TypeInv, LooseTypes
  <1>2. Queued' = Queued /\ Pooled' = Pooled
    BY DEF Queued, Pooled, queueVars
  <1>3. NoJob \notin Jobs
    BY SchedulerAssumption DEF SchedulerAssumption
  <1>4. Queued \subseteq Jobs /\ Pooled \subseteq Jobs
    BY QueueElements DEF TypeInv, LooseTypes, Queued, Pooled
  <1>5. Apart'
    BY <1>1, <1>2, <1>3, <1>4
       DEF PlaceInv, Apart, Single, queueVars, TypeInv, LooseTypes
  <1>6. Covered'
    BY <1>1, <1>2 DEF PlaceInv, Covered, queueVars
  <1>7. Single'
    BY <1>1 DEF PlaceInv, Single, queueVars
  <1> QED
    BY <1>5, <1>6, <1>7 DEF PlaceInv

LEMMA NextPlaceInv == TypeInv /\ PlaceInv /\ [Next]_vars => PlaceInv'
  <1> SUFFICES ASSUME TypeInv, PlaceInv, [Next]_vars
               PROVE  PlaceInv'
    OBVIOUS
  <1>0. /\ Queued \subseteq Jobs /\ Pooled \subseteq Jobs
        /\ jobQueue \in Seq(Jobs) /\ workQueue \in Seq(Jobs)
        /\ hand \in [Workers -> Jobs \cup {NoJob}]
        /\ NoJob \notin Jobs
        /\ submitting \subseteq Jobs /\ results \subseteq Jobs
    BY QueueElements, SchedulerAssumption
       DEF TypeInv, LooseTypes, Queued, Pooled, SchedulerAssumption
  <1>1. ASSUME NEW j \in Jobs, Register(j)
        PROVE  PlaceInv'
    <2>1. /\ j \notin results
          /\ results' = results \cup {j}
          /\ submitting' = submitting \cup {j}
          /\ Queued' = Queued /\ Pooled' = Pooled
          /\ UNCHANGED <<jobQueue, workQueue, doneFutures, hand>>
      BY <1>1 DEF Register, poolVars, workerVars, Queued, Pooled
    <2>2. \A w \in Workers : hand[w] # j
      BY <1>0, <2>1 DEF PlaceInv, Covered
    <2>3. Apart'
      BY <2>1, <2>2 DEF PlaceInv, Apart, Covered
    <2>4. Covered'
      BY <2>1 DEF PlaceInv, Covered
    <2>5. Single'
      BY <2>1 DEF PlaceInv, Single
    <2> QED
      BY <2>3, <2>4, <2>5 DEF PlaceInv
  <1>2. ASSUME NEW j \in Jobs, Enqueue(j)
        PROVE  PlaceInv'
    <2>1. /\ j \in submitting
          /\ submitting' = submitting \ {j}
          /\ jobQueue' = Append(jobQueue, j)
          /\ UNCHANGED <<results, workQueue, doneFutures, hand>>
          /\ Pooled' = Pooled
      BY <1>2 DEF Enqueue, poolVars, workerVars, Pooled
    <2>2. Queued' = Queued \cup {j} /\ NoRepeat(jobQueue')
      BY <1>0, <2>1, AppendQueue DEF PlaceInv, Apart, Single, Queued
    <2>3. Apart'
      BY <2>1, <2>2 DEF PlaceInv, Apart
    <2>4. Covered'
      BY <2>1, <2>2 DEF PlaceInv, Covered
    <2>5. Single'
      BY <2>1, <2>2 DEF PlaceInv, Single
    <2> QED
      BY <2>3, <2>4, <2>5 DEF PlaceInv
  <1>3. CASE StartRun
    BY <1>3, SamePlaces DEF StartRun, queueVars, poolVars, workerVars
  <1>4. CASE Drain
    <2> DEFINE j == Head(jobQueue)
    <2>1. /\ jobQueue # <<>>
          /\ jobQueue' = Tail(jobQueue)
          /\ workQueue' = Append(workQueue, j)
          /\ UNCHANGED <<results, submitting, doneFutures, hand>>
      BY <1>4 DEF Drain, workerVars
    <2>2. /\ j \in Jobs /\ j \in Queued
          /\ Queued' = Queued \ {j} /\ NoRepeat(jobQueue')
      BY <1>0, <2>1, TailQueue DEF PlaceInv, Single, Queued
    <2>3. Pooled' = Pooled \cup {j} /\ NoRepeat(workQueue')
      BY <1>0, <2>1, <2>2, AppendQueue DEF PlaceInv, Apart, Single, Pooled
    <2> HIDE DEF j
    <2>4. Apart'
      BY <2>1, <2>2, <2>3 DEF PlaceInv, Apart
    <2>5. Covered'
      BY <2>1, <2>2, <2>3 DEF PlaceInv, Covered
    <2>6. Single'
      BY <2>1, <2>2, <2>3 DEF PlaceInv, Single
    <2> QED
      BY <2>4, <2>5, <2>6 DEF PlaceInv
  <1>5. CASE DrainEnd
    BY <1>5, SamePlaces DEF DrainEnd, queueVars, poolVars, workerVars
  <1>6. CASE Return
    BY <1>6, SamePlaces DEF Return, queueVars, poolVars, workerVars
  <1>7. ASSUME NEW w \in Workers, Take(w)
        PROVE  PlaceInv'
    <2> DEFINE j == Head(workQueue)
    <2>1. /\ workQueue # <<>>
          /\ workQueue' = Tail(workQueue)
          /\ hand' = [hand EXCEPT ![w] = j]
          /\ UNCHANGED <<results, submitting, jobQueue, doneFutures>>
          /\ Queued' = Queued
      BY <1>7 DEF Take, queueVars, Queued
    <2>2. /\ j \in Jobs /\ j \in Pooled
          /\ Pooled' = Pooled \ {j} /\ NoRepeat(workQueue')
      BY <1>0, <2>1, TailQueue DEF PlaceInv, Single, Pooled
    <2> HIDE DEF j
    <2>3. /\ hand[w] = NoJob
          /\ hand'[w] = j
          /\ \A v \in Workers : v # w => hand'[v] = hand[v]
          /\ \A v \in Workers : hand[v] # j
      BY <1>0, <1>7, <2>1, <2>2
         DEF Take, TypeInv, BusyHold, PlaceInv, Apart
    <2>4. Apart'
      BY <1>0, <2>1, <2>2, <2>3 DEF PlaceInv, Apart
    <2>5. Covered'
      <3>1. \A k \in results :
                \/ k \in submitting' \/ k \in Queued' \/ k \in Pooled'
                \/ k \in doneFutures'
                \/ \E v \in Workers : hand'[v] = k
        <4> SUFFICES ASSUME NEW k \in results, k # j,
                            NEW v \in Workers, hand[v] = k
                     PROVE  \E u \in Workers : hand'[u] = k
          BY <2>1, <2>2, <2>3 DEF PlaceInv, Covered
        <4> QED
          BY <1>0, <2>3
      <3> QED
        BY <2>1, <2>2, <2>3, <3>1 DEF PlaceInv, Covered
    <2>6. Single'
      BY <2>1, <2>2, <2>3 DEF PlaceInv, Single
    <2> QED
      BY <2>4, <2>5, <2>6 DEF PlaceInv
  <1>8. ASSUME NEW w \in Workers, Acquire(w)
        PROVE  PlaceInv'
    BY <1>8, SamePlaces DEF Acquire, queueVars, poolVars
  <1>9. ASSUME NEW w \in Workers, Poll(w)
        PROVE  PlaceInv'
    BY <1>9, SamePlaces DEF Poll, queueVars, poolVars, workerVars
  <1>10. ASSUME NEW w \in Workers, Begin(w)
         PROVE  PlaceInv'
    BY <1>10, SamePlaces DEF Begin, queueVars, poolVars
  <1>11. ASSUME NEW w \in Workers, Succeed(w)
         PROVE  PlaceInv'
    BY <1>11, SamePlaces DEF Succeed, queueVars, poolVars
  <1>12. ASSUME NEW w \in Workers, Store(w)
         PROVE  PlaceInv'
    BY <1>12, FinishPlaces DEF Store
  <1>13. ASSUME NEW w \in Workers, Backoff(w)
         PROVE  PlaceInv'
    BY <1>13, SamePlaces DEF Backoff, queueVars, poolVars
  <1>14. ASSUME NEW w \in Workers, GiveUp(w)
         PROVE  PlaceInv'
    BY <1>14, SamePlaces DEF GiveUp, queueVars, poolVars
  <1>15. ASSUME NEW w \in Workers, LoopExit(w)
         PROVE  PlaceInv'
    BY <1>15, FinishPlaces DEF LoopExit
  <1>16. CASE Pass
    BY <1>16, SamePlaces DEF Pass, queueVars, poolVars, workerVars
  <1>17. CASE UNCHANGED vars
    BY <1>17, SamePlaces DEF vars, queueVars, poolVars, workerVars
  <1> QED
    BY <1>1, <1>2, <1>3, <1>4, <1>5, <1>6, <1>7, <1>8, <1>9, <1>10, <1>11,
       <1>12, <1>13, <1>14, <1>15, <1>16, <1>17
       DEF Next, SubmitStep, RunStep, WorkerStep

(***************************************************************************)
(* Layer three: what a job's fields say at each place.                     *)
(***************************************************************************)
Untried(j) ==
    status[j] = "pending" /\ attempts[j] = 0 /\ ~hasResult[j] /\ ~completedAt[j]

Retryable(j) ==
    /\ status[j] \in {"pending", "retrying"}
    /\ attempts[j] < MaxRetries
    /\ ~hasResult[j]
    /\ ~completedAt[j]

FieldsOf(w) ==
    LET j == hand[w]
    IN  /\ pc[w] = "loop" => Retryable(j) \/ (Exhausted(j) /\ completedAt[j])
        /\ pc[w] = "begin" => Retryable(j)
        /\ pc[w] = "calling" =>
               /\ status[j] = "running"
               /\ attempts[j] \in 1..MaxRetries
               /\ ~hasResult[j]
               /\ ~completedAt[j]
        /\ pc[w] = "storing" =>
               status[j] = "completed" /\ attempts[j] \in 1..MaxRetries

FieldInv ==
    /\ \A j \in Jobs : \/ Untried(j)
                       \/ j \in doneFutures
                       \/ \E w \in Workers : hand[w] = j
    /\ \A j \in Queued \cup Pooled : Untried(j)
    /\ \A w \in Workers : FieldsOf(w)
    /\ Outcome

LEMMA InitFieldInv == Init => FieldInv
  BY EmptyQueue DEF Init, FieldInv, Untried, FieldsOf, Outcome, Queued, Pooled

(* A step that writes no job's fields and finishes no job. *)
LEMMA SameFields ==
    ASSUME TypeInv, FieldInv, UNCHANGED <<jobVars, doneFutures, pc, hand>>,
           Queued' \cup Pooled' \subseteq Queued \cup Pooled
    PROVE  FieldInv'
  BY DEF FieldInv, Untried, FieldsOf, Retryable, Exhausted, Succeeded, Outcome,
         jobVars

(* A step of a worker that writes no fields but those of its own job:      *)
(* every other job is where it was, as it was.                             *)
LEMMA OwnFields ==
    ASSUME TypeInv, PlaceInv, FieldInv,
           NEW w \in Workers, pc[w] # "idle",
           UNCHANGED <<queueVars, workQueue>>,
           doneFutures' = doneFutures
               \/ (doneFutures' = doneFutures \cup {hand[w]} /\ Outcome'),
           hand' = hand \/ hand' = [hand EXCEPT ![w] = NoJob],
           hand' = hand \/ hand[w] \in doneFutures',
           \A v \in Workers : v # w => pc'[v] = pc[v],
           \A k \in Jobs : k # hand[w] =>
               /\ status'[k] = status[k] /\ attempts'[k] = attempts[k]
               /\ hasResult'[k] = hasResult[k]
               /\ completedAt'[k] = completedAt[k],
           FieldsOf(w)'
    PROVE  FieldInv'
  <1> DEFINE j == hand[w]
  <1>1. /\ j \in Jobs /\ j # NoJob
        /\ hand \in [Workers -> Jobs \cup {NoJob}]
        /\ Queued \subseteq Jobs /\ Pooled \subseteq Jobs
        /\ doneFutures \subseteq Jobs
    BY BusyHand, QueueElements DEF TypeInv, LooseTypes, Queued, Pooled
  <1>2. Queued' = Queued /\ Pooled' = Pooled
    BY DEF Queued, Pooled, queueVars
  <1>3. j \notin Queued /\ j \notin Pooled /\ j \notin doneFutures
    BY DEF PlaceInv, Apart
  <1>4. \A v \in Workers : v # w => hand'[v] = hand[v] /\ hand[v] # j
    BY <1>1 DEF PlaceInv, Single
  <1>5. \A k \in Jobs : k # j /\ Untried(k) => Untried(k)'
    BY DEF Untried
  <1>6. ASSUME NEW k \in Jobs
        PROVE  \/ Untried(k)'
               \/ k \in doneFutures'
               \/ \E v \in Workers : hand'[v] = k
    <2>1. CASE k = j
      BY <2>1
    <2>2. CASE k # j
      BY <1>1, <1>4, <1>5, <2>2 DEF FieldInv
    <2> QED
      BY <2>1, <2>2
  <1>7. \A k \in (Queued \cup Pooled)' : Untried(k)'
    BY <1>1, <1>2, <1>3, <1>5 DEF FieldInv
  <1>8. ASSUME NEW v \in Workers
        PROVE  FieldsOf(v)'
    <2>1. CASE v = w
      BY <2>1
    <2>2. CASE v # w
      <3>1. FieldsOf(v) /\ hand'[v] = hand[v] /\ pc'[v] = pc[v]
        BY <1>4, <2>2 DEF FieldInv
      <3>2. CASE pc[v] = "idle"
        BY <3>1, <3>2 DEF FieldsOf
      <3>3. CASE pc[v] # "idle"
        <4>1. hand[v] \in Jobs /\ hand[v] # j
          BY <1>4, <2>2, <3>3, BusyHand
        <4> QED
          BY <3>1, <4>1 DEF FieldsOf, Retryable, Exhausted
      <3> QED
        BY <3>2, <3>3
    <2> QED
      BY <2>1, <2>2
  <1>9. Outcome'
    <2>1. CASE doneFutures' = doneFutures
      BY <1>1, <1>3, <2>1 DEF FieldInv, Outcome, Succeeded, Exhausted
    <2> QED
      BY <2>1
  <1> QED
    BY <1>6, <1>7, <1>8, <1>9 DEF FieldInv

LEMMA NextFieldInv == TypeInv /\ PlaceInv /\ FieldInv /\ [Next]_vars => FieldInv'
  <1> SUFFICES ASSUME TypeInv, PlaceInv, FieldInv, [Next]_vars
               PROVE  FieldInv'
    OBVIOUS
  <1>0. /\ jobQueue \in Seq(Jobs) /\ workQueue \in Seq(Jobs)
        /\ NoRepeat(jobQueue) /\ NoRepeat(workQueue)
        /\ status \in [Jobs -> Statuses] /\ attempts \in [Jobs -> Nat]
        /\ hasResult \in [Jobs -> BOOLEAN] /\ completedAt \in [Jobs -> BOOLEAN]
        /\ pc \in [Workers -> {"idle", "loop", "begin", "calling", "storing"}]
        /\ hand \in [Workers -> Jobs \cup {NoJob}]
        /\ doneFutures \subseteq Jobs
        /\ MaxRetries \in Nat \ {0}
    BY SchedulerAssumption
       DEF TypeInv, LooseTypes, PlaceInv, Single, SchedulerAssumption
  <1>1. ASSUME NEW j \in Jobs, Register(j)
        PROVE  FieldInv'
    BY <1>1, SameFields
       DEF Register, poolVars, workerVars, Queued, Pooled
  <1>2. ASSUME NEW j \in Jobs, Enqueue(j)
        PROVE  FieldInv'
    <2>1. /\ Queued' = Queued \cup {j} /\ Pooled' = Pooled
          /\ UNCHANGED <<jobVars, doneFutures, pc, hand>>
          /\ j \in submitting
      BY <1>0, <1>2, AppendQueue
         DEF Enqueue, Queued, Pooled, poolVars, workerVars
    <2>2. Untried(j)
      BY <2>1 DEF FieldInv, PlaceInv, Apart
    <2> QED
      BY <2>1, <2>2
         DEF FieldInv, Untried, FieldsOf, Retryable, Exhausted, Succeeded,
             Outcome, jobVars
  <1>3. CASE StartRun
    BY <1>3, SameFields
       DEF StartRun, queueVars, poolVars, workerVars, Queued, Pooled
  <1>4. CASE Drain
    <2>1. /\ Queued' = Queued \ {Head(jobQueue)}
          /\ Head(jobQueue) \in Queued /\ Head(jobQueue) \in Jobs
      BY <1>0, <1>4, TailQueue DEF Drain, Queued
    <2>2. Pooled' = Pooled \cup {Head(jobQueue)}
      BY <1>0, <1>4, <2>1, AppendQueue DEF Drain, Pooled
    <2> QED
      BY <1>4, <2>1, <2>2, SameFields DEF Drain, workerVars
  <1>5. CASE DrainEnd
    BY <1>5, SameFields
       DEF DrainEnd, queueVars, poolVars, workerVars, Queued, Pooled
  <1>6. CASE Return
    BY <1>6, SameFields
       DEF Return, queueVars, poolVars, workerVars, Queued, Pooled
  <1>7. ASSUME NEW w \in Workers, Take(w)
        PROVE  FieldInv'
    <2> DEFINE j == Head(workQueue)
    <2>1. /\ j \in Jobs /\ j \in Pooled
          /\ Pooled' = Pooled \ {j} /\ Queued' = Queued
          /\ UNCHANGED <<jobVars, doneFutures>>
          /\ hand' = [hand EXCEPT ![w] = j]
          /\ pc' = [pc EXCEPT ![w] = "loop"]
      BY <1>0, <1>7, TailQueue DEF Take, Queued, Pooled, queueVars
    <2>2. Untried(j)
      BY <2>1 DEF FieldInv
    <2> HIDE DEF j
    <2>3. \A k \in Jobs : Untried(k)' <=> Untried(k)
      BY <2>1 DEF Untried, jobVars
    <2>4. /\ hand'[w] = j /\ pc'[w] = "loop" /\ hand[w] = NoJob
          /\ \A v \in Workers : v # w => hand'[v] = hand[v] /\ pc'[v] = pc[v]
      BY <1>0, <1>7, <2>1 DEF Take, TypeInv, BusyHold
    <2>5. ASSUME NEW k \in Jobs
          PROVE  \/ Untried(k)'
                 \/ k \in doneFutures'
                 \/ \E v \in Workers : hand'[v] = k
      <3>1. NoJob \notin Jobs
        BY SchedulerAssumption DEF SchedulerAssumption
      <3> QED
        BY <2>1, <2>3, <2>4, <3>1 DEF FieldInv
    <2>6. \A k \in (Queued \cup Pooled)' : Untried(k)'
      <3>1. Queued \subseteq Jobs /\ Pooled \subseteq Jobs
        BY <1>0, QueueElements DEF Queued, Pooled
      <3> QED
        BY <2>1, <2>3, <3>1 DEF FieldInv
    <2>7. ASSUME NEW v \in Workers
          PROVE  FieldsOf(v)'
      <3>1. CASE v = w
        BY <1>0, <2>1, <2>2, <2>4, <3>1
           DEF FieldsOf, Retryable, Untried, jobVars
      <3>2. CASE v # w
        BY <2>1, <2>4, <3>2
           DEF FieldInv, FieldsOf, Retryable, Exhausted, jobVars
      <3> QED
        BY <3>1, <3>2
    <2>8. Outcome'
      BY <2>1 DEF FieldInv, Outcome, Succeeded, Exhausted, jobVars
    <2> QED
      BY <2>5, <2>6, <2>7, <2>8 DEF FieldInv
  <1>8. ASSUME NEW w \in Workers, Acquire(w)
        PROVE  FieldInv'
    <2>1. /\ pc[w] = "loop" /\ attempts[hand[w]] < MaxRetries
          /\ pc' = [pc EXCEPT ![w] = "begin"]
          /\ UNCHANGED <<jobVars, queueVars, workQueue, doneFutures, hand>>
      BY <1>8 DEF Acquire, poolVars
    <2>2. hand[w] \in Jobs
      BY <2>1, BusyHand
    <2>3. Retryable(hand[w])
      BY <1>0, <2>1, <2>2 DEF FieldInv, FieldsOf, Exhausted
    <2>4. FieldsOf(w)'
      BY <1>0, <2>1, <2>3 DEF FieldsOf, Retryable, jobVars
    <2> QED
      BY <1>0, <2>1, <2>4, OwnFields DEF jobVars
  <1>9. ASSUME NEW w \in Workers, Poll(w)
        PROVE  FieldInv'
    BY <1>9, SameFields
       DEF Poll, queueVars, poolVars, workerVars, Queued, Pooled
  <1>10. ASSUME NEW w \in Workers, Begin(w)
         PROVE  FieldInv'
    <2>1. /\ pc[w] = "begin"
          /\ status' = [status EXCEPT ![hand[w]] = "running"]
          /\ attempts' = [attempts EXCEPT ![hand[w]] = @ + 1]
          /\ pc' = [pc EXCEPT ![w] = "calling"]
          /\ UNCHANGED <<hasResult, completedAt, queueVars, workQueue,
                         doneFutures, hand>>
      BY <1>10 DEF Begin, poolVars
    <2>2. hand[w] \in Jobs /\ Retryable(hand[w])
      BY <2>1, BusyHand DEF FieldInv, FieldsOf
    <2>3. FieldsOf(w)'
      BY <1>0, <2>1, <2>2 DEF FieldsOf, Retryable
    <2> QED
      BY <1>0, <2>1, <2>2, <2>3, OwnFields
  <1>11. ASSUME NEW w \in Workers, Succeed(w)
         PROVE  FieldInv'
    <2>1. /\ pc[w] = "calling"
          /\ status' = [status EXCEPT ![hand[w]] = "completed"]
          /\ pc' = [pc EXCEPT ![w] = "storing"]
          /\ UNCHANGED <<attempts, hasResult, completedAt, queueVars,
                         workQueue, doneFutures, hand>>
      BY <1>11 DEF Succeed, poolVars
    <2>2. hand[w] \in Jobs /\ attempts[hand[w]] \in 1..MaxRetries
      BY <2>1, BusyHand DEF FieldInv, FieldsOf
    <2>3. FieldsOf(w)'
      BY <1>0, <2>1, <2>2 DEF FieldsOf
    <2> QED
      BY <1>0, <2>1, <2>2, <2>3, OwnFields
  <1>12. ASSUME NEW w \in Workers, Store(w)
         PROVE  FieldInv'
    <2> DEFINE j == hand[w]
    <2>1. /\ pc[w] = "storing"
          /\ hasResult' = [hasResult EXCEPT ![j] = TRUE]
          /\ completedAt' = [completedAt EXCEPT ![j] = TRUE]
          /\ doneFutures' = doneFutures \cup {j}
          /\ hand' = [hand EXCEPT ![w] = NoJob]
          /\ pc' = [pc EXCEPT ![w] = "idle"]
          /\ UNCHANGED <<status, attempts, queueVars, workQueue>>
      BY <1>12 DEF Store
    <2>2. /\ j \in Jobs /\ j \notin doneFutures
          /\ status[j] = "completed" /\ attempts[j] \in 1..MaxRetries
      BY <2>1, BusyHand DEF FieldInv, FieldsOf, PlaceInv, Apart
    <2>3. FieldsOf(w)'
      BY <1>0, <2>1 DEF FieldsOf
    <2>4. Outcome'
      <3>1. \A k \in Jobs : k = j => completedAt'[k] /\ Succeeded(k)'
        BY <1>0, <2>1, <2>2 DEF Succeeded
      <3>2. \A k \in doneFutures :
                completedAt'[k] /\ (Succeeded(k)' \/ Exhausted(k)')
        BY <1>0, <2>1, <2>2 DEF FieldInv, Outcome, Succeeded, Exhausted
      <3> QED
        BY <2>1, <2>2, <3>1, <3>2 DEF Outcome
    <2>5. /\ \A v \in Workers : v # w => pc'[v] = pc[v]
          /\ \A k \in Jobs : k # j => /\ hasResult'[k] = hasResult[k]
                                      /\ completedAt'[k] = completedAt[k]
      BY <1>0, <2>1
    <2> QED
      BY <2>1, <2>3, <2>4, <2>5, OwnFields
  <1>13. ASSUME NEW w \in Workers, Backoff(w)
         PROVE  FieldInv'
    <2>1. /\ pc[w] = "calling" /\ attempts[hand[w]] < MaxRetries
          /\ status' = [status EXCEPT ![hand[w]] = "retrying"]
          /\ pc' = [pc EXCEPT ![w] = "loop"]
          /\ UNCHANGED <<attempts, hasResult, completedAt, queueVars,
                         workQueue, doneFutures, hand>>
      BY <1>13 DEF Backoff, poolVars
    <2>2. /\ hand[w] \in Jobs
          /\ ~hasResult[hand[w]] /\ ~completedAt[hand[w]]
      BY <2>1, BusyHand DEF FieldInv, FieldsOf
    <2>3. FieldsOf(w)'
      BY <1>0, <2>1, <2>2 DEF FieldsOf, Retryable
    <2> QED
      BY <1>0, <2>1, <2>2, <2>3, OwnFields
  <1>14. ASSUME NEW w \in Workers, GiveUp(w)
         PROVE  FieldInv'
    <2>1. /\ pc[w] = "calling" /\ attempts[hand[w]] >= MaxRetries
          /\ status' = [status EXCEPT ![hand[w]] = "failed"]
          /\ completedAt' = [completedAt EXCEPT ![hand[w]] = TRUE]
          /\ pc' = [pc EXCEPT ![w] = "loop"]
          /\ UNCHANGED <<attempts, hasResult, queueVars, workQueue,
                         doneFutures, hand>>
      BY <1>14 DEF GiveUp, poolVars
    <2>2. /\ hand[w] \in Jobs
          /\ attempts[hand[w]] = MaxRetries /\ ~hasResult[hand[w]]
      BY <1>0, <2>1, BusyHand DEF FieldInv, FieldsOf
    <2>3. FieldsOf(w)'
      BY <1>0, <2>1, <2>2 DEF FieldsOf, Exhausted
    <2> QED
      BY <1>0, <2>1, <2>2, <2>3, OwnFields
  <1>15. ASSUME NEW w \in Workers, LoopExit(w)
         PROVE  FieldInv'
    <2> DEFINE j == hand[w]
    <2>1. /\ pc[w] = "loop" /\ attempts[j] >= MaxRetries
          /\ doneFutures' = doneFutures \cup {j}
          /\ hand' = [hand EXCEPT ![w] = NoJob]
          /\ pc' = [pc EXCEPT ![w] = "idle"]
          /\ UNCHANGED <<jobVars, queueVars, workQueue>>
      BY <1>15 DEF LoopExit
    <2>2. j \in Jobs /\ Exhausted(j) /\ completedAt[j]
      BY <1>0, <2>1, BusyHand DEF FieldInv, FieldsOf, Retryable
    <2>3. FieldsOf(w)'
      BY <1>0, <2>1 DEF FieldsOf
    <2>4. Outcome'
      BY <2>1, <2>2 DEF FieldInv, Outcome, Succeeded, Exhausted, jobVars
    <2>5. \A v \in Workers : v # w => pc'[v] = pc[v]
      BY <1>0, <2>1
    <2> QED
      BY <2>1, <2>3, <2>4, <2>5, OwnFields DEF jobVars
  <1>16. CASE Pass
    BY <1>16, SameFields
       DEF Pass, queueVars, poolVars, workerVars, Queued, Pooled
  <1>17. CASE UNCHANGED vars
    BY <1>17, SameFields
       DEF vars, queueVars, poolVars, workerVars, Queued, Pooled
  <1> QED
    BY <1>1, <1>2, <1>3, <1>4, <1>5, <1>6, <1>7, <1>8, <1>9, <1>10, <1>11,
       <1>12, <1>13, <1>14, <1>15, <1>16, <1>17
       DEF Next, SubmitStep, RunStep, WorkerStep

(***************************************************************************)
(* Layer four: the running thread.                                         *)
(***************************************************************************)
FlowInv ==
    /\ \A j \in Jobs : j \in futures <=> \/ j \in Pooled
                                         \/ j \in doneFutures
                                         \/ \E w \in Workers : hand[w] = j
    /\ main = "idle" => futures \subseteq doneFutures
    /\ main = "draining" => promised \subseteq Queued \cup futures
    /\ main = "waiting" => promised \subseteq futures

LEMMA InitFlowInv == Init => FlowInv
  BY SchedulerAssumption, EmptyQueue
     DEF SchedulerAssumption, Init, FlowInv, Pooled

(* A step that moves no job and leaves the running thread alone. *)
LEMMA SameFlow ==
    ASSUME FlowInv, Queued \subseteq Queued',
           UNCHANGED <<poolVars, hand, main, promised>>
    PROVE  FlowInv'
  BY DEF FlowInv, Pooled, poolVars

(* A worker finishes its job. *)
LEMMA FinishFlow ==
    ASSUME TypeInv, FlowInv, NEW w \in Workers, pc[w] # "idle",
           UNCHANGED <<queueVars, workQueue, futures, runVars>>,
           doneFutures' = doneFutures \cup {hand[w]},
           hand' = [hand EXCEPT ![w] = NoJob]
    PROVE  FlowInv'
  <1>1. /\ hand[w] \in Jobs /\ hand'[w] = NoJob /\ NoJob \notin Jobs
        /\ \A v \in Workers : v # w => hand'[v] = hand[v]
    BY BusyHand, SchedulerAssumption
       DEF TypeInv, LooseTypes, SchedulerAssumption
  <1>2. Queued' = Queued /\ Pooled' = Pooled
    BY DEF Queued, Pooled, queueVars
  <1> QED
    BY <1>1, <1>2 DEF FlowInv, runVars

LEMMA NextFlowInv == TypeInv /\ PlaceInv /\ FlowInv /\ [Next]_vars => FlowInv'
  <1> SUFFICES ASSUME TypeInv, PlaceInv, FlowInv, [Next]_vars
               PROVE  FlowInv'
    OBVIOUS
  <1>0. /\ jobQueue \in Seq(Jobs) /\ workQueue \in Seq(Jobs)
        /\ NoRepeat(jobQueue) /\ NoRepeat(workQueue)
        /\ hand \in [Workers -> Jobs \cup {NoJob}]
        /\ NoJob \notin Jobs
    BY SchedulerAssumption
       DEF TypeInv, LooseTypes, PlaceInv, Single, SchedulerAssumption
  <1>1. ASSUME NEW j \in Jobs, Register(j)
        PROVE  FlowInv'
    BY <1>1, SameFlow DEF Register, poolVars, workerVars, runVars, Queued
  <1>2. ASSUME NEW j \in Jobs, Enqueue(j)
        PROVE  FlowInv'
    <2>1. Queued' = Queued \cup {j}
      BY <1>0, <1>2, AppendQueue DEF Enqueue, Queued
    <2> QED
      BY <1>2, <2>1, SameFlow DEF Enqueue, poolVars, workerVars, runVars
  <1>3. CASE StartRun
    BY <1>3
       DEF StartRun, FlowInv, queueVars, poolVars, workerVars, Queued, Pooled
  <1>4. CASE Drain
    <2> DEFINE j == Head(jobQueue)
    <2>1. j \in Jobs /\ Queued' = Queued \ {j}
      BY <1>0, <1>4, TailQueue DEF Drain, Queued
    <2>2. Pooled' = Pooled \cup {j}
      BY <1>0, <1>4, <2>1, AppendQueue DEF Drain, Pooled
    <2>3. /\ main = "draining" /\ futures' = futures \cup {j}
          /\ UNCHANGED <<doneFutures, hand, main, promised>>
      BY <1>4 DEF Drain, workerVars, runVars
    <2> HIDE DEF j
    <2> QED
      BY <2>1, <2>2, <2>3 DEF FlowInv
  <1>5. CASE DrainEnd
    <2>1. Queued = {}
      BY <1>5, EmptyQueue DEF DrainEnd, Queued
    <2> QED
      BY <1>5, <2>1
         DEF DrainEnd, FlowInv, queueVars, poolVars, workerVars, Pooled
  <1>6. CASE Return
    BY <1>6 DEF Return, FlowInv, queueVars, poolVars, workerVars, Pooled
  <1>7. ASSUME NEW w \in Workers, Take(w)
        PROVE  FlowInv'
    <2> DEFINE j == Head(workQueue)
    <2>1. j \in Jobs /\ j \in Pooled /\ Pooled' = Pooled \ {j}
      BY <1>0, <1>7, TailQueue DEF Take, Pooled
    <2>2. /\ hand' = [hand EXCEPT ![w] = j]
          /\ UNCHANGED <<jobQueue, futures, doneFutures, main, promised>>
          /\ hand[w] = NoJob
      BY <1>7 DEF Take, queueVars, runVars, TypeInv, BusyHold
    <2> HIDE DEF j
    <2>3. /\ hand'[w] = j
          /\ \A v \in Workers : v # w => hand'[v] = hand[v]
      BY <1>0, <2>2
    <2>4. \A k \in Jobs : k \in futures' <=> \/ k \in Pooled'
                                           \/ k \in doneFutures'
                                           \/ \E v \in Workers : hand'[v] = k
      BY <1>0, <2>1, <2>2, <2>3 DEF FlowInv
    <2> QED
      BY <2>2, <2>4 DEF FlowInv, Queued
  <1>8. ASSUME NEW w \in Workers, Acquire(w)
        PROVE  FlowInv'
    BY <1>8, SameFlow DEF Acquire, queueVars, runVars, Queued
  <1>9. ASSUME NEW w \in Workers, Poll(w)
        PROVE  FlowInv'
    BY <1>9, SameFlow DEF Poll, queueVars, workerVars, runVars, Queued
  <1>10. ASSUME NEW w \in Workers, Begin(w)
         PROVE  FlowInv'
    BY <1>10, SameFlow DEF Begin, queueVars, runVars, Queued
  <1>11. ASSUME NEW w \in Workers, Succeed(w)
         PROVE  FlowInv'
    BY <1>11, SameFlow DEF Succeed, queueVars, runVars, Queued
  <1>12. ASSUME NEW w \in Workers, Store(w)
         PROVE  FlowInv'
    BY <1>12, FinishFlow DEF Store
  <1>13. ASSUME NEW w \in Workers, Backoff(w)
         PROVE  FlowInv'
    BY <1>13, SameFlow DEF Backoff, queueVars, runVars, Queued
  <1>14. ASSUME NEW w \in Workers, GiveUp(w)
         PROVE  FlowInv'
    BY <1>14, SameFlow DEF GiveUp, queueVars, runVars, Queued
  <1>15. ASSUME NEW w \in Workers, LoopExit(w)
         PROVE  FlowInv'
    BY <1>15, FinishFlow DEF LoopExit
  <1>16. CASE Pass
    BY <1>16, SameFlow DEF Pass, queueVars, workerVars, runVars, Queued
  <1>17. CASE UNCHANGED vars
    BY <1>17, SameFlow DEF vars, queueVars, workerVars, runVars, Queued
  <1> QED
    BY <1>1, <1>2, <1>3, <1>4, <1>5, <1>6, <1>7, <1>8, <1>9, <1>10, <1>11,
       <1>12, <1>13, <1>14, <1>15, <1>16, <1>17
       DEF Next, SubmitStep, RunStep, WorkerStep

----------------------------------------------------------------------------

IInv == TypeInv /\ PlaceInv /\ FieldInv /\ FlowInv

(* The four layers together are an inductive invariant.                    *)
THEOREM Inductive == Spec => []IInv
  <1>1. Init => IInv
    BY InitTypeInv, InitPlaceInv, InitFieldInv, InitFlowInv DEF IInv
  <1>2. IInv /\ [Next]_vars => IInv'
    BY NextTypeInv, NextPlaceInv, NextFieldInv, NextFlowInv DEF IInv
  <1> QED
    BY <1>1, <1>2, PTL DEF Spec

(* Every variable has its type; in particular no job is tried more than    *)
(* max_retries times, whoever tries it.                                    *)
THEOREM TypeCorrect == Spec => []TypeOK
  <1>1. IInv => TypeOK
    <2> SUFFICES ASSUME IInv
                 PROVE  TypeOK
      OBVIOUS
    <2>1. ASSUME NEW j \in Jobs
          PROVE  attempts[j] \in 0..MaxRetries
      <3>1. attempts[j] \in Nat /\ MaxRetries \in Nat
        BY SchedulerAssumption
           DEF IInv, TypeInv, LooseTypes, SchedulerAssumption
      <3>2. CASE Untried(j)
        BY <3>1, <3>2 DEF Untried
      <3>3. CASE j \in doneFutures
        BY <3>1, <3>3 DEF IInv, FieldInv, Outcome, Succeeded, Exhausted
      <3>4. ASSUME NEW w \in Workers, hand[w] = j
            PROVE  attempts[j] \in 0..MaxRetries
        <4>1. pc[w] # "idle" /\ pc[w] \in {"idle", "loop", "begin", "calling", "storing"}
          BY <3>4, SchedulerAssumption
             DEF IInv, TypeInv, LooseTypes, BusyHold, SchedulerAssumption
        <4> QED
          BY <3>1, <3>4, <4>1 DEF IInv, FieldInv, FieldsOf, Retryable, Exhausted
      <3> QED
        BY <3>2, <3>3, <3>4 DEF IInv, FieldInv
    <2> QED
      BY <2>1 DEF IInv, TypeInv, LooseTypes, TypeOK
  <1> QED
    BY <1>1, Inductive, PTL

(* No job is lost or duplicated on its way through the scheduler.          *)
THEOREM OnePlaceCorrect == Spec => []OnePlace
  <1>1. IInv => OnePlace
    <2> SUFFICES ASSUME IInv, NEW j \in Jobs
                 PROVE  IF j \in results
                        THEN \E here \in Places :
                                 \A place \in Places :
                                     At(j, place) <=> place = here
                        ELSE \A place \in Places : ~At(j, place)
      BY DEF OnePlace
    <2>1. NoJob # j
      BY SchedulerAssumption DEF SchedulerAssumption
    <2>2. /\ At(j, "submitting") <=> j \in submitting
          /\ At(j, "queued") <=> j \in Queued
          /\ At(j, "pooled") <=> j \in Pooled
          /\ At(j, "held") <=> \E w \in Workers : hand[w] = j
          /\ At(j, "done") <=> j \in doneFutures
      BY DEF At, Queued, Pooled
    <2>3. CASE j \notin results
      BY <2>1, <2>2, <2>3 DEF IInv, PlaceInv, Covered, Places
    <2>4. CASE j \in results
      <3>1. \/ At(j, "submitting") \/ At(j, "queued") \/ At(j, "pooled")
            \/ At(j, "held") \/ At(j, "done")
        BY <2>2, <2>4 DEF IInv, PlaceInv, Covered
      <3>2. /\ At(j, "submitting") => /\ ~At(j, "queued") /\ ~At(j, "pooled")
                                      /\ ~At(j, "held") /\ ~At(j, "done")
            /\ At(j, "queued") => /\ ~At(j, "pooled") /\ ~At(j, "held")
                                  /\ ~At(j, "done")
            /\ At(j, "pooled") => ~At(j, "held") /\ ~At(j, "done")
            /\ At(j, "held") => ~At(j, "done")
        BY <2>1, <2>2 DEF IInv, PlaceInv, Apart
      <3> QED
        BY <2>4, <3>1, <3>2 DEF Places
    <2> QED
      BY <2>3, <2>4
  <1> QED
    BY <1>1, Inductive, PTL

(* A job's fields have one writer at a time.                               *)
THEOREM OneWriterCorrect == Spec => []OneWriter
  <1>1. IInv => OneWriter
    BY DEF IInv, PlaceInv, Single, NoRepeat, OneWriter
  <1> QED
    BY <1>1, Inductive, PTL

(* A finished job has a result or has used up its attempts.                *)
THEOREM OutcomeCorrect == Spec => []Outcome
  <1>1. IInv => Outcome
    BY DEF IInv, FieldInv
  <1> QED
    BY <1>1, Inductive, PTL

(* run returns only when the jobs it found queued have an outcome.         *)
THEOREM RunPromiseCorrect == Spec => RunKeepsPromise
  <1>1. IInv /\ [Next]_vars
          => [Return => \A j \in promised : Succeeded(j) \/ Exhausted(j)]_vars
    BY DEF IInv, FlowInv, FieldInv, Outcome, Return
  <1> QED
    BY <1>1, Inductive, PTL DEF Spec, RunKeepsPromise

(* COMPLETED and FAILED are final.                                         *)
THEOREM FinalStatusCorrect == Spec => FinalStatus
  <1> DEFINE Final(j) == status[j] \in {"completed", "failed"}
             Kept == \A j \in Jobs : Final(j) => status'[j] = status[j]
  <1>1. ASSUME IInv, Next
        PROVE  Kept
    <2>1. status \in [Jobs -> Statuses]
      BY <1>1 DEF IInv, TypeInv, LooseTypes
    <2>2. CASE UNCHANGED status
      BY <2>2
    <2>3. ASSUME NEW w \in Workers,
                 Begin(w) \/ Succeed(w) \/ Backoff(w) \/ GiveUp(w)
          PROVE  Kept
      <3>1. /\ pc[w] \in {"begin", "calling"}
            /\ \A j \in Jobs : j # hand[w] => status'[j] = status[j]
        BY <2>1, <2>3 DEF Begin, Succeed, Backoff, GiveUp
      <3>2. status[hand[w]] \in {"pending", "retrying", "running"}
        BY <1>1, <3>1 DEF IInv, FieldInv, FieldsOf, Retryable
      <3> QED
        BY <3>1, <3>2
    <2> QED
      BY <1>1, <2>2, <2>3
         DEF Next, SubmitStep, RunStep, WorkerStep, Register, Enqueue,
             StartRun, Drain, DrainEnd, Return, Take, Acquire, Poll, Store,
             LoopExit, Pass, jobVars
  <1>2. IInv /\ [Next]_vars => [Kept]_vars
    BY <1>1
  <1> QED
    BY <1>2, Inductive, PTL DEF Spec, FinalStatus

----------------------------------------------------------------------------
(***************************************************************************)
(* The scheduler implements JobBatch.                                      *)
(***************************************************************************)
Stage == [j \in Jobs |-> StageOf(j)]

Accepted(j) == j \in results \ submitting

LEMMA StageCases ==
    ASSUME TypeInv, NEW j \in Jobs
    PROVE  /\ Stage[j] = StageOf(j)
           /\ ~Accepted(j) => StageOf(j) = "unknown"
           /\ Accepted(j) =>
                /\ status[j] \in {"pending", "retrying"} <=> StageOf(j) = "waiting"
                /\ status[j] = "running" <=> StageOf(j) = "executing"
                /\ status[j] = "completed" <=> StageOf(j) = "succeeded"
                /\ status[j] = "failed" <=> StageOf(j) = "failed"
  BY DEF TypeInv, LooseTypes, Statuses, Stage, StageOf, Accepted

(* Only a worker that calls worker_fn makes its job RUNNING. *)
LEMMA RunningIsHeld ==
    ASSUME IInv, NEW j \in Jobs, status[j] = "running"
    PROVE  \E w \in Workers : hand[w] = j /\ pc[w] = "calling"
  <1>1. ~Untried(j) /\ j \notin doneFutures
    BY DEF IInv, FieldInv, Outcome, Succeeded, Exhausted, Untried
  <1>2. PICK w \in Workers : hand[w] = j
    BY <1>1 DEF IInv, FieldInv
  <1>3. pc[w] \in {"idle", "loop", "begin", "calling", "storing"} /\ pc[w] # "idle"
    BY <1>2, SchedulerAssumption
       DEF IInv, TypeInv, LooseTypes, BusyHold, SchedulerAssumption
  <1>4. pc[w] = "calling"
    BY <1>2, <1>3 DEF IInv, FieldInv, FieldsOf, Retryable, Exhausted
  <1> QED
    BY <1>2, <1>4

(* A worker about to count an attempt leaves room for it. *)
LEMMA RoomToTry ==
    ASSUME IInv, NEW w \in Workers, pc[w] = "begin"
    PROVE  Cardinality({k \in Jobs : Stage[k] = "executing"})
               < Cardinality(Workers)
  <1> DEFINE E == {k \in Jobs : Stage[k] = "executing"}
             f == [k \in E |-> CHOOSE v \in Workers :
                                  hand[v] = k /\ pc[v] = "calling"]
  <1>1. ASSUME NEW k \in E
        PROVE  f[k] \in Workers /\ hand[f[k]] = k /\ pc[f[k]] = "calling"
    <2>1. status[k] = "running"
      BY <1>1, StageCases DEF IInv
    <2> QED
      BY <1>1, <2>1, RunningIsHeld
  <1>2. f \in [E -> Workers \ {w}]
    BY <1>1
  <1>3. f \in Injection(E, Workers \ {w})
    BY <1>1, <1>2 DEF Injection, IsInjective
  <1>4. /\ IsFiniteSet(Workers \ {w})
        /\ Cardinality(Workers \ {w}) = Cardinality(Workers) - 1
        /\ Cardinality(Workers) \in Nat
    BY FS_RemoveElement, FS_CardinalityType, SchedulerAssumption
       DEF SchedulerAssumption
  <1>5. IsFiniteSet(E) /\ Cardinality(E) <= Cardinality(Workers \ {w})
    BY <1>3, <1>4, FS_Injection
  <1>6. Cardinality(E) \in Nat
    BY <1>5, FS_CardinalityType
  <1> QED
    BY <1>4, <1>5, <1>6

(* A busy worker's job has been accepted, and a run is under way. *)
LEMMA BusyRun ==
    ASSUME IInv, NEW w \in Workers, pc[w] # "idle"
    PROVE  /\ hand[w] \in Jobs /\ Accepted(hand[w])
           /\ main # "idle"
  <1>1. hand[w] \in Jobs /\ hand[w] # NoJob
    BY BusyHand DEF IInv
  <1>2. Accepted(hand[w])
    BY <1>1 DEF IInv, PlaceInv, Covered, Apart, Accepted
  <1>3. hand[w] \in futures /\ hand[w] \notin doneFutures
    BY <1>1 DEF IInv, FlowInv, PlaceInv, Apart
  <1> QED
    BY <1>1, <1>2, <1>3 DEF IInv, FlowInv

(* When no run is under way the jobs that wait are those in the queue. *)
LEMMA IdleWaiting ==
    ASSUME IInv, main = "idle"
    PROVE  Queued = {j \in Jobs : Stage[j] = "waiting"}
  <1>1. Queued \subseteq Jobs
    BY QueueElements DEF IInv, TypeInv, LooseTypes, Queued
  <1>2. ASSUME NEW j \in Queued
        PROVE  Stage[j] = "waiting"
    <2>1. Accepted(j) /\ status[j] = "pending"
      BY <1>1, <1>2
         DEF IInv, PlaceInv, Covered, Apart, FieldInv, Untried, Accepted
    <2> QED
      BY <1>1, <2>1, StageCases DEF IInv
  <1>3. ASSUME NEW j \in Jobs, Stage[j] = "waiting"
        PROVE  j \in Queued
    <2>1. Accepted(j) /\ status[j] \in {"pending", "retrying"}
      BY <1>3, StageCases DEF IInv
    <2>2. j \notin doneFutures
      BY <2>1 DEF IInv, FieldInv, Outcome, Succeeded, Exhausted
    <2>3. j \notin futures
      BY <2>2 DEF IInv, FlowInv
    <2> QED
      BY <2>1, <2>2, <2>3 DEF IInv, PlaceInv, Covered, FlowInv, Accepted
  <1> QED
    BY <1>1, <1>2, <1>3

LEMMA InitImplements == Init => Batch!Init
  BY DEF Init, Batch!Init, StageOf

(* A step that changes no job's acceptance, status or attempts and leaves  *)
(* the running thread alone is a stutter of the abstract scheduler.        *)
LEMMA SameBatch ==
    ASSUME UNCHANGED <<status, attempts, results, submitting, main, promised>>
    PROVE  UNCHANGED Batch!vars
  BY DEF Batch!vars, StageOf

(* How a step that changes the stage of one job looks to JobBatch.         *)
LEMMA OneStage ==
    ASSUME TypeInv, TypeInv', NEW j \in Jobs, NEW s,
           \A k \in Jobs : k # j => StageOf(k)' = StageOf(k),
           StageOf(j)' = s
    PROVE  Stage' = [Stage EXCEPT ![j] = s]
  BY DEF Stage

(* Every step of the scheduler is a step of JobBatch or a stutter. *)
LEMMA StepImplements == IInv /\ IInv' /\ [Next]_vars => [Batch!Next]_Batch!vars
  <1> SUFFICES ASSUME IInv, IInv', [Next]_vars
               PROVE  [Batch!Next]_Batch!vars
    OBVIOUS
  <1>0. /\ TypeInv /\ TypeInv'
        /\ status \in [Jobs -> Statuses] /\ attempts \in [Jobs -> Nat]
        /\ pc \in [Workers -> {"idle", "loop", "begin", "calling", "storing"}]
        /\ hand \in [Workers -> Jobs \cup {NoJob}]
    BY DEF IInv, TypeInv, LooseTypes
  <1>1. ASSUME NEW j \in Jobs, Register(j)
        PROVE  UNCHANGED Batch!vars
    <2>1. \A k \in Jobs : StageOf(k)' = StageOf(k)
      BY <1>1 DEF Register, StageOf, jobVars, IInv, PlaceInv, Covered
    <2> QED
      BY <1>1, <2>1 DEF Register, Batch!vars, jobVars, runVars
  <1>2. ASSUME NEW j \in Jobs, Enqueue(j)
        PROVE  Batch!Submit(j)
    <2>1. /\ j \in submitting /\ j \in results
          /\ submitting' = submitting \ {j}
          /\ UNCHANGED <<jobVars, results, main, promised>>
      BY <1>2 DEF Enqueue, runVars, IInv, PlaceInv, Covered
    <2>2. Untried(j)
      BY <2>1 DEF IInv, FieldInv, PlaceInv, Apart
    <2>3. StageOf(j) = "unknown" /\ StageOf(j)' = "waiting"
      BY <1>0, <2>1, <2>2, StageCases DEF StageOf, Untried, jobVars
    <2>4. \A k \in Jobs : k # j => StageOf(k)' = StageOf(k)
      BY <2>1 DEF StageOf, jobVars
    <2>5. Stage' = [Stage EXCEPT ![j] = "waiting"] /\ Stage[j] = "unknown"
      BY <1>0, <2>3, <2>4, OneStage DEF Stage
    <2> QED
      BY <2>1, <2>5 DEF Batch!Submit, Stage, jobVars
  <1>3. CASE StartRun
    <2>1. /\ main = "idle" /\ main' = "draining" /\ promised' = Queued
          /\ UNCHANGED <<jobVars, results, submitting>>
      BY <1>3 DEF StartRun, queueVars, Queued
    <2>2. promised' = {j \in Jobs : Stage[j] = "waiting"}
      BY <2>1, IdleWaiting
    <2>3. Stage' = Stage
      BY <2>1 DEF Stage, StageOf, jobVars
    <2> QED
      BY <2>1, <2>2, <2>3 DEF Batch!Next, Batch!Start, Stage, jobVars
  <1>4. CASE Drain
    BY <1>4, SameBatch DEF Drain, jobVars, runVars
  <1>5. CASE DrainEnd
    <2>1. Stage' = Stage
      BY <1>5 DEF DrainEnd, Stage, StageOf, jobVars, queueVars
    <2> QED
      BY <1>5, <2>1 DEF DrainEnd, Batch!vars, Stage, jobVars
  <1>6. CASE Return
    <2>1. /\ main = "waiting" /\ main' = "idle"
          /\ futures \subseteq doneFutures /\ promised \subseteq futures
          /\ UNCHANGED <<jobVars, results, submitting, promised>>
      BY <1>6 DEF Return, queueVars, IInv, FlowInv
    <2>2. Stage' = Stage
      BY <2>1 DEF Stage, StageOf, jobVars
    <2>3. ASSUME NEW j \in promised
          PROVE  Stage[j] \in {"succeeded", "failed"}
      <3>1. j \in Jobs /\ j \in doneFutures
        BY <2>1, <2>3 DEF IInv, TypeInv, LooseTypes
      <3>2. status[j] \in {"completed", "failed"} /\ Accepted(j)
        BY <3>1 DEF IInv, FieldInv, Outcome, Succeeded, Exhausted, PlaceInv,
                    Covered, Apart, Accepted
      <3> QED
        BY <1>0, <3>1, <3>2, StageCases
    <2>4. ASSUME NEW j \in Jobs, Stage[j] = "executing"
          PROVE  FALSE
      <3>1. status[j] = "running"
        BY <1>0, <2>4, StageCases
      <3>2. PICK w \in Workers : hand[w] = j
        BY <3>1, RunningIsHeld
      <3>3. j \in futures /\ j \notin doneFutures
        BY <3>2 DEF IInv, FlowInv, PlaceInv, Apart
      <3> QED
        BY <2>1, <3>3
    <2> QED
      BY <2>1, <2>2, <2>3, <2>4
         DEF Batch!Next, Batch!Report, Batch!Settled, Stage, jobVars
  <1>7. ASSUME NEW w \in Workers, Take(w)
        PROVE  UNCHANGED Batch!vars
    BY <1>7, SameBatch DEF Take, jobVars, queueVars, runVars
  <1>8. ASSUME NEW w \in Workers, Acquire(w) \/ Poll(w)
        PROVE  UNCHANGED Batch!vars
    BY <1>8, SameBatch DEF Acquire, Poll, jobVars, queueVars, runVars
  <1>9. ASSUME NEW w \in Workers, pc[w] # "idle"
        PROVE  /\ hand[w] \in Jobs /\ Accepted(hand[w])
               /\ main # "idle"
    BY <1>9, BusyRun
  <1>10. ASSUME NEW w \in Workers, Begin(w)
         PROVE  Batch!Try(hand[w])
    <2> DEFINE j == hand[w]
    <2>1. /\ pc[w] = "begin"
          /\ status' = [status EXCEPT ![j] = "running"]
          /\ attempts' = [attempts EXCEPT ![j] = @ + 1]
          /\ UNCHANGED <<results, submitting, main, promised>>
      BY <1>10 DEF Begin, queueVars, runVars
    <2>2. /\ j \in Jobs /\ Accepted(j) /\ main # "idle"
          /\ status[j] \in {"pending", "retrying"} /\ attempts[j] < MaxRetries
      BY <1>9, <2>1 DEF IInv, FieldInv, FieldsOf, Retryable
    <2>3. Stage[j] = "waiting"
      BY <1>0, <2>2, StageCases
    <2>4. Cardinality({k \in Jobs : Stage[k] = "executing"})
            < Cardinality(Workers)
      BY <2>1, RoomToTry
    <2> HIDE DEF j
    <2>5. /\ \A k \in Jobs : k # j => StageOf(k)' = StageOf(k)
          /\ \A k \in Jobs : k = j => StageOf(k)' = "executing"
      BY <1>0, <2>1, <2>2 DEF StageOf, Accepted
    <2>6. Stage' = [Stage EXCEPT ![j] = "executing"]
      BY <2>2, <2>5 DEF Stage
    <2>7. main' # "idle" <=> main # "idle"
      BY <2>1
    <2>8. attempts' = [attempts EXCEPT ![j] = @ + 1]
      BY <2>1 DEF j
    <2>9. Batch!Try(j)
      <3>1. Cardinality({k \in Jobs :
                            [i \in Jobs |-> StageOf(i)][k] = "executing"})
              < Cardinality(Workers)
        BY <2>4 DEF Stage
      <3>2. [i \in Jobs |-> StageOf(i)][j] = "waiting"
        BY <2>3 DEF Stage
      <3>3. [i \in Jobs |-> StageOf(i)]' =
              [[i \in Jobs |-> StageOf(i)] EXCEPT ![j] = "executing"]
        BY <2>6 DEF Stage
      <3>4. \A S : Batch!Cardinality(S) = Cardinality(S)
        BY Zenon DEF Cardinality, Batch!Cardinality
      <3> QED
        BY <2>1, <2>2, <2>7, <2>8, <3>1, <3>2, <3>3, <3>4 DEF Batch!Try
    <2> QED
      BY <2>9 DEF j
  <1>11. ASSUME NEW w \in Workers, Succeed(w)
         PROVE  Batch!Success(hand[w])
    <2> DEFINE j == hand[w]
    <2>1. /\ pc[w] = "calling"
          /\ status' = [status EXCEPT ![j] = "completed"]
          /\ UNCHANGED <<attempts, results, submitting, main, promised>>
      BY <1>11 DEF Succeed, queueVars, runVars
    <2>2. j \in Jobs /\ Accepted(j) /\ status[j] = "running" /\ main # "idle"
      BY <1>9, <2>1 DEF IInv, FieldInv, FieldsOf
    <2>3. Stage[j] = "executing"
      BY <1>0, <2>2, StageCases
    <2> HIDE DEF j
    <2>4. /\ \A k \in Jobs : k # j => StageOf(k)' = StageOf(k)
          /\ \A k \in Jobs : k = j => StageOf(k)' = "succeeded"
      BY <1>0, <2>1, <2>2 DEF StageOf, Accepted
    <2>5. Stage' = [Stage EXCEPT ![j] = "succeeded"]
      BY <2>2, <2>4 DEF Stage
    <2>6. Batch!Success(j)
      BY <2>1, <2>2, <2>3, <2>5 DEF Batch!Success, Stage
    <2> QED
      BY <2>6 DEF j
  <1>12. ASSUME NEW w \in Workers, Store(w)
         PROVE  UNCHANGED Batch!vars
    BY <1>12, SameBatch DEF Store, queueVars, runVars
  <1>13. ASSUME NEW w \in Workers, Backoff(w) \/ GiveUp(w)
         PROVE  Batch!Setback(hand[w])
    <2> DEFINE j == hand[w]
               s == IF attempts[j] < MaxRetries THEN "waiting" ELSE "failed"
    <2>1. /\ pc[w] = "calling"
          /\ status' = [status EXCEPT ![j] =
                            IF attempts[j] < MaxRetries
                            THEN "retrying" ELSE "failed"]
          /\ UNCHANGED <<attempts, results, submitting, main, promised>>
      <3>1. attempts[j] \in Nat /\ MaxRetries \in Nat
        BY <1>0, <1>9, <1>13, SchedulerAssumption
           DEF Backoff, GiveUp, SchedulerAssumption
      <3> QED
        BY <1>13, <3>1 DEF Backoff, GiveUp, queueVars, runVars
    <2>2. j \in Jobs /\ Accepted(j) /\ status[j] = "running" /\ main # "idle"
      BY <1>9, <2>1 DEF IInv, FieldInv, FieldsOf
    <2>3. Stage[j] = "executing"
      BY <1>0, <2>2, StageCases
    <2> HIDE DEF j
    <2>4. /\ \A k \in Jobs : k # j => StageOf(k)' = StageOf(k)
          /\ \A k \in Jobs : k = j => StageOf(k)' = s
      BY <1>0, <2>1, <2>2 DEF StageOf, Accepted
    <2>5. Stage' = [Stage EXCEPT ![j] = s]
      BY <2>2, <2>4 DEF Stage
    <2>6. Batch!Setback(j)
      BY <2>1, <2>2, <2>3, <2>5 DEF Batch!Setback, Stage
    <2> QED
      BY <2>6 DEF j
  <1>14. ASSUME NEW w \in Workers, LoopExit(w)
         PROVE  UNCHANGED Batch!vars
    BY <1>14, SameBatch DEF LoopExit, jobVars, queueVars, runVars
  <1>15. CASE Pass
    BY <1>15, SameBatch DEF Pass, jobVars, queueVars, runVars
  <1>16. CASE UNCHANGED vars
    BY <1>16, SameBatch DEF vars, jobVars, queueVars, runVars
  <1>17. \A w \in Workers :
            Begin(w) \/ Succeed(w) \/ Backoff(w) \/ GiveUp(w) => hand[w] \in Jobs
    BY <1>9 DEF Begin, Succeed, Backoff, GiveUp
  <1> QED
    BY <1>1, <1>2, <1>3, <1>4, <1>5, <1>6, <1>7, <1>8, <1>10, <1>11, <1>12,
       <1>13, <1>14, <1>15, <1>16, <1>17
       DEF Next, SubmitStep, RunStep, WorkerStep, Batch!Next

(* The scheduler keeps every promise of JobBatch: tries are bounded and by *)
(* no more workers than there are, one per job, and a run is over only     *)
(* when the jobs it was asked for are settled.                             *)
THEOREM BatchImplemented == Spec => ImplementsBatch
  <1> QED
    BY InitImplements, StepImplements, Inductive, PTL
       DEF Spec, ImplementsBatch, Batch!Spec

----------------------------------------------------------------------------
(***************************************************************************)
(* The window bound of the token bucket, for every rate, clock resolution  *)
(* and set of threads (RateLimiterCallers).                                *)
(***************************************************************************)

(* Multiplication is beyond the linear arithmetic of the provers: the      *)
(* three facts about it that the proofs use.                               *)
LEMMA ProductNat ==
    ASSUME NEW a \in Nat, NEW b \in Nat
    PROVE  a * b \in Nat
  OBVIOUS

LEMMA ProductSucc ==
    ASSUME NEW a \in Nat, NEW b \in Nat
    PROVE  (a + 1) * b = a * b + b
  OBVIOUS

LEMMA CapacityNat == Capacity \in Nat
  BY ProductNat, LimiterAssumption DEF LimiterAssumption, Capacity

(* The bucket never offers a negative amount nor more than its capacity.   *)
LEMMA AvailableBounds ==
    ASSUME LimiterTypeOK
    PROVE  Available \in 0..Capacity
  <1>1. elapsed * PerTick \in Nat
    BY ProductNat, LimiterAssumption DEF LimiterAssumption, LimiterTypeOK
  <1> QED
    BY <1>1, CapacityNat DEF LimiterTypeOK, Available

(* A tick of the clock adds at most PerTick to what the bucket offers.     *)
LEMMA TickAvailable ==
    ASSUME LimiterTypeOK, Tick
    PROVE  /\ LimiterTypeOK'
           /\ Available' \in 0..Capacity
           /\ Available' <= Available + PerTick
  <1> DEFINE filled == tokens + elapsed * PerTick
  <1>1. filled \in Nat /\ Capacity \in Nat /\ PerTick \in Nat
    BY ProductNat, CapacityNat, LimiterAssumption
       DEF LimiterAssumption, LimiterTypeOK
  <1>2. tokens' + elapsed' * PerTick = filled + PerTick
    <2>1. elapsed' * PerTick = elapsed * PerTick + PerTick
      BY ProductSucc, LimiterAssumption
         DEF LimiterAssumption, LimiterTypeOK, Tick
    <2>2. elapsed * PerTick \in Nat /\ tokens \in Nat /\ tokens' = tokens
      BY ProductNat, CapacityNat, LimiterAssumption
         DEF LimiterAssumption, LimiterTypeOK, Tick
    <2> QED
      BY <1>1, <2>1, <2>2
  <1>3. LimiterTypeOK'
    BY LimiterAssumption DEF LimiterAssumption, LimiterTypeOK, Tick, Capacity
  <1>4. Available' = IF filled + PerTick > Capacity
                     THEN Capacity ELSE filled + PerTick
    BY <1>2 DEF Available, Capacity
  <1>5. Available = IF filled > Capacity THEN Capacity ELSE filled
    BY DEF Available
  <1> HIDE DEF filled
  <1> QED
    BY <1>1, <1>3, <1>4, <1>5

(* After a pass of acquire the bucket offers what the pass has left in it. *)
LEMMA PassAvailable ==
    ASSUME LimiterTypeOK, TakeToken \/ FindNoToken
    PROVE  /\ LimiterTypeOK'
           /\ TakeToken => Available' = Available - Unit
           /\ FindNoToken => Available' = Available
  <1>1. Available \in 0..Capacity
    BY AvailableBounds
  <1>2. tokens' \in 0..Capacity /\ elapsed' = 0
    BY <1>1, CapacityNat, LimiterAssumption
       DEF LimiterAssumption, TakeToken, FindNoToken
  <1>3. 0 * PerTick = 0
    BY LimiterAssumption DEF LimiterAssumption
  <1>4. Available' = tokens'
    BY <1>2, <1>3, CapacityNat DEF Available, Capacity
  <1>5. LimiterTypeOK'
    BY <1>2, LimiterAssumption DEF LimiterAssumption, LimiterTypeOK, Capacity
  <1> QED
    BY <1>4, <1>5 DEF TakeToken, FindNoToken

----------------------------------------------------------------------------

(* Every reachable state is well typed (RateLimiter's fields).             *)
THEOREM CallersTypeCorrect == CallersSpec => []CallersTypeOK
  <1>1. CallersInit => CallersTypeOK
    BY CapacityNat, LimiterAssumption, WindowAssumption
       DEF CallersInit, CallersTypeOK, LimiterInit, LimiterTypeOK, LimiterAssumption,
           WindowAssumption
  <1>2. CallersTypeOK /\ [CallersNext]_callersVars => CallersTypeOK'
    <2> SUFFICES ASSUME CallersTypeOK, [CallersNext]_callersVars
                 PROVE  CallersTypeOK'
      OBVIOUS
    <2> USE DEF CallersTypeOK
    <2>1. ASSUME NEW c \in Callers, Call(c)
          PROVE  CallersTypeOK'
      BY <2>1 DEF Call, LimiterTypeOK, limiterVars, windowVars, Capacity
    <2>2. ASSUME NEW c \in Callers, CallerAcquires(c)
          PROVE  CallersTypeOK'
      BY <2>2, PassAvailable DEF CallerAcquires
    <2>3. ASSUME NEW c \in Callers, Retry(c)
          PROVE  CallersTypeOK'
      BY <2>3, PassAvailable DEF Retry, windowVars
    <2>4. CASE TimePasses
      BY <2>4, TickAvailable, WindowAssumption DEF TimePasses, WindowAssumption
    <2>5. CASE PassFull
      BY <2>5, WindowAssumption
         DEF PassFull, WindowAssumption, limiterVars, LimiterTypeOK, Capacity
    <2>6. CASE Observe
      BY <2>6, WindowAssumption
         DEF Observe, WindowAssumption, limiterVars, LimiterTypeOK, Capacity
    <2>7. CASE UNCHANGED callersVars
      BY <2>7 DEF callersVars, LimiterTypeOK, Capacity
    <2> QED
      BY <2>1, <2>2, <2>3, <2>4, <2>5, <2>6, <2>7 DEF CallersNext
  <1> QED
    BY <1>1, <1>2, PTL DEF CallersSpec

(* Counting what the bucket still offers as already given makes the window *)
(* bound inductive: a granted token moves from one side of the sum to the  *)
(* other, and a tick adds at most PerTick to both sides.                   *)
THEOREM PotentialCorrect == CallersSpec => []WindowPotential
  <1>1. CallersInit => WindowPotential
    <2> SUFFICES ASSUME CallersInit
                 PROVE  WindowPotential
      OBVIOUS
    <2>1. 0 * Unit = 0 /\ 0 * PerTick = 0
      BY LimiterAssumption DEF LimiterAssumption
    <2>2. Available = Capacity
      BY <2>1, CapacityNat DEF CallersInit, LimiterInit, Available
    <2> QED
      BY <2>1, <2>2, CapacityNat DEF CallersInit, WindowPotential
  <1>2. CallersTypeOK /\ WindowPotential /\ [CallersNext]_callersVars => WindowPotential'
    <2> SUFFICES ASSUME CallersTypeOK, WindowPotential, [CallersNext]_callersVars
                 PROVE  WindowPotential'
      OBVIOUS
    <2>1. LimiterTypeOK /\ Available \in 0..Capacity
      BY AvailableBounds DEF CallersTypeOK
    <2>2. /\ winGrants * Unit \in Nat
          /\ winTicks * PerTick \in Nat
          /\ PerTick \in Nat /\ Unit \in Nat
      BY ProductNat, LimiterAssumption, WindowAssumption
         DEF CallersTypeOK, LimiterAssumption, WindowAssumption
    <2>3. winGrants * Unit + Available <= Capacity + winTicks * PerTick
      BY DEF WindowPotential
    <2> DEFINE Goal(g, a, t) == g * Unit + a <= Capacity + t * PerTick
    <2>4. Capacity' = Capacity
      BY DEF Capacity
    <2>5. Goal(winGrants', Available', winTicks') => WindowPotential'
      BY <2>4 DEF WindowPotential
    <2>6. ASSUME NEW c \in Callers, Call(c)
          PROVE  WindowPotential'
      <3>1. Available' = Available
        BY <2>6 DEF Call, limiterVars, Available, Capacity
      <3> QED
        BY <2>3, <2>5, <2>6, <3>1 DEF Call, windowVars
    <2>7. ASSUME NEW c \in Callers, CallerAcquires(c)
          PROVE  WindowPotential'
      <3>1. Available' = Available - Unit
        BY <2>1, <2>7, PassAvailable DEF CallerAcquires
      <3>2. winGrants' * Unit = winGrants * Unit + Unit
        BY <2>2, <2>7, ProductSucc DEF CallerAcquires, CallersTypeOK
      <3>3. winTicks' = winTicks
        BY <2>7 DEF CallerAcquires
      <3>4. winGrants' * Unit + Available' = winGrants * Unit + Available
        BY <2>1, <2>2, <3>1, <3>2, CapacityNat
      <3> QED
        BY <2>3, <2>5, <3>3, <3>4
    <2>8. ASSUME NEW c \in Callers, Retry(c)
          PROVE  WindowPotential'
      <3>1. Available' = Available
        BY <2>1, <2>8, PassAvailable DEF Retry
      <3> QED
        BY <2>3, <2>5, <2>8, <3>1 DEF Retry, windowVars
    <2>9. CASE TimePasses
      <3>1. Available' <= Available + PerTick
        BY <2>1, <2>9, TickAvailable DEF TimePasses
      <3>2. Available' \in 0..Capacity
        BY <2>1, <2>9, TickAvailable DEF TimePasses
      <3>3. winTicks' * PerTick = winTicks * PerTick + PerTick
        BY <2>2, <2>9, ProductSucc, WindowAssumption
           DEF TimePasses, CallersTypeOK, WindowAssumption
      <3>4. winGrants' = winGrants
        BY <2>9 DEF TimePasses
      <3>5. winGrants * Unit + Available' <= Capacity + winTicks' * PerTick
        BY <2>1, <2>2, <2>3, <3>1, <3>2, <3>3, CapacityNat
      <3> QED
        BY <2>5, <3>4, <3>5
    <2>10. CASE PassFull
      <3>1. Available' = Available
        BY <2>10 DEF PassFull, limiterVars, Available, Capacity
      <3>2. winTicks' * PerTick = winTicks * PerTick + PerTick
        BY <2>2, <2>10, ProductSucc, WindowAssumption
           DEF PassFull, CallersTypeOK, WindowAssumption
      <3>3. winGrants' = winGrants
        BY <2>10 DEF PassFull
      <3>4. winGrants * Unit + Available' <= Capacity + winTicks' * PerTick
        BY <2>1, <2>2, <2>3, <3>1, <3>2, CapacityNat
      <3> QED
        BY <2>5, <3>3, <3>4
    <2>11. CASE Observe
      <3>1. Available' = Available
        BY <2>11 DEF Observe, limiterVars, Available, Capacity
      <3>2. winGrants' * Unit = 0 /\ winTicks' * PerTick = 0
        BY <2>2, <2>11 DEF Observe
      <3> QED
        BY <2>1, <2>5, <3>1, <3>2, CapacityNat
    <2>12. CASE UNCHANGED callersVars
      BY <2>3, <2>5, <2>12 DEF callersVars, Available, Capacity
    <2> QED
      BY <2>6, <2>7, <2>8, <2>9, <2>10, <2>11, <2>12 DEF CallersNext
  <1> QED
    BY <1>1, <1>2, CallersTypeCorrect, PTL DEF CallersSpec

(* In no window of time does acquire let through more requests than one    *)
(* full bucket plus the refill of that time (scheduler.py:69-82).          *)
THEOREM WindowCorrect == CallersSpec => []WindowBound
  <1>1. CallersTypeOK /\ WindowPotential => WindowBound
    <2> SUFFICES ASSUME CallersTypeOK, WindowPotential
                 PROVE  WindowBound
      OBVIOUS
    <2>1. Available \in 0..Capacity
      BY AvailableBounds DEF CallersTypeOK
    <2>2. winGrants * Unit \in Nat /\ winTicks * PerTick \in Nat
      BY ProductNat, LimiterAssumption, WindowAssumption
         DEF CallersTypeOK, LimiterAssumption, WindowAssumption
    <2> QED
      BY <2>1, <2>2, CapacityNat DEF WindowPotential, WindowBound
  <1> QED
    BY <1>1, CallersTypeCorrect, PotentialCorrect, PTL
=============================================================================
