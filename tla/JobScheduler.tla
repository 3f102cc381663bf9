---------------------------- MODULE JobScheduler ----------------------------
(***************************************************************************)
(* The job scheduler of release-gate/orchestrator/scheduler.py: threads    *)
(* submit jobs, one thread runs them on a pool of worker threads, and the  *)
(* workers share the rate limiter.                                         *)
(*                                                                         *)
(* A job is submitted at most once, under an id of its own, as run_batch   *)
(* does; the worker function returns or raises, as the scheduler assumes.  *)
(***************************************************************************)
EXTENDS RateLimiter, FiniteSets, Sequences, Functions

CONSTANTS Jobs,            (* the Job objects                              *)
          Workers,         (* the threads of the executor                  *)
          NoJob,           (* what an idle worker holds                    *)
          MaxRetries,      (* max_retries                                  *)
          MaxRuns          (* bound: calls of run                          *)

ASSUME SchedulerAssumption ==
    /\ IsFiniteSet(Jobs)
    /\ IsFiniteSet(Workers)
    /\ NoJob \notin Jobs
    /\ MaxRetries \in Nat \ {0}
    /\ MaxRuns \in Nat

VARIABLES status,          (* job.status                                   *)
          attempts,        (* job.attempts                                 *)
          hasResult,       (* job.result is not None                       *)
          completedAt,     (* job.completed_at is not None                 *)
          results,         (* the jobs in self.results                     *)
          submitting,      (* between the two statements of submit         *)
          jobQueue,        (* self.job_queue                               *)
          workQueue,       (* the executor's own queue                     *)
          futures,         (* the jobs of self._futures                    *)
          doneFutures,     (* those whose process_job has returned         *)
          pc,              (* where each worker is in process_job          *)
          hand,            (* the job each worker processes                *)
          main,            (* where the running thread is in run           *)
          runs,            (* calls of run so far                          *)
          promised         (* history: queued when the last run began      *)

jobVars == <<status, attempts, hasResult, completedAt>>
queueVars == <<results, submitting, jobQueue>>
poolVars == <<workQueue, futures, doneFutures>>
workerVars == <<pc, hand>>
runVars == <<main, runs, promised>>
vars == <<limiterVars, jobVars, queueVars, poolVars, workerVars, runVars>>

Statuses == {"pending", "running", "completed", "failed", "retrying"}

TypeOK ==
    /\ LimiterTypeOK
    /\ status \in [Jobs -> Statuses]
    /\ attempts \in [Jobs -> 0..MaxRetries]
    /\ hasResult \in [Jobs -> BOOLEAN]
    /\ completedAt \in [Jobs -> BOOLEAN]
    /\ results \subseteq Jobs
    /\ submitting \subseteq Jobs
    /\ jobQueue \in Seq(Jobs)
    /\ workQueue \in Seq(Jobs)
    /\ futures \subseteq Jobs
    /\ doneFutures \subseteq Jobs
    /\ pc \in [Workers -> {"idle", "loop", "begin", "calling", "storing"}]
    /\ hand \in [Workers -> Jobs \cup {NoJob}]
    /\ main \in {"idle", "draining", "waiting"}
    /\ runs \in 0..MaxRuns
    /\ promised \subseteq Jobs

Init ==
    /\ LimiterInit
    /\ status = [j \in Jobs |-> "pending"]
    /\ attempts = [j \in Jobs |-> 0]
    /\ hasResult = [j \in Jobs |-> FALSE]
    /\ completedAt = [j \in Jobs |-> FALSE]
    /\ results = {}
    /\ submitting = {}
    /\ jobQueue = <<>>
    /\ workQueue = <<>>
    /\ futures = {}
    /\ doneFutures = {}
    /\ pc = [w \in Workers |-> "idle"]
    /\ hand = [w \in Workers |-> NoJob]
    /\ main = "idle"
    /\ runs = 0
    /\ promised = {}

----------------------------------------------------------------------------
(* The submitting threads. *)

(* submit: the job is entered in results, under the lock ... *)
Register(j) ==
    /\ j \notin results
    /\ results' = results \cup {j}
    /\ submitting' = submitting \cup {j}
    /\ UNCHANGED <<limiterVars, jobVars, jobQueue, poolVars, workerVars,
                   runVars>>

(* ... and then, outside of it, put on the queue. *)
Enqueue(j) ==
    /\ j \in submitting
    /\ submitting' = submitting \ {j}
    /\ jobQueue' = Append(jobQueue, j)
    /\ UNCHANGED <<limiterVars, jobVars, results, poolVars, workerVars,
                   runVars>>

----------------------------------------------------------------------------
(* The running thread. *)

StartRun ==
    /\ main = "idle"
    /\ runs < MaxRuns
    /\ main' = "draining"
    /\ runs' = runs + 1
    /\ promised' = Range(jobQueue)
    /\ UNCHANGED <<limiterVars, jobVars, queueVars, poolVars, workerVars>>

(* Mutant: the job is handed on and stays on the queue while there is room *)
(* in the executor.                                                        *)
Drain_Peek ==
    /\ main = "draining"
    /\ jobQueue # <<>>
    /\ Len(workQueue) < 2
    /\ workQueue' = Append(workQueue, Head(jobQueue))
    /\ futures' = futures \cup {Head(jobQueue)}
    /\ UNCHANGED <<limiterVars, jobVars, queueVars, doneFutures, workerVars,
                   runVars>>

(* One turn of the loop that hands the queued jobs to the executor. *)
Drain ==
    /\ main = "draining"
    /\ jobQueue # <<>>
    /\ jobQueue' = Tail(jobQueue)
    /\ workQueue' = Append(workQueue, Head(jobQueue))
    /\ futures' = futures \cup {Head(jobQueue)}
    /\ UNCHANGED <<limiterVars, jobVars, results, submitting, doneFutures,
                   workerVars, runVars>>

(* Mutant: one turn of the loop instead of all.                            *)
DrainEnd_Early ==
    /\ main = "draining"
    /\ main' = "waiting"
    /\ UNCHANGED <<limiterVars, jobVars, queueVars, poolVars, workerVars,
                   runs, promised>>

(* The loop finds the queue empty. *)
DrainEnd ==
    /\ main = "draining"
    /\ jobQueue = <<>>
    /\ main' = "waiting"
    /\ UNCHANGED <<limiterVars, jobVars, queueVars, poolVars, workerVars,
                   runs, promised>>

(* Mutant: the futures are not waited for.                                 *)
Return_NoWait ==
    /\ main = "waiting"
    /\ main' = "idle"
    /\ UNCHANGED <<limiterVars, jobVars, queueVars, poolVars, workerVars,
                   runs, promised>>

(* Each future.result() has returned, the executor is shut down and run    *)
(* returns the jobs in results.                                            *)
Return ==
    /\ main = "waiting"
    /\ futures \subseteq doneFutures
    /\ main' = "idle"
    /\ UNCHANGED <<limiterVars, jobVars, queueVars, poolVars, workerVars,
                   runs, promised>>

----------------------------------------------------------------------------
(* The workers: process_job. *)

(* The executor gives its next job to an idle thread. *)
Take(w) ==
    /\ pc[w] = "idle"
    /\ workQueue # <<>>
    /\ workQueue' = Tail(workQueue)
    /\ hand' = [hand EXCEPT ![w] = Head(workQueue)]
    /\ pc' = [pc EXCEPT ![w] = "loop"]
    /\ UNCHANGED <<limiterVars, jobVars, queueVars, futures, doneFutures,
                   runVars>>

(* Mutant: the loop does not look at the attempts.                         *)
Acquire_NoLimit(w) ==
    /\ pc[w] = "loop"
    /\ TakeToken
    /\ pc' = [pc EXCEPT ![w] = "begin"]
    /\ UNCHANGED <<jobVars, queueVars, poolVars, hand, runVars>>

(* The job may be tried again and the limiter gives a token ... *)
Acquire(w) ==
    /\ pc[w] = "loop"
    /\ attempts[hand[w]] < MaxRetries
    /\ TakeToken
    /\ pc' = [pc EXCEPT ![w] = "begin"]
    /\ UNCHANGED <<jobVars, queueVars, poolVars, hand, runVars>>

(* ... or has none: the worker sleeps and asks again. *)
Poll(w) ==
    /\ pc[w] = "loop"
    /\ attempts[hand[w]] < MaxRetries
    /\ FindNoToken
    /\ UNCHANGED <<jobVars, queueVars, poolVars, workerVars, runVars>>

(* The attempt is counted and worker_fn is called. *)
Begin(w) ==
    /\ pc[w] = "begin"
    /\ status' = [status EXCEPT ![hand[w]] = "running"]
    /\ attempts' = [attempts EXCEPT ![hand[w]] = @ + 1]
    /\ pc' = [pc EXCEPT ![w] = "calling"]
    /\ UNCHANGED <<limiterVars, hasResult, completedAt, queueVars, poolVars,
                   hand, runVars>>

(* worker_fn returns: the status is written first ... *)
Succeed(w) ==
    /\ pc[w] = "calling"
    /\ status' = [status EXCEPT ![hand[w]] = "completed"]
    /\ pc' = [pc EXCEPT ![w] = "storing"]
    /\ UNCHANGED <<limiterVars, attempts, hasResult, completedAt, queueVars,
                   poolVars, hand, runVars>>

(* ... then the result, and process_job returns. *)
Store(w) ==
    /\ pc[w] = "storing"
    /\ hasResult' = [hasResult EXCEPT ![hand[w]] = TRUE]
    /\ completedAt' = [completedAt EXCEPT ![hand[w]] = TRUE]
    /\ doneFutures' = doneFutures \cup {hand[w]}
    /\ hand' = [hand EXCEPT ![w] = NoJob]
    /\ pc' = [pc EXCEPT ![w] = "idle"]
    /\ UNCHANGED <<limiterVars, status, attempts, queueVars, workQueue,
                   futures, runVars>>

(* worker_fn raises and the job has attempts left: back to the loop's      *)
(* head, after a sleep.                                                    *)
Backoff(w) ==
    /\ pc[w] = "calling"
    /\ attempts[hand[w]] < MaxRetries
    /\ status' = [status EXCEPT ![hand[w]] = "retrying"]
    /\ pc' = [pc EXCEPT ![w] = "loop"]
    /\ UNCHANGED <<limiterVars, attempts, hasResult, completedAt, queueVars,
                   poolVars, hand, runVars>>

(* worker_fn raises on the last attempt. *)
GiveUp(w) ==
    /\ pc[w] = "calling"
    /\ attempts[hand[w]] >= MaxRetries
    /\ status' = [status EXCEPT ![hand[w]] = "failed"]
    /\ completedAt' = [completedAt EXCEPT ![hand[w]] = TRUE]
    /\ pc' = [pc EXCEPT ![w] = "loop"]
    /\ UNCHANGED <<limiterVars, attempts, hasResult, queueVars, poolVars,
                   hand, runVars>>

(* Mutant: the loop stops one attempt too early ...                        *)
LoopExit_Early(w) ==
    /\ pc[w] = "loop"
    /\ attempts[hand[w]] + 1 >= MaxRetries
    /\ doneFutures' = doneFutures \cup {hand[w]}
    /\ hand' = [hand EXCEPT ![w] = NoJob]
    /\ pc' = [pc EXCEPT ![w] = "idle"]
    /\ UNCHANGED <<limiterVars, jobVars, queueVars, workQueue, futures,
                   runVars>>

(* ... or is entered once too often, by a worker nothing lets in.          *)
LoopExit_Late(w) ==
    /\ pc[w] = "loop"
    /\ attempts[hand[w]] > MaxRetries
    /\ doneFutures' = doneFutures \cup {hand[w]}
    /\ hand' = [hand EXCEPT ![w] = NoJob]
    /\ pc' = [pc EXCEPT ![w] = "idle"]
    /\ UNCHANGED <<limiterVars, jobVars, queueVars, workQueue, futures,
                   runVars>>

(* The loop's condition is false: process_job returns. *)
LoopExit(w) ==
    /\ pc[w] = "loop"
    /\ attempts[hand[w]] >= MaxRetries
    /\ doneFutures' = doneFutures \cup {hand[w]}
    /\ hand' = [hand EXCEPT ![w] = NoJob]
    /\ pc' = [pc EXCEPT ![w] = "idle"]
    /\ UNCHANGED <<limiterVars, jobVars, queueVars, workQueue, futures,
                   runVars>>

----------------------------------------------------------------------------

Pass == Tick /\ UNCHANGED <<jobVars, queueVars, poolVars, workerVars, runVars>>

SubmitStep(j) == Register(j) \/ Enqueue(j)
RunStep == Drain \/ DrainEnd \/ Return
WorkerStep(w) ==
    \/ Take(w) \/ Acquire(w) \/ Poll(w) \/ Begin(w)
    \/ Succeed(w) \/ Store(w) \/ Backoff(w) \/ GiveUp(w) \/ LoopExit(w)

Next ==
    \/ \E j \in Jobs : SubmitStep(j)
    \/ StartRun
    \/ RunStep
    \/ \E w \in Workers : WorkerStep(w)
    \/ Pass

Spec == Init /\ [][Next]_vars

(* The threads of a run are scheduled and time passes.  Nothing makes      *)
(* anybody submit a job or start a run.                                    *)
Fairness ==
    /\ WF_vars(RunStep)
    /\ \A w \in Workers : WF_vars(WorkerStep(w))
    /\ WF_vars(Pass)

FairSpec == Spec /\ Fairness

----------------------------------------------------------------------------

Places == {"submitting", "queued", "pooled", "held", "done"}

(* Whether a job is at a given place on its way through the scheduler. *)
At(j, place) ==
    \/ place = "submitting" /\ j \in submitting
    \/ place = "queued" /\ j \in Range(jobQueue)
    \/ place = "pooled" /\ j \in Range(workQueue)
    \/ place = "held" /\ \E w \in Workers : hand[w] = j
    \/ place = "done" /\ j \in doneFutures

(* No job is lost or duplicated on its way: a submitted job is at exactly  *)
(* one place (scheduler.py:113-115, 171-175), a job never submitted is at  *)
(* none.                                                                   *)
OnePlace ==
    \A j \in Jobs :
        IF j \in results
        THEN \E here \in Places :
                 \A place \in Places : At(j, place) <=> place = here
        ELSE \A place \in Places : ~At(j, place)

(* ... and it is there once: the queues repeat no job, and no two workers  *)
(* process the same one, so job's fields have one writer                   *)
(* (scheduler.py:136-168 writes them with no lock).                        *)
OneWriter ==
    /\ \A m, n \in 1..Len(jobQueue) : jobQueue[m] = jobQueue[n] => m = n
    /\ \A m, n \in 1..Len(workQueue) : workQueue[m] = workQueue[n] => m = n
    /\ \A v, w \in Workers : hand[v] = hand[w] => v = w \/ hand[v] = NoJob

Succeeded(j) ==
    status[j] = "completed" /\ hasResult[j] /\ attempts[j] \in 1..MaxRetries

Exhausted(j) ==
    status[j] = "failed" /\ ~hasResult[j] /\ attempts[j] = MaxRetries

(* A job whose process_job has returned either has a result or has been    *)
(* tried max_retries times, and its status says which                      *)
(* (scheduler.py:152-168).                                                 *)
Outcome ==
    \A j \in doneFutures : completedAt[j] /\ (Succeeded(j) \/ Exhausted(j))

(* run returns only when every job that was queued when it was called has  *)
(* an outcome (scheduler.py:126, "Execute all queued jobs"; 180-185).      *)
RunKeepsPromise ==
    [][Return => \A j \in promised : Succeeded(j) \/ Exhausted(j)]_vars

(* COMPLETED and FAILED are final: no late write of a worker, of this run  *)
(* or of an earlier one, takes a job back (scheduler.py:143, 164).         *)
FinalStatus ==
    [][\A j \in Jobs : status[j] \in {"completed", "failed"}
                           => status'[j] = status[j]]_vars

(* A run returns, whatever the worker function raises and however the      *)
(* workers compete for tokens (scheduler.py:124-185).                      *)
RunReturns == main # "idle" ~> main = "idle"

(* acquire blocks only "until a token is available" (scheduler.py:70): a   *)
(* worker that asks the limiter for a token gets one.                      *)
AcquireReturns ==
    \A w \in Workers :
        pc[w] = "loop" /\ attempts[hand[w]] < MaxRetries ~> pc[w] = "begin"

----------------------------------------------------------------------------
(* The scheduler implements JobBatch: a job waits from the return of       *)
(* submit, executes from the moment its attempt is counted until           *)
(* worker_fn's outcome is written to its status.                           *)

StageOf(j) ==
    IF j \in results \ submitting
    THEN [pending |-> "waiting", retrying |-> "waiting",
          running |-> "executing",
          completed |-> "succeeded", failed |-> "failed"][status[j]]
    ELSE "unknown"

Batch == INSTANCE JobBatch WITH
             stage <- [j \in Jobs |-> StageOf(j)],
             tries <- attempts,
             running <- main # "idle",
             MaxParallel <- Cardinality(Workers)

(* Every behaviour of the scheduler is one that JobBatch allows.           *)
ImplementsBatch == Batch!Spec
=============================================================================
