------------------------------ MODULE JobBatch ------------------------------
(***************************************************************************)
(* What a job scheduler promises to the program that submits jobs to it    *)
(* and runs them: each accepted job is tried at most MaxRetries times, by  *)
(* one worker at a time and by no more than MaxParallel of them together,  *)
(* until a try succeeds; and a run is reported finished only when each job *)
(* it was asked to execute has succeeded or has used up its tries.         *)
(***************************************************************************)
EXTENDS Naturals, FiniteSets

CONSTANTS Jobs,            (* the jobs that can be submitted               *)
          MaxRetries,      (* tries a job is given                         *)
          MaxParallel      (* jobs tried at the same time                  *)

VARIABLES stage,           (* where each job stands                        *)
          tries,           (* tries each job has been given                *)
          promised,        (* jobs the current run was asked to execute    *)
          running          (* whether a run is under way                   *)

vars == <<stage, tries, promised, running>>

Stages == {"unknown", "waiting", "executing", "succeeded", "failed"}
Settled == {"succeeded", "failed"}

Init ==
    /\ stage = [j \in Jobs |-> "unknown"]
    /\ tries = [j \in Jobs |-> 0]
    /\ promised = {}
    /\ running = FALSE

Submit(j) ==
    /\ stage[j] = "unknown"
    /\ stage' = [stage EXCEPT ![j] = "waiting"]
    /\ UNCHANGED <<tries, promised, running>>

(* A run is asked to execute all the jobs that wait. *)
Start ==
    /\ ~running
    /\ running' = TRUE
    /\ promised' = {j \in Jobs : stage[j] = "waiting"}
    /\ UNCHANGED <<stage, tries>>

Try(j) ==
    /\ running
    /\ stage[j] = "waiting"
    /\ tries[j] < MaxRetries
    /\ Cardinality({k \in Jobs : stage[k] = "executing"}) < MaxParallel
    /\ stage' = [stage EXCEPT ![j] = "executing"]
    /\ tries' = [tries EXCEPT ![j] = @ + 1]
    /\ UNCHANGED <<promised, running>>

Success(j) ==
    /\ stage[j] = "executing"
    /\ stage' = [stage EXCEPT ![j] = "succeeded"]
    /\ UNCHANGED <<tries, promised, running>>

Setback(j) ==
    /\ stage[j] = "executing"
    /\ stage' = [stage EXCEPT ![j] =
                    IF tries[j] < MaxRetries THEN "waiting" ELSE "failed"]
    /\ UNCHANGED <<tries, promised, running>>

Report ==
    /\ running
    /\ \A j \in promised : stage[j] \in Settled
    /\ \A j \in Jobs : stage[j] # "executing"
    /\ running' = FALSE
    /\ UNCHANGED <<stage, tries, promised>>

Next ==
    \/ \E j \in Jobs : Submit(j) \/ Try(j) \/ Success(j) \/ Setback(j)
    \/ Start
    \/ Report

Spec == Init /\ [][Next]_vars
=============================================================================
