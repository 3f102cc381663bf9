------------------------ MODULE RateLimiterCallers ------------------------
(***************************************************************************)
(* Threads that share one RateLimiter, with an observer that may start,    *)
(* at any moment, to count the requests the bucket lets through and the    *)
(* time that passes.                                                       *)
(***************************************************************************)
EXTENDS RateLimiter

CONSTANTS Callers,         (* the threads that call acquire                *)
          MaxWindow        (* bound: ticks the observer counts             *)

ASSUME WindowAssumption == MaxWindow \in Nat

VARIABLES waiting,         (* callers inside acquire                       *)
          winTicks,        (* ticks since the observer started counting    *)
          winGrants        (* tokens taken since then                      *)

windowVars == <<winTicks, winGrants>>
callersVars == <<tokens, elapsed, waiting, winTicks, winGrants>>

CallersTypeOK ==
    /\ LimiterTypeOK
    /\ waiting \subseteq Callers
    /\ winTicks \in 0..MaxWindow
    /\ winGrants \in Nat

CallersInit ==
    /\ LimiterInit
    /\ waiting = {}
    /\ winTicks = 0
    /\ winGrants = 0

(* A thread calls acquire. *)
Call(c) ==
    /\ c \notin waiting
    /\ waiting' = waiting \cup {c}
    /\ UNCHANGED <<limiterVars, windowVars>>

(* acquire returns. *)
CallerAcquires(c) ==
    /\ c \in waiting
    /\ TakeToken
    /\ waiting' = waiting \ {c}
    /\ winGrants' = winGrants + 1
    /\ UNCHANGED winTicks

(* acquire goes round its loop. *)
Retry(c) ==
    /\ c \in waiting
    /\ FindNoToken
    /\ UNCHANGED <<waiting, windowVars>>

(* Time passes.  The guard on winTicks only bounds the observation. *)
TimePasses ==
    /\ winTicks < MaxWindow
    /\ Tick
    /\ winTicks' = winTicks + 1
    /\ UNCHANGED <<waiting, winGrants>>

(* The same when the bucket is already full of refill. *)
PassFull ==
    /\ winTicks < MaxWindow
    /\ elapsed = TicksPerSecond
    /\ winTicks' = winTicks + 1
    /\ UNCHANGED <<limiterVars, waiting, winGrants>>

(* The observer starts a new window. *)
Observe ==
    /\ winTicks' = 0
    /\ winGrants' = 0
    /\ UNCHANGED <<limiterVars, waiting>>

CallersNext ==
    \/ \E c \in Callers : Call(c) \/ CallerAcquires(c) \/ Retry(c)
    \/ TimePasses
    \/ PassFull
    \/ Observe

CallersSpec == CallersInit /\ [][CallersNext]_callersVars

----------------------------------------------------------------------------

(* The promise of a token bucket (scheduler.py:57-81): in no window of     *)
(* time, wherever it starts and whatever the threads do in between, does   *)
(* acquire let through more requests than one full bucket plus the refill  *)
(* of that time.                                                           *)
WindowBound ==
    winGrants * Unit <= Capacity + winTicks * PerTick

(* The strengthening that makes WindowBound inductive: what the bucket     *)
(* would give out now counts as already given.                             *)
WindowPotential ==
    winGrants * Unit + Available <= Capacity + winTicks * PerTick
=============================================================================
