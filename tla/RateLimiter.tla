---------------------------- MODULE RateLimiter ----------------------------
(***************************************************************************)
(* The token bucket of release-gate/orchestrator/scheduler.py.             *)
(*                                                                         *)
(* Time advances in ticks, TicksPerSecond of them in a second.  Token      *)
(* amounts (floats in the code) are counted in units, Unit of them in one  *)
(* token, so that one tick refills PerTick units.  A rate of r requests    *)
(* per second is therefore PerTick * TicksPerSecond = r * Unit, and the    *)
(* bucket holds at most r tokens: the code uses the one number self.rate   *)
(* both as the refill speed and as the capacity.                           *)
(***************************************************************************)
EXTENDS Naturals

CONSTANTS Unit,            (* units in one token                           *)
          PerTick,         (* units refilled in one tick                   *)
          TicksPerSecond   (* ticks in one second                          *)

ASSUME LimiterAssumption ==
    /\ Unit \in Nat \ {0}
    /\ PerTick \in Nat \ {0}
    /\ TicksPerSecond \in Nat \ {0}

VARIABLES tokens,          (* self.tokens, in units                        *)
          elapsed          (* ticks since self.last_update, saturating at  *)
                           (* one second: by then the bucket is full       *)

limiterVars == <<tokens, elapsed>>

Capacity == PerTick * TicksPerSecond

LimiterTypeOK ==
    /\ tokens \in 0..Capacity
    /\ elapsed \in 0..TicksPerSecond

LimiterInit ==
    /\ tokens = Capacity
    /\ elapsed = 0

(* Mutant: the refill is not capped.                                       *)
Available_NoCap == tokens + elapsed * PerTick

(* What acquire finds in the bucket once it has added the refill. *)
Available ==
    LET filled == tokens + elapsed * PerTick
    IN  IF filled > Capacity THEN Capacity ELSE filled

(* The clock. *)
Tick ==
    /\ elapsed < TicksPerSecond
    /\ elapsed' = elapsed + 1
    /\ UNCHANGED tokens

(* Mutant: the refill is taken and last_update left where it was.          *)
TakeToken_KeepClock ==
    /\ Available >= Unit
    /\ tokens' = Available - Unit
    /\ UNCHANGED elapsed

(* One pass of acquire's loop, under the lock, that takes a token. *)
TakeToken ==
    /\ Available >= Unit
    /\ tokens' = Available - Unit
    /\ elapsed' = 0

(* Mutant: last_update moves on and the refill is not recorded.            *)
FindNoToken_Lost ==
    /\ Available < Unit
    /\ elapsed' = 0
    /\ UNCHANGED tokens

(* One pass that finds less than a token, records the refill and sleeps. *)
FindNoToken ==
    /\ Available < Unit
    /\ tokens' = Available
    /\ elapsed' = 0
=============================================================================
