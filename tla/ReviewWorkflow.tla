--------------------------- MODULE ReviewWorkflow ---------------------------
(***************************************************************************)
(* Human review of releases (regression-suite/governance/human_review.py): *)
(* ReviewWorkflow says which releases need a review, opens requests and    *)
(* answers whether a release may proceed; ReviewQueue keeps the pending    *)
(* requests, records the reviewers' decisions and escalates what is late.  *)
(* Time is a count of hours.                                               *)
(***************************************************************************)
EXTENDS Naturals, FiniteSets, Sequences

CONSTANTS Requests,        (* the requests that may be opened              *)
          Releases,        (* the releases                                 *)
          Candidates,      (* what the automated comparison may say        *)
          Hours,           (* sla_hours of each tier                       *)
          MaxDecisions,    (* bound: decisions recorded for a request      *)
          MaxHour          (* bound: hours                                 *)

Tiers == {"tier_1", "tier_2", "tier_3"}

(* The parts of the context that requires_review looks at.                 *)
Candidate == [verdict : {"OK", "WARN", "BLOCK"}, critical : BOOLEAN,
              override : BOOLEAN, lowPower : BOOLEAN]

ASSUME ReviewAssumption ==
    /\ Releases # {}
    /\ Candidates \subseteq Candidate
    /\ Hours \in [Tiers -> Nat]
    /\ MaxDecisions \in Nat
    /\ MaxHour \in Nat

VARIABLES now,             (* the hour                                     *)
          candidate,       (* what the comparison said of each release     *)
          pending,         (* pending_reviews                              *)
          request,         (* the request objects                          *)
          completed        (* completed_reviews, per request in the order  *)
                           (* they were recorded                           *)

vars == <<now, candidate, pending, request, completed>>

Statuses == {"unborn", "pending", "approved", "rejected", "escalated"}

Request == [status : Statuses, release : Releases, tier : Tiers,
            deadline : Nat, escalations : Nat]

(* Who decides, and why, is recorded and never looked at.                  *)
Decisions == {"approve", "reject", "escalate", "defer"}

TypeOK ==
    /\ now \in 0..MaxHour
    /\ candidate \in [Releases -> Candidates]
    /\ pending \subseteq Requests
    /\ request \in [Requests -> Request]
    /\ completed \in [Requests -> Seq(Decisions)]

(* A request that has not been opened. *)
Unborn ==
    [status |-> "unborn", release |-> CHOOSE r \in Releases : TRUE,
     tier |-> "tier_1", deadline |-> 0, escalations |-> 0]

Init ==
    /\ now = 0
    /\ candidate \in [Releases -> Candidates]
    /\ pending = {}
    /\ request = [q \in Requests |-> Unborn]
    /\ completed = [q \in Requests |-> <<>>]

----------------------------------------------------------------------------

(* requires_review: the tier of the first requirement that applies.        *)
(* new_failure_mode_detected is always False.                              *)
Required(c) ==
    CASE c.verdict = "BLOCK" /\ c.override -> {"tier_3"}
      [] c.verdict = "WARN" /\ c.critical  -> {"tier_2"}
      [] OTHER -> IF c.lowPower THEN {"tier_1"} ELSE {}

(* create_review_request, for the requirement that applies. *)
Create(q, r) ==
    /\ request[q].status = "unborn"
    /\ \E tier \in Required(candidate[r]) :
          request' = [request EXCEPT ![q] =
                         [status |-> "pending", release |-> r, tier |-> tier,
                          deadline |-> now + Hours[tier], escalations |-> 0]]
    /\ pending' = pending \cup {q}
    /\ UNCHANGED <<now, candidate, completed>>

(* _escalate_review *)
Escalated(object) ==
    [object EXCEPT !.status = "escalated", !.escalations = @ + 1]

(* Mutant: a deferral marks the request as being in review.                *)
Ruled_InReview(object, decision) ==
    CASE decision = "approve"  -> [object EXCEPT !.status = "approved"]
      [] decision = "reject"   -> [object EXCEPT !.status = "rejected"]
      [] decision = "escalate" -> Escalated(object)
      [] decision = "defer"    -> [object EXCEPT !.status = "in_review"]

(* What a decision does to its request; a deferral leaves it as it is.     *)
Ruled(object, decision) ==
    CASE decision = "approve"  -> [object EXCEPT !.status = "approved"]
      [] decision = "reject"   -> [object EXCEPT !.status = "rejected"]
      [] decision = "escalate" -> Escalated(object)
      [] decision = "defer"    -> object

Terminal == {"approved", "rejected"}

(* Mutant: only an approval takes the request from the queue.              *)
RecordDecision_KeepRejected(q, decision) ==
    LET ruled == Ruled(request[q], decision)
    IN  /\ q \in pending
        /\ Len(completed[q]) < MaxDecisions
        /\ request' = [request EXCEPT ![q] = ruled]
        /\ completed' = [completed EXCEPT ![q] =
                            Append(@, decision)]
        /\ pending' = IF ruled.status = "approved" THEN pending \ {q}
                      ELSE pending
        /\ UNCHANGED <<now, candidate>>

(* record_decision, of a decision whose hash is right.  One for a request  *)
(* that is not pending, or with another hash, raises and changes nothing.  *)
RecordDecision(q, decision) ==
    LET ruled == Ruled(request[q], decision)
    IN  /\ q \in pending
        /\ Len(completed[q]) < MaxDecisions
        /\ request' = [request EXCEPT ![q] = ruled]
        /\ completed' = [completed EXCEPT ![q] =
                            Append(@, decision)]
        /\ pending' = IF ruled.status \in Terminal THEN pending \ {q}
                      ELSE pending
        /\ UNCHANGED <<now, candidate>>

(* Mutant: what was escalated is escalated by each check again.            *)
Late_Again(q) == q \in pending /\ now > request[q].deadline

(* Mutant: the comparison turned round.                                    *)
Late_Early(q) ==
    /\ q \in pending
    /\ now < request[q].deadline
    /\ request[q].status = "pending"

Late(q) ==
    /\ q \in pending
    /\ now > request[q].deadline
    /\ request[q].status = "pending"

(* check_sla_breaches *)
CheckSlaBreaches ==
    /\ request' = [q \in Requests |-> IF Late(q) THEN Escalated(request[q])
                                      ELSE request[q]]
    /\ UNCHANGED <<now, candidate, pending, completed>>

NextHour ==
    /\ now < MaxHour
    /\ now' = now + 1
    /\ UNCHANGED <<candidate, pending, request, completed>>

Next ==
    \/ \E q \in Requests, r \in Releases : Create(q, r)
    \/ \E q \in Requests, decision \in Decisions : RecordDecision(q, decision)
    \/ CheckSlaBreaches
    \/ NextHour

Spec == Init /\ [][Next]_vars

----------------------------------------------------------------------------

(* Mutant: the automated verdict is looked at first.                       *)
CanProceed_VerdictFirst(r) ==
    \/ candidate[r].verdict \in {"OK", "WARN"}
    \/ /\ \A q \in pending : request[q].release # r
       /\ candidate[r].verdict \in {"OK", "WARN"}

(* can_proceed_with_release.  The decisions that were recorded are looked  *)
(* up by _get_request_for_decision, which finds no request.                *)
CanProceed(r) ==
    /\ \A q \in pending : request[q].release # r
    /\ candidate[r].verdict \in {"OK", "WARN"}

Ruling == [approve |-> "approved", reject |-> "rejected"]
Rulings == DOMAIN Ruling

(* The decisions of one kind recorded for a request.                       *)
Recorded(q, decision) == {i \in DOMAIN completed[q] : completed[q][i] = decision}

(* A ruling is the last word: nothing is recorded for a request after it   *)
(* was approved or rejected, whatever was escalated or deferred before,    *)
(* the request says which it was, and it is pending up to that moment and  *)
(* no longer (human_review.py:256-278).                                    *)
RulingIsLast ==
    \A q \in Requests :
        /\ \A i \in DOMAIN completed[q] :
              completed[q][i] \in Rulings =>
                  /\ i = Len(completed[q])
                  /\ request[q].status = Ruling[completed[q][i]]
        /\ q \in pending <=>
              /\ request[q].status # "unborn"
              /\ \A i \in DOMAIN completed[q] : completed[q][i] \notin Rulings

(* A release does not proceed while one of the requests opened for it has  *)
(* no ruling, however late it is and however often it was passed on        *)
(* (human_review.py:434-437).                                              *)
HeldUntilRuled ==
    \A r \in Releases :
        CanProceed(r) =>
            \A q \in Requests :
                request[q].status # "unborn" /\ request[q].release = r =>
                    \E i \in DOMAIN completed[q] : completed[q][i] \in Rulings

(* Checks that are run again and again escalate a request once, and only   *)
(* when it is late; every other escalation was a reviewer's                *)
(* (human_review.py:280-300).                                              *)
EscalatedOnce ==
    \A q \in Requests :
        LET own == Cardinality(Recorded(q, "escalate"))
        IN  \/ request[q].escalations = own
            \/ request[q].escalations = own + 1 /\ now > request[q].deadline

(* After a check every late request that waits for a ruling is escalated,  *)
(* deferred ones too.                                                      *)
LateIsEscalated ==
    [][CheckSlaBreaches =>
          \A q \in pending' :
              now > request[q].deadline => request'[q].status = "escalated"]_vars

=============================================================================
