---------------------------- MODULE ReleaseLedger ----------------------------
(***************************************************************************)
(* The ledger of release decisions                                         *)
(* (regression-suite/governance/release_risk_ledger.py): entries are       *)
(* appended, each with the hash of the one before it, and incidents and    *)
(* rollbacks are written into entries that are already there.              *)
(***************************************************************************)
EXTENDS Naturals, FiniteSets, Sequences

CONSTANTS Releases,        (* release_id                                   *)
          Acceptances,     (* the acceptance records an entry may carry    *)
          MaxEntries,      (* bound: entries of the ledger                 *)
          MaxIncidents     (* bound: incidents of an entry                 *)

RiskLevels == {"negligible", "low", "medium", "high", "critical"}

(* RiskOwnership: who owns it, and in which words, no condition looks at.  *)
Ownership == [level : RiskLevels, expires : BOOLEAN]

(* AcceptanceRecord.  Its hash covers the release and the risks, not the   *)
(* total, the conditions or the chain of approvers.                        *)
Acceptance ==
    [release : Releases, risks : SUBSET Ownership, total : RiskLevels,
     hash : Releases \X SUBSET Ownership]

Outcomes == {"approved", "approved_with_conditions", "blocked",
             "rolled_back", "withdrawn"}

Verdicts == {"OK", "WARN", "BLOCK"}

ASSUME LedgerAssumption ==
    /\ Acceptances \subseteq Acceptance
    /\ MaxEntries \in Nat
    /\ MaxIncidents \in Nat

VARIABLES entries,         (* entries                                      *)
          added            (* auxiliary: what each entry said when it was  *)
                           (* added                                        *)

ledgerVars == <<entries, added>>

(* The fields under the hash.  entry_id is the place in the ledger and the *)
(* model version belongs to the release.                                   *)
Content == [release : Releases, verdict : Verdicts, outcome : Outcomes]

(* A hash stands for what went into it: the contents from the first entry  *)
(* on, for each entry hashes its predecessor's hash with its own fields.   *)
Entry ==
    [release : Releases, verdict : Verdicts, outcome : Outcomes,
     created : Nat, override : BOOLEAN, acceptance : SUBSET Acceptances,
     incidents : Nat, previous : Seq(Content), hash : Seq(Content)]

ContentOf(e) ==
    [release |-> e.release, verdict |-> e.verdict, outcome |-> e.outcome]

(* _compute_hash *)
HashOf(e) == Append(e.previous, ContentOf(e))

LedgerTypeOK ==
    /\ entries \in Seq(Entry)
    /\ added \in Seq(Content)

LedgerInit ==
    /\ entries = <<>>
    /\ added = <<>>

----------------------------------------------------------------------------

(* add_entry, of an entry that says c.  The hash is computed after the     *)
(* entry is linked to the last one.                                        *)
AddEntry(c, created, override, acceptance) ==
    LET previous == IF entries = <<>> THEN <<>> ELSE entries[Len(entries)].hash
        entry == [release |-> c.release, verdict |-> c.verdict,
                  outcome |-> c.outcome, created |-> created,
                  override |-> override, acceptance |-> acceptance,
                  incidents |-> 0, previous |-> previous,
                  hash |-> Append(previous, c)]
    IN  /\ Len(entries) < MaxEntries
        /\ entries' = Append(entries, entry)
        /\ added' = Append(added, c)

(* Both record_ methods write to the first entry with the release's id,    *)
(* also when the release was decided again since.                          *)
IsEntryOf(i, r) ==
    /\ entries[i].release = r
    /\ \A j \in DOMAIN entries : entries[j].release = r => i <= j

(* record_incident *)
RecordIncident(r) ==
    \E i \in DOMAIN entries :
        /\ IsEntryOf(i, r)
        /\ entries[i].incidents < MaxIncidents
        /\ entries' = [entries EXCEPT ![i].incidents = @ + 1]
        /\ UNCHANGED added

(* Mutant: the entry is hashed again.                                      *)
RecordRollback_Rehash(r) ==
    \E i \in DOMAIN entries :
        /\ IsEntryOf(i, r)
        /\ entries' = [entries EXCEPT
                          ![i].outcome = "rolled_back",
                          ![i].hash = HashOf([entries[i] EXCEPT
                                                 !.outcome = "rolled_back"])]
        /\ UNCHANGED added

(* record_rollback *)
RecordRollback(r) ==
    \E i \in DOMAIN entries :
        /\ IsEntryOf(i, r)
        /\ entries' = [entries EXCEPT ![i].outcome = "rolled_back"]
        /\ UNCHANGED added

LedgerNext ==
    \/ \E c \in Content, created \in Nat, override \in BOOLEAN,
          acceptance \in SUBSET Acceptances :
          AddEntry(c, created, override, acceptance)
    \/ \E r \in Releases : RecordIncident(r)
    \/ \E r \in Releases : RecordRollback(r)

LedgerSpec == LedgerInit /\ [][LedgerNext]_ledgerVars

----------------------------------------------------------------------------

(* The two tests verify_chain_integrity makes of an entry.                 *)
Broken(i) ==
    \/ entries[i].hash # HashOf(entries[i])
    \/ i > 1 /\ entries[i].previous # entries[i - 1].hash

(* verify_chain_integrity: the first entry that fails, 0 for none.         *)
FirstInvalid ==
    IF \E i \in DOMAIN entries : Broken(i)
    THEN CHOOSE i \in DOMAIN entries :
            Broken(i) /\ \A j \in 1..(i - 1) : ~Broken(j)
    ELSE 0

(* get_risk_summary at an hour, over the entries of the last days.         *)
RiskSummary(now, days) ==
    LET recent == {i \in DOMAIN entries : now - entries[i].created <= days}
    IN  [total     |-> Cardinality(recent),
         byOutcome |-> [o \in Outcomes |->
                          Cardinality({i \in recent : entries[i].outcome = o})],
         incidents |-> Cardinality({i \in recent : entries[i].incidents > 0}),
         overrides |-> Cardinality({i \in recent : entries[i].override})]

(* export_for_audit *)
Export ==
    [valid |-> FirstInvalid = 0, invalid |-> FirstInvalid,
     total |-> Len(entries), entries |-> entries]

----------------------------------------------------------------------------

Altered(i) == ContentOf(entries[i]) # added[i]

(* An audit passes exactly while every entry says what it said when it was *)
(* added, and the entry it names is the first that does not: a rollback is *)
(* not excused by the entries chained after it, and it does not throw      *)
(* suspicion on those (release_risk_ledger.py:320-337 and 349-357).        *)
AuditNamesFirstChange ==
    LET audit == Export
    IN  IF audit.valid
        THEN \A i \in DOMAIN entries : ~Altered(i)
        ELSE /\ audit.invalid \in DOMAIN entries
             /\ Altered(audit.invalid)
             /\ \A j \in 1..(audit.invalid - 1) : ~Altered(j)
=============================================================================
