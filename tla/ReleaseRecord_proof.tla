--------------------------- MODULE ReleaseRecord_proof ---------------------------
(***************************************************************************)
(* Proofs about what the regression suite keeps and says of releases: the  *)
(* ledger of decisions, the debt that evaluations against the constitution *)
(* leave, the judges of a candidate, the audit package and its chain of    *)
(* custody, the memo on the risks that remain, the trends of metrics, and  *)
(* what is said of gaming and of one submission.                           *)
(***************************************************************************)
EXTENDS ReleaseRecord, SumTheorems, SequenceTheorems, TLAPS

(***************************************************************************)
(* The ledger (ReleaseLedger): an audit of the chain names the first entry *)
(* that was changed after it was added.                                    *)
(***************************************************************************)

(* What the invariant says of one entry: its hash is of what was added,    *)
(* chained to the hash of the entry before it, and only the outcome may    *)
(* have changed since.                                                     *)
Chained(i) ==
    /\ entries[i].release = added[i].release
    /\ entries[i].verdict = added[i].verdict
    /\ entries[i].hash = Append(entries[i].previous, added[i])
    /\ i > 1 => entries[i].previous = entries[i - 1].hash

LedgerInv ==
    /\ LedgerTypeOK
    /\ Len(entries) = Len(added)
    /\ \A i \in DOMAIN entries : Chained(i)

LEMMA AppendLast ==
    ASSUME NEW s \in Seq(Content), NEW c \in Content, NEW d \in Content
    PROVE  Append(s, c) = Append(s, d) <=> c = d
  <1>1. Append(s, c)[Len(s) + 1] = c /\ Append(s, d)[Len(s) + 1] = d
    OBVIOUS
  <1> QED
    BY <1>1

LEMMA LedgerFields ==
    ASSUME NEW e \in Entry
    PROVE  /\ ContentOf(e) \in Content
           /\ e.release \in Releases /\ e.verdict \in Verdicts
           /\ e.previous \in Seq(Content) /\ e.hash \in Seq(Content)
           /\ e.incidents \in Nat
  BY DEF Entry, ContentOf, Content

(* An entry fails the audit exactly when it was changed. *)
LEMMA BrokenIsAltered ==
    ASSUME LedgerInv, NEW i \in DOMAIN entries
    PROVE  Broken(i) <=> Altered(i)
  <1>1. /\ entries[i] \in Entry /\ added[i] \in Content
    BY DEF LedgerInv, LedgerTypeOK
  <1>2. Chained(i)
    BY DEF LedgerInv
  <1>3. /\ entries[i].previous \in Seq(Content)
        /\ ContentOf(entries[i]) \in Content
    BY <1>1, LedgerFields
  <1>4. entries[i].hash = HashOf(entries[i]) <=> added[i] = ContentOf(entries[i])
    BY <1>1, <1>2, <1>3, AppendLast DEF Chained, HashOf
  <1> QED
    BY <1>2, <1>4 DEF Broken, Chained, Altered

LEMMA AuditFromInvariant == LedgerInv => AuditNamesFirstChange
  <1> SUFFICES ASSUME LedgerInv PROVE AuditNamesFirstChange
    OBVIOUS
  <1>1. DOMAIN entries = 1..Len(entries) /\ Len(entries) \in Nat
    BY DEF LedgerInv, LedgerTypeOK
  <1>2. \A i \in DOMAIN entries : Broken(i) <=> Altered(i)
    BY BrokenIsAltered
  <1>3. CASE \A i \in DOMAIN entries : ~Broken(i)
    <2>1. FirstInvalid = 0
      BY <1>3 DEF FirstInvalid
    <2> QED
      BY <1>2, <1>3, <2>1 DEF AuditNamesFirstChange, Export
  <1>4. CASE \E i \in DOMAIN entries : Broken(i)
    <2> DEFINE First(i) == Broken(i) /\ \A j \in 1..(i - 1) : ~Broken(j)
    <2>1. \E i \in DOMAIN entries : First(i)
      <3> DEFINE Bad == {i \in DOMAIN entries : Broken(i)}
      <3>1. Bad \subseteq Nat /\ Bad # {}
        BY <1>1, <1>4
      <3>2. PICK k \in Bad : \A j \in Bad : k <= j
        <4> HIDE DEF Bad
        <4> QED
          BY <3>1, LeastNatural
      <3>3. \A j \in 1..(k - 1) : j \in DOMAIN entries /\ ~(k <= j)
        BY <1>1, <3>2
      <3> QED
        BY <3>2, <3>3
    <2>2. FirstInvalid = CHOOSE i \in DOMAIN entries : First(i)
      BY <1>4 DEF FirstInvalid
    <2>3. FirstInvalid \in DOMAIN entries /\ First(FirstInvalid)
      BY <2>1, <2>2
    <2>4. \A j \in 1..(FirstInvalid - 1) : j \in DOMAIN entries
      BY <1>1, <2>3
    <2>5. FirstInvalid # 0
      BY <1>1, <2>3
    <2> QED
      BY <1>2, <2>3, <2>4, <2>5 DEF AuditNamesFirstChange, Export
  <1> QED
    BY <1>3, <1>4

----------------------------------------------------------------------------

LEMMA InitLedgerInv == LedgerInit => LedgerInv
  BY DEF LedgerInit, LedgerInv, LedgerTypeOK

LEMMA AddEntryKeeps ==
    ASSUME LedgerInv, NEW c \in Content, NEW created \in Nat,
           NEW override \in BOOLEAN, NEW acceptance \in SUBSET Acceptances,
           AddEntry(c, created, override, acceptance)
    PROVE  LedgerInv'
  <1> DEFINE n == Len(entries)
             previous == IF entries = <<>> THEN <<>> ELSE entries[n].hash
             entry == [release |-> c.release, verdict |-> c.verdict,
                       outcome |-> c.outcome, created |-> created,
                       override |-> override, acceptance |-> acceptance,
                       incidents |-> 0, previous |-> previous,
                       hash |-> Append(previous, c)]
  <1>1. entries \in Seq(Entry) /\ added \in Seq(Content) /\ n \in Nat
        /\ Len(added) = n
    BY DEF LedgerInv, LedgerTypeOK
  <1>2. entries' = Append(entries, entry) /\ added' = Append(added, c)
    BY DEF AddEntry
  <1>3. previous \in Seq(Content)
    BY <1>1, LedgerFields
  <1>4. entry \in Entry
    <2>1. Append(previous, c) \in Seq(Content)
      BY <1>3
    <2> HIDE DEF previous
    <2> QED
      BY <1>3, <2>1 DEF Entry, Content
  <1>5. LedgerTypeOK'
    BY <1>1, <1>2, <1>4 DEF LedgerTypeOK
  <1> HIDE DEF entry
  <1>6. /\ DOMAIN entries' = 1..(n + 1) /\ DOMAIN entries = 1..n
        /\ Len(entries') = n + 1 /\ Len(added') = n + 1
        /\ entries'[n + 1] = entry /\ added'[n + 1] = c
        /\ \A i \in 1..n : entries'[i] = entries[i] /\ added'[i] = added[i]
    BY <1>1, <1>2, <1>4
  <1>7. /\ entry.release = c.release /\ entry.verdict = c.verdict
        /\ entry.hash = Append(previous, c) /\ entry.previous = previous
        /\ entry.incidents = 0 /\ ContentOf(entry) = c
    BY DEF entry, ContentOf, Content
  <1>8. \A i \in DOMAIN entries' : Chained(i)'
    <2> SUFFICES ASSUME NEW i \in 1..(n + 1) PROVE Chained(i)'
      BY <1>6
    <2>1. CASE i \in 1..n
      <3>1. Chained(i)
        BY <1>6, <2>1 DEF LedgerInv
      <3>2. i > 1 => entries'[i - 1] = entries[i - 1]
        BY <1>1, <1>6, <2>1
      <3> QED
        BY <1>6, <2>1, <3>1, <3>2 DEF Chained
    <2>2. CASE i = n + 1
      <3>1. i > 1 => entries'[i - 1] = entries[n] /\ entries # <<>>
        BY <1>1, <1>6, <2>2
      <3> QED
        BY <1>6, <1>7, <2>2, <3>1 DEF Chained
    <2> QED
      BY <1>1, <2>1, <2>2
  <1> QED
    BY <1>5, <1>6, <1>8 DEF LedgerInv

(* Both record_ methods change one entry and leave the hashed identity and *)
(* the chain alone.                                                        *)
LEMMA UpdateKeeps ==
    ASSUME LedgerInv, NEW k \in DOMAIN entries,
           NEW e \in Entry, entries' = [entries EXCEPT ![k] = e],
           UNCHANGED added,
           e.release = entries[k].release, e.verdict = entries[k].verdict,
           e.previous = entries[k].previous, e.hash = entries[k].hash
    PROVE  LedgerInv'
  <1>1. /\ entries \in Seq(Entry) /\ added' = added
        /\ DOMAIN entries = 1..Len(entries) /\ Len(entries) \in Nat
    BY DEF LedgerInv, LedgerTypeOK
  <1>2. /\ entries' \in Seq(Entry) /\ Len(entries') = Len(entries)
        /\ DOMAIN entries' = DOMAIN entries
        /\ \A i \in DOMAIN entries :
              entries'[i] = IF i = k THEN e ELSE entries[i]
    BY <1>1
  <1>3. LedgerTypeOK'
    BY <1>1, <1>2 DEF LedgerInv, LedgerTypeOK
  <1>4. \A i \in DOMAIN entries :
           /\ entries'[i].release = entries[i].release
           /\ entries'[i].verdict = entries[i].verdict
           /\ entries'[i].previous = entries[i].previous
           /\ entries'[i].hash = entries[i].hash
    BY <1>2
  <1>5. \A i \in DOMAIN entries' : Chained(i)'
    <2> SUFFICES ASSUME NEW i \in DOMAIN entries PROVE Chained(i)'
      BY <1>2
    <2>1. Chained(i)
      BY DEF LedgerInv
    <2>2. i > 1 => i - 1 \in DOMAIN entries
      BY <1>1
    <2> QED
      BY <1>1, <1>4, <2>1, <2>2 DEF Chained
  <1> QED
    BY <1>1, <1>2, <1>3, <1>5 DEF LedgerInv

LEMMA NextLedgerInv == LedgerInv /\ [LedgerNext]_ledgerVars => LedgerInv'
  <1> SUFFICES ASSUME LedgerInv, [LedgerNext]_ledgerVars PROVE LedgerInv'
    OBVIOUS
  <1>1. ASSUME NEW c \in Content, NEW created \in Nat, NEW override \in BOOLEAN,
               NEW acceptance \in SUBSET Acceptances,
               AddEntry(c, created, override, acceptance)
        PROVE  LedgerInv'
    BY <1>1, AddEntryKeeps
  <1>2. ASSUME NEW r \in Releases, RecordIncident(r)
        PROVE  LedgerInv'
    <2>1. PICK k \in DOMAIN entries :
             /\ entries' = [entries EXCEPT ![k].incidents = @ + 1]
             /\ UNCHANGED added
      BY <1>2 DEF RecordIncident
    <2> DEFINE e == [entries[k] EXCEPT !.incidents = @ + 1]
    <2>2. entries[k] \in Entry
      BY DEF LedgerInv, LedgerTypeOK
    <2>3. \A m \in Nat : [entries[k] EXCEPT !.incidents = m] \in Entry
      BY <2>2 DEF Entry
    <2>4. entries[k].incidents + 1 \in Nat
      BY <2>2, LedgerFields
    <2>5. e \in Entry
      BY <2>3, <2>4
    <2>6. /\ e.release = entries[k].release /\ e.verdict = entries[k].verdict
          /\ e.previous = entries[k].previous /\ e.hash = entries[k].hash
      BY <2>2 DEF Entry
    <2>7. entries' = [entries EXCEPT ![k] = e]
      BY <2>1
    <2> HIDE DEF e
    <2> QED
      BY <2>1, <2>5, <2>6, <2>7, UpdateKeeps
  <1>3. ASSUME NEW r \in Releases, RecordRollback(r)
        PROVE  LedgerInv'
    <2>1. PICK k \in DOMAIN entries :
             /\ entries' = [entries EXCEPT ![k].outcome = "rolled_back"]
             /\ UNCHANGED added
      BY <1>3 DEF RecordRollback
    <2> DEFINE e == [entries[k] EXCEPT !.outcome = "rolled_back"]
    <2>2. entries[k] \in Entry
      BY DEF LedgerInv, LedgerTypeOK
    <2>3. /\ e \in Entry
          /\ e.release = entries[k].release /\ e.verdict = entries[k].verdict
          /\ e.previous = entries[k].previous /\ e.hash = entries[k].hash
      BY <2>2 DEF Entry, Outcomes
    <2>4. entries' = [entries EXCEPT ![k] = e]
      BY <2>1
    <2> HIDE DEF e
    <2> QED
      BY <2>1, <2>3, <2>4, UpdateKeeps
  <1>4. CASE UNCHANGED ledgerVars
    BY <1>4 DEF ledgerVars, LedgerInv, LedgerTypeOK, Chained
  <1> QED
    BY <1>1, <1>2, <1>3, <1>4 DEF LedgerNext

LEMMA LedgerInvariant == LedgerSpec => []LedgerInv
  BY InitLedgerInv, NextLedgerInv, PTL DEF LedgerSpec

(* The ledger's variables keep their types. *)
THEOREM LedgerTypeCorrect == LedgerSpec => []LedgerTypeOK
  <1>1. LedgerInv => LedgerTypeOK
    BY DEF LedgerInv
  <1> QED
    BY <1>1, LedgerInvariant, PTL

(* However many entries are added after it, the audit names the first      *)
(* entry that no longer says what was added, and none when there is none.  *)
THEOREM AuditCorrect == LedgerSpec => []AuditNamesFirstChange
  BY AuditFromInvariant, LedgerInvariant, PTL

LEMMA RecordLedgerStep ==
    /\ Init => LedgerInit
    /\ LedgerInv /\ [Next]_releaseVars => [LedgerNext]_ledgerVars
  <1>1. Init => LedgerInit
    BY DEF Init
  <1>2. ASSUME LedgerInv, [Next]_releaseVars
        PROVE  [LedgerNext]_ledgerVars
    <2>1. CASE LedgerStep
      <3>1. CASE DecideRelease
        <4>1. PICK d \in Decisions :
                  AddEntry(d.content, Len(entries), d.override, d.acceptance)
          BY <3>1 DEF DecideRelease
        <4>2. /\ d.content \in Content /\ d.override \in BOOLEAN
              /\ d.acceptance \in SUBSET Acceptances
          BY ReleaseAssumption DEF ReleaseAssumption
        <4>3. Len(entries) \in Nat
          BY <1>2 DEF LedgerInv, LedgerTypeOK
        <4> QED
          BY <4>1, <4>2, <4>3 DEF LedgerNext
      <3> QED
        BY <2>1, <3>1 DEF LedgerStep, LedgerNext
    <2>2. CASE ~LedgerStep
      BY <1>2, <2>2
         DEF Next, releaseVars, HistoryStep, VerdictStep, ConstitutionStep,
             GamingStep, SubmissionStep, PackageStep, MemoStep
    <2> QED
      BY <2>1, <2>2
  <1> QED
    BY <1>1, <1>2

(* The ledger of the release record is a release ledger: what holds of the *)
(* one holds of the other.                                                 *)
THEOREM RecordKeepsLedger == Spec => LedgerSpec
  <1>1. LedgerInv /\ [LedgerNext]_ledgerVars => LedgerInv'
    BY NextLedgerInv
  <1> QED
    BY <1>1, InitLedgerInv, RecordLedgerStep, PTL DEF Spec, LedgerSpec

-----------------------------------------------------------------------------
(***************************************************************************)
(* The constitution (Constitution): debt follows the verdicts.             *)
(***************************************************************************)

(* What the two sequences hold, their concatenation holds.                 *)
LEMMA ConcatRange ==
    ASSUME NEW S, NEW s \in Seq(S), NEW t \in Seq(S)
    PROVE  s \o t \in Seq(S) /\ Range(s \o t) = Range(s) \cup Range(t)
  <1>1. /\ s \o t \in Seq(S)
        /\ Len(s \o t) = Len(s) + Len(t)
        /\ Len(s) \in Nat /\ Len(t) \in Nat
        /\ DOMAIN s = 1..Len(s) /\ DOMAIN t = 1..Len(t)
        /\ DOMAIN (s \o t) = 1..(Len(s) + Len(t))
        /\ \A i \in 1..(Len(s) + Len(t)) :
              (s \o t)[i] = IF i <= Len(s) THEN s[i] ELSE t[i - Len(s)]
    OBVIOUS
  <1>2. ASSUME NEW x \in Range(s \o t)
        PROVE  x \in Range(s) \cup Range(t)
    <2>1. PICK i \in 1..(Len(s) + Len(t)) : x = (s \o t)[i]
      BY <1>1, <1>2 DEF Range
    <2>2. CASE i <= Len(s)
      <3>1. i \in DOMAIN s /\ x = s[i]
        BY <1>1, <2>1, <2>2
      <3> QED
        BY <3>1 DEF Range
    <2>3. CASE ~(i <= Len(s))
      <3>1. i - Len(s) \in DOMAIN t /\ x = t[i - Len(s)]
        BY <1>1, <2>1, <2>3
      <3> QED
        BY <3>1 DEF Range
    <2> QED
      BY <2>2, <2>3
  <1>3. ASSUME NEW x \in Range(s)
        PROVE  x \in Range(s \o t)
    <2>1. PICK i \in 1..Len(s) : x = s[i]
      BY <1>1, <1>3 DEF Range
    <2>2. i \in DOMAIN (s \o t) /\ x = (s \o t)[i]
      BY <1>1, <2>1
    <2> QED
      BY <2>2 DEF Range
  <1>4. ASSUME NEW x \in Range(t)
        PROVE  x \in Range(s \o t)
    <2>1. PICK i \in 1..Len(t) : x = t[i]
      BY <1>1, <1>4 DEF Range
    <2>2. i + Len(s) \in DOMAIN (s \o t) /\ x = (s \o t)[i + Len(s)]
      BY <1>1, <2>1
    <2> QED
      BY <2>2 DEF Range
  <1> QED
    BY <1>1, <1>2, <1>3, <1>4

(* An entry is of a release that was evaluated and at its category's rate. *)
Booked(d) ==
    /\ d.release \in 1..Len(evaluations)
    /\ d.amount = Rates[d.category]

(* What an evaluation came to, and the debt it left.                       *)
EvaluatedRight(r) ==
    LET e == evaluations[r]
    IN  /\ e.verdict = VerdictOn(Violations(e.metrics))
        /\ Deviates(r) <=> OfSeverity(Violations(e.metrics), "hard") # {}

ConstitutionInv ==
    /\ debts \in Seq(DebtEntry)
    /\ today \in Nat
    /\ Len(evaluations) \in Nat
    /\ DOMAIN evaluations = 1..Len(evaluations)
    /\ totalDebt = Recalculated(debts)
    /\ \A i \in DOMAIN debts : Booked(debts[i])
    /\ \A r \in DOMAIN evaluations : EvaluatedRight(r)

(* A release has hard violations when it breaks a hard principle, and if   *)
(* no metric is missing only then.                                         *)
LEMMA HardViolations ==
    ASSUME NEW metrics
    PROVE  LET hard == OfSeverity(Violations(metrics), "hard")
           IN  /\ BreaksHard(metrics) => hard # {}
               /\ MeasuresHard(metrics) /\ hard # {} => BreaksHard(metrics)
  <1>1. ASSUME NEW v \in OfSeverity(Violations(metrics), "hard"), MeasuresHard(metrics)
        PROVE  BreaksHard(metrics)
    <2>1. v \in Violations(metrics) /\ v.severity = "hard"
      BY <1>1 DEF OfSeverity
    <2>2. PICK p \in DOMAIN Principles : \E c \in Evaluate(Principles[p], metrics) :
              v = [principle |-> p, criterion |-> c.metric,
                   severity |-> Principles[p].enforcement]
      BY <2>1 DEF Violations
    <2>3. PICK c \in Evaluate(Principles[p], metrics) :
              v = [principle |-> p, criterion |-> c.metric,
                   severity |-> Principles[p].enforcement]
      BY <2>2
    <2>4. Principles[p].enforcement = "hard"
      BY <2>1, <2>3
    <2>5. c \in Principles[p].criteria
          /\ (c.metric \in DOMAIN metrics => ~EvaluateThreshold(metrics[c.metric], c))
      BY DEF Evaluate
    <2>6. c \in HardCriteria
      BY <2>4, <2>5 DEF HardCriteria
    <2> QED
      BY <1>1, <2>5, <2>6 DEF BreaksHard, MeasuresHard
  <1>2. ASSUME BreaksHard(metrics)
        PROVE  OfSeverity(Violations(metrics), "hard") # {}
    <2>1. PICK c \in HardCriteria :
              c.metric \in DOMAIN metrics /\ ~EvaluateThreshold(metrics[c.metric], c)
      BY <1>2 DEF BreaksHard
    <2>2. PICK p \in DOMAIN Principles :
              Principles[p].enforcement = "hard" /\ c \in Principles[p].criteria
      BY DEF HardCriteria
    <2>3. c \in Evaluate(Principles[p], metrics)
      BY <2>1, <2>2 DEF Evaluate
    <2> DEFINE v == [principle |-> p, criterion |-> c.metric,
                     severity |-> Principles[p].enforcement]
    <2>4. v \in Violations(metrics)
      BY <2>3 DEF Violations
    <2>5. v.severity = "hard"
      BY <2>2
    <2> HIDE DEF v
    <2> QED
      BY <2>4, <2>5 DEF OfSeverity
  <1> QED
    BY <1>1, <1>2

LEMMA ViolationsFinite ==
    ASSUME NEW metrics
    PROVE  /\ IsFiniteSet(OfSeverity(Violations(metrics), "hard"))
           /\ Cardinality(OfSeverity(Violations(metrics), "hard")) \in Nat
           /\ Cardinality(OfSeverity(Violations(metrics), "hard")) = 0
                 <=> OfSeverity(Violations(metrics), "hard") = {}
  <1> DEFINE Of(p) == [c \in Evaluate(Principles[p], metrics) |->
                          [principle |-> p, criterion |-> c.metric,
                           severity |-> Principles[p].enforcement]]
             f == [p \in DOMAIN Principles |-> {Of(p)[c] : c \in Evaluate(Principles[p], metrics)}]
  <1>1. \A p \in DOMAIN Principles : IsFiniteSet(f[p])
    <2> SUFFICES ASSUME NEW p \in DOMAIN Principles
                 PROVE  IsFiniteSet({Of(p)[c] : c \in Evaluate(Principles[p], metrics)})
      OBVIOUS
    <2>1. IsFiniteSet(Principles[p].criteria)
      BY ConstitutionAssumption DEF ConstitutionAssumption, IsPrinciple
    <2>2. Evaluate(Principles[p], metrics) \subseteq Principles[p].criteria
      BY DEF Evaluate
    <2>3. IsFiniteSet(Evaluate(Principles[p], metrics))
      BY <2>1, <2>2, FS_Subset
    <2> HIDE DEF Of
    <2> QED
      BY <2>3, ImageFinite
  <1>2. Violations(metrics) = UNION {f[p] : p \in DOMAIN Principles}
    BY DEF Violations
  <1>3. IsFiniteSet(DOMAIN Principles)
    BY ConstitutionAssumption DEF ConstitutionAssumption
  <1> HIDE DEF f
  <1>4. IsFiniteSet(UNION {f[p] : p \in DOMAIN Principles})
    BY <1>1, <1>3, UnionFinite
  <1>5. OfSeverity(Violations(metrics), "hard") \subseteq Violations(metrics)
    BY DEF OfSeverity
  <1>6. IsFiniteSet(OfSeverity(Violations(metrics), "hard"))
    BY <1>2, <1>4, <1>5, FS_Subset
  <1> QED
    BY <1>6, FS_CardinalityType, FS_EmptySet

(* Entries of a kind: as many as asked for, all alike.                     *)
LEMMA EntriesFacts ==
    ASSUME ConstitutionInv, NEW k \in Categories, NEW n \in Nat
    PROVE  /\ Entries(k, n) \in Seq(DebtEntry)
           /\ \A d \in Range(Entries(k, n)) :
                 /\ d.category = k
                 /\ d.amount = Rates[k]
                 /\ d.release = Len(evaluations) + 1
           /\ Range(Entries(k, n)) = {} <=> n = 0
  <1> DEFINE e == [category |-> k, amount |-> Rates[k], created |-> today,
                   status |-> "active", release |-> Len(evaluations) + 1]
  <1>1. Rates[k] \in Nat
    BY ConstitutionAssumption DEF ConstitutionAssumption
  <1>2. e \in DebtEntry
    BY <1>1 DEF ConstitutionInv, DebtEntry
  <1>3. /\ e.category = k /\ e.amount = Rates[k]
        /\ e.release = Len(evaluations) + 1
    OBVIOUS
  <1>4. Entries(k, n) = [i \in 1..n |-> e]
    BY DEF Entries
  <1> HIDE DEF e
  <1>5. Entries(k, n) \in Seq(DebtEntry)
    BY <1>2, <1>4
  <1>6. \A d \in Range(Entries(k, n)) : d = e
    BY <1>4 DEF Range
  <1>7. n # 0 => e \in Range(Entries(k, n))
    <2>1. n # 0 => 1 \in 1..n
      OBVIOUS
    <2> QED
      BY <1>4, <2>1 DEF Range
  <1>8. n = 0 => Range(Entries(k, n)) = {}
    BY <1>4 DEF Range
  <1> QED
    BY <1>3, <1>5, <1>6, <1>7, <1>8

(* The debt that is booked for a release is its own, and has deviations    *)
(* in it exactly if there were hard violations.                            *)
LEMMA BookedFacts ==
    ASSUME ConstitutionInv, NEW metrics, NEW accepted \in Nat, NEW gaps \in Nat
    PROVE  LET booked == AlignmentDebt(Violations(metrics), accepted, gaps)
           IN  /\ booked \in Seq(DebtEntry)
               /\ \A d \in Range(booked) : /\ d.release = Len(evaluations) + 1
                                           /\ d.amount = Rates[d.category]
               /\ (\E d \in Range(booked) : d.category = "constitution_deviation")
                     <=> OfSeverity(Violations(metrics), "hard") # {}
  <1> DEFINE hard == Cardinality(OfSeverity(Violations(metrics), "hard"))
             a == Entries("constitution_deviation", hard)
             b == Entries("risk_acceptance", accepted)
             c == Entries("coverage_gap", gaps)
             booked == AlignmentDebt(Violations(metrics), accepted, gaps)
  <1>1. booked = (a \o b) \o c
    BY DEF AlignmentDebt
  <1>2. hard \in Nat /\ (hard = 0 <=> OfSeverity(Violations(metrics), "hard") = {})
    BY ViolationsFinite
  <1>3. /\ "constitution_deviation" \in Categories /\ "risk_acceptance" \in Categories
        /\ "coverage_gap" \in Categories
    BY DEF Categories
  <1> HIDE DEF hard
  <1>4. /\ a \in Seq(DebtEntry)
        /\ \A d \in Range(a) : /\ d.category = "constitution_deviation"
                               /\ d.amount = Rates["constitution_deviation"]
                               /\ d.release = Len(evaluations) + 1
        /\ Range(a) = {} <=> hard = 0
    BY <1>2, <1>3, EntriesFacts
  <1>5. /\ b \in Seq(DebtEntry)
        /\ \A d \in Range(b) : /\ d.category = "risk_acceptance"
                               /\ d.amount = Rates["risk_acceptance"]
                               /\ d.release = Len(evaluations) + 1
    BY <1>3, EntriesFacts
  <1>6. /\ c \in Seq(DebtEntry)
        /\ \A d \in Range(c) : /\ d.category = "coverage_gap"
                               /\ d.amount = Rates["coverage_gap"]
                               /\ d.release = Len(evaluations) + 1
    BY <1>3, EntriesFacts
  <1> HIDE DEF a, b, c, booked
  <1>7. a \o b \in Seq(DebtEntry) /\ Range(a \o b) = Range(a) \cup Range(b)
    BY <1>4, <1>5, ConcatRange
  <1>8. booked \in Seq(DebtEntry) /\ Range(booked) = Range(a \o b) \cup Range(c)
    <2> DEFINE ab == a \o b
    <2>1. ab \in Seq(DebtEntry) /\ c \in Seq(DebtEntry) /\ booked = ab \o c
      BY <1>1, <1>6, <1>7
    <2> HIDE DEF ab
    <2>2. booked \in Seq(DebtEntry) /\ Range(booked) = Range(ab) \cup Range(c)
      BY <2>1, ConcatRange
    <2> QED
      BY <2>2 DEF ab
  <1>9. \A d \in Range(booked) : /\ d.release = Len(evaluations) + 1
                                 /\ d.amount = Rates[d.category]
    BY <1>4, <1>5, <1>6, <1>7, <1>8
  <1>10. (\E d \in Range(booked) : d.category = "constitution_deviation")
            <=> Range(a) # {}
    BY <1>4, <1>5, <1>6, <1>7, <1>8
  <1> QED
    BY <1>2, <1>4, <1>8, <1>9, <1>10 DEF booked

LEMMA DeviatesRange ==
    ASSUME NEW r
    PROVE  Deviates(r) <=> \E d \in Range(debts) :
                               d.release = r /\ d.category = "constitution_deviation"
  BY DEF Deviates, Range

LEMMA InitConstitutionInv == ConstitutionInit => ConstitutionInv
  <1> SUFFICES ASSUME ConstitutionInit PROVE ConstitutionInv
    OBVIOUS
  <1>1. debts = <<>> /\ totalDebt = 0 /\ today = 0 /\ evaluations = <<>>
    BY DEF ConstitutionInit
  <1>2. WithStatus(debts, "active") = {}
    BY <1>1 DEF WithStatus
  <1>3. Recalculated(debts) = 0
    BY <1>2, SumOfNone DEF Recalculated, SumOfAmounts
  <1> QED
    BY <1>1, <1>3 DEF ConstitutionInv

LEMMA EvaluateReleaseKeeps ==
    ASSUME ConstitutionInv, EvaluateRelease
    PROVE  ConstitutionInv'
  <1>1. PICK metrics \in MetricSets, accepted \in 0..MaxAccepted, gaps \in 0..MaxAccepted :
            /\ debts' = debts \o AlignmentDebt(Violations(metrics), accepted, gaps)
            /\ totalDebt' = Recalculated(debts')
            /\ evaluations' = Append(evaluations,
                                  [verdict |-> VerdictOn(Violations(metrics)),
                                   metrics |-> metrics])
            /\ today' = today
    BY DEF EvaluateRelease
  <1> DEFINE booked == AlignmentDebt(Violations(metrics), accepted, gaps)
             e == [verdict |-> VerdictOn(Violations(metrics)), metrics |-> metrics]
  <1>0. PICK n \in Nat : n = Len(evaluations)
    BY DEF ConstitutionInv
  <1>2. accepted \in Nat /\ gaps \in Nat
    BY ConstitutionAssumption DEF ConstitutionAssumption
  <1>3. /\ booked \in Seq(DebtEntry)
        /\ \A d \in Range(booked) : d.release = n + 1 /\ d.amount = Rates[d.category]
        /\ (\E d \in Range(booked) : d.category = "constitution_deviation")
              <=> OfSeverity(Violations(metrics), "hard") # {}
    <2>1. /\ booked \in Seq(DebtEntry)
          /\ \A d \in Range(booked) : /\ d.release = Len(evaluations) + 1
                                      /\ d.amount = Rates[d.category]
          /\ (\E d \in Range(booked) : d.category = "constitution_deviation")
                <=> OfSeverity(Violations(metrics), "hard") # {}
      BY <1>2, BookedFacts
    <2> HIDE DEF booked
    <2> QED
      BY <1>0, <2>1
  <1>4. e.verdict = VerdictOn(Violations(metrics)) /\ e.metrics = metrics
    OBVIOUS
  <1>5. debts' = debts \o booked /\ evaluations' = Append(evaluations, e)
    BY <1>1
  <1>6. n \in Nat /\ DOMAIN evaluations = 1..n /\ debts \in Seq(DebtEntry)
    BY <1>0 DEF ConstitutionInv
  <1> HIDE DEF booked, e
  <1>7. debts' \in Seq(DebtEntry) /\ Range(debts') = Range(debts) \cup Range(booked)
    BY <1>3, <1>5, <1>6, ConcatRange
  <1>8. /\ Len(evaluations') = n + 1 /\ DOMAIN evaluations' = 1..(n + 1)
        /\ \A r \in 1..n : evaluations'[r] = evaluations[r]
        /\ evaluations'[n + 1] = e
    BY <1>0, <1>5, <1>6
  <1>9. \A d \in Range(debts) : d.release \in 1..n /\ d.amount = Rates[d.category]
    BY <1>0 DEF ConstitutionInv, Booked, Range
  <1>10. \A d \in Range(debts') : d.release \in 1..(n + 1) /\ d.amount = Rates[d.category]
    <2>1. 1..n \subseteq 1..(n + 1) /\ n + 1 \in 1..(n + 1)
      BY <1>6
    <2> QED
      BY <1>3, <1>7, <1>9, <2>1
  <1>11. \A i \in DOMAIN debts' : Booked(debts[i])'
    BY <1>8, <1>10 DEF Booked, Range
  <1>12. ASSUME NEW r \in 1..n
         PROVE  EvaluatedRight(r)'
    <2>1. EvaluatedRight(r)
      BY <1>6 DEF ConstitutionInv
    <2>2. r # n + 1
      BY <1>6
    <2>3. Deviates(r)' <=> \E d \in Range(debts') :
              d.release = r /\ d.category = "constitution_deviation"
      BY DEF Deviates, Range
    <2>4. Deviates(r) <=> \E d \in Range(debts) :
              d.release = r /\ d.category = "constitution_deviation"
      BY DeviatesRange
    <2>5. Deviates(r)' <=> Deviates(r)
      BY <1>3, <1>7, <2>2, <2>3, <2>4
    <2>6. evaluations'[r] = evaluations[r]
      BY <1>8
    <2> QED
      BY <2>1, <2>5, <2>6 DEF EvaluatedRight
  <1>13. EvaluatedRight(n + 1)'
    <2>1. \A d \in Range(debts) : d.release # n + 1
      BY <1>6, <1>9
    <2>2. Deviates(n + 1)' <=> \E d \in Range(debts') :
              d.release = n + 1 /\ d.category = "constitution_deviation"
      BY DEF Deviates, Range
    <2>3. Deviates(n + 1)' <=> \E d \in Range(booked) : d.category = "constitution_deviation"
      BY <1>3, <1>7, <2>1, <2>2
    <2>4. evaluations'[n + 1] = e
      BY <1>8
    <2> QED
      BY <1>3, <1>4, <2>3, <2>4 DEF EvaluatedRight
  <1>14. \A r \in DOMAIN evaluations' : EvaluatedRight(r)'
    <2>1. \A r \in 1..(n + 1) : r \in 1..n \/ r = n + 1
      BY <1>6
    <2> QED
      BY <1>8, <1>12, <1>13, <2>1
  <1>15. Len(evaluations') \in Nat /\ DOMAIN evaluations' = 1..Len(evaluations')
    BY <1>6, <1>8
  <1>16. today' \in Nat /\ totalDebt' = Recalculated(debts')
    BY <1>1 DEF ConstitutionInv
  <1>17. Recalculated(debts)' = Recalculated(debts')
    BY DEF Recalculated
  <1> QED
    BY <1>7, <1>11, <1>14, <1>15, <1>16, <1>17 DEF ConstitutionInv

LEMMA ResolveEntryKeeps ==
    ASSUME ConstitutionInv, NEW i \in DOMAIN debts, ResolveEntry(i)
    PROVE  ConstitutionInv'
  <1> DEFINE d == [debts[i] EXCEPT !.status = "resolved"]
  <1>1. debts \in Seq(DebtEntry) /\ debts[i] \in DebtEntry
    BY DEF ConstitutionInv
  <1>2. /\ d \in DebtEntry
        /\ d.release = debts[i].release /\ d.amount = debts[i].amount
        /\ d.category = debts[i].category
    BY <1>1 DEF DebtEntry
  <1>3. debts' = [debts EXCEPT ![i] = d]
    BY DEF ResolveEntry
  <1>4. UNCHANGED <<today, evaluations>> /\ totalDebt' = Recalculated(debts')
    BY DEF ResolveEntry
  <1> HIDE DEF d
  <1>5. debts' \in Seq(DebtEntry) /\ DOMAIN debts' = DOMAIN debts
    BY <1>1, <1>2, <1>3
  <1>6. \A k \in DOMAIN debts : /\ debts'[k].release = debts[k].release
                                /\ debts'[k].amount = debts[k].amount
                                /\ debts'[k].category = debts[k].category
    BY <1>2, <1>3
  <1>7. \A k \in DOMAIN debts' : Booked(debts[k])'
    BY <1>4, <1>5, <1>6 DEF ConstitutionInv, Booked
  <1>8. \A r : Deviates(r)' <=> Deviates(r)
    BY <1>5, <1>6 DEF Deviates
  <1>9. \A r \in DOMAIN evaluations' : EvaluatedRight(r)'
    BY <1>4, <1>8 DEF ConstitutionInv, EvaluatedRight
  <1> QED
    BY <1>4, <1>5, <1>7, <1>9 DEF ConstitutionInv, Recalculated

LEMMA NextConstitutionInv ==
    ConstitutionInv /\ [Next]_releaseVars => ConstitutionInv'
  <1> SUFFICES ASSUME ConstitutionInv, [Next]_releaseVars PROVE ConstitutionInv'
    OBVIOUS
  <1>1. CASE EvaluateRelease
    BY <1>1, EvaluateReleaseKeeps
  <1>2. CASE \E i \in DOMAIN debts : ResolveEntry(i)
    BY <1>2, ResolveEntryKeeps
  <1>3. CASE DaysPass
    <2>1. UNCHANGED <<debts, totalDebt, evaluations>>
      BY <1>3 DEF DaysPass
    <2>2. today' \in Nat
      BY <1>3, ConstitutionAssumption
         DEF DaysPass, ConstitutionInv, ConstitutionAssumption
    <2> QED
      BY <2>1, <2>2
         DEF ConstitutionInv, Recalculated, Booked, EvaluatedRight, Deviates
  <1>4. CASE UNCHANGED constitutionVars
    BY <1>4 DEF constitutionVars, ConstitutionInv, Recalculated, Booked,
                EvaluatedRight, Deviates
  <1>5. ConstitutionStep \/ UNCHANGED constitutionVars
    BY DEF Next, releaseVars, LedgerStep, HistoryStep, VerdictStep, GamingStep,
           SubmissionStep, PackageStep, MemoStep
  <1> QED
    BY <1>1, <1>2, <1>3, <1>4, <1>5 DEF ConstitutionStep, ConstitutionNext

LEMMA VerdictsFollow ==
    ASSUME ConstitutionInv, NEW r \in DOMAIN evaluations
    PROVE  /\ evaluations[r].verdict = "BLOCK" <=> Deviates(r)
           /\ BreaksHard(evaluations[r].metrics) => Deviates(r)
           /\ MeasuresHard(evaluations[r].metrics) /\ Deviates(r) =>
                 BreaksHard(evaluations[r].metrics)
  <1>1. EvaluatedRight(r)
    BY DEF ConstitutionInv
  <1>2. Deviates(r) <=> OfSeverity(Violations(evaluations[r].metrics), "hard") # {}
    BY <1>1 DEF EvaluatedRight
  <1>3. evaluations[r].verdict = VerdictOn(Violations(evaluations[r].metrics))
    BY <1>1 DEF EvaluatedRight
  <1>4. evaluations[r].verdict = "BLOCK"
           <=> OfSeverity(Violations(evaluations[r].metrics), "hard") # {}
    BY <1>3 DEF VerdictOn
  <1> QED
    BY <1>2, <1>4, HardViolations

(* The sums the report is made of are of positive amounts over a finite    *)
(* set of entries.                                                         *)
LEMMA AmountsFacts ==
    ASSUME ConstitutionInv
    PROVE  /\ IsFiniteSet(DOMAIN debts)
           /\ Len(debts) \in Nat /\ Cardinality(DOMAIN debts) = Len(debts)
           /\ \A i \in DOMAIN debts : /\ debts[i].amount \in Nat
                                      /\ debts[i].amount > 0
                                      /\ debts[i].amount = Rates[debts[i].category]
                                      /\ debts[i].category \in Categories
                                      /\ debts[i].created \in Nat
                                      /\ debts[i].status \in {"active", "resolved"}
  <1>1. debts \in Seq(DebtEntry)
    BY DEF ConstitutionInv
  <1>2. PICK n \in Nat : n = Len(debts) /\ DOMAIN debts = 1..n
    BY <1>1
  <1>3. 1 \in Int /\ n \in Int
    BY <1>2
  <1>4. IsFiniteSet(1..n) /\ Cardinality(1..n) = IF 1 > n THEN 0 ELSE n - 1 + 1
    BY <1>3, FS_Interval
  <1>5. Cardinality(1..n) = n
    BY <1>2, <1>4
  <1>6. ASSUME NEW i \in DOMAIN debts
        PROVE  /\ debts[i].amount \in Nat
               /\ debts[i].amount > 0
               /\ debts[i].amount = Rates[debts[i].category]
               /\ debts[i].category \in Categories
               /\ debts[i].created \in Nat
               /\ debts[i].status \in {"active", "resolved"}
    <2>1. debts[i] \in DebtEntry
      BY <1>1
    <2>2. debts[i].amount = Rates[debts[i].category]
      BY DEF ConstitutionInv, Booked
    <2>3. debts[i].category \in Categories
      BY <2>1 DEF DebtEntry
    <2>4. Rates[debts[i].category] \in Nat \ {0}
      BY <2>3, ConstitutionAssumption DEF ConstitutionAssumption
    <2> QED
      BY <2>1, <2>2, <2>3, <2>4 DEF DebtEntry
  <1> QED
    BY <1>2, <1>4, <1>5, <1>6

(* The report, of what is in the ledger.                                   *)
LEMMA ReportFollows ==
    ASSUME ConstitutionInv
    PROVE  LET report == ExportForReport
           IN  /\ report.total = SumFunction(report.byCategory)
               /\ report.active + report.resolved = Len(debts)
               /\ report.trend.added <= report.total
               /\ today <= 30 => report.trend.added = report.total
               /\ report.total = 0 <=> report.active = 0
               /\ DebtStatus(report.total) = "OK" =>
                     Cardinality({i \in WithStatus(debts, "active") :
                                     debts[i].category = "constitution_deviation"})
                       * Rates["constitution_deviation"] < DebtThresholds["warn"]
  <1> DEFINE D == DOMAIN debts
             f == [i \in D |-> debts[i].amount]
             A == WithStatus(debts, "active")
             R == WithStatus(debts, "resolved")
             recent == {i \in D : today - debts[i].created <= 30}
             kind == [i \in D |-> debts[i].category]
             K == {debts[i].category : i \in A}
             deviations == {i \in A : debts[i].category = "constitution_deviation"}
             rate == Rates["constitution_deviation"]
             report == ExportForReport
  <1>1. /\ report.total = SumFunctionOnSet(f, A)
        /\ report.active = Cardinality(A) /\ report.resolved = Cardinality(R)
        /\ report.trend.added = SumFunctionOnSet(f, recent \cap A)
        /\ report.byCategory = [k \in K |->
               SumFunctionOnSet(f, {i \in A : debts[i].category = k})]
    <2>1. totalDebt = SumFunctionOnSet(f, A)
      BY DEF ConstitutionInv, Recalculated, SumOfAmounts
    <2>2. report.total = totalDebt
      BY DEF ExportForReport
    <2>3. report.active = Cardinality(A) /\ report.resolved = Cardinality(R)
      BY DEF ExportForReport
    <2>4. report.trend = Trend(30) /\ report.byCategory = DebtByCategory
      BY DEF ExportForReport
    <2>5. Trend(30).added = SumFunctionOnSet(f, recent \cap A)
      BY DEF Trend, SumOfAmounts
    <2>6. DebtByCategory = [k \in K |->
               SumFunctionOnSet(f, {i \in A : debts[i].category = k})]
      BY DEF DebtByCategory, SumOfAmounts
    <2> HIDE DEF report, f, recent, A, R, K
    <2> QED
      BY <2>1, <2>2, <2>3, <2>4, <2>5, <2>6
  <1>2. /\ IsFiniteSet(D) /\ Cardinality(D) = Len(debts) /\ Len(debts) \in Nat
        /\ \A i \in D : f[i] \in Nat /\ f[i] > 0 /\ f[i] = Rates[kind[i]]
    BY AmountsFacts
  <1>3. /\ A \subseteq D /\ R \subseteq D /\ A \cup R = D /\ A \cap R = {}
        /\ IsFiniteSet(A) /\ IsFiniteSet(R)
    <2>1. A \subseteq D /\ R \subseteq D /\ A \cap R = {}
      BY DEF WithStatus
    <2>2. A \cup R = D
      BY AmountsFacts DEF WithStatus
    <2> HIDE DEF A, R, D
    <2> QED
      BY <1>2, <2>1, <2>2, FS_Subset
  <1>4. today \in Nat /\ \A i \in D : debts[i].created \in Nat
    BY AmountsFacts DEF ConstitutionInv
  <1>5. today <= 30 => recent = D
    <2>1. \A i \in D : today <= 30 => today - debts[i].created <= 30
      BY <1>4
    <2> QED
      BY <2>1
  <1>6. K = {kind[i] : i \in A} /\ \A i \in A : kind[i] = debts[i].category
    BY <1>3
  <1>7. rate \in Nat /\ DebtThresholds \in [{"warn", "block", "critical"} -> Nat]
    BY ConstitutionAssumption DEF ConstitutionAssumption, Categories
  <1>8. report.total = SumFunction(report.byCategory)
    <2> DEFINE sums == [k \in K |-> SumFunctionOnSet(f, {i \in A : kind[i] = k})]
    <2>1. report.byCategory = sums
      BY <1>1, <1>6
    <2>2. DOMAIN sums = K
      OBVIOUS
    <2>3. SumFunction(sums) = SumFunctionOnSet(sums, K)
      BY <2>2 DEF SumFunction
    <2>4. IntValued(f, A)
      BY <1>2, <1>3 DEF IntValued
    <2> HIDE DEF K, kind, f, A
    <2>5. IsFiniteSet(K) /\ \A i \in A : kind[i] \in K
      BY <1>3, <1>6, ImageFinite
    <2>6. SumFunctionOnSet(sums, K) = SumFunctionOnSet(f, A)
      BY <1>3, <2>4, <2>5, SumByClass
    <2> HIDE DEF sums, report
    <2>7. report.total = SumFunctionOnSet(f, A)
      BY <1>1
    <2>8. SumFunction(report.byCategory) = SumFunction(sums)
      BY <2>1
    <2> QED
      BY <2>3, <2>6, <2>7, <2>8
  <1>9. report.active + report.resolved = Len(debts)
    <2> HIDE DEF A, R, D, report
    <2>1. Cardinality(A \cup R) = Cardinality(A) + Cardinality(R) - Cardinality(A \cap R)
      BY <1>3, FS_Union
    <2>2. Cardinality({}) = 0
      BY FS_EmptySet
    <2>3. Cardinality(A) \in Nat /\ Cardinality(R) \in Nat
      BY <1>3, FS_CardinalityType
    <2>4. Cardinality(A \cup R) = Len(debts) /\ Cardinality(A \cap R) = 0
      BY <1>2, <1>3, <2>2
    <2>5. report.active = Cardinality(A) /\ report.resolved = Cardinality(R)
      BY <1>1
    <2> QED
      BY <2>1, <2>3, <2>4, <2>5
  <1> HIDE DEF D, f, A, R, recent, kind, K, report
  <1>10. IntValued(f, A) /\ \A i \in A : f[i] \in Nat /\ f[i] > 0
    BY <1>2, <1>3 DEF IntValued
  <1>11. \A T \in SUBSET A : /\ SumFunctionOnSet(f, T) \in Nat
                             /\ SumFunctionOnSet(f, T) <= SumFunctionOnSet(f, A)
    <2> TAKE T \in SUBSET A
    <2>1. /\ IsFiniteSet(T) /\ IsFiniteSet(A \ T)
          /\ (\A i \in T : f[i] \in Nat) /\ (\A i \in A \ T : f[i] \in Nat)
      BY <1>3, <1>10, FS_Subset
    <2>2. SumFunctionOnSet(f, T) \in Nat /\ SumFunctionOnSet(f, A \ T) \in Nat
      BY <2>1, SumOfNaturals
    <2>3. SumFunctionOnSet(f, A) = SumFunctionOnSet(f, T) + SumFunctionOnSet(f, A \ T)
      BY <1>3, <1>10, SumSplits
    <2> QED
      BY <2>2, <2>3
  <1>12. report.trend.added <= report.total
    BY <1>1, <1>11
  <1>13. today <= 30 => report.trend.added = report.total
    <2>1. recent = D => recent \cap A = A
      BY <1>3
    <2> QED
      BY <1>1, <1>5, <2>1
  <1>14. report.total = 0 <=> report.active = 0
    <2>1. Cardinality(A) = 0 <=> A = {}
      BY <1>3, FS_EmptySet
    <2>2. A = {} => SumFunctionOnSet(f, A) = 0
      BY SumOfNone
    <2>3. ASSUME NEW i \in A
          PROVE  SumFunctionOnSet(f, A) # 0
      <3>1. f[i] <= SumFunctionOnSet(f, A)
        BY <1>3, <1>10, SumOfNaturals
      <3>2. SumFunctionOnSet(f, A) \in Nat /\ f[i] \in Nat /\ f[i] > 0
        BY <1>10, <1>11
      <3> QED
        BY <3>1, <3>2
    <2> QED
      BY <1>1, <2>1, <2>2, <2>3
  <1>15. ASSUME DebtStatus(report.total) = "OK"
         PROVE  Cardinality(deviations) * rate < DebtThresholds["warn"]
    <2>1. deviations \in SUBSET A /\ \A i \in deviations : f[i] = rate
      BY <1>2, <1>3, <1>6
    <2>2. IsFiniteSet(deviations)
      BY <1>3, <2>1, FS_Subset
    <2>3. Cardinality(deviations) \in Nat
      BY <2>2, FS_CardinalityType
    <2> HIDE DEF deviations, rate
    <2>4. SumFunctionOnSet(f, deviations) = Cardinality(deviations) * rate
      BY <1>7, <2>1, <2>2, SumOfEqual
    <2>5. SumFunctionOnSet(f, deviations) <= SumFunctionOnSet(f, A)
          /\ SumFunctionOnSet(f, deviations) \in Nat
          /\ SumFunctionOnSet(f, A) \in Nat
      BY <1>11, <2>1
    <2>6. DebtThresholds["warn"] \in Nat
      BY <1>7
    <2>7. ~(report.total >= DebtThresholds.warn)
      BY <1>15 DEF DebtStatus
    <2>8. SumFunctionOnSet(f, A) < DebtThresholds["warn"]
      BY <1>1, <2>5, <2>6, <2>7
    <2>9. SumFunctionOnSet(f, deviations) < DebtThresholds["warn"]
      BY <2>5, <2>6, <2>8
    <2> QED
      BY <2>4, <2>9
  <1> QED
    BY <1>8, <1>9, <1>12, <1>13, <1>14, <1>15 DEF report, deviations, rate, A

(* Whatever is resolved in between, a release is blocked exactly when it   *)
(* leaves deviation debt, and the report's total is the debt of its        *)
(* categories (constitution.py:308-351 and 372-556).                       *)
THEOREM DebtFollowsVerdictsCorrect == Spec => []DebtFollowsVerdicts
  <1>1. Init => ConstitutionInv
    BY InitConstitutionInv DEF Init
  <1>2. ConstitutionInv => DebtFollowsVerdicts
    <2> SUFFICES ASSUME ConstitutionInv PROVE DebtFollowsVerdicts
      OBVIOUS
    <2>1. \A r \in DOMAIN evaluations :
              /\ evaluations[r].verdict = "BLOCK" <=> Deviates(r)
              /\ BreaksHard(evaluations[r].metrics) => Deviates(r)
              /\ MeasuresHard(evaluations[r].metrics) /\ Deviates(r) =>
                    BreaksHard(evaluations[r].metrics)
      BY VerdictsFollow
    <2> QED
      BY <2>1, ReportFollows DEF DebtFollowsVerdicts
  <1> QED
    BY <1>1, <1>2, NextConstitutionInv, PTL DEF Spec

-----------------------------------------------------------------------------
(***************************************************************************)
(* The four judges of a candidate (ReleaseVerdict).                        *)
(***************************************************************************)

(* The verdict outlives an override, which only notes who approved.        *)
TraceKept(t) == t = [k \in DOMAIN t |-> t[k]] /\ "verdict" \in DOMAIN t

VerdictInv == VerdictsOrdered /\ \A t \in trace : TraceKept(t)

Limit == 50

(* A difference is in the list with the delta that was measured.           *)
LEMMA DiffsFacts ==
    ASSUME NEW suites \in Suites, CanRun(suites),
           NEW baseline \in Measurements, NEW candidate \in Measurements
    PROVE  LET run == RunResult(suites, baseline, candidate)
               diffs == ComputeDiffs(run)
               delta == run.candidate.misuse.violation_rate
                          - run.baseline.misuse.violation_rate
           IN  /\ IsFiniteSet(diffs)
               /\ delta \in Int
               /\ \E d \in diffs : /\ d.metric = "violation_rate"
                                   /\ d.delta = {delta}
                                   /\ d.worseWhenHigher = TRUE
  <1> DEFINE run == RunResult(suites, baseline, candidate)
             diffs == ComputeDiffs(run)
             delta == run.candidate.misuse.violation_rate
                        - run.baseline.misuse.violation_rate
             asked == IF suites = {} THEN AvailableSuites ELSE suites
             both(s) == DOMAIN baseline[s] \cup DOMAIN candidate[s]
             diff(s) == [m \in both(s) |->
                 [suite |-> s, metric |-> m,
                  delta |-> IF m \in DOMAIN baseline[s] \cap DOMAIN candidate[s]
                            THEN {candidate[s][m] - baseline[s][m]} ELSE {},
                  worseWhenHigher |-> m \in HigherIsWorse]]
             f == [s \in asked |-> {diff(s)[m] : m \in both(s)}]
  <1>1. asked \subseteq AvailableSuites /\ "misuse" \in asked
    BY VerdictAssumption DEF VerdictAssumption, CanRun, AvailableSuites
  <1>2. IsFiniteSet(AvailableSuites)
    <2>1. IsFiniteSet({"misuse"} \cup {"redteam"} \cup {"trajectory"})
      BY FS_Singleton, FS_Union
    <2>2. {"misuse"} \cup {"redteam"} \cup {"trajectory"} = AvailableSuites
      BY DEF AvailableSuites
    <2> QED
      BY <2>1, <2>2
  <1>3. IsFiniteSet(asked)
    BY <1>1, <1>2, FS_Subset
  <1>4. run.baseline = [s \in asked |-> baseline[s]]
        /\ run.candidate = [s \in asked |-> candidate[s]]
    BY DEF RunResult
  <1>5. DOMAIN run.baseline = asked
        /\ \A s \in asked : run.baseline[s] = baseline[s] /\ run.candidate[s] = candidate[s]
    BY <1>4
  <1> HIDE DEF asked, run
  <1> DEFINE all(s, x, y) == {[suite |-> s, metric |-> m,
                              delta |-> IF m \in DOMAIN x \cap DOMAIN y
                                        THEN {y[m] - x[m]} ELSE {},
                              worseWhenHigher |-> m \in HigherIsWorse] :
                                 m \in DOMAIN x \cup DOMAIN y}
  <1>6. \A s \in asked : all(s, run.baseline[s], run.candidate[s]) = f[s]
    <2> SUFFICES ASSUME NEW s \in asked
                 PROVE  all(s, run.baseline[s], run.candidate[s])
                          = {diff(s)[m] : m \in both(s)}
      OBVIOUS
    <2>1. run.baseline[s] = baseline[s] /\ run.candidate[s] = candidate[s]
      BY <1>5
    <2>2. \A m \in both(s) : diff(s)[m] =
             [suite |-> s, metric |-> m,
              delta |-> IF m \in DOMAIN baseline[s] \cap DOMAIN candidate[s]
                        THEN {candidate[s][m] - baseline[s][m]} ELSE {},
              worseWhenHigher |-> m \in HigherIsWorse]
      OBVIOUS
    <2> HIDE DEF diff
    <2>3. all(s, baseline[s], candidate[s]) = {diff(s)[m] : m \in both(s)}
      BY <2>2
    <2> HIDE DEF all, both
    <2> QED
      BY <2>1, <2>3
  <1>7. diffs = UNION {f[s] : s \in asked}
    <2>1. diffs = UNION {all(s, run.baseline[s], run.candidate[s]) : s \in asked}
      BY <1>5 DEF ComputeDiffs
    <2> HIDE DEF all, f, diffs
    <2>2. {all(s, run.baseline[s], run.candidate[s]) : s \in asked} = {f[s] : s \in asked}
      BY <1>6
    <2> QED
      BY <2>1, <2>2
  <1>8. \A s \in asked : IsFiniteSet(f[s])
    <2> SUFFICES ASSUME NEW s \in asked PROVE IsFiniteSet({diff(s)[m] : m \in both(s)})
      OBVIOUS
    <2>1. IsFiniteSet(DOMAIN baseline[s]) /\ IsFiniteSet(DOMAIN candidate[s])
      BY <1>1, VerdictAssumption DEF VerdictAssumption
    <2>2. IsFiniteSet(both(s))
      BY <2>1, FS_Union
    <2> HIDE DEF both, diff
    <2> QED
      BY <2>2, ImageFinite
  <1>9. IsFiniteSet(diffs)
    <2> HIDE DEF f, diffs
    <2>1. IsFiniteSet(UNION {f[s] : s \in asked})
      BY <1>3, <1>8, UnionFinite
    <2> QED
      BY <1>7, <2>1
  <1>10. "violation_rate" \in DOMAIN baseline["misuse"] \cap DOMAIN candidate["misuse"]
         /\ baseline["misuse"]["violation_rate"] \in Int
         /\ candidate["misuse"]["violation_rate"] \in Int
    BY VerdictAssumption DEF VerdictAssumption, AvailableSuites
  <1>11. run.candidate.misuse = candidate["misuse"] /\ run.baseline.misuse = baseline["misuse"]
    BY <1>1, <1>5
  <1>12. delta = candidate["misuse"]["violation_rate"] - baseline["misuse"]["violation_rate"]
    BY <1>11
  <1>13. delta \in Int
    BY <1>10, <1>12
  <1> DEFINE v == diff("misuse")["violation_rate"]
  <1>14. v.metric = "violation_rate" /\ v.worseWhenHigher = TRUE
         /\ v.delta = {candidate["misuse"]["violation_rate"]
                         - baseline["misuse"]["violation_rate"]}
    BY <1>10 DEF HigherIsWorse
  <1>15. v \in f["misuse"]
    BY <1>1, <1>10
  <1> HIDE DEF v, f
  <1>16. v \in diffs
    BY <1>1, <1>7, <1>15
  <1> HIDE DEF diffs, delta
  <1> QED
    BY <1>9, <1>12, <1>13, <1>14, <1>16 DEF run, diffs, delta

(* The grader blocks a violation rate that rose by more than the limit,    *)
(* and judges nothing that did not regress.                                *)
LEMMA GradeFacts ==
    ASSUME NEW diffs, IsFiniteSet(diffs), NEW delta \in Int,
           \E d \in diffs : /\ d.metric = "violation_rate"
                            /\ d.delta = {delta}
                            /\ d.worseWhenHigher = TRUE
    PROVE  /\ delta > Limit => Grade(diffs) = "BLOCK"
           /\ Grade(diffs) # "OK" => Summarize(diffs).regressions > 0
  <1>1. ASSUME delta > Limit
        PROVE  Grade(diffs) = "BLOCK"
    <2>1. PICK d \in diffs : /\ d.metric = "violation_rate"
                             /\ d.delta = {delta}
                             /\ d.worseWhenHigher = TRUE
      OBVIOUS
    <2>2. IsRegression(d)
      BY <1>1, <2>1 DEF IsRegression, Limit
    <2>3. Size(d) = delta
      <3>1. d.delta \cup {-x : x \in d.delta} = {delta, -delta}
        BY <2>1
      <3>2. \A n \in {delta, -delta} : n >= 0 <=> n = delta
        BY <1>1 DEF Limit
      <3>3. \E n \in {delta, -delta} : n >= 0
        BY <3>2
      <3> QED
        BY <3>1, <3>2, <3>3 DEF Size
    <2>4. "violation_rate" \in DOMAIN Thresholds /\ Thresholds["violation_rate"].block = 50
      BY DEF Thresholds
    <2>5. Size(d) >= Thresholds[d.metric].block
      BY <1>1, <2>1, <2>3, <2>4 DEF Limit
    <2>6. Severity(d) = "block"
      BY <2>1, <2>2, <2>4, <2>5 DEF Severity
    <2> QED
      BY <2>6 DEF Grade, Worst
  <1>2. ASSUME Grade(diffs) # "OK"
        PROVE  Summarize(diffs).regressions > 0
    <2>1. PICK d \in diffs : Severity(d) # "none"
      <3>1. ASSUME \A d \in diffs : Severity(d) = "none"
            PROVE  FALSE
        <4>1. {CASE Severity(d) = "block" -> "BLOCK"
                 [] Severity(d) = "warn"  -> "WARN"
                 [] Severity(d) = "none"  -> "OK" : d \in diffs} \subseteq {"OK"}
          BY <3>1
        <4> QED
          BY <1>2, <4>1 DEF Grade, Worst
      <3> QED
        BY <3>1
    <2>2. IsRegression(d)
      BY <2>1 DEF Severity
    <2> DEFINE regressed == {e \in diffs : IsRegression(e)}
    <2>3. d \in regressed /\ regressed \subseteq diffs
      BY <2>2
    <2>4. Summarize(diffs).regressions = Cardinality(regressed)
      BY DEF Summarize
    <2> HIDE DEF regressed
    <2>5. IsFiniteSet(regressed) /\ regressed # {}
      BY <2>3, FS_Subset
    <2>6. Cardinality(regressed) \in Nat /\ Cardinality(regressed) # 0
      BY <2>5, FS_CardinalityType, FS_EmptySet
    <2> QED
      BY <2>4, <2>6
  <1> QED
    BY <1>1, <1>2

LEMMA BusinessFacts ==
    ASSUME NEW stat, stat.delta \in Int, stat.significant \in BOOLEAN, NEW category
    PROVE  LET b == AssessBusinessRisk(stat, category, Limit)
               a == AggregateRisk({b})
           IN  /\ stat.significant /\ stat.delta > Limit => a.verdict = "BLOCK"
               /\ stat.delta <= 0 => a.verdict # "BLOCK"
               /\ a.review => ~stat.significant /\ RiskCategory(category) # "low"
  <1> DEFINE b == AssessBusinessRisk(stat, category, Limit)
             a == AggregateRisk({b})
             risk == RiskCategory(category)
             exceeds == 10 * stat.delta > Limit * Multiplier[risk]
  <1>1. risk \in {"critical", "high", "low"}
    BY DEF RiskCategory
  <1>2. Multiplier[risk] \in {3, 5, 10}
    BY <1>1 DEF Multiplier
  <1>3. stat.delta > Limit => exceeds
    BY <1>2 DEF Limit
  <1>4. stat.delta <= 0 => ~exceeds
    BY <1>2 DEF Limit
  <1>5. b = IF stat.significant /\ exceeds
            THEN [verdict |-> "BLOCK", risk |-> risk, review |-> FALSE]
            ELSE IF ~stat.significant /\ risk \in {"high", "critical"}
            THEN [verdict |-> "WARN", risk |-> risk, review |-> TRUE]
            ELSE IF stat.significant /\ stat.delta > 0
            THEN [verdict |-> "WARN", risk |-> risk, review |-> FALSE]
            ELSE [verdict |-> "OK", risk |-> risk, review |-> FALSE]
    BY DEF AssessBusinessRisk
  <1> HIDE DEF b, risk, exceeds
  <1>6. /\ b.verdict \in {"BLOCK", "WARN", "OK"}
        /\ b.verdict = "BLOCK" <=> stat.significant /\ exceeds
        /\ b.review => ~stat.significant /\ risk # "low"
    BY <1>5
  <1>7. {r.verdict : r \in {b}} = {b.verdict}
    OBVIOUS
  <1>8. a.verdict = Worst({b.verdict}) /\ (a.review => b.review)
    BY <1>7 DEF AggregateRisk
  <1> HIDE DEF a
  <1>9. a.verdict = b.verdict
    BY <1>6, <1>8 DEF Worst
  <1>10. /\ stat.significant /\ stat.delta > Limit => a.verdict = "BLOCK"
         /\ stat.delta <= 0 => a.verdict # "BLOCK"
         /\ a.review => ~stat.significant /\ risk # "low"
    BY <1>3, <1>4, <1>6, <1>8, <1>9
  <1> QED
    BY <1>10 DEF a, b, risk

LEMMA TracerFacts ==
    ASSUME NEW delta \in Int, NEW significant \in BOOLEAN,
           NEW name \in {"violation_rate", "failure_rate"}
    PROVE  LET t == CreateTrace({[name |-> name, delta |-> delta,
                                  significant |-> significant,
                                  threshold |-> Limit]}, 0)
               size == IF name \in TracedAsHigherIsWorse THEN delta ELSE -delta
           IN  /\ TraceKept(t)
               /\ t.verdict = IF size <= Limit \/ ~significant THEN "OK"
                              ELSE IF size > 2 * Limit THEN "BLOCK" ELSE "WARN"
  <1> DEFINE c == [name |-> name, delta |-> delta,
                   significant |-> significant, threshold |-> Limit]
             t == CreateTrace({c}, 0)
             said == {e.contribution : e \in EvidenceOf(c)}
             size == IF name \in TracedAsHigherIsWorse THEN delta ELSE -delta
  <1>1. c.name = name /\ c.delta = delta
        /\ c.significant = significant /\ c.threshold = Limit
    OBVIOUS
  <1> HIDE DEF c
  <1>2. UNION {EvidenceOf(x) : x \in {c}} = EvidenceOf(c)
    OBVIOUS
  <1>3. t.verdict = Worst(said)
    BY <1>2 DEF CreateTrace
  <1>4. TraceKept(t)
    BY DEF TraceKept, CreateTrace
  <1> DEFINE e(contribution) ==
                 [name |-> name,
                  kind |-> IF significant THEN "regression_detected"
                           ELSE "metric_comparison",
                  contribution |-> contribution]
  <1>5. size \in Int
    OBVIOUS
  <1>6. EvidenceOf(c) =
            IF size <= Limit THEN {}
            ELSE {e(IF ~significant THEN "Monitor"
                    ELSE IF size > 2 * Limit THEN "BLOCK" ELSE "WARN")}
    BY <1>1 DEF EvidenceOf
  <1> HIDE DEF size
  <1>7. ASSUME size <= Limit
        PROVE  said = {}
    BY <1>6, <1>7
  <1>8. ASSUME ~(size <= Limit) /\ ~significant
        PROVE  said = {"Monitor"}
    <2>1. EvidenceOf(c) = {e("Monitor")}
      BY <1>6, <1>8
    <2> QED
      BY <2>1
  <1>9. ASSUME ~(size <= Limit) /\ size > 2 * Limit /\ significant
        PROVE  said = {"BLOCK"}
    <2>1. EvidenceOf(c) = {e("BLOCK")}
      BY <1>6, <1>9
    <2> QED
      BY <2>1
  <1>10. ASSUME ~(size <= Limit) /\ ~(size > 2 * Limit) /\ significant
         PROVE  said = {"WARN"}
    <2>1. EvidenceOf(c) = {e("WARN")}
      BY <1>6, <1>10
    <2> QED
      BY <2>1
  <1> HIDE DEF t, said
  <1>11. /\ Worst({}) = "OK" /\ Worst({"Monitor"}) = "OK"
         /\ Worst({"BLOCK"}) = "BLOCK" /\ Worst({"WARN"}) = "WARN"
    BY DEF Worst
  <1>12. t.verdict = IF size <= Limit \/ ~significant THEN "OK"
                     ELSE IF size > 2 * Limit THEN "BLOCK" ELSE "WARN"
    BY <1>3, <1>7, <1>8, <1>9, <1>10, <1>11
  <1> QED
    BY <1>4, <1>12 DEF t, c, size

(* A judgement is ordered from the start.                                  *)
LEMMA JudgeOrders ==
    ASSUME Judge
    PROVE  VerdictInv'
  <1>1. PICK suites \in Suites, baseline \in Measurements, candidate \in Measurements,
             category \in AskedCategories, name \in {"violation_rate", "failure_rate"} :
          /\ verdictOf = <<>>
          /\ CanRun(suites)
          /\ LET run == RunResult(suites, baseline, candidate)
                 diffs == ComputeDiffs(run)
                 limit == Thresholds.violation_rate.block
                 delta == run.candidate.misuse.violation_rate
                            - run.baseline.misuse.violation_rate
             IN  \E stat \in StatResults(delta) :
                   LET business == AssessBusinessRisk(stat, category, limit)
                       gate == GateWithSignificance(stat, limit, TRUE)
                       traced == CreateTrace({[name |-> name,
                                               delta |-> delta,
                                               significant |-> stat.significant,
                                               threshold |-> limit]}, 0)
                   IN  /\ verdictOf' = [grader |-> Grade(diffs), gate |-> gate,
                                        business |-> AggregateRisk({business}),
                                        tracer |-> traced.verdict,
                                        causes |-> RootCauses(diffs)]
                       /\ question' = [stat |-> stat, summary |-> Summarize(diffs),
                                       category |-> category, name |-> name]
                       /\ trace' = {traced}
    BY DEF Judge
  <1> DEFINE run == RunResult(suites, baseline, candidate)
             diffs == ComputeDiffs(run)
             delta == run.candidate.misuse.violation_rate
                        - run.baseline.misuse.violation_rate
  <1>2. /\ IsFiniteSet(diffs)
        /\ delta \in Int
        /\ \E d \in diffs : /\ d.metric = "violation_rate"
                            /\ d.delta = {delta}
                            /\ d.worseWhenHigher = TRUE
    BY <1>1, DiffsFacts
  <1>3. Thresholds.violation_rate.block = Limit
    BY DEF Thresholds, Limit
  <1> HIDE DEF run, diffs, delta
  <1>4. PICK stat \in StatResults(delta) :
          LET business == AssessBusinessRisk(stat, category, Limit)
              gate == GateWithSignificance(stat, Limit, TRUE)
              traced == CreateTrace({[name |-> name, delta |-> delta,
                                      significant |-> stat.significant,
                                      threshold |-> Limit]}, 0)
          IN  /\ verdictOf' = [grader |-> Grade(diffs), gate |-> gate,
                               business |-> AggregateRisk({business}),
                               tracer |-> traced.verdict,
                               causes |-> RootCauses(diffs)]
              /\ question' = [stat |-> stat, summary |-> Summarize(diffs),
                              category |-> category, name |-> name]
              /\ trace' = {traced}
    BY <1>1, <1>3 DEF run, diffs, delta
  <1>5. /\ stat.delta = delta /\ stat.significant \in BOOLEAN
        /\ stat.lower \in Int /\ stat.lower <= delta
    <2>1. PICK ci \in ConfidenceBounds(delta), s \in BOOLEAN :
              stat = [delta |-> delta, lower |-> ci.lower, upper |-> ci.upper,
                      significant |-> s]
      BY DEF StatResults, PermutationTest
    <2>2. PICK m \in Margins : ci.lower = delta - m
      BY DEF ConfidenceBounds
    <2>3. m \in Nat
      BY VerdictAssumption DEF VerdictAssumption
    <2> QED
      BY <1>2, <2>1, <2>2, <2>3
  <1> DEFINE business == AggregateRisk({AssessBusinessRisk(stat, category, Limit)})
             gate == GateWithSignificance(stat, Limit, TRUE)
             traced == CreateTrace({[name |-> name, delta |-> delta,
                                     significant |-> stat.significant,
                                     threshold |-> Limit]}, 0)
             summary == Summarize(diffs)
  <1>6. /\ delta > Limit => Grade(diffs) = "BLOCK"
        /\ Grade(diffs) # "OK" => summary.regressions > 0
    BY <1>2, GradeFacts
  <1>7. /\ stat.significant /\ delta > Limit => business.verdict = "BLOCK"
        /\ delta <= 0 => business.verdict # "BLOCK"
        /\ business.review => ~stat.significant /\ RiskCategory(category) # "low"
    BY <1>2, <1>5, BusinessFacts
  <1> DEFINE size == IF name \in TracedAsHigherIsWorse THEN delta ELSE -delta
  <1>8. /\ TraceKept(traced)
        /\ traced.verdict = IF size <= Limit \/ ~stat.significant THEN "OK"
                            ELSE IF size > 2 * Limit THEN "BLOCK" ELSE "WARN"
    BY <1>2, <1>5, TracerFacts
  <1>9. /\ gate = "BLOCK" => stat.significant /\ delta > Limit
        /\ delta <= 0 => gate = "OK"
        /\ gate = "OK" => delta <= 0 \/ (stat.significant /\ ~(delta > Limit))
    BY <1>2, <1>5 DEF GateWithSignificance, Limit
  <1> HIDE DEF business, gate, traced, summary
  <1>10. /\ verdictOf'.grader = Grade(diffs) /\ verdictOf'.gate = gate
         /\ verdictOf'.business = business /\ verdictOf'.tracer = traced.verdict
         /\ question'.stat = stat /\ question'.summary = summary
         /\ question'.category = category /\ question'.name = name
         /\ trace' = {traced}
    <2>1. /\ verdictOf' = [grader |-> Grade(diffs), gate |-> gate,
                           business |-> business, tracer |-> traced.verdict,
                           causes |-> RootCauses(diffs)]
          /\ question' = [stat |-> stat, summary |-> summary, category |-> category, name |-> name]
          /\ trace' = {traced}
      BY <1>4 DEF business, gate, traced, summary
    <2>2. /\ verdictOf'.grader = Grade(diffs) /\ verdictOf'.gate = gate
          /\ verdictOf'.business = business
      BY <2>1
    <2>3. verdictOf'.tracer = traced.verdict
      BY <2>1
    <2>4. question'.stat = stat /\ question'.summary = summary
          /\ question'.category = category /\ question'.name = name
      BY <2>1
    <2> QED
      BY <2>1, <2>2, <2>3, <2>4
  <1>11. ASSUME name \in TracedAsHigherIsWorse
         PROVE  /\ traced.verdict # "OK" => stat.significant /\ delta > Limit
                /\ delta <= 0 => traced.verdict = "OK"
    BY <1>2, <1>5, <1>8, <1>11 DEF Limit
  <1>12. delta = 0 => traced.verdict = "OK"
    BY <1>2, <1>8 DEF Limit
  <1>13. delta > Limit => ~(delta <= 0)
    BY <1>2 DEF Limit
  <1>14. VerdictsOrdered'
    <2>1. /\ gate = "BLOCK" => Grade(diffs) = "BLOCK" /\ business.verdict = "BLOCK"
          /\ delta <= 0 => gate = "OK" /\ business.verdict # "BLOCK"
      BY <1>6, <1>7, <1>9
    <2>2. ASSUME name \in TracedAsHigherIsWorse
          PROVE  /\ traced.verdict = "BLOCK" =>
                       Grade(diffs) = "BLOCK" /\ business.verdict = "BLOCK"
                 /\ traced.verdict # "OK" =>
                       "OK" \notin {gate, Grade(diffs), business.verdict}
                 /\ delta <= 0 => traced.verdict = "OK"
      BY <1>6, <1>7, <1>9, <1>11, <1>13, <2>2
    <2> QED
      BY <1>5, <1>6, <1>7, <1>10, <1>12, <2>1, <2>2 DEF VerdictsOrdered
  <1> QED
    BY <1>8, <1>10, <1>14 DEF VerdictInv

LEMMA OverrideKeepsVerdict ==
    ASSUME VerdictInv, ApplyOverride
    PROVE  VerdictInv'
  <1>1. UNCHANGED <<verdictOf, question>>
    BY DEF ApplyOverride
  <1>2. \A u \in trace' : TraceKept(u) /\ \E t \in trace : u.verdict = t.verdict
    <2> SUFFICES ASSUME NEW u \in trace'
                 PROVE  TraceKept(u) /\ \E t \in trace : u.verdict = t.verdict
      OBVIOUS
    <2>1. PICK t \in trace :
              u = [t EXCEPT !.approvers = @ + 1,
                            !.evidence = @ \cup {[name |-> "none",
                                                  kind |-> "override_applied",
                                                  contribution |-> "Override"]}]
      BY DEF ApplyOverride
    <2>2. TraceKept(t)
      BY DEF VerdictInv
    <2>3. DOMAIN u = DOMAIN t /\ u.verdict = t.verdict
      BY <2>1, <2>2 DEF TraceKept
    <2>4. u = [k \in DOMAIN u |-> u[k]]
      BY <2>1, <2>3
    <2> QED
      BY <2>2, <2>3, <2>4 DEF TraceKept
  <1>3. VerdictsOrdered
    BY DEF VerdictInv
  <1>4. VerdictsOrdered'
    BY <1>1, <1>2, <1>3 DEF VerdictsOrdered
  <1> QED
    BY <1>2, <1>4 DEF VerdictInv

(* The four judges never decide against each other's reasons               *)
(* (risk.py:95-145, stats.py:277-301, business_risk.py:91-141,             *)
(* decision_trace.py:104-150).                                             *)
THEOREM VerdictsOrderedCorrect == Spec => []VerdictsOrdered
  <1>1. Init => VerdictInv
    BY DEF Init, VerdictInit, VerdictInv, VerdictsOrdered
  <1>2. VerdictInv /\ [Next]_releaseVars => VerdictInv'
    <2> SUFFICES ASSUME VerdictInv, [Next]_releaseVars PROVE VerdictInv'
      OBVIOUS
    <2>1. CASE Judge
      BY <2>1, JudgeOrders
    <2>2. CASE ApplyOverride
      BY <2>2, OverrideKeepsVerdict
    <2>3. CASE UNCHANGED verdictVars
      <3>1. UNCHANGED <<verdictOf, question, trace>>
        BY <2>3 DEF verdictVars
      <3> QED
        BY <3>1 DEF VerdictInv, VerdictsOrdered
    <2>4. VerdictStep \/ UNCHANGED verdictVars
      BY DEF Next, releaseVars, LedgerStep, HistoryStep, ConstitutionStep,
             GamingStep, SubmissionStep, PackageStep, MemoStep
    <2> QED
      BY <2>1, <2>2, <2>3, <2>4 DEF VerdictStep, VerdictNext
  <1>3. VerdictInv => VerdictsOrdered
    BY DEF VerdictInv
  <1> QED
    BY <1>1, <1>2, <1>3, PTL DEF Spec

-----------------------------------------------------------------------------
(***************************************************************************)
(* The records of a release (GovernanceRecords): the chain of custody      *)
(* tells the whole story of a package, and a memo owns to its risks.       *)
(***************************************************************************)
EventTypes == {"package_created", "artifact_added", "package_finalized"}
Event == [type : EventTypes, artifacts : SUBSET Nat]

(* How many artifacts have been added up to an event.                      *)
Count(events, k) == Cardinality(EventsOf("artifact_added", events) \cap (1..k))

PackageInv ==
    /\ package = [artifacts |-> package.artifacts, hash |-> package.hash,
                  approved |-> package.approved, events |-> package.events,
                  compliance |-> package.compliance]
    /\ package.events \in Seq(Event)
    /\ package.events # <<>>
    /\ IsPackage(package)
    /\ handed \subseteq Seq(Contents)
    /\ CustodyComplete

LEMMA CountTypes ==
    ASSUME NEW events \in Seq(Event), NEW k \in 0..Len(events)
    PROVE  /\ Count(events, k) \in Nat
           /\ Count(events, k) <= Count(events, Len(events))
  <1> DEFINE additions == EventsOf("artifact_added", events)
  <1>1. /\ 1 \in Int /\ Len(events) \in Int
        /\ (additions \cap (1..Len(events))) \in SUBSET (1..Len(events))
        /\ (additions \cap (1..k)) \in SUBSET (additions \cap (1..Len(events)))
    OBVIOUS
  <1> HIDE DEF additions
  <1>2. IsFiniteSet(1..Len(events))
    BY <1>1, FS_Interval
  <1>3. IsFiniteSet(additions \cap (1..Len(events)))
    BY <1>1, <1>2, FS_Subset
  <1>4. /\ IsFiniteSet(additions \cap (1..k))
        /\ Cardinality(additions \cap (1..k)) <= Cardinality(additions \cap (1..Len(events)))
    BY <1>1, <1>3, FS_Subset
  <1> QED
    BY <1>4, FS_CardinalityType DEF Count, additions

LEMMA PresentIsCount == \A events, k : Present(events, k) = 1..Count(events, k)
  BY DEF Present, Count

LEMMA IntervalsEqual ==
    ASSUME NEW m \in Nat, NEW n \in Nat, 1..m = 1..n
    PROVE  m = n
  <1>1. CASE m < n
    <2>1. n \in 1..n /\ n \notin 1..m
      BY <1>1
    <2> QED
      BY <2>1
  <1>2. CASE n < m
    <2>1. m \in 1..m /\ m \notin 1..n
      BY <1>2
    <2> QED
      BY <2>1
  <1> QED
    BY <1>1, <1>2

(* What another event changes, and what it does not.                       *)
LEMMA EventAdded ==
    ASSUME NEW events \in Seq(Event), NEW e \in Event
    PROVE  /\ Append(events, e) \in Seq(Event)
           /\ Append(events, e) # <<>>
           /\ Len(Append(events, e)) = Len(events) + 1
           /\ DOMAIN events = 1..Len(events)
           /\ DOMAIN Append(events, e) = 1..(Len(events) + 1)
           /\ Append(events, e)[Len(events) + 1] = e
           /\ \A k \in 1..Len(events) : Append(events, e)[k] = events[k]
           /\ \A type : EventsOf(type, Append(events, e)) =
                 EventsOf(type, events)
                   \cup (IF e.type = type THEN {Len(events) + 1} ELSE {})
           /\ \A k \in 0..Len(events) : Count(Append(events, e), k) = Count(events, k)
           /\ Count(Append(events, e), Len(events) + 1) =
                 Count(events, Len(events)) + (IF e.type = "artifact_added" THEN 1 ELSE 0)
  <1> DEFINE after == Append(events, e)
             n == Len(events)
             additions == EventsOf("artifact_added", events)
  <1>1. /\ after \in Seq(Event) /\ after # <<>> /\ Len(after) = n + 1 /\ n \in Nat
        /\ after[n + 1] = e /\ \A k \in 1..n : after[k] = events[k]
        /\ DOMAIN events = 1..n /\ DOMAIN after = 1..(n + 1)
    BY AppendProperties
  <1>2. ASSUME NEW type
        PROVE  EventsOf(type, after) =
                 EventsOf(type, events) \cup (IF e.type = type THEN {n + 1} ELSE {})
    <2> HIDE DEF after, n
    <2>1. EventsOf(type, after) = {k \in 1..(n + 1) : after[k].type = type}
      BY <1>1 DEF EventsOf
    <2>2. EventsOf(type, events) = {k \in 1..n : events[k].type = type}
      BY <1>1 DEF EventsOf
    <2>3. 1..(n + 1) = (1..n) \cup {n + 1}
      BY <1>1
    <2> QED
      BY <1>1, <2>1, <2>2, <2>3
  <1>3. additions \subseteq 1..n /\ IsFiniteSet(additions)
    <2>1. additions \in SUBSET (1..n) /\ 1 \in Int /\ n \in Int
      BY <1>1 DEF EventsOf
    <2> HIDE DEF additions, n
    <2> QED
      BY <2>1, FS_Interval, FS_Subset
  <1>4. EventsOf("artifact_added", after) =
           additions \cup (IF e.type = "artifact_added" THEN {n + 1} ELSE {})
    BY <1>2
  <1> HIDE DEF after, n, additions
  <1>5. ASSUME NEW k \in 0..n
        PROVE  Count(after, k) = Count(events, k)
    <2>1. n + 1 \notin 1..k
      BY <1>1
    <2>2. EventsOf("artifact_added", after) \cap (1..k) = additions \cap (1..k)
      BY <1>4, <2>1
    <2> QED
      BY <2>2 DEF Count, additions
  <1>6. Count(after, n + 1) =
           Count(events, n) + (IF e.type = "artifact_added" THEN 1 ELSE 0)
    <2>1. additions \cap (1..n) = additions /\ n + 1 \notin additions
      <3>1. n + 1 \notin 1..n
        BY <1>1
      <3>2. additions \cap (1..n) = additions
        BY <1>3, Zenon
      <3> QED
        BY <1>3, <3>1, <3>2, Zenon
    <2>2. additions \subseteq 1..(n + 1) /\ n + 1 \in 1..(n + 1)
      BY <1>1, <1>3
    <2>3. Count(events, n) = Cardinality(additions)
      BY <2>1 DEF Count, additions
    <2>4. Cardinality(additions) \in Nat
      BY <1>3, FS_CardinalityType
    <2>5. CASE e.type = "artifact_added"
      <3>1. EventsOf("artifact_added", after) \cap (1..(n + 1)) = additions \cup {n + 1}
        BY <1>4, <2>2, <2>5
      <3>2. Cardinality(additions \cup {n + 1}) = Cardinality(additions) + 1
        BY <1>3, <2>1, FS_AddElement
      <3> QED
        BY <2>3, <2>5, <3>1, <3>2 DEF Count
    <2>6. CASE e.type # "artifact_added"
      <3>1. EventsOf("artifact_added", after) \cap (1..(n + 1)) = additions
        BY <1>4, <2>2, <2>6
      <3>2. Count(after, n + 1) = Cardinality(additions)
        BY <3>1 DEF Count
      <3> QED
        BY <2>3, <2>4, <2>6, <3>2
    <2> QED
      BY <2>5, <2>6
  <1>7. \A type : EventsOf(type, after) =
           EventsOf(type, events) \cup (IF e.type = type THEN {n + 1} ELSE {})
    BY <1>2
  <1>8. \A k \in 0..n : Count(after, k) = Count(events, k)
    BY <1>5
  <1> QED
    BY <1>1, <1>6, <1>7, <1>8 DEF after, n

LEMMA PrefixGrows ==
    ASSUME NEW S, NEW s \in Seq(S), NEW t \in Seq(S), NEW x \in S, IsPrefix(s, t)
    PROVE  IsPrefix(s, Append(t, x)) /\ s # Append(t, x)
  <1> DEFINE k == Len(s)
  <1>1. /\ k \in Nat /\ Len(t) \in Nat /\ k <= Len(t)
        /\ SubSeq(s, 1, k) = SubSeq(t, 1, k)
    BY DEF IsPrefix
  <1>2. /\ Append(t, x) \in Seq(S) /\ Len(Append(t, x)) = Len(t) + 1
        /\ \A i \in 1..Len(t) : Append(t, x)[i] = t[i]
    BY AppendProperties
  <1> DEFINE longer == Append(t, x)
  <1> HIDE DEF k, longer
  <1>3. \A i \in 1..k : t[i] \in S /\ longer[i] \in S /\ longer[i] = t[i]
    BY <1>1, <1>2, ElementOfSeq DEF longer
  <1>4. 1 \in Int /\ k \in Int
    BY <1>1
  <1>5. /\ SubSeq(t, 1, k) \in Seq(S)
        /\ Len(SubSeq(t, 1, k)) = IF 1 <= k THEN k - 1 + 1 ELSE 0
        /\ \A i \in 1..(k - 1 + 1) : SubSeq(t, 1, k)[i] = t[1 + i - 1]
    BY <1>3, <1>4, SubSeqProperties
  <1>6. /\ SubSeq(longer, 1, k) \in Seq(S)
        /\ Len(SubSeq(longer, 1, k)) = IF 1 <= k THEN k - 1 + 1 ELSE 0
        /\ \A i \in 1..(k - 1 + 1) : SubSeq(longer, 1, k)[i] = longer[1 + i - 1]
    BY <1>3, <1>4, SubSeqProperties
  <1>7. Len(SubSeq(t, 1, k)) = k /\ Len(SubSeq(longer, 1, k)) = k
    BY <1>1, <1>5, <1>6
  <1>8. \A i \in 1..k : SubSeq(longer, 1, k)[i] = SubSeq(t, 1, k)[i]
    <2> TAKE i \in 1..k
    <2>1. i \in 1..(k - 1 + 1) /\ 1 + i - 1 = i
      BY <1>1
    <2> QED
      BY <1>3, <1>5, <1>6, <2>1
  <1>9. SubSeq(longer, 1, k) = SubSeq(t, 1, k)
    BY <1>5, <1>6, <1>7, <1>8, SeqEqual
  <1> QED
    BY <1>1, <1>2, <1>9 DEF IsPrefix, longer, k

LEMMA PrefixOfItself == \A s : IsPrefix(s, s) <=> Len(s) <= Len(s)
  BY DEF IsPrefix

(* The last of some positions is one of them.                              *)
LEMMA LastOfSome ==
    ASSUME NEW n \in Nat, NEW S \in SUBSET (1..n), S # {}
    PROVE  Max(S) \in S /\ \A y \in S : Max(S) >= y
  <1> DEFINE U == {m \in Nat : \A y \in S : m >= y}
  <1>1. n \in U
    OBVIOUS
  <1>2. PICK u \in U : \A m \in U : u <= m
    <2>1. U \in SUBSET Nat /\ U # {}
      BY <1>1
    <2> HIDE DEF U
    <2> QED
      BY <2>1, LeastNatural
  <1>3. u \in S
    <2> SUFFICES ASSUME u \notin S PROVE FALSE
      OBVIOUS
    <2>1. \A y \in S : u >= y /\ u # y /\ y \in 1..n
      BY <1>2
    <2>2. PICK y \in S : TRUE
      OBVIOUS
    <2>3. u \in Nat /\ u >= 1
      BY <1>2, <2>1, <2>2
    <2>4. u - 1 \in U
      BY <2>1, <2>3
    <2> QED
      BY <1>2, <2>3, <2>4
  <1>4. \A y \in S : u >= y
    BY <1>2
  <1> QED
    BY <1>3, <1>4 DEF Max

LEMMA LastAdded ==
    ASSUME NEW n \in Nat, NEW S \in SUBSET (1..n)
    PROVE  Max(S \cup {n + 1}) = n + 1
  <1>1. (S \cup {n + 1}) \in SUBSET (1..(n + 1)) /\ n + 1 \in Nat
        /\ S \cup {n + 1} # {}
    OBVIOUS
  <1>2. /\ Max(S \cup {n + 1}) \in S \cup {n + 1}
        /\ \A y \in S \cup {n + 1} : Max(S \cup {n + 1}) >= y
    BY <1>1, LastOfSome
  <1> DEFINE m == Max(S \cup {n + 1})
  <1>3. m \in S \cup {n + 1} /\ m >= n + 1 /\ S \subseteq 1..n
    BY <1>2
  <1> HIDE DEF m
  <1>4. m = n + 1
    <2>1. ASSUME m \in S PROVE FALSE
      <3>1. m \in 1..n
        BY <1>3, <2>1
      <3> QED
        BY <1>3, <3>1
    <2> QED
      BY <1>3, <2>1
  <1> QED
    BY <1>4 DEF m

(* The hash of the package is the sequence of its contents.                *)
LEMMA HashTypes ==
    ASSUME NEW artifacts \in Seq(Artifact)
    PROVE  /\ PackageHash(artifacts) \in Seq(Contents)
           /\ \A a \in Artifact : PackageHash(Append(artifacts, a))
                 = Append(PackageHash(artifacts), a.content)
  <1>1. /\ Len(artifacts) \in Nat /\ DOMAIN artifacts = 1..Len(artifacts)
        /\ \A i \in 1..Len(artifacts) : artifacts[i] \in Artifact
    BY LenProperties, ElementOfSeq
  <1>2. \A i \in 1..Len(artifacts) : artifacts[i].content \in Contents
    BY <1>1 DEF Artifact
  <1>3. PackageHash(artifacts) = [i \in 1..Len(artifacts) |-> artifacts[i].content]
    BY <1>1 DEF PackageHash
  <1>4. PackageHash(artifacts) \in Seq(Contents) /\ Len(PackageHash(artifacts)) = Len(artifacts)
    BY <1>1, <1>2, <1>3
  <1>5. ASSUME NEW a \in Artifact
        PROVE  PackageHash(Append(artifacts, a)) = Append(PackageHash(artifacts), a.content)
    <2> DEFINE longer == Append(artifacts, a)
               hash == PackageHash(artifacts)
    <2>1. /\ DOMAIN longer = 1..(Len(artifacts) + 1)
          /\ longer[Len(artifacts) + 1] = a
          /\ \A i \in 1..Len(artifacts) : longer[i] = artifacts[i]
      BY <1>1, AppendProperties
    <2>2. a.content \in Contents
      BY DEF Artifact
    <2>3. /\ Append(hash, a.content) = [i \in 1..(Len(artifacts) + 1) |->
                 Append(hash, a.content)[i]]
          /\ Append(hash, a.content)[Len(artifacts) + 1] = a.content
          /\ \A i \in 1..Len(artifacts) : Append(hash, a.content)[i] = hash[i]
      BY <1>1, <1>4, <2>2, AppendProperties, LenProperties
    <2>4. \A i \in 1..Len(artifacts) : hash[i] = artifacts[i].content
      BY <1>3
    <2>5. PackageHash(longer) = [i \in 1..(Len(artifacts) + 1) |-> longer[i].content]
      BY <2>1 DEF PackageHash
    <2> HIDE DEF longer, hash
    <2>6. \A i \in 1..(Len(artifacts) + 1) :
             longer[i].content = Append(hash, a.content)[i]
      <3> TAKE i \in 1..(Len(artifacts) + 1)
      <3>1. i \in 1..Len(artifacts) \/ i = Len(artifacts) + 1
        BY <1>1
      <3> QED
        BY <2>1, <2>3, <2>4, <3>1
    <2>7. PackageHash(longer) = Append(hash, a.content)
      BY <2>3, <2>5, <2>6
    <2> QED
      BY <2>7 DEF longer, hash
  <1> QED
    BY <1>4, <1>5

LEMMA PackageInvInit == RecordsInit => PackageInv
  <1> SUFFICES ASSUME RecordsInit PROVE PackageInv
    OBVIOUS
  <1> DEFINE e == CustodyEvent("package_created", {})
  <1>1. /\ package = [artifacts |-> <<>>, hash |-> PackageHash(<<>>), approved |-> FALSE,
                      events |-> <<e>>, compliance |-> <<>>]
        /\ handed = {}
    BY DEF RecordsInit, NewPackage
  <1>2. e \in Event /\ e.type = "package_created"
    BY DEF Event, EventTypes, CustodyEvent
  <1> HIDE DEF e
  <1>3. /\ package.artifacts = <<>> /\ package.hash = PackageHash(<<>>)
        /\ package.approved = FALSE /\ package.events = <<e>> /\ package.compliance = <<>>
        /\ package = [artifacts |-> package.artifacts, hash |-> package.hash,
                      approved |-> package.approved, events |-> package.events,
                      compliance |-> package.compliance]
    BY <1>1
  <1>4. /\ <<e>> \in Seq(Event) /\ <<e>> # <<>> /\ Len(<<e>>) = 1
        /\ DOMAIN <<e>> = {1} /\ <<e>>[1] = e
    BY <1>2
  <1>5. <<>> \in Seq(Artifact) /\ Len(<<>>) = 0 /\ DOMAIN <<>> = {}
    OBVIOUS
  <1>6. PackageHash(<<>>) \in Seq(Contents)
    BY <1>5, HashTypes
  <1>7. EventsOf("package_finalized", <<e>>) = {} /\ EventsOf("artifact_added", <<e>>) = {}
    BY <1>2, <1>4 DEF EventsOf
  <1>8. Count(<<e>>, 1) = 0
    BY <1>7, FS_EmptySet DEF Count
  <1>9. Present(<<e>>, 1) = {}
    BY <1>8, PresentIsCount
  <1>10. DOMAIN <<>> = UNION {Requirements[s] : s \in {}} /\ {} \in SUBSET DOMAIN Requirements
    BY <1>5
  <1>11. IsPackage(package)
    <2>1. \A k \in DOMAIN package.events :
             package.events[k].type \in {"package_created", "artifact_added",
                                         "package_finalized"}
      BY <1>2, <1>3, <1>4
    <2>2. \E standards \in SUBSET DOMAIN Requirements :
             DOMAIN package.compliance = UNION {Requirements[s] : s \in standards}
      BY <1>3, <1>10
    <2> QED
      BY <1>3, <1>5, <1>6, <2>1, <2>2 DEF IsPackage
  <1>12. CustodyComplete
    BY <1>1, <1>2, <1>3, <1>4, <1>5, <1>7, <1>9 DEF CustodyComplete
  <1> QED
    BY <1>1, <1>3, <1>4, <1>11, <1>12 DEF PackageInv

(* What the invariant says of the parts of the package.                    *)
LEMMA PackageFacts ==
    ASSUME PackageInv
    PROVE  /\ package.artifacts \in Seq(Artifact)
           /\ Len(package.artifacts) \in Nat
           /\ DOMAIN package.artifacts = 1..Len(package.artifacts)
           /\ package.hash \in Seq(Contents)
           /\ package.hash = PackageHash(package.artifacts)
           /\ Len(package.events) \in Nat \ {0}
           /\ DOMAIN package.events = 1..Len(package.events)
           /\ Count(package.events, Len(package.events)) = Len(package.artifacts)
  <1>1. /\ package.artifacts \in Seq(Artifact)
        /\ package.hash \in Seq(Contents)
        /\ package.events \in Seq(Event) /\ package.events # <<>>
    BY DEF PackageInv, IsPackage
  <1>2. /\ Len(package.artifacts) \in Nat
        /\ DOMAIN package.artifacts = 1..Len(package.artifacts)
        /\ Len(package.events) \in Nat \ {0}
        /\ DOMAIN package.events = 1..Len(package.events)
    BY <1>1, LenProperties, EmptySeq
  <1>3. /\ package.hash = PackageHash(package.artifacts)
        /\ Present(package.events, Len(package.events)) = DOMAIN package.artifacts
    BY DEF PackageInv, CustodyComplete
  <1>4. Count(package.events, Len(package.events)) \in Nat
    BY <1>1, <1>2, CountTypes
  <1>5. Count(package.events, Len(package.events)) = Len(package.artifacts)
    BY <1>2, <1>3, <1>4, PresentIsCount, IntervalsEqual
  <1> QED
    BY <1>1, <1>2, <1>3, <1>5

LEMMA AddArtifactKeeps ==
    ASSUME PackageInv, NEW a \in Artifact, AddArtifact(a)
    PROVE  PackageInv'
  <1> DEFINE A == package.artifacts
             E == package.events
             n == Len(package.events)
             e == CustodyEvent("artifact_added", {Len(A) + 1})
             A2 == Append(A, a)
             E2 == Append(E, e)
             finals == EventsOf("package_finalized", E)
             additions == EventsOf("artifact_added", E)
  <1>1. /\ A \in Seq(Artifact) /\ Len(A) \in Nat /\ DOMAIN A = 1..Len(A)
        /\ package.hash \in Seq(Contents) /\ package.hash = PackageHash(A)
        /\ n \in Nat \ {0} /\ DOMAIN E = 1..n /\ Count(E, n) = Len(A)
    BY PackageFacts
  <1>2. /\ package = [artifacts |-> package.artifacts, hash |-> package.hash,
                      approved |-> package.approved, events |-> package.events,
                      compliance |-> package.compliance]
        /\ E \in Seq(Event) /\ IsPackage(package) /\ handed \subseteq Seq(Contents)
    BY DEF PackageInv
  <1>3. /\ E[1].type = "package_created"
        /\ \A k \in additions : E[k].artifacts = Present(E, k) \ Present(E, k - 1)
        /\ \A k \in finals : E[k].artifacts = Present(E, k)
        /\ package.approved <=> finals # {}
        /\ handed # {} <=> finals # {}
        /\ \A hash \in handed :
              /\ IsPrefix(hash, package.hash)
              /\ hash = package.hash <=> Present(E, Max(finals)) = DOMAIN A
        /\ \A r \in DOMAIN package.compliance :
              /\ package.compliance[r] \subseteq DOMAIN A
              /\ r \in Requirements.EU_AI_ACT =>
                    \E m \in 0..Len(A) : package.compliance[r] = 1..m
    BY DEF PackageInv, CustodyComplete
  <1>4. /\ package' = [package EXCEPT !.artifacts = A2, !.events = E2,
                                      !.hash = PackageHash(A2)]
        /\ handed' = handed
    BY DEF AddArtifact
  <1>5. /\ package'.artifacts = A2 /\ package'.events = E2
        /\ package'.hash = PackageHash(A2) /\ package'.approved = package.approved
        /\ package'.compliance = package.compliance
        /\ package' = [artifacts |-> package'.artifacts, hash |-> package'.hash,
                       approved |-> package'.approved, events |-> package'.events,
                       compliance |-> package'.compliance]
    BY <1>2, <1>4
  <1>6. e \in Event /\ e.type = "artifact_added" /\ e.artifacts = {Len(A) + 1}
    BY <1>1 DEF Event, EventTypes, CustodyEvent
  <1>7. /\ A2 \in Seq(Artifact) /\ Len(A2) = Len(A) + 1 /\ DOMAIN A2 = 1..(Len(A) + 1)
        /\ PackageHash(A2) = Append(package.hash, a.content)
        /\ PackageHash(A2) \in Seq(Contents)
    <2>1. A2 \in Seq(Artifact) /\ Len(A2) = Len(A) + 1
      BY <1>1, AppendProperties
    <2>2. DOMAIN A2 = 1..(Len(A) + 1)
      BY <2>1, LenProperties
    <2>3. PackageHash(A2) = Append(PackageHash(A), a.content)
      BY <1>1, HashTypes
    <2>4. PackageHash(A2) \in Seq(Contents)
      BY <2>1, HashTypes
    <2> QED
      BY <1>1, <2>1, <2>2, <2>3, <2>4
  <1>8. a.content \in Contents
    BY DEF Artifact
  <1> HIDE DEF e
  <1>9. /\ E2 \in Seq(Event) /\ E2 # <<>> /\ Len(E2) = n + 1
        /\ DOMAIN E2 = 1..(n + 1) /\ E2[n + 1] = e
        /\ \A k \in 1..n : E2[k] = E[k]
        /\ \A type : EventsOf(type, E2) =
              EventsOf(type, E) \cup (IF e.type = type THEN {n + 1} ELSE {})
        /\ \A k \in 0..n : Count(E2, k) = Count(E, k)
        /\ Count(E2, n + 1) = Count(E, n) + (IF e.type = "artifact_added" THEN 1 ELSE 0)
    BY <1>2, <1>6, <1>1, EventAdded
  <1>10. /\ EventsOf("package_finalized", E2) = finals
         /\ EventsOf("artifact_added", E2) = additions \cup {n + 1}
         /\ Count(E2, n + 1) = Len(A) + 1
    BY <1>1, <1>6, <1>9
  <1>11. finals \subseteq 1..n /\ additions \subseteq 1..n
    BY <1>1 DEF EventsOf
  <1>12. /\ \A k \in 0..n : Present(E2, k) = Present(E, k)
         /\ Present(E2, n + 1) = 1..(Len(A) + 1)
         /\ Present(E, n) = 1..Len(A)
    BY <1>1, <1>9, <1>10, PresentIsCount
  <1> HIDE DEF A, E, n, A2, E2, finals, additions
  <1>13. IsPackage(package')
    <2>1. \A k \in DOMAIN E2 : E2[k].type \in {"package_created", "artifact_added",
                                               "package_finalized"}
      <3>1. \A k \in 1..Len(E2) : E2[k] \in Event
        BY <1>9, ElementOfSeq
      <3>2. \A x \in Event : x.type \in {"package_created", "artifact_added",
                                         "package_finalized"}
        BY DEF Event, EventTypes
      <3> QED
        BY <1>9, <3>1, <3>2
    <2> QED
      BY <1>2, <1>5, <1>7, <2>1 DEF IsPackage
  <1>14. E2[1].type = "package_created"
    BY <1>1, <1>3, <1>9
  <1>15. \A k \in additions \cup {n + 1} : E2[k].artifacts = Present(E2, k) \ Present(E2, k - 1)
    <2>1. ASSUME NEW k \in additions
          PROVE  E2[k].artifacts = Present(E2, k) \ Present(E2, k - 1)
      <3>1. k \in 1..n /\ k \in 0..n /\ k - 1 \in 0..n
        BY <1>1, <1>11
      <3> QED
        BY <1>3, <1>9, <1>12, <3>1
    <2>2. Present(E2, (n + 1) - 1) = 1..Len(A)
      <3>1. (n + 1) - 1 = n /\ n \in 0..n
        BY <1>1
      <3> QED
        BY <1>12, <3>1
    <2>3. (1..(Len(A) + 1)) \ (1..Len(A)) = {Len(A) + 1}
      BY <1>1
    <2>4. E2[n + 1].artifacts = Present(E2, n + 1) \ Present(E2, (n + 1) - 1)
      <3>1. E2[n + 1].artifacts = {Len(A) + 1}
        BY <1>6, <1>9
      <3>2. Present(E2, n + 1) = 1..(Len(A) + 1)
        BY <1>12
      <3> QED
        BY <2>2, <2>3, <3>1, <3>2
    <2> DEFINE Told(k) == E2[k].artifacts = Present(E2, k) \ Present(E2, k - 1)
    <2>5. Told(n + 1)
      BY <2>4
    <2>6. \A k \in additions : Told(k)
      BY <2>1
    <2> HIDE DEF Told
    <2>7. \A k \in additions \cup {n + 1} : Told(k)
      BY <2>5, <2>6
    <2> QED
      BY <2>7 DEF Told
  <1>16. \A k \in finals : E2[k].artifacts = Present(E2, k)
    <2> TAKE k \in finals
    <2>1. k \in 1..n /\ k \in 0..n
      BY <1>11
    <2> QED
      BY <1>3, <1>9, <1>12, <2>1
  <1>17. ASSUME NEW hash \in handed
         PROVE  /\ IsPrefix(hash, PackageHash(A2))
                /\ hash # PackageHash(A2)
                /\ Present(E2, Max(finals)) # 1..(Len(A) + 1)
    <2>1. hash \in Seq(Contents) /\ IsPrefix(hash, package.hash)
      BY <1>2, <1>3
    <2>2. IsPrefix(hash, PackageHash(A2)) /\ hash # PackageHash(A2)
      BY <1>1, <1>7, <1>8, <2>1, PrefixGrows
    <2>3. Max(finals) \in 1..n
      BY <1>1, <1>3, <1>11, LastOfSome
    <2>4. Max(finals) \in 0..n
      BY <1>1, <2>3
    <2>5. Count(E, Max(finals)) \in Nat /\ Count(E, Max(finals)) <= Len(A)
      BY <1>1, <1>2, <2>4, CountTypes DEF n, E
    <2>6. Present(E2, Max(finals)) = 1..Count(E, Max(finals))
      BY <1>12, <2>4, PresentIsCount
    <2>7. Len(A) + 1 \in Nat /\ Count(E, Max(finals)) # Len(A) + 1
      BY <1>1, <2>5
    <2> QED
      BY <2>2, <2>5, <2>6, <2>7, IntervalsEqual
  <1>18. \A r \in DOMAIN package.compliance :
            /\ package.compliance[r] \subseteq 1..(Len(A) + 1)
            /\ r \in Requirements.EU_AI_ACT =>
                  \E m \in 0..Len(A2) : package.compliance[r] = 1..m
    <2>1. 1..Len(A) \subseteq 1..(Len(A) + 1) /\ 0..Len(A) \subseteq 0..Len(A2)
      BY <1>1, <1>7
    <2> QED
      BY <1>1, <1>3, <2>1
  <1>19. CustodyComplete'
    <2>1. CustodyComplete' <=>
              /\ E2[1].type = "package_created"
              /\ Present(E2, Len(E2)) = DOMAIN A2
              /\ \A k \in EventsOf("artifact_added", E2) :
                    E2[k].artifacts = Present(E2, k) \ Present(E2, k - 1)
              /\ PackageHash(A2) = PackageHash(A2)
              /\ \A k \in EventsOf("package_finalized", E2) :
                    E2[k].artifacts = Present(E2, k)
              /\ package'.approved <=> EventsOf("package_finalized", E2) # {}
              /\ handed' # {} <=> EventsOf("package_finalized", E2) # {}
              /\ \A hash \in handed' :
                    /\ IsPrefix(hash, PackageHash(A2))
                    /\ hash = PackageHash(A2)
                          <=> Present(E2, Max(EventsOf("package_finalized", E2))) = DOMAIN A2
              /\ \A r \in DOMAIN package'.compliance :
                    /\ package'.compliance[r] \subseteq DOMAIN A2
                    /\ r \in Requirements.EU_AI_ACT =>
                          \E m \in 0..Len(A2) : package'.compliance[r] = 1..m
      BY <1>5 DEF CustodyComplete
    <2>2. Present(E2, Len(E2)) = DOMAIN A2
      BY <1>7, <1>9, <1>12
    <2>3. \A hash \in handed' :
              /\ IsPrefix(hash, PackageHash(A2))
              /\ hash = PackageHash(A2) <=> Present(E2, Max(finals)) = DOMAIN A2
      BY <1>4, <1>7, <1>17
    <2> QED
      BY <1>3, <1>4, <1>5, <1>7, <1>10, <1>14, <1>15, <1>16, <1>18, <2>1, <2>2, <2>3
  <1> QED
    BY <1>2, <1>4, <1>5, <1>9, <1>13, <1>19 DEF PackageInv

LEMMA FinalizeKeeps ==
    ASSUME PackageInv, FinalizePackage
    PROVE  PackageInv'
  <1> DEFINE A == package.artifacts
             E == package.events
             n == Len(package.events)
             e == CustodyEvent("package_finalized", DOMAIN A)
             E2 == Append(E, e)
             finals == EventsOf("package_finalized", E)
             additions == EventsOf("artifact_added", E)
  <1>1. /\ A \in Seq(Artifact) /\ Len(A) \in Nat /\ DOMAIN A = 1..Len(A)
        /\ package.hash \in Seq(Contents) /\ package.hash = PackageHash(A)
        /\ n \in Nat \ {0} /\ DOMAIN E = 1..n /\ Count(E, n) = Len(A)
    BY PackageFacts
  <1>2. /\ package = [artifacts |-> package.artifacts, hash |-> package.hash,
                      approved |-> package.approved, events |-> package.events,
                      compliance |-> package.compliance]
        /\ E \in Seq(Event) /\ IsPackage(package)
    BY DEF PackageInv
  <1>3. /\ E[1].type = "package_created"
        /\ \A k \in additions : E[k].artifacts = Present(E, k) \ Present(E, k - 1)
        /\ \A k \in finals : E[k].artifacts = Present(E, k)
        /\ \A r \in DOMAIN package.compliance :
              /\ package.compliance[r] \subseteq DOMAIN A
              /\ r \in Requirements.EU_AI_ACT =>
                    \E m \in 0..Len(A) : package.compliance[r] = 1..m
    BY DEF PackageInv, CustodyComplete
  <1>4. package' = [package EXCEPT !.approved = TRUE, !.events = E2,
                                   !.hash = PackageHash(A)]
    BY DEF FinalizePackage
  <1>5. /\ package'.artifacts = A /\ package'.events = E2
        /\ package'.hash = PackageHash(A) /\ package'.approved = TRUE
        /\ package'.compliance = package.compliance
        /\ package' = [artifacts |-> package'.artifacts, hash |-> package'.hash,
                       approved |-> package'.approved, events |-> package'.events,
                       compliance |-> package'.compliance]
    BY <1>2, <1>4
  <1>6. handed' = {PackageHash(A)}
    BY <1>5 DEF FinalizePackage
  <1>7. e \in Event /\ e.type = "package_finalized" /\ e.artifacts = 1..Len(A)
    BY <1>1 DEF Event, EventTypes, CustodyEvent
  <1> HIDE DEF e
  <1>8. /\ E2 \in Seq(Event) /\ E2 # <<>> /\ Len(E2) = n + 1
        /\ DOMAIN E2 = 1..(n + 1) /\ E2[n + 1] = e
        /\ \A k \in 1..n : E2[k] = E[k]
        /\ \A type : EventsOf(type, E2) =
              EventsOf(type, E) \cup (IF e.type = type THEN {n + 1} ELSE {})
        /\ \A k \in 0..n : Count(E2, k) = Count(E, k)
        /\ Count(E2, n + 1) = Count(E, n) + (IF e.type = "artifact_added" THEN 1 ELSE 0)
    BY <1>1, <1>2, <1>7, EventAdded
  <1>9. /\ EventsOf("package_finalized", E2) = finals \cup {n + 1}
        /\ EventsOf("artifact_added", E2) = additions
        /\ Count(E2, n + 1) = Len(A)
    <2>1. EventsOf("package_finalized", E2) = finals \cup {n + 1}
      BY <1>7, <1>8
    <2>2. EventsOf("artifact_added", E2) = additions
      BY <1>7, <1>8
    <2>3. Count(E2, n + 1) = Count(E, n) + 0
      BY <1>7, <1>8
    <2> QED
      BY <1>1, <2>1, <2>2, <2>3
  <1>10. finals \subseteq 1..n /\ additions \subseteq 1..n
    BY <1>1 DEF EventsOf
  <1>11. /\ \A k \in 0..n : Present(E2, k) = Present(E, k)
         /\ Present(E2, n + 1) = 1..Len(A)
    BY <1>1, <1>8, <1>9, PresentIsCount
  <1> HIDE DEF A, E, n, E2, finals, additions
  <1>12. IsPackage(package')
    <2>1. \A k \in DOMAIN E2 : E2[k].type \in {"package_created", "artifact_added",
                                               "package_finalized"}
      <3>1. \A k \in 1..Len(E2) : E2[k] \in Event
        BY <1>8, ElementOfSeq
      <3>2. \A x \in Event : x.type \in {"package_created", "artifact_added",
                                         "package_finalized"}
        BY DEF Event, EventTypes
      <3> QED
        BY <1>8, <3>1, <3>2
    <2> QED
      BY <1>1, <1>2, <1>5, <2>1 DEF IsPackage
  <1>13. E2[1].type = "package_created"
    BY <1>1, <1>3, <1>8
  <1>14. \A k \in additions : E2[k].artifacts = Present(E2, k) \ Present(E2, k - 1)
    <2> TAKE k \in additions
    <2>1. k \in 1..n /\ k \in 0..n /\ k - 1 \in 0..n
      BY <1>1, <1>10
    <2> QED
      BY <1>3, <1>8, <1>11, <2>1
  <1>15. \A k \in finals \cup {n + 1} : E2[k].artifacts = Present(E2, k)
    <2>1. ASSUME NEW k \in finals
          PROVE  E2[k].artifacts = Present(E2, k)
      <3>1. k \in 1..n /\ k \in 0..n
        BY <1>10
      <3> QED
        BY <1>3, <1>8, <1>11, <3>1
    <2>2. E2[n + 1].artifacts = Present(E2, n + 1)
      BY <1>7, <1>8, <1>11
    <2> QED
      BY <2>1, <2>2
  <1>16. Max(finals \cup {n + 1}) = n + 1
    BY <1>1, <1>10, LastAdded
  <1>17. IsPrefix(PackageHash(A), PackageHash(A))
    <2>1. Len(PackageHash(A)) \in Nat
      BY <1>1, LenProperties
    <2> QED
      BY <2>1 DEF IsPrefix
  <1>18. CustodyComplete'
    <2>1. CustodyComplete' <=>
              /\ E2[1].type = "package_created"
              /\ Present(E2, Len(E2)) = DOMAIN A
              /\ \A k \in EventsOf("artifact_added", E2) :
                    E2[k].artifacts = Present(E2, k) \ Present(E2, k - 1)
              /\ PackageHash(A) = PackageHash(A)
              /\ \A k \in EventsOf("package_finalized", E2) :
                    E2[k].artifacts = Present(E2, k)
              /\ package'.approved <=> EventsOf("package_finalized", E2) # {}
              /\ handed' # {} <=> EventsOf("package_finalized", E2) # {}
              /\ \A hash \in handed' :
                    /\ IsPrefix(hash, PackageHash(A))
                    /\ hash = PackageHash(A)
                          <=> Present(E2, Max(EventsOf("package_finalized", E2))) = DOMAIN A
              /\ \A r \in DOMAIN package'.compliance :
                    /\ package'.compliance[r] \subseteq DOMAIN A
                    /\ r \in Requirements.EU_AI_ACT =>
                          \E m \in 0..Len(A) : package'.compliance[r] = 1..m
      BY <1>5 DEF CustodyComplete
    <2>2. Present(E2, Len(E2)) = DOMAIN A
      BY <1>1, <1>8, <1>11
    <2>3. \A hash \in handed' :
              /\ IsPrefix(hash, PackageHash(A))
              /\ hash = PackageHash(A) <=> Present(E2, Max(finals \cup {n + 1})) = DOMAIN A
      BY <1>1, <1>6, <1>11, <1>16, <1>17
    <2>4. /\ package'.approved <=> finals \cup {n + 1} # {}
          /\ handed' # {} <=> finals \cup {n + 1} # {}
      <3>1. finals \cup {n + 1} # {} /\ handed' # {} /\ package'.approved = TRUE
        BY <1>5, <1>6
      <3> QED
        BY <3>1
    <2>5. \A r \in DOMAIN package'.compliance :
              /\ package'.compliance[r] \subseteq DOMAIN A
              /\ r \in Requirements.EU_AI_ACT =>
                    \E m \in 0..Len(A) : package'.compliance[r] = 1..m
      BY <1>3, <1>5
    <2> QED
      BY <1>9, <1>13, <1>14, <1>15, <2>1, <2>2, <2>3, <2>4, <2>5
  <1> QED
    BY <1>1, <1>5, <1>6, <1>8, <1>12, <1>18 DEF PackageInv

LEMMA ComplianceKeeps ==
    ASSUME PackageInv, NEW standards \in SUBSET DOMAIN Requirements,
           GenerateCompliance(standards)
    PROVE  PackageInv'
  <1> DEFINE A == package.artifacts
             C == [r \in UNION {Requirements[s] : s \in standards} |-> EvidenceFor(r)]
  <1>1. A \in Seq(Artifact) /\ Len(A) \in Nat /\ DOMAIN A = 1..Len(A)
    BY PackageFacts
  <1>2. /\ package = [artifacts |-> package.artifacts, hash |-> package.hash,
                      approved |-> package.approved, events |-> package.events,
                      compliance |-> package.compliance]
        /\ IsPackage(package) /\ CustodyComplete
    BY DEF PackageInv
  <1>3. package' = [package EXCEPT !.compliance = C] /\ handed' = handed
    BY DEF GenerateCompliance
  <1>4. DOMAIN C = UNION {Requirements[s] : s \in standards}
    OBVIOUS
  <1>5. \A r \in DOMAIN C : C[r] = EvidenceFor(r)
    OBVIOUS
  <1>6. \A r : EvidenceFor(r) \subseteq DOMAIN A
    BY DEF EvidenceFor, OfType
  <1>7. \A r \in Requirements.EU_AI_ACT : EvidenceFor(r) = 1..Len(A)
    BY <1>1 DEF EvidenceFor, Requirements
  <1> HIDE DEF C
  <1>8. /\ package'.artifacts = A /\ package'.events = package.events
        /\ package'.hash = package.hash /\ package'.approved = package.approved
        /\ package'.compliance = C
        /\ package' = [artifacts |-> package'.artifacts, hash |-> package'.hash,
                       approved |-> package'.approved, events |-> package'.events,
                       compliance |-> package'.compliance]
    BY <1>2, <1>3
  <1> HIDE DEF A
  <1>9. \A r \in DOMAIN C :
            /\ C[r] \subseteq DOMAIN A
            /\ r \in Requirements.EU_AI_ACT => \E m \in 0..Len(A) : C[r] = 1..m
    <2>1. Len(A) \in 0..Len(A)
      BY <1>1
    <2> QED
      BY <1>5, <1>6, <1>7, <2>1
  <1>10. IsPackage(package')
    <2>1. \E s \in SUBSET DOMAIN Requirements :
              DOMAIN package'.compliance = UNION {Requirements[t] : t \in s}
      BY <1>4, <1>8
    <2> QED
      BY <1>2, <1>8, <2>1 DEF IsPackage, A
  <1>11. CustodyComplete'
    BY <1>2, <1>3, <1>8, <1>9 DEF CustodyComplete, A
  <1> QED
    BY <1>3, <1>8, <1>10, <1>11 DEF PackageInv

LEMMA PackageStepKeeps == PackageInv /\ PackageStep => PackageInv'
  <1> SUFFICES ASSUME PackageInv, PackageStep PROVE PackageInv'
    OBVIOUS
  <1>1. ASSUME NEW type \in ArtifactTypes, NEW c \in Contents,
               AddArtifact([type |-> type, content |-> c])
        PROVE  PackageInv'
    <2>1. [type |-> type, content |-> c] \in Artifact
      BY DEF Artifact
    <2> QED
      BY <1>1, <2>1, AddArtifactKeeps
  <1>2. CASE AddMetrics \/ AddDecision
    BY <1>1, <1>2 DEF AddMetrics, AddDecision, ArtifactTypes
  <1>3. CASE \E standards \in SUBSET DOMAIN Requirements : GenerateCompliance(standards)
    BY <1>3, ComplianceKeeps
  <1>4. CASE FinalizePackage
    BY <1>4, FinalizeKeeps
  <1> QED
    BY <1>2, <1>3, <1>4 DEF PackageStep

LEMMA PackageInvStays == PackageInv /\ UNCHANGED <<package, handed>> => PackageInv'
  BY DEF PackageInv, IsPackage, CustodyComplete

-----------------------------------------------------------------------------
(* The score of a risk, and how it moves with the metric.                  *)
RiskMetrics == DOMAIN RiskThresholds

ScoreAt(metric, value) ==
    LET t == RiskThresholds[metric]
        score == (2000 * (value - t.warn)) \div (t.block - t.warn)
    IN  IF score > 2000 THEN 2000 ELSE score

Warn(metric) == RiskThresholds[metric].warn

Measured(metrics) == \A m \in DOMAIN metrics : metrics[m] \in Int

LEMMA ThresholdFacts ==
    /\ RiskMetrics = {"violation_rate", "delayed_failure_rate", "policy_erosion_slope"}
    /\ RiskThresholds["violation_rate"].warn = 80
    /\ RiskThresholds["violation_rate"].block = 120
    /\ RiskThresholds["delayed_failure_rate"].warn = 250
    /\ RiskThresholds["delayed_failure_rate"].block = 350
    /\ RiskThresholds["policy_erosion_slope"].warn = 120
    /\ RiskThresholds["policy_erosion_slope"].block = 200
  BY DEF RiskThresholds, RiskMetrics

LEMMA RiskMetricsFinite == IsFiniteSet(RiskMetrics)
  <1>1. IsFiniteSet({"violation_rate"} \cup {"delayed_failure_rate"})
    BY FS_Singleton, FS_AddElement
  <1>2. IsFiniteSet(({"violation_rate"} \cup {"delayed_failure_rate"})
                       \cup {"policy_erosion_slope"})
    BY <1>1, FS_AddElement
  <1>3. RiskMetrics = ({"violation_rate"} \cup {"delayed_failure_rate"})
                          \cup {"policy_erosion_slope"}
    BY ThresholdFacts
  <1> QED
    BY <1>2, <1>3

LEMMA ScoreGrows ==
    ASSUME NEW metric \in RiskMetrics, NEW v \in Int, NEW w \in Int,
           v > Warn(metric), v <= w
    PROVE  /\ Warn(metric) \in Int
           /\ ScoreAt(metric, v) \in 0..2000 /\ ScoreAt(metric, w) \in 0..2000
           /\ ScoreAt(metric, v) <= ScoreAt(metric, w)
  <1>1. CASE metric = "violation_rate"
    <2>1. /\ ScoreAt(metric, v) = IF (2000 * (v - 80)) \div 40 > 2000 THEN 2000
                                ELSE (2000 * (v - 80)) \div 40
          /\ ScoreAt(metric, w) = IF (2000 * (w - 80)) \div 40 > 2000 THEN 2000
                                ELSE (2000 * (w - 80)) \div 40
          /\ Warn(metric) = 80
      BY <1>1, ThresholdFacts DEF ScoreAt, Warn
    <2> QED
      BY <2>1
  <1>2. CASE metric = "delayed_failure_rate"
    <2>1. /\ ScoreAt(metric, v) = IF (2000 * (v - 250)) \div 100 > 2000 THEN 2000
                                ELSE (2000 * (v - 250)) \div 100
          /\ ScoreAt(metric, w) = IF (2000 * (w - 250)) \div 100 > 2000 THEN 2000
                                ELSE (2000 * (w - 250)) \div 100
          /\ Warn(metric) = 250
      BY <1>2, ThresholdFacts DEF ScoreAt, Warn
    <2> QED
      BY <2>1
  <1>3. CASE metric = "policy_erosion_slope"
    <2>1. /\ ScoreAt(metric, v) = IF (2000 * (v - 120)) \div 80 > 2000 THEN 2000
                                ELSE (2000 * (v - 120)) \div 80
          /\ ScoreAt(metric, w) = IF (2000 * (w - 120)) \div 80 > 2000 THEN 2000
                                ELSE (2000 * (w - 120)) \div 80
          /\ Warn(metric) = 120
      BY <1>3, ThresholdFacts DEF ScoreAt, Warn
    <2> QED
      BY <2>1
  <1> QED
    BY <1>1, <1>2, <1>3, ThresholdFacts

(* A metric is no risk, or one with its score.                             *)
LEMMA RiskOfMetric ==
    ASSUME NEW metric \in RiskMetrics, NEW value \in Int
    PROVE  /\ Warn(metric) \in Int
           /\ value <= Warn(metric) => MetricToRisk(metric, value) = {}
           /\ value > Warn(metric) =>
                 \E r \in ResidualRisk : /\ MetricToRisk(metric, value) = {r}
                                         /\ r.metric = metric
                                         /\ r.score = ScoreAt(metric, value)
  <1>1. Warn(metric) \in Int
    BY ThresholdFacts DEF Warn
  <1>2. ASSUME value <= Warn(metric)
        PROVE  MetricToRisk(metric, value) = {}
    BY <1>2 DEF MetricToRisk, Warn
  <1>3. ASSUME value > Warn(metric)
        PROVE  \E r \in ResidualRisk : /\ MetricToRisk(metric, value) = {r}
                                       /\ r.metric = metric
                                       /\ r.score = ScoreAt(metric, value)
    <2> DEFINE likelihood == IF value <= RiskThresholds[metric].block
                             THEN "medium" ELSE "high"
               impact == IF metric = "violation_rate" THEN "high" ELSE "medium"
               r == [metric |-> metric, likelihood |-> likelihood, impact |-> impact,
                     score |-> ScoreAt(metric, value)]
    <2>1. ScoreAt(metric, value) \in 0..2000
      BY <1>3, ScoreGrows
    <2>2. likelihood \in {"medium", "high"} /\ impact \in {"medium", "high"}
      OBVIOUS
    <2>3. ~(value <= Warn(metric))
      BY <1>1, <1>3
    <2>4. MetricToRisk(metric, value) = {r}
      BY <2>3 DEF MetricToRisk, Warn, ScoreAt
    <2>5. r.metric = metric /\ r.score = ScoreAt(metric, value)
      OBVIOUS
    <2> HIDE DEF likelihood, impact
    <2>6. r \in ResidualRisk
      BY <2>1, <2>2 DEF ResidualRisk, RiskMetrics
    <2> QED
      BY <2>4, <2>5, <2>6
  <1> QED
    BY <1>1, <1>2, <1>3

LEMMA RiskFacts ==
    ASSUME NEW metrics, Measured(metrics)
    PROVE  /\ ExtractRisks(metrics) \subseteq ResidualRisk
           /\ IsFiniteSet(ExtractRisks(metrics))
           /\ \A r \in ExtractRisks(metrics) :
                 /\ r.metric \in DOMAIN metrics \cap RiskMetrics
                 /\ metrics[r.metric] > Warn(r.metric)
                 /\ r.score = ScoreAt(r.metric, metrics[r.metric])
           /\ \A m \in DOMAIN metrics \cap RiskMetrics :
                 {r \in ExtractRisks(metrics) : r.metric = m} = MetricToRisk(m, metrics[m])
  <1> DEFINE named == DOMAIN metrics \cap RiskMetrics
             f == [m \in named |-> MetricToRisk(m, metrics[m])]
             risks == ExtractRisks(metrics)
  <1>1. \A m \in named : m \in RiskMetrics /\ metrics[m] \in Int
    BY DEF Measured
  <1>2. \A m \in named :
           /\ Warn(m) \in Int
           /\ metrics[m] <= Warn(m) => MetricToRisk(m, metrics[m]) = {}
           /\ metrics[m] > Warn(m) =>
                 \E r \in ResidualRisk : /\ MetricToRisk(m, metrics[m]) = {r}
                                         /\ r.metric = m
                                         /\ r.score = ScoreAt(m, metrics[m])
    BY <1>1, RiskOfMetric
  <1>3. \A r : r \in risks <=> \E m \in named : r \in MetricToRisk(m, metrics[m])
    BY DEF ExtractRisks, RiskMetrics
  <1>4. ASSUME NEW m \in named, NEW r \in MetricToRisk(m, metrics[m])
        PROVE  /\ r \in ResidualRisk /\ r.metric = m /\ metrics[m] > Warn(m)
               /\ r.score = ScoreAt(m, metrics[m])
               /\ MetricToRisk(m, metrics[m]) = {r}
    <2>1. ~(metrics[m] <= Warn(m))
      BY <1>2, <1>4
    <2>2. metrics[m] > Warn(m)
      BY <1>1, <1>2, <2>1
    <2>3. PICK s \in ResidualRisk : /\ MetricToRisk(m, metrics[m]) = {s}
                                    /\ s.metric = m
                                    /\ s.score = ScoreAt(m, metrics[m])
      BY <1>2, <2>2
    <2> QED
      BY <2>2, <2>3
  <1>5. risks \subseteq ResidualRisk
    BY <1>3, <1>4
  <1>6. \A r \in risks : /\ r.metric \in named
                         /\ metrics[r.metric] > Warn(r.metric)
                         /\ r.score = ScoreAt(r.metric, metrics[r.metric])
    BY <1>3, <1>4
  <1>7. \A m \in named : {r \in risks : r.metric = m} = MetricToRisk(m, metrics[m])
    BY <1>3, <1>4
  <1>8. IsFiniteSet(risks)
    <2>1. IsFiniteSet(named)
      BY RiskMetricsFinite, FS_Subset
    <2>2. \A m \in named : IsFiniteSet(f[m])
      <3> TAKE m \in named
      <3>1. CASE MetricToRisk(m, metrics[m]) = {}
        BY <3>1, FS_EmptySet
      <3>2. CASE MetricToRisk(m, metrics[m]) # {}
        <4>1. PICK r : r \in MetricToRisk(m, metrics[m])
          BY <3>2
        <4>2. MetricToRisk(m, metrics[m]) = {r}
          BY <1>4, <4>1
        <4> QED
          BY <4>2, FS_Singleton
      <3> QED
        BY <3>1, <3>2
    <2>3. \A m \in named : f[m] = MetricToRisk(m, metrics[m])
      OBVIOUS
    <2> HIDE DEF f, named
    <2>4. IsFiniteSet(UNION {f[m] : m \in named})
      BY <2>1, <2>2, UnionFinite
    <2>5. risks = UNION {f[m] : m \in named}
      BY <1>3, <2>3
    <2> QED
      BY <2>4, <2>5
  <1> QED
    BY <1>5, <1>6, <1>7, <1>8

LEMMA RiskTypes ==
    ASSUME NEW r \in ResidualRisk
    PROVE  r.score \in Nat /\ r.metric \in RiskMetrics
  <1> DEFINE x == r.score
  <1>1. x \in 0..2000 /\ r.metric \in RiskMetrics
    BY DEF ResidualRisk, RiskMetrics
  <1> HIDE DEF x
  <1>2. x \in Nat
    BY <1>1
  <1> QED
    BY <1>1, <1>2 DEF x

(* What measures no better leaves every risk it had, and none smaller.     *)
LEMMA RisksGrow ==
    ASSUME NEW new, Measured(new), NEW old, Measured(old), AtLeast(new, old),
           NEW m \in DOMAIN old, m \in RiskMetrics,
           NEW r \in MetricToRisk(m, old[m])
    PROVE  /\ m \in DOMAIN new
           /\ r \in ResidualRisk /\ r.metric = m /\ MetricToRisk(m, old[m]) = {r}
           /\ \E s \in ResidualRisk : /\ MetricToRisk(m, new[m]) = {s}
                                     /\ s.metric = m
                                     /\ s.score >= r.score
  <1>1. /\ old[m] \in Int /\ new[m] \in Int /\ new[m] >= old[m]
        /\ m \in DOMAIN new
    BY DEF Measured, AtLeast
  <1>2. /\ Warn(m) \in Int
        /\ old[m] <= Warn(m) => MetricToRisk(m, old[m]) = {}
        /\ old[m] > Warn(m) =>
              \E q \in ResidualRisk : /\ MetricToRisk(m, old[m]) = {q}
                                      /\ q.metric = m
                                      /\ q.score = ScoreAt(m, old[m])
    BY <1>1, RiskOfMetric
  <1>3. old[m] > Warn(m) /\ new[m] > Warn(m) /\ old[m] <= new[m]
    <2>1. ~(old[m] <= Warn(m))
      BY <1>2
    <2> QED
      BY <1>1, <1>2, <2>1
  <1>4. PICK q \in ResidualRisk : /\ MetricToRisk(m, old[m]) = {q}
                                 /\ q.metric = m
                                 /\ q.score = ScoreAt(m, old[m])
    BY <1>2, <1>3
  <1>5. PICK s \in ResidualRisk : /\ MetricToRisk(m, new[m]) = {s}
                                 /\ s.metric = m
                                 /\ s.score = ScoreAt(m, new[m])
    BY <1>1, <1>3, RiskOfMetric
  <1>6. ScoreAt(m, new[m]) >= ScoreAt(m, old[m])
    <2>1. /\ ScoreAt(m, old[m]) \in 0..2000 /\ ScoreAt(m, new[m]) \in 0..2000
          /\ ScoreAt(m, old[m]) <= ScoreAt(m, new[m])
      BY <1>1, <1>3, ScoreGrows
    <2> QED
      BY <2>1
  <1>7. r = q
    BY <1>4
  <1>8. s.score >= r.score
    BY <1>4, <1>5, <1>6, <1>7
  <1> QED
    BY <1>1, <1>4, <1>5, <1>7, <1>8

LEMMA ResidualFacts ==
    ASSUME NEW metrics, Measured(metrics)
    PROVE  /\ Residual(ExtractRisks(metrics)) \in Nat
           /\ MemoDebt(ExtractRisks(metrics)) \in Nat
           /\ Cardinality({r \in ExtractRisks(metrics) : r.impact = "high"}) \in Nat
  <1> DEFINE risks == ExtractRisks(metrics)
             f == [r \in risks |-> 7 * r.score]
  <1>1. IsFiniteSet(risks) /\ risks \subseteq ResidualRisk
    BY RiskFacts
  <1>2. \A r \in risks : f[r] \in Nat
    <2>1. \A r \in risks : f[r] = 7 * r.score
      OBVIOUS
    <2>2. \A r \in risks : r.score \in Nat
      BY <1>1, RiskTypes
    <2> HIDE DEF f, risks
    <2> QED
      BY <2>1, <2>2
  <1> HIDE DEF f
  <1>3. SumFunctionOnSet(f, risks) \in Nat
    BY <1>1, <1>2, SumOfNaturals
  <1>4. Residual(risks) \in Nat
    BY <1>3 DEF Residual, f
  <1>5. MemoDebt(risks) \in Nat
    BY <1>4 DEF MemoDebt
  <1> DEFINE high == {r \in risks : r.impact = "high"}
  <1>6. high \in SUBSET risks
    OBVIOUS
  <1> HIDE DEF high, risks
  <1>7. Cardinality(high) \in Nat
    BY <1>1, <1>6, FS_Subset, FS_CardinalityType
  <1> QED
    BY <1>4, <1>5, <1>7 DEF high, risks

(* The residual risk is the sum over the metrics that may be risks.        *)
Part(metrics, m) ==
    SumFunctionOnSet([r \in ExtractRisks(metrics) |-> 7 * r.score],
                     {r \in ExtractRisks(metrics) : r.metric = m})

LEMMA ResidualByMetric ==
    ASSUME NEW metrics, Measured(metrics)
    PROVE  /\ Residual(ExtractRisks(metrics))
                 = SumFunctionOnSet([m \in RiskMetrics |-> Part(metrics, m)], RiskMetrics)
           /\ \A m \in RiskMetrics : Part(metrics, m) \in Nat
           /\ \A m \in DOMAIN metrics \cap RiskMetrics :
                 \A r \in ResidualRisk : MetricToRisk(m, metrics[m]) = {r}
                    => Part(metrics, m) = 7 * r.score
           /\ \A m \in RiskMetrics :
                 m \notin DOMAIN metrics \/ MetricToRisk(m, metrics[m]) = {}
                    => Part(metrics, m) = 0
  <1> DEFINE risks == ExtractRisks(metrics)
             f == [r \in risks |-> 7 * r.score]
             class == [r \in risks |-> r.metric]
             Of(m) == {r \in risks : r.metric = m}
             In(m) == {r \in risks : class[r] = m}
             part_ == [m \in RiskMetrics |-> SumFunctionOnSet(f, In(m))]
  <1>1. /\ IsFiniteSet(risks) /\ risks \subseteq ResidualRisk
        /\ \A r \in risks : r.metric \in RiskMetrics /\ r.metric \in DOMAIN metrics
        /\ \A m \in DOMAIN metrics \cap RiskMetrics :
              Of(m) = MetricToRisk(m, metrics[m])
    BY RiskFacts
  <1>2. \A r \in risks : f[r] \in Nat /\ f[r] = 7 * r.score /\ class[r] \in RiskMetrics
    <2>1. \A r \in risks : f[r] = 7 * r.score /\ class[r] = r.metric
      OBVIOUS
    <2>2. \A r \in risks : r.score \in Nat
      BY <1>1, RiskTypes
    <2> HIDE DEF f, class, risks, Of
    <2> QED
      BY <1>1, <2>1, <2>2
  <1>3. IntValued(f, risks)
    BY <1>2 DEF IntValued
  <1>4. \A m : In(m) = Of(m) /\ Of(m) \in SUBSET risks
    OBVIOUS
  <1>5. \A m : Part(metrics, m) = SumFunctionOnSet(f, Of(m))
    BY DEF Part
  <1>6. Residual(risks) = SumFunctionOnSet(f, risks)
    BY DEF Residual
  <1>7. SumFunctionOnSet([m \in RiskMetrics |->
            SumFunctionOnSet(f, {r \in risks : class[r] = m})], RiskMetrics)
          = SumFunctionOnSet(f, risks)
    <2>1. \A r \in risks : class[r] \in RiskMetrics
      BY <1>2
    <2> HIDE DEF risks, f, class
    <2> QED
      BY <1>1, <1>3, <2>1, RiskMetricsFinite, SumByClass
  <1>8. part_ = [m \in RiskMetrics |-> Part(metrics, m)]
    <2> HIDE DEF risks, f, Of, In
    <2>1. \A m \in RiskMetrics : part_[m] = Part(metrics, m)
      BY <1>4, <1>5
    <2> QED
      BY <2>1
  <1>9. Residual(risks)
           = SumFunctionOnSet([m \in RiskMetrics |-> Part(metrics, m)], RiskMetrics)
    BY <1>6, <1>7, <1>8
  <1> HIDE DEF risks, f, class, Of, In, part_
  <1>10. \A m \in RiskMetrics : Part(metrics, m) \in Nat
    <2> TAKE m \in RiskMetrics
    <2>1. IsFiniteSet(Of(m)) /\ \A r \in Of(m) : f[r] \in Nat
      BY <1>1, <1>2, <1>4, FS_Subset
    <2> QED
      BY <1>5, <2>1, SumOfNaturals
  <1>11. ASSUME NEW m \in DOMAIN metrics \cap RiskMetrics,
                NEW r \in ResidualRisk, MetricToRisk(m, metrics[m]) = {r}
         PROVE  Part(metrics, m) = 7 * r.score
    <2>1. Of(m) = {r} /\ r \in risks
      BY <1>1, <1>4, <1>11
    <2>2. f[r] \in Nat /\ f[r] \in Int /\ f[r] = 7 * r.score
      BY <1>2, <2>1
    <2>3. IsFiniteSet({r}) /\ IntValued(f, {r}) /\ r \in {r}
      BY <2>2, FS_Singleton DEF IntValued
    <2>4. SumFunctionOnSet(f, {r}) = f[r] + SumFunctionOnSet(f, {r} \ {r})
      BY <2>3, SumRemoves
    <2>5. {r} \ {r} = {}
      OBVIOUS
    <2>6. SumFunctionOnSet(f, {r}) = f[r] + SumFunctionOnSet(f, {})
      BY <2>4, <2>5
    <2>7. SumFunctionOnSet(f, {}) = 0
      BY SumOfNone
    <2>8. SumFunctionOnSet(f, {r}) = 7 * r.score
      BY <2>2, <2>6, <2>7
    <2> QED
      BY <1>5, <2>1, <2>8
  <1>12. ASSUME NEW m \in RiskMetrics,
                m \notin DOMAIN metrics \/ MetricToRisk(m, metrics[m]) = {}
         PROVE  Part(metrics, m) = 0
    <2>1. Of(m) = {}
      <3>1. CASE m \notin DOMAIN metrics
        BY <1>1, <3>1 DEF Of
      <3>2. CASE m \in DOMAIN metrics /\ MetricToRisk(m, metrics[m]) = {}
        BY <1>1, <3>2
      <3> QED
        BY <1>12, <3>1, <3>2
    <2> QED
      BY <1>5, <2>1, SumOfNone
  <1> QED
    BY <1>9, <1>10, <1>11, <1>12 DEF risks

LEMMA ResidualGrows ==
    ASSUME NEW new, Measured(new), NEW old, Measured(old), AtLeast(new, old)
    PROVE  Residual(ExtractRisks(old)) <= Residual(ExtractRisks(new))
  <1> DEFINE f == [m \in RiskMetrics |-> Part(old, m)]
             g == [m \in RiskMetrics |-> Part(new, m)]
  <1>1. ASSUME NEW m \in RiskMetrics
        PROVE  Part(old, m) \in Nat /\ Part(new, m) \in Nat /\ Part(old, m) <= Part(new, m)
    <2>1. Part(old, m) \in Nat /\ Part(new, m) \in Nat
      BY ResidualByMetric
    <2>2. CASE m \notin DOMAIN old \/ MetricToRisk(m, old[m]) = {}
      <3>1. Part(old, m) = 0
        BY <2>2, ResidualByMetric
      <3> QED
        BY <2>1, <3>1
    <2>3. CASE m \in DOMAIN old /\ MetricToRisk(m, old[m]) # {}
      <3>1. PICK r : r \in MetricToRisk(m, old[m])
        BY <2>3
      <3>2. /\ m \in DOMAIN new /\ m \in DOMAIN old
            /\ r \in ResidualRisk /\ MetricToRisk(m, old[m]) = {r}
            /\ \E s \in ResidualRisk : /\ MetricToRisk(m, new[m]) = {s}
                                      /\ s.metric = m
                                      /\ s.score >= r.score
        BY <2>3, <3>1, RisksGrow
      <3>3. PICK s \in ResidualRisk : /\ MetricToRisk(m, new[m]) = {s}
                                     /\ s.metric = m
                                     /\ s.score >= r.score
        BY <3>2
      <3>4. m \in DOMAIN old \cap RiskMetrics /\ m \in DOMAIN new \cap RiskMetrics
        BY <3>2
      <3>5. Part(old, m) = 7 * r.score
        BY <3>2, <3>4, ResidualByMetric
      <3>6. Part(new, m) = 7 * s.score
        BY <3>3, <3>4, ResidualByMetric
      <3>7. r.score \in Nat /\ s.score \in Nat
        <4>1. r \in ResidualRisk /\ s \in ResidualRisk
          BY <3>2
        <4> QED
          BY <4>1, RiskTypes
      <3>8. 7 * r.score <= 7 * s.score
        <4>1. r.score <= s.score
          BY <3>3, <3>7
        <4> QED
          BY <3>7, <4>1
      <3> QED
        BY <2>1, <3>5, <3>6, <3>8
    <2> QED
      BY <2>2, <2>3
  <1>2. \A m \in RiskMetrics : f[m] \in Int /\ g[m] \in Int /\ f[m] <= g[m]
    BY <1>1
  <1>3. /\ Residual(ExtractRisks(old)) = SumFunctionOnSet(f, RiskMetrics)
        /\ Residual(ExtractRisks(new)) = SumFunctionOnSet(g, RiskMetrics)
    BY ResidualByMetric
  <1> HIDE DEF f, g
  <1> QED
    BY <1>2, <1>3, RiskMetricsFinite, SumGrows

MemoVerdicts == {"OK", "WARN", "BLOCK"}

MemoInv ==
    /\ \A m \in memo : \E v \in MemoVerdicts, metrics \in MemoMetrics : m = Memo(v, metrics)
    /\ \A m, n \in memo : m = n

LEMMA MemoFields ==
    ASSUME NEW v, NEW metrics
    PROVE  /\ Memo(v, metrics).metrics = metrics
           /\ Memo(v, metrics).verdict = v
           /\ Memo(v, metrics).risks = ExtractRisks(metrics)
           /\ Memo(v, metrics).decision =
                 IF v = "OK" THEN "APPROVED" ELSE "APPROVED_WITH_CONDITIONS"
           /\ Memo(v, metrics).residual = Residual(ExtractRisks(metrics))
           /\ Memo(v, metrics).debt = MemoDebt(ExtractRisks(metrics))
           /\ Memo(v, metrics).alignment = Alignment(ExtractRisks(metrics))
           /\ Memo(v, metrics).criteria = AcceptanceCriteria(ExtractRisks(metrics))
           /\ Memo(v, metrics).highImpact =
                 Cardinality({r \in ExtractRisks(metrics) : r.impact = "high"})
           /\ Memo(v, metrics).trend = RiskTrend(metrics)
  BY DEF Memo

(* A criterion for each risk, and for nothing else.                        *)
LEMMA CriteriaMetrics ==
    ASSUME NEW risks
    PROVE  {c.metric : c \in AcceptanceCriteria(risks)} = {r.metric : r \in risks}
  <1> DEFINE Criterion(r) == [metric |-> r.metric, autoRollback |-> r.score > 1600]
  <1>1. \A r : Criterion(r).metric = r.metric
    OBVIOUS
  <1>2. AcceptanceCriteria(risks) = {Criterion(r) : r \in risks}
    BY DEF AcceptanceCriteria
  <1> HIDE DEF Criterion
  <1>3. ASSUME NEW c \in AcceptanceCriteria(risks) PROVE c.metric \in {r.metric : r \in risks}
    BY <1>1, <1>2
  <1>4. ASSUME NEW r \in risks PROVE r.metric \in {c.metric : c \in AcceptanceCriteria(risks)}
    <2>1. Criterion(r) \in AcceptanceCriteria(risks)
      BY <1>2
    <2> QED
      BY <1>1, <2>1
  <1> QED
    BY <1>3, <1>4

LEMMA MemoTypes ==
    ASSUME NEW v \in MemoVerdicts, NEW metrics, Measured(metrics)
    PROVE  IsMemo(Memo(v, metrics))
  <1> DEFINE risks == ExtractRisks(metrics)
             m == Memo(v, metrics)
  <1>1. /\ m.risks = risks /\ m.criteria = AcceptanceCriteria(risks)
        /\ m.residual = Residual(risks) /\ m.debt = MemoDebt(risks)
        /\ m.highImpact = Cardinality({r \in risks : r.impact = "high"})
        /\ m.trend = RiskTrend(metrics) /\ m.verdict = v
        /\ m.decision = IF v = "OK" THEN "APPROVED" ELSE "APPROVED_WITH_CONDITIONS"
    BY MemoFields
  <1>2. risks \subseteq ResidualRisk
    BY RiskFacts
  <1>3. /\ Residual(risks) \in Nat /\ MemoDebt(risks) \in Nat
        /\ Cardinality({r \in risks : r.impact = "high"}) \in Nat
    BY ResidualFacts
  <1>4. RiskTrend(metrics) \in {"improving", "stable", "degrading"}
    BY DEF RiskTrend
  <1> HIDE DEF risks, m
  <1>5. {c.metric : c \in AcceptanceCriteria(risks)} = {r.metric : r \in risks}
    BY CriteriaMetrics
  <1>6. /\ m.verdict \in {"OK", "WARN", "BLOCK"}
        /\ m.decision \in {"APPROVED", "APPROVED_WITH_CONDITIONS"}
        /\ m.risks \subseteq ResidualRisk
        /\ {c.metric : c \in m.criteria} = {r.metric : r \in m.risks}
        /\ m.residual \in Nat /\ m.debt \in Nat /\ m.highImpact \in Nat
        /\ m.trend \in {"improving", "stable", "degrading"}
    BY <1>1, <1>2, <1>3, <1>4, <1>5 DEF MemoVerdicts
  <1> QED
    BY <1>6 DEF IsMemo, m

(* The comparison of two memos, whatever their verdicts.                   *)
LEMMA WorseOwnsNoLess ==
    ASSUME NEW v, NEW w, NEW new, Measured(new), NEW old, Measured(old),
           AtLeast(new, old)
    PROVE  OwnsNoLess(Memo(v, new), Memo(w, old))
  <1> DEFINE now == ExtractRisks(new)
             before == ExtractRisks(old)
             m == Memo(v, new)
             n == Memo(w, old)
  <1>1. /\ m.risks = now /\ m.criteria = AcceptanceCriteria(now)
        /\ m.debt = MemoDebt(now) /\ m.alignment = Alignment(now)
        /\ m.trend = RiskTrend(new)
    BY DEF Memo
  <1>2. /\ n.risks = before /\ n.criteria = AcceptanceCriteria(before)
        /\ n.debt = MemoDebt(before) /\ n.alignment = Alignment(before)
        /\ n.trend = RiskTrend(old)
    BY MemoFields DEF Memo
  <1>3. /\ now \subseteq ResidualRisk /\ before \subseteq ResidualRisk
    BY RiskFacts
  <1>4. ASSUME NEW r \in before
        PROVE  \E s \in now : /\ s.metric = r.metric /\ s.score >= r.score
                              /\ s.score \in Nat /\ r.score \in Nat
    <2>1. r.metric \in DOMAIN old \cap RiskMetrics
      BY RiskFacts
    <2>2. r \in MetricToRisk(r.metric, old[r.metric])
      <3>1. {q \in before : q.metric = r.metric} = MetricToRisk(r.metric, old[r.metric])
        BY <2>1, RiskFacts
      <3> QED
        BY <3>1
    <2> DEFINE k == r.metric
    <2>3. k \in DOMAIN old /\ k \in RiskMetrics /\ r \in MetricToRisk(k, old[k])
      BY <2>1, <2>2
    <2> HIDE DEF k
    <2>4. /\ k \in DOMAIN new
          /\ \E s \in ResidualRisk : /\ MetricToRisk(k, new[k]) = {s}
                                     /\ s.metric = k
                                     /\ s.score >= r.score
      BY <2>3, RisksGrow
    <2>5. PICK s \in ResidualRisk : /\ MetricToRisk(k, new[k]) = {s}
                                    /\ s.metric = k
                                    /\ s.score >= r.score
      BY <2>4
    <2>6. {q \in now : q.metric = k} = MetricToRisk(k, new[k])
      <3>1. k \in DOMAIN new \cap RiskMetrics
        BY <2>3, <2>4
      <3> QED
        BY <3>1, RiskFacts
    <2>7. s \in now
      BY <2>5, <2>6
    <2>8. s \in ResidualRisk /\ r \in ResidualRisk
      BY <1>3, <2>7
    <2>9. s.score \in Nat /\ r.score \in Nat
      BY <2>8, RiskTypes
    <2> QED
      BY <2>5, <2>7, <2>9 DEF k
  <1>5. MemoDebt(before) \in Nat /\ MemoDebt(now) \in Nat
        /\ Residual(before) \in Nat /\ Residual(now) \in Nat
        /\ Residual(before) <= Residual(now)
    BY ResidualFacts, ResidualGrows
  <1> HIDE DEF now, before, m, n
  <1>6. {r.metric : r \in before} \subseteq {r.metric : r \in now}
    <2> SUFFICES ASSUME NEW r \in before PROVE \E s \in now : s.metric = r.metric
      OBVIOUS
    <2> QED
      BY <1>4
  <1>7. \A c \in AcceptanceCriteria(before) : \E d \in AcceptanceCriteria(now) :
           d.metric = c.metric /\ (c.autoRollback => d.autoRollback)
    <2> TAKE c \in AcceptanceCriteria(before)
    <2>1. PICK r \in before : c = [metric |-> r.metric, autoRollback |-> r.score > 1600]
      BY DEF AcceptanceCriteria
    <2>2. PICK s \in now : /\ s.metric = r.metric /\ s.score >= r.score
                           /\ s.score \in Nat /\ r.score \in Nat
      BY <1>4
    <2> DEFINE breached == r.score > 1600
               breaches == s.score > 1600
               d == [metric |-> s.metric, autoRollback |-> breaches]
    <2>3. breached \in BOOLEAN /\ breaches \in BOOLEAN
      OBVIOUS
    <2>4. breached => breaches
      BY <2>2
    <2>5. d \in AcceptanceCriteria(now)
      BY DEF AcceptanceCriteria
    <2>6. c = [metric |-> r.metric, autoRollback |-> breached]
      BY <2>1
    <2> HIDE DEF breached, breaches
    <2>7. d.metric = c.metric /\ d.autoRollback = breaches /\ c.autoRollback = breached
      BY <2>2, <2>6
    <2> HIDE DEF d
    <2>8. c.autoRollback => d.autoRollback
      BY <2>3, <2>4, <2>7
    <2> QED
      BY <2>5, <2>7, <2>8
  <1>8. Alignment(before) \subseteq Alignment(now)
    <2>1. before # {} => now # {}
      BY <1>4
    <2>2. (\E r \in before : r.score > 1000) => \E s \in now : s.score > 1000
      <3> SUFFICES ASSUME NEW r \in before, r.score > 1000
                   PROVE  \E s \in now : s.score > 1000
        OBVIOUS
      <3>1. PICK s \in now : /\ s.metric = r.metric /\ s.score >= r.score
                             /\ s.score \in Nat /\ r.score \in Nat
        BY <1>4
      <3>2. s.score > 1000
        BY <3>1
      <3> QED
        BY <3>2
    <2> DEFINE Deep(risks) == \E r \in risks : r.score > 1000
    <2>3. /\ Alignment(before) = (IF before # {} THEN {"partially aligned"} ELSE {})
                                    \cup (IF Deep(before) THEN {"deviation"} ELSE {})
          /\ Alignment(now) = (IF now # {} THEN {"partially aligned"} ELSE {})
                                    \cup (IF Deep(now) THEN {"deviation"} ELSE {})
      BY DEF Alignment
    <2>4. Deep(before) => Deep(now)
      BY <2>2
    <2> HIDE DEF Deep
    <2> QED
      BY <2>1, <2>3, <2>4
  <1>9. MemoDebt(now) >= MemoDebt(before)
    <2>1. "deviation" \in Alignment(before) => "deviation" \in Alignment(now)
      BY <1>8
    <2> QED
      BY <1>5, <2>1 DEF MemoDebt
  <1>10. /\ TrendRank[RiskTrend(new)] >= TrendRank[RiskTrend(old)]
         /\ RiskTrend(old) = "degrading" => now # {}
    <2> DEFINE RateOf(x) == IF "violation_rate" \in DOMAIN x THEN x.violation_rate ELSE 0
    <2>1. /\ RateOf(old) \in Int /\ RateOf(new) \in Int
      BY DEF Measured
    <2>2. CASE "violation_rate" \notin DOMAIN old
      <3>1. RiskTrend(old) = "improving"
        BY <2>2 DEF RiskTrend
      <3>2. RiskTrend(new) \in {"improving", "stable", "degrading"}
        BY DEF RiskTrend
      <3> QED
        BY <3>1, <3>2 DEF TrendRank
    <2>3. CASE "violation_rate" \in DOMAIN old
      <3>1. RateOf(old) <= RateOf(new)
        BY <2>3 DEF AtLeast, Measured
      <3>2. /\ RiskTrend(old) = IF RateOf(old) < 80 THEN "improving"
                                ELSE IF RateOf(old) < 120 THEN "stable" ELSE "degrading"
            /\ RiskTrend(new) = IF RateOf(new) < 80 THEN "improving"
                                ELSE IF RateOf(new) < 120 THEN "stable" ELSE "degrading"
        BY DEF RiskTrend
      <3>3. RateOf(old) = old["violation_rate"]
        BY <2>3
      <3> HIDE DEF RateOf
      <3>4. TrendRank[RiskTrend(new)] >= TrendRank[RiskTrend(old)]
        BY <2>1, <3>1, <3>2 DEF TrendRank
      <3>5. ASSUME RiskTrend(old) = "degrading" PROVE now # {}
        <4>1. ~(RateOf(old) < 120)
          BY <3>2, <3>5
        <4>2. "violation_rate" \in RiskMetrics /\ Warn("violation_rate") = 80
          BY ThresholdFacts DEF Warn
        <4>3. old["violation_rate"] \in Int /\ old["violation_rate"] > 80
          BY <2>1, <3>3, <4>1
        <4>4. PICK r \in ResidualRisk :
                 MetricToRisk("violation_rate", old["violation_rate"]) = {r}
          BY <4>2, <4>3, RiskOfMetric
        <4>5. "violation_rate" \in DOMAIN old \cap RiskMetrics
          BY <2>3, <4>2
        <4>6. {q \in before : q.metric = "violation_rate"}
                 = MetricToRisk("violation_rate", old["violation_rate"])
          BY <4>5, RiskFacts DEF before
        <4>7. r \in before
          BY <4>4, <4>6
        <4> QED
          BY <1>4, <4>7
      <3> QED
        BY <3>4, <3>5
    <2> QED
      BY <2>2, <2>3
  <1>11. OwnsNoLess(m, n)
    BY <1>1, <1>2, <1>6, <1>7, <1>8, <1>9, <1>10 DEF OwnsNoLess
  <1> QED
    BY <1>11 DEF m, n

LEMMA MemoStepKeeps ==
    ASSUME MemoInv, MemoStep
    PROVE  /\ MemoInv'
           /\ \E v \in MemoVerdicts, metrics \in MemoMetrics : memo' = {Memo(v, metrics)}
  <1>1. PICK v \in MemoVerdicts, metrics \in MemoMetrics : GenerateMemo(v, metrics)
    BY DEF MemoStep, MemoVerdicts
  <1>2. memo' = {Memo(v, metrics)}
    BY <1>1 DEF GenerateMemo
  <1> QED
    BY <1>2 DEF MemoInv

LEMMA MemoMeasured == \A metrics \in MemoMetrics : Measured(metrics)
  BY ReleaseAssumption DEF ReleaseAssumption, Measured

(* What a step may do to the memo.                                         *)
LEMMA MemoMoves ==
    ASSUME MemoInv, [Next]_releaseVars
    PROVE  /\ MemoInv'
           /\ \A new \in memo', old \in memo :
                 AtLeast(new.metrics, old.metrics) => OwnsNoLess(new, old)
  <1>1. \A m \in memo' : \E v \in MemoVerdicts, metrics \in MemoMetrics : m = Memo(v, metrics)
    <2>1. CASE MemoStep
      BY <2>1, MemoStepKeeps DEF MemoInv
    <2>2. CASE memo' = memo
      BY <2>2 DEF MemoInv
    <2>3. MemoStep \/ memo' = memo
      BY DEF Next, releaseVars, recordsVars, LedgerStep, HistoryStep, VerdictStep,
             ConstitutionStep, GamingStep, SubmissionStep, PackageStep,
             AddMetrics, AddDecision, AddArtifact, GenerateCompliance, FinalizePackage
    <2> QED
      BY <2>1, <2>2, <2>3
  <1>2. MemoInv'
    <2>1. CASE MemoStep
      BY <2>1, MemoStepKeeps
    <2>2. CASE memo' = memo
      BY <2>2 DEF MemoInv
    <2>3. MemoStep \/ memo' = memo
      BY DEF Next, releaseVars, recordsVars, LedgerStep, HistoryStep, VerdictStep,
             ConstitutionStep, GamingStep, SubmissionStep, PackageStep,
             AddMetrics, AddDecision, AddArtifact, GenerateCompliance, FinalizePackage
    <2> QED
      BY <2>1, <2>2, <2>3
  <1>3. ASSUME NEW new \in memo', NEW old \in memo, AtLeast(new.metrics, old.metrics)
        PROVE  OwnsNoLess(new, old)
    <2>1. PICK v \in MemoVerdicts, now \in MemoMetrics : new = Memo(v, now)
      BY <1>1
    <2>2. PICK w \in MemoVerdicts, before \in MemoMetrics : old = Memo(w, before)
      BY DEF MemoInv
    <2>3. new.metrics = now /\ old.metrics = before
      <3>1. Memo(v, now).metrics = now /\ Memo(w, before).metrics = before
        BY DEF Memo
      <3> QED
        BY <2>1, <2>2, <3>1, Zenon
    <2>4. AtLeast(now, before)
      BY <1>3, <2>3
    <2> QED
      BY <2>1, <2>2, <2>4, MemoMeasured, WorseOwnsNoLess
  <1> QED
    BY <1>2, <1>3

-----------------------------------------------------------------------------
(* The runs of the history are of the kind that the loop over them reads.  *)
HistoryInv == runs \in Seq([timestamp : Moments, metrics : RunMetrics])

LEMMA HistoryTyped == HistoryInv => HistoryTypeOK
  <1> SUFFICES ASSUME HistoryInv PROVE HistoryTypeOK
    OBVIOUS
  <1>1. DOMAIN runs = 1..Len(runs)
    BY DEF HistoryInv
  <1>2. ASSUME NEW i \in DOMAIN runs PROVE IsRun(runs[i])
    <2>1. runs[i] \in [timestamp : Moments, metrics : RunMetrics]
      <3>1. \A S : \A s \in Seq(S) : \A k \in DOMAIN s : s[k] \in S
        BY ElementOfSeq, LenProperties
      <3> QED
        BY <3>1 DEF HistoryInv
    <2> DEFINE run == runs[i]
    <2>2. run.timestamp \in Moments /\ run.metrics \in RunMetrics
      BY <2>1
    <2> HIDE DEF run
    <2>3. /\ run.timestamp \in Nat
          /\ DOMAIN run.metrics \subseteq Metrics
          /\ \A m \in DOMAIN run.metrics : run.metrics[m] \in Int
      BY <2>2, ReleaseAssumption DEF ReleaseAssumption
    <2>4. IsRun(run)
      BY <2>3 DEF IsRun
    <2> QED
      BY <2>4 DEF run
  <1> QED
    BY <1>1, <1>2 DEF HistoryTypeOK

LEMMA HistoryKept == HistoryInv /\ [Next]_releaseVars => HistoryInv'
  <1> SUFFICES ASSUME HistoryInv, [Next]_releaseVars PROVE HistoryInv'
    OBVIOUS
  <1>1. ASSUME NEW t \in Moments, NEW metrics \in RunMetrics,
               AddRun([timestamp |-> t, metrics |-> metrics])
        PROVE  HistoryInv'
    <2> DEFINE run == [timestamp |-> t, metrics |-> metrics]
    <2>1. run \in [timestamp : Moments, metrics : RunMetrics]
      OBVIOUS
    <2>2. runs' = Append(runs, run)
      BY <1>1 DEF AddRun
    <2> HIDE DEF run
    <2> QED
      BY <2>1, <2>2, AppendProperties DEF HistoryInv
  <1>2. CASE ClearHistory
    BY <1>2 DEF ClearHistory, HistoryInv
  <1>3. CASE runs' = runs
    BY <1>3 DEF HistoryInv
  <1>4. HistoryStep \/ runs' = runs
    BY DEF Next, releaseVars, historyVars, LedgerStep, VerdictStep, ConstitutionStep,
           GamingStep, SubmissionStep, PackageStep, MemoStep
  <1> QED
    BY <1>1, <1>2, <1>3, <1>4 DEF HistoryStep

-----------------------------------------------------------------------------
(* The counters of the constitution keep within their bounds.              *)
CountersInv ==
    /\ part \in Parts
    /\ today \in 0..MaxDay
    /\ Len(evaluations) \in 0..MaxReleases

LEMMA CountersKept ==
    ConstitutionInv /\ CountersInv /\ [Next]_releaseVars => CountersInv'
  <1> SUFFICES ASSUME ConstitutionInv, CountersInv, [Next]_releaseVars PROVE CountersInv'
    OBVIOUS
  <1>1. part' \in Parts
    BY DEF CountersInv, Next, releaseVars, LedgerStep, HistoryStep, VerdictStep,
           ConstitutionStep, GamingStep, SubmissionStep, PackageStep, MemoStep
  <1>2. CASE EvaluateRelease
    <2>1. PICK e : /\ Len(evaluations) < MaxReleases
                   /\ evaluations' = Append(evaluations, e)
                   /\ today' = today
      BY <1>2 DEF EvaluateRelease
    <2>2. PICK n \in Nat : n = Len(evaluations) /\ DOMAIN evaluations = 1..n
      BY DEF ConstitutionInv
    <2>3. Len(evaluations') = n + 1
      BY <2>1, <2>2
    <2>4. n + 1 \in 0..MaxReleases
      BY <2>1, <2>2, ConstitutionAssumption DEF ConstitutionAssumption
    <2> QED
      BY <1>1, <2>1, <2>3, <2>4 DEF CountersInv
  <1>3. CASE DaysPass
    <2>1. PICK n \in Pauses : today + n <= MaxDay /\ today' = today + n
      BY <1>3 DEF DaysPass
    <2>2. today' \in 0..MaxDay
      BY <2>1, ConstitutionAssumption DEF ConstitutionAssumption, ConstitutionInv
    <2>3. evaluations' = evaluations
      BY <1>3 DEF DaysPass
    <2> QED
      BY <1>1, <2>2, <2>3 DEF CountersInv
  <1>4. CASE UNCHANGED <<today, evaluations>>
    BY <1>1, <1>4 DEF CountersInv
  <1>5. EvaluateRelease \/ DaysPass \/ UNCHANGED <<today, evaluations>>
    BY DEF Next, releaseVars, constitutionVars, LedgerStep, HistoryStep, VerdictStep,
           ConstitutionStep, ConstitutionNext, ResolveEntry, GamingStep,
           SubmissionStep, PackageStep, MemoStep
  <1> QED
    BY <1>2, <1>3, <1>4, <1>5

LEMMA ConstitutionTyped ==
    ASSUME ConstitutionInv, CountersInv
    PROVE  ConstitutionTypeOK
  <1> DEFINE f == [i \in DOMAIN debts |-> debts[i].amount]
             A == WithStatus(debts, "active")
  <1>1. totalDebt = SumFunctionOnSet(f, A)
    BY DEF ConstitutionInv, Recalculated, SumOfAmounts
  <1>2. A \subseteq DOMAIN debts
    BY DEF WithStatus
  <1>3. IsFiniteSet(A)
    BY <1>2, AmountsFacts, FS_Subset
  <1>4. \A i \in A : f[i] \in Nat
    BY <1>2, AmountsFacts
  <1> HIDE DEF f, A
  <1>5. totalDebt \in Nat
    BY <1>1, <1>3, <1>4, SumOfNaturals
  <1> QED
    BY <1>5 DEF ConstitutionTypeOK, ConstitutionInv, CountersInv

-----------------------------------------------------------------------------
LEMMA PackageKept == PackageInv /\ [Next]_releaseVars => PackageInv'
  <1> SUFFICES ASSUME PackageInv, [Next]_releaseVars PROVE PackageInv'
    OBVIOUS
  <1>1. CASE PackageStep
    BY <1>1, PackageStepKeeps
  <1>2. CASE UNCHANGED <<package, handed>>
    BY <1>2, PackageInvStays
  <1>3. PackageStep \/ UNCHANGED <<package, handed>>
    BY DEF Next, releaseVars, recordsVars, LedgerStep, HistoryStep, VerdictStep,
           ConstitutionStep, GamingStep, SubmissionStep, MemoStep, GenerateMemo
  <1> QED
    BY <1>1, <1>2, <1>3

LEMMA MemosTyped == MemoInv => \A m \in memo : IsMemo(m)
  BY MemoMeasured, MemoTypes DEF MemoInv

CompleteInv ==
    LedgerInv /\ HistoryInv /\ ConstitutionInv /\ CountersInv /\ PackageInv /\ MemoInv

LEMMA CompleteFacts == CompleteInv => ReleaseTypeOK /\ CustodyComplete
  <1> SUFFICES ASSUME CompleteInv PROVE ReleaseTypeOK /\ CustodyComplete
    OBVIOUS
  <1>1. LedgerTypeOK /\ part \in Parts
    BY DEF CompleteInv, LedgerInv, CountersInv
  <1>2. HistoryTypeOK
    BY HistoryTyped DEF CompleteInv
  <1>3. ConstitutionTypeOK
    BY ConstitutionTyped DEF CompleteInv
  <1>4. IsPackage(package) /\ handed \subseteq Seq(Contents) /\ CustodyComplete
    BY DEF CompleteInv, PackageInv
  <1>5. \A m \in memo : IsMemo(m)
    BY MemosTyped DEF CompleteInv
  <1>6. RecordsTypeOK
    BY <1>4, <1>5 DEF RecordsTypeOK
  <1> QED
    BY <1>1, <1>2, <1>3, <1>4, <1>6 DEF ReleaseTypeOK

LEMMA InitCompleteInv == Init => CompleteInv
  <1> SUFFICES ASSUME Init PROVE CompleteInv
    OBVIOUS
  <1>1. LedgerInv
    BY InitLedgerInv DEF Init
  <1>2. HistoryInv
    BY DEF Init, HistoryInit, HistoryInv
  <1>3. ConstitutionInv
    BY InitConstitutionInv DEF Init
  <1>4. CountersInv
    BY ConstitutionAssumption
       DEF Init, ConstitutionInit, CountersInv, ConstitutionAssumption
  <1>5. PackageInv
    BY PackageInvInit DEF Init
  <1>6. MemoInv
    BY DEF Init, RecordsInit, MemoInv
  <1> QED
    BY <1>1, <1>2, <1>3, <1>4, <1>5, <1>6 DEF CompleteInv

LEMMA NextCompleteInv == CompleteInv /\ [Next]_releaseVars => CompleteInv'
  <1> SUFFICES ASSUME CompleteInv, [Next]_releaseVars PROVE CompleteInv'
    OBVIOUS
  <1>1. LedgerInv'
    BY NextLedgerInv, RecordLedgerStep DEF CompleteInv
  <1>2. HistoryInv'
    BY HistoryKept DEF CompleteInv
  <1>3. ConstitutionInv' /\ CountersInv'
    BY NextConstitutionInv, CountersKept DEF CompleteInv
  <1>4. PackageInv' /\ MemoInv'
    BY PackageKept, MemoMoves DEF CompleteInv
  <1> QED
    BY <1>1, <1>2, <1>3, <1>4 DEF CompleteInv

(* What governance hands on is of its kind and complete: every artifact of *)
(* a package can be read off its chain of custody, whatever was added,     *)
(* finalized and reported in whichever order, and the memo of a release    *)
(* that measures worse owns to no less risk (audit_export.py:229-252,      *)
(* residual_risk_memo.py:369-518).                                         *)
THEOREM RecordsCompleteCorrect == Spec => RecordsComplete
  <1>1. CompleteInv /\ [Next]_releaseVars
           => [\A new \in memo', old \in memo :
                  AtLeast(new.metrics, old.metrics) => OwnsNoLess(new, old)]_recordsVars
    BY MemoMoves DEF CompleteInv
  <1> QED
    BY <1>1, InitCompleteInv, NextCompleteInv, CompleteFacts, PTL
       DEF Spec, RecordsComplete, MemoOwnsRisk

-----------------------------------------------------------------------------
(***************************************************************************)
(* The trends of the history (ReleaseHistory): the slope of the fitted     *)
(* line is a covariance, so it lies on the side of the threshold on which  *)
(* every step between releases lies.                                       *)
(***************************************************************************)

LEMMA HavingFinite ==
    ASSUME HistoryInv, NEW metric
    PROVE  /\ IsFiniteSet(Having(metric))
           /\ Having(metric) \subseteq DOMAIN runs
           /\ Having(metric) \subseteq Nat
           /\ \A i \in Having(metric) : /\ runs[i].timestamp \in Nat
                                        /\ runs[i].metrics[metric] \in Int
  <1>1. DOMAIN runs = 1..Len(runs) /\ Len(runs) \in Nat
    BY DEF HistoryInv
  <1>2. IsFiniteSet(1..Len(runs))
    <2>1. 1 \in Int /\ Len(runs) \in Int
      BY <1>1
    <2> QED
      BY <2>1, FS_Interval
  <1>3. Having(metric) \subseteq DOMAIN runs
    BY DEF Having
  <1>4. \A i \in Having(metric) : /\ runs[i].timestamp \in Nat
                                  /\ runs[i].metrics[metric] \in Int
    BY HistoryTyped DEF HistoryTypeOK, IsRun, Having
  <1> QED
    BY <1>1, <1>2, <1>3, <1>4, FS_Subset

(* Sorting with the newest first and turning the list round leaves the     *)
(* runs in the order of their times, for no two are of the same moment.    *)
LEMMA RunsInOrder ==
    ASSUME HistoryInv, OneRunAMoment, NEW metric
    PROVE  /\ Cardinality(Having(metric)) \in Nat
           /\ InOrderOfTime(metric) \in [1..Cardinality(Having(metric)) -> Having(metric)]
           /\ GetRuns(metric) = InOrderOfTime(metric)
  <1> DEFINE H == Having(metric)
             n == Cardinality(H)
             up == [i \in H |-> runs[i].timestamp]
             down == [i \in H |-> -runs[i].timestamp]
             o == InOrderOfTime(metric)
             r == NewestFirst(metric)
  <1>1. IsFiniteSet(H) /\ H \subseteq Int /\ \A i \in H : runs[i].timestamp \in Int
    BY HavingFinite
  <1>2. /\ DOMAIN up = H /\ DOMAIN down = H
        /\ \A i \in H : /\ up[i] = runs[i].timestamp /\ up[i] \in Int
                        /\ down[i] = -runs[i].timestamp /\ down[i] \in Int
    BY <1>1
  <1>3. o = ByKey(up) /\ r = ByKey(down)
    BY DEF InOrderOfTime, NewestFirst
  <1>4. \A i, j \in H : up[i] = up[j] => i = j
    BY <1>2, HavingFinite DEF OneRunAMoment
  <1>5. OrdersTotally(KeyOrder(up), H) /\ OrdersTotally(KeyOrder(down), H)
    <2> HIDE DEF H, up, down
    <2>1. /\ DOMAIN up \subseteq Int /\ \A i \in DOMAIN up : up[i] \in Int
          /\ DOMAIN down \subseteq Int /\ \A i \in DOMAIN down : down[i] \in Int
      BY <1>1, <1>2
    <2>2. /\ OrdersTotally(KeyOrder(up), DOMAIN up)
          /\ OrdersTotally(KeyOrder(down), DOMAIN down)
      BY <2>1, KeyOrderTotal, Zenon
    <2> QED
      BY <1>2, <2>2
  <1>6. \A x, y \in H : /\ <<x, y>> \in KeyOrder(up) <=> up[x] < up[y]
                        /\ <<x, y>> \in KeyOrder(down) <=> up[y] < up[x]
    <2> HIDE DEF H, up, down
    <2> SUFFICES ASSUME NEW x \in H, NEW y \in H
                 PROVE  /\ <<x, y>> \in KeyOrder(up) <=> up[x] < up[y]
                        /\ <<x, y>> \in KeyOrder(down) <=> up[y] < up[x]
      OBVIOUS
    <2>1. /\ <<x, y>> \in KeyOrder(up)
                <=> up[x] < up[y] \/ (up[x] = up[y] /\ x < y)
          /\ <<x, y>> \in KeyOrder(down)
                <=> down[x] < down[y] \/ (down[x] = down[y] /\ x < y)
      BY <1>2 DEF KeyOrder
    <2>2. x \in Int /\ y \in Int /\ (up[x] = up[y] => x = y)
      BY <1>1, <1>4
    <2>3. /\ down[x] = -runs[x].timestamp /\ up[x] = runs[x].timestamp
          /\ down[y] = -runs[y].timestamp /\ up[y] = runs[y].timestamp
          /\ runs[x].timestamp \in Int /\ runs[y].timestamp \in Int
      BY <1>1, <1>2
    <2>4. /\ down[x] < down[y] <=> up[y] < up[x]
          /\ down[x] = down[y] => up[x] = up[y]
      BY <2>3
    <2>5. ~(up[x] = up[y] /\ x < y)
      BY <2>2
    <2> QED
      BY <2>1, <2>4, <2>5, Zenon
  <1>7. /\ o = InOrder(H, KeyOrder(up))
        /\ r = InOrder(H, KeyOrder(down))
    BY <1>2, <1>3 DEF ByKey, KeyOrder
  <1> HIDE DEF H, up, down, o, r
  <1>8. /\ n \in Nat /\ o \in [1..n -> H] /\ r \in [1..n -> H]
        /\ \A k \in 1..n : Cardinality(Earlier(H, KeyOrder(up), o[k])) = k - 1
    BY <1>1, <1>5, <1>7, InOrderSorts
  <1>9. ASSUME NEW k \in 1..n
        PROVE  r[(n - k) + 1] = o[k]
    <2> DEFINE x == o[k]
               low == Earlier(H, KeyOrder(up), x)
               high == Earlier(H, KeyOrder(down), x)
    <2>1. x \in H /\ Cardinality(low) = k - 1
      BY <1>8
    <2>2. high = (H \ {x}) \ low /\ low \subseteq H \ {x}
      <3>1. \A y \in H : up[y] \in Int
        BY <1>2
      <3>2. \A y \in H : y # x => up[y] < up[x] \/ up[x] < up[y]
        BY <1>4, <2>1, <3>1
      <3>3. \A y \in H : ~(up[y] < up[x] /\ up[x] < up[y]) /\ ~(up[x] < up[x])
        BY <2>1, <3>1
      <3> HIDE DEF x
      <3> QED
        BY <1>6, <2>1, <3>2, <3>3 DEF Earlier
    <2>3. IsFiniteSet(H \ {x}) /\ Cardinality(H \ {x}) = n - 1
      BY <1>1, <2>1, FS_RemoveElement
    <2> HIDE DEF x, low, high
    <2>4. /\ IsFiniteSet(low)
          /\ Cardinality((H \ {x}) \ low)
               = Cardinality(H \ {x}) - Cardinality((H \ {x}) \cap low)
      BY <2>2, <2>3, FS_Subset, FS_Difference
    <2>5. (H \ {x}) \cap low = low
      BY <2>2
    <2>6. Cardinality(high) = (n - 1) - (k - 1)
      BY <2>1, <2>2, <2>3, <2>4, <2>5
    <2>7. Cardinality(high) + 1 = (n - k) + 1
      BY <1>8, <2>6
    <2>8. r[Cardinality(high) + 1] = x
      BY <1>1, <1>5, <1>7, <2>1, InOrderAt DEF high
    <2> QED
      BY <2>7, <2>8 DEF x
  <1>10. Len(r) = n
    <2> HIDE DEF n
    <2>1. r \in Seq(H)
      BY <1>8
    <2> QED
      BY <1>8, <2>1, LenProperties
  <1>11. GetRuns(metric) = [k \in 1..n |-> r[(n - k) + 1]]
    BY <1>10 DEF GetRuns, Reverse, r
  <1>12. o = [k \in 1..n |-> o[k]]
    BY <1>8
  <1> HIDE DEF n
  <1>13. [k \in 1..n |-> r[(n - k) + 1]] = [k \in 1..n |-> o[k]]
    BY <1>9
  <1> QED
    BY <1>8, <1>11, <1>12, <1>13 DEF n, H, o

LEMMA SeriesInOrder ==
    ASSUME HistoryInv, OneRunAMoment, NEW metric
    PROVE  LET n == Cardinality(Having(metric))
               places == InOrderOfTime(metric)
               values == MetricSeries(metric)
           IN  /\ n \in Nat
               /\ Len(places) = n
               /\ Len(values) = n
               /\ values \in [1..n -> Int]
               /\ \A k \in 1..n : values[k] = runs[places[k]].metrics[metric]
  <1> DEFINE H == Having(metric)
             n == Cardinality(H)
             o == InOrderOfTime(metric)
             v == MetricSeries(metric)
  <1>1. n \in Nat /\ o \in [1..n -> H] /\ GetRuns(metric) = o
    BY RunsInOrder
  <1>2. \A i \in H : runs[i].metrics[metric] \in Int
    BY HavingFinite
  <1>3. v = [k \in 1..n |-> runs[o[k]].metrics[metric]]
    <2> HIDE DEF o, n
    <2>1. v = [k \in DOMAIN o |-> runs[o[k]].metrics[metric]]
      BY <1>1 DEF MetricSeries
    <2> QED
      BY <1>1, <2>1
  <1> HIDE DEF n, H, o, v
  <1>4. v \in [1..n -> Int] /\ \A k \in 1..n : v[k] = runs[o[k]].metrics[metric]
    BY <1>1, <1>2, <1>3
  <1>5. o \in Seq(H) /\ v \in Seq(Int)
    BY <1>1, <1>4
  <1>6. Len(o) = n /\ Len(v) = n
    BY <1>1, <1>4, <1>5, LenProperties
  <1> QED
    BY <1>1, <1>4, <1>6 DEF n, H, o, v

(* What rises with every step moves together with the number of steps.     *)
LEMMA RisesTogether ==
    ASSUME NEW n \in Nat, n >= 2, NEW x, \A k \in 1..n : x[k] = k - 1,
           NEW w, \A k \in 1..n : w[k] \in Int, NEW e \in Int, e >= 0,
           \A k \in 1..(n - 1) : w[k + 1] - w[k] >= e
    PROVE  MoveTogether(x, w, 1..n) /\ (x[2] - x[1]) * (w[2] - w[1]) >= e
  <1>1. \A i, j \in 1..n : i < j => w[j] - w[i] >= e
    BY StepsRise
  <1>2. ASSUME NEW i \in 1..n, NEW j \in 1..n
        PROVE  (x[j] - x[i]) * (w[j] - w[i]) >= 0
    <2> DEFINE a == j - i
               b == w[j] - w[i]
    <2>1. w[i] \in Int /\ w[j] \in Int /\ x[i] = i - 1 /\ x[j] = j - 1
      OBVIOUS
    <2>2. a \in Int /\ b \in Int /\ x[j] - x[i] = a
      BY <2>1
    <2>3. i < j => a > 0 /\ b >= 0
      BY <1>1, <2>2
    <2>4. j < i => a < 0 /\ b <= 0
      <3>1. j < i => w[i] - w[j] >= e
        BY <1>1
      <3> QED
        BY <2>1, <3>1
    <2>5. i = j => a = 0
      OBVIOUS
    <2>6. i < j \/ j < i \/ i = j
      OBVIOUS
    <2> HIDE DEF a, b
    <2>7. (a > 0 /\ b >= 0) \/ (a < 0 /\ b <= 0) \/ a = 0
      BY <2>3, <2>4, <2>5, <2>6, Zenon
    <2>8. \A c, d \in Int : (c > 0 /\ d >= 0) \/ (c < 0 /\ d <= 0) \/ c = 0 => c * d >= 0
      OBVIOUS
    <2>9. a * b >= 0
      BY <2>2, <2>7, <2>8
    <2> QED
      BY <2>2, <2>9 DEF b
  <1>3. (x[2] - x[1]) * (w[2] - w[1]) >= e
    <2>1. x[1] = 0 /\ x[2] = 1 /\ w[1] \in Int /\ w[2] \in Int /\ w[2] - w[1] >= e
      BY <1>1
    <2> DEFINE b == w[2] - w[1]
    <2>2. b \in Int /\ b >= e /\ x[2] - x[1] = 1
      BY <2>1
    <2> HIDE DEF b
    <2>3. (x[2] - x[1]) * b >= e
      BY <2>2
    <2> QED
      BY <2>3 DEF b
  <1> QED
    BY <1>2, <1>3 DEF MoveTogether

(* The fitted line: the denominator of its slope is positive, and the      *)
(* slope lies where all the steps lie.                                     *)
LEMMA SlopeFacts ==
    ASSUME NEW n \in Nat, n >= 2, NEW values \in [1..n -> Int], Len(values) = n,
           NEW sign \in Int, NEW m \in Int,
           NEW fit, fit = LinearRegression(values)
    PROVE  /\ fit.num \in Int /\ fit.den \in Int /\ fit.den > 0
           /\ (\A k \in 1..(n - 1) : sign * (values[k + 1] - values[k]) > m)
                 => sign * fit.num > m * fit.den
           /\ (\A k \in 1..(n - 1) : sign * (values[k + 1] - values[k]) <= m)
                 => sign * fit.num <= m * fit.den
  <1> DEFINE S == 1..n
             x == [k \in S |-> k - 1]
             xx == [k \in S |-> (k - 1) * (k - 1)]
             xv == [k \in S |-> (k - 1) * values[k]]
             z == [k \in S |-> sign * values[k] + (-m) * x[k]]
             xz == [k \in S |-> sign * xv[k] + (-m) * xx[k]]
             y == [k \in S |-> (-sign) * values[k] + m * x[k]]
             xy == [k \in S |-> (-sign) * xv[k] + m * xx[k]]
             den == Covariance(S, x, x, xx)
             num == Covariance(S, x, values, xv)
  <1>1. IsFiniteSet(S) /\ Cardinality(S) = n
    <2>1. 1 \in Int /\ n \in Int
      OBVIOUS
    <2>2. IsFiniteSet(S) /\ Cardinality(S) = IF 1 > n THEN 0 ELSE n - 1 + 1
      BY <2>1, FS_Interval
    <2> QED
      BY <2>2
  <1>2. fit.num = num /\ fit.den = den
    <2>1. DOMAIN values = S /\ ~(n < 2)
      OBVIOUS
    <2>2. fit = [num |-> n * Total(xv) - Total(x) * Total(values),
                 den |-> n * Total(xx) - Total(x) * Total(x),
                 spread |-> n * Total([k \in S |-> values[k] * values[k]])
                              - Total(values) * Total(values)]
      BY <2>1 DEF LinearRegression
    <2>3. /\ fit.num = n * Total(xv) - Total(x) * Total(values)
          /\ fit.den = n * Total(xx) - Total(x) * Total(x)
      BY <2>2
    <2>4. /\ Total(xv) = SumFunctionOnSet(xv, S) /\ Total(x) = SumFunctionOnSet(x, S)
          /\ Total(xx) = SumFunctionOnSet(xx, S)
          /\ Total(values) = SumFunctionOnSet(values, S)
      BY <2>1 DEF Total, SumFunction
    <2> QED
      BY <1>1, <2>3, <2>4 DEF Covariance
  <1>3. \A k \in S : /\ x[k] = k - 1 /\ x[k] \in Int
                     /\ xx[k] = x[k] * x[k] /\ xx[k] \in Int
                     /\ values[k] \in Int
                     /\ xv[k] = x[k] * values[k] /\ xv[k] \in Int
    OBVIOUS
  <1>4. \A k \in S : /\ z[k] = sign * values[k] + (-m) * x[k] /\ z[k] \in Int
                     /\ xz[k] = sign * xv[k] + (-m) * xx[k]
                     /\ y[k] = (-sign) * values[k] + m * x[k] /\ y[k] \in Int
                     /\ xy[k] = (-sign) * xv[k] + m * xx[k]
    <2> SUFFICES ASSUME NEW k \in S
                 PROVE  /\ z[k] = sign * values[k] + (-m) * x[k] /\ z[k] \in Int
                        /\ xz[k] = sign * xv[k] + (-m) * xx[k]
                        /\ y[k] = (-sign) * values[k] + m * x[k] /\ y[k] \in Int
                        /\ xy[k] = (-sign) * xv[k] + m * xx[k]
      OBVIOUS
    <2> HIDE DEF x, xx, xv
    <2>1. /\ z[k] = sign * values[k] + (-m) * x[k]
          /\ xz[k] = sign * xv[k] + (-m) * xx[k]
          /\ y[k] = (-sign) * values[k] + m * x[k]
          /\ xy[k] = (-sign) * xv[k] + m * xx[k]
      OBVIOUS
    <2>2. sign * values[k] + (-m) * x[k] \in Int /\ (-sign) * values[k] + m * x[k] \in Int
      <3> DEFINE a == x[k]
                 b == values[k]
      <3>1. a \in Int /\ b \in Int
        BY <1>3
      <3> HIDE DEF a, b
      <3>2. sign * b + (-m) * a \in Int /\ (-sign) * b + m * a \in Int
        BY <3>1
      <3> QED
        BY <3>2 DEF a, b
    <2> HIDE DEF z, xz, y, xy
    <2> QED
      BY <2>1, <2>2
  <1> HIDE DEF x, xx, xv, z, xz, y, xy
  <1>5. /\ HasProducts(xx, x, x, S) /\ HasProducts(xv, x, values, S)
    BY <1>3 DEF HasProducts
  <1>6. HasProducts(xz, x, z, S)
    <2> SUFFICES ASSUME NEW k \in S PROVE xz[k] = x[k] * z[k]
      BY <1>3, <1>4 DEF HasProducts
    <2> DEFINE a == x[k]
               b == values[k]
    <2>1. /\ a \in Int /\ b \in Int /\ z[k] = sign * b + (-m) * a
          /\ xz[k] = sign * (a * b) + (-m) * (a * a)
      BY <1>3, <1>4
    <2> HIDE DEF a, b
    <2>2. xz[k] = a * z[k]
      BY <2>1
    <2> QED
      BY <2>2 DEF a
  <1>7. HasProducts(xy, x, y, S)
    <2> SUFFICES ASSUME NEW k \in S PROVE xy[k] = x[k] * y[k]
      BY <1>3, <1>4 DEF HasProducts
    <2> DEFINE a == x[k]
               b == values[k]
    <2>1. /\ a \in Int /\ b \in Int /\ y[k] = (-sign) * b + m * a
          /\ xy[k] = (-sign) * (a * b) + m * (a * a)
      BY <1>3, <1>4
    <2> HIDE DEF a, b
    <2>2. xy[k] = a * y[k]
      BY <2>1
    <2> QED
      BY <2>2 DEF a
  <1>8. /\ Combines(z, sign, values, -m, x, S) /\ Combines(xz, sign, xv, -m, xx, S)
        /\ Combines(y, -sign, values, m, x, S) /\ Combines(xy, -sign, xv, m, xx, S)
    BY <1>3, <1>4 DEF Combines
  <1>9. /\ SumFunctionOnSet(x, S) \in Int /\ SumFunctionOnSet(xx, S) \in Int
        /\ SumFunctionOnSet(xv, S) \in Int /\ SumFunctionOnSet(values, S) \in Int
    BY <1>1, <1>3, SumTypes DEF IntValued
  <1>10. /\ Covariance(S, x, z, xz) = sign * num - m * den
         /\ Covariance(S, x, y, xy) = m * den - sign * num
    <2>1. -m \in Int /\ -sign \in Int
      OBVIOUS
    <2> DEFINE X == SumFunctionOnSet(x, S)
               XX == SumFunctionOnSet(xx, S)
               XV == SumFunctionOnSet(xv, S)
               V == SumFunctionOnSet(values, S)
    <2>2. /\ SumFunctionOnSet(z, S) = sign * V + (-m) * X
          /\ SumFunctionOnSet(xz, S) = sign * XV + (-m) * XX
          /\ SumFunctionOnSet(y, S) = (-sign) * V + m * X
          /\ SumFunctionOnSet(xy, S) = (-sign) * XV + m * XX
      BY <1>1, <1>8, <2>1, SumLinear
    <2>3. X \in Int /\ XX \in Int /\ XV \in Int /\ V \in Int
      BY <1>9
    <2>4. /\ Covariance(S, x, z, xz) = n * SumFunctionOnSet(xz, S) - X * SumFunctionOnSet(z, S)
          /\ Covariance(S, x, y, xy) = n * SumFunctionOnSet(xy, S) - X * SumFunctionOnSet(y, S)
          /\ num = n * XV - X * V /\ den = n * XX - X * X
      BY <1>1 DEF Covariance
    <2> HIDE DEF X, XX, XV, V, num, den, S
    <2>5. /\ Covariance(S, x, z, xz) = n * (sign * XV + (-m) * XX) - X * (sign * V + (-m) * X)
          /\ Covariance(S, x, y, xy) = n * ((-sign) * XV + m * XX) - X * ((-sign) * V + m * X)
      BY <2>2, <2>4
    <2>6. n * (sign * XV + (-m) * XX) - X * (sign * V + (-m) * X)
            = sign * (n * XV - X * V) - m * (n * XX - X * X)
      BY <2>3
    <2>7. n * ((-sign) * XV + m * XX) - X * ((-sign) * V + m * X)
            = m * (n * XX - X * X) - sign * (n * XV - X * V)
      BY <2>3
    <2> QED
      BY <2>4, <2>5, <2>6, <2>7, Zenon
  <1>11. \A k \in 1..(n - 1) : /\ k \in S /\ k + 1 \in S
                               /\ x[k] = k - 1 /\ x[k + 1] = k
                               /\ values[k] \in Int /\ values[k + 1] \in Int
    <2>1. \A k \in 1..(n - 1) : k \in S /\ k + 1 \in S
      OBVIOUS
    <2>2. \A k \in 1..(n - 1) : x[k] = k - 1 /\ x[k + 1] = (k + 1) - 1
      BY <2>1 DEF x
    <2>3. \A k \in S : values[k] \in Int
      OBVIOUS
    <2> HIDE DEF S
    <2> QED
      BY <2>1, <2>2, <2>3
  <1>12. 1 \in S /\ 2 \in S
    OBVIOUS
  <1>13. ASSUME NEW w, NEW e \in Int, e >= 0, \A k \in 1..n : w[k] \in Int,
                \A k \in 1..(n - 1) : w[k + 1] - w[k] >= e
         PROVE  MoveTogether(x, w, 1..n) /\ (x[2] - x[1]) * (w[2] - w[1]) >= e
    <2>1. \A k \in 1..n : x[k] = k - 1
      BY DEF x
    <2> HIDE DEF x
    <2> QED
      BY <1>13, <2>1, RisesTogether
  <1>14. den \in Int /\ den > 0
    <2>1. \A k \in 1..(n - 1) : x[k + 1] - x[k] >= 1
      BY <1>11
    <2>2. \A k \in 1..n : x[k] \in Int
      BY <1>3
    <2>3. MoveTogether(x, x, S) /\ (x[2] - x[1]) * (x[2] - x[1]) >= 1
      BY <1>13, <2>1, <2>2
    <2>4. (x[2] - x[1]) * (x[2] - x[1]) \in Int
      BY <1>11
    <2> DEFINE q == (x[2] - x[1]) * (x[2] - x[1])
    <2> HIDE DEF S
    <2>5. q \in Int /\ q >= 1 => q > 0
      OBVIOUS
    <2> QED
      BY <1>1, <1>5, <1>12, <2>3, <2>4, <2>5, CovarianceSign
  <1>15. num \in Int
    <2>1. \A a, b, c, d \in Int : a * b - c * d \in Int
      OBVIOUS
    <2> QED
      BY <1>1, <1>9, <2>1 DEF Covariance
  <1>16. ASSUME \A k \in 1..(n - 1) : sign * (values[k + 1] - values[k]) > m
         PROVE  sign * num > m * den
    <2>1. \A k \in 1..(n - 1) : z[k + 1] - z[k] >= 1
      <3> TAKE k \in 1..(n - 1)
      <3>1. /\ k \in S /\ k + 1 \in S /\ x[k] = k - 1 /\ x[k + 1] = k
            /\ values[k] \in Int /\ values[k + 1] \in Int
            /\ sign * (values[k + 1] - values[k]) > m
        BY <1>11, <1>16
      <3>2. /\ z[k] = sign * values[k] + (-m) * (k - 1)
            /\ z[k + 1] = sign * values[k + 1] + (-m) * k
        BY <1>4, <3>1
      <3>3. z[k + 1] - z[k] = sign * (values[k + 1] - values[k]) - m
        BY <3>1, <3>2
      <3>4. sign * (values[k + 1] - values[k]) \in Int
        BY <3>1
      <3> QED
        BY <3>1, <3>3, <3>4
    <2>2. \A k \in 1..n : z[k] \in Int
      BY <1>4
    <2>3. MoveTogether(x, z, S) /\ (x[2] - x[1]) * (z[2] - z[1]) >= 1
      BY <1>13, <2>1, <2>2
    <2> DEFINE q == (x[2] - x[1]) * (z[2] - z[1])
    <2>4. q \in Int /\ q >= 1
      <3>1. x[1] = 0 /\ x[2] = 1 /\ z[1] \in Int /\ z[2] \in Int
        BY <1>11, <1>12, <2>2
      <3> QED
        BY <2>3, <3>1
    <2> HIDE DEF q
    <2>5. q > 0
      BY <2>4
    <2>6. (x[2] - x[1]) * (z[2] - z[1]) > 0
      BY <2>5 DEF q
    <2>7. Covariance(S, x, z, xz) > 0
      <3> HIDE DEF S
      <3> QED
        BY <1>1, <1>6, <1>12, <2>3, <2>6, CovarianceSign
    <2> HIDE DEF num, den
    <2>8. sign * num \in Int /\ m * den \in Int
      BY <1>14, <1>15
    <2> QED
      BY <1>10, <2>7, <2>8
  <1>17. ASSUME \A k \in 1..(n - 1) : sign * (values[k + 1] - values[k]) <= m
         PROVE  sign * num <= m * den
    <2>1. \A k \in 1..(n - 1) : y[k + 1] - y[k] >= 0
      <3> TAKE k \in 1..(n - 1)
      <3>1. /\ k \in S /\ k + 1 \in S /\ x[k] = k - 1 /\ x[k + 1] = k
            /\ values[k] \in Int /\ values[k + 1] \in Int
            /\ sign * (values[k + 1] - values[k]) <= m
        BY <1>11, <1>17
      <3>2. /\ y[k] = (-sign) * values[k] + m * (k - 1)
            /\ y[k + 1] = (-sign) * values[k + 1] + m * k
        BY <1>4, <3>1
      <3>3. y[k + 1] - y[k] = m - sign * (values[k + 1] - values[k])
        BY <3>1, <3>2
      <3>4. sign * (values[k + 1] - values[k]) \in Int
        BY <3>1
      <3> QED
        BY <3>1, <3>3, <3>4
    <2>2. \A k \in 1..n : y[k] \in Int
      BY <1>4
    <2>3. MoveTogether(x, y, S)
      BY <1>13, <2>1, <2>2
    <2>4. Covariance(S, x, y, xy) >= 0
      <3> HIDE DEF S
      <3> QED
        BY <1>1, <1>7, <2>3, CovarianceSign
    <2> HIDE DEF num, den
    <2>5. sign * num \in Int /\ m * den \in Int
      BY <1>14, <1>15
    <2> QED
      BY <1>10, <2>4, <2>5
  <1> QED
    BY <1>2, <1>14, <1>15, <1>16, <1>17

LEMMA CeilingFacts ==
    ASSUME NEW a \in Int, NEW b \in Int, b > 0
    PROVE  /\ CeilingOf(a, b) \in Int
           /\ b * CeilingOf(a, b) >= a
           /\ b * CeilingOf(a, b) - b < a
  <1> DEFINE q == (a + b - 1) \div b
             r == (a + b - 1) % b
  <1>1. q \in Int /\ r \in 0..(b - 1)
    OBVIOUS
  <1>2. a + b - 1 = b * q + r
    OBVIOUS
  <1> HIDE DEF q, r
  <1>3. b * q \in Int
    BY <1>1
  <1> DEFINE p == b * q
  <1> HIDE DEF p
  <1>4. p >= a /\ p - b < a
    BY <1>1, <1>2, <1>3 DEF p
  <1> QED
    BY <1>1, <1>4 DEF CeilingOf, q, p

(* As many releases as are projected to the breach reach the threshold on  *)
(* the line, and no fewer do.                                              *)
OnLine(cur, threshold, sign, fit, k) ==
    sign * (cur * fit.den + k * fit.num) >= sign * threshold * fit.den

LEMMA BreachFacts ==
    ASSUME NEW cur \in Int, NEW threshold \in Int, NEW worse \in BOOLEAN,
           NEW sign, sign = (IF worse THEN 1 ELSE -1),
           NEW fit, fit.num \in Int, fit.den \in Int, fit.den > 0,
           NEW breach, breach = ProjectBreach(cur, fit, threshold, worse), breach > 0
    PROVE  /\ breach \in Int
           /\ OnLine(cur, threshold, sign, fit, breach)
           /\ ~OnLine(cur, threshold, sign, fit, breach - 1)
           /\ ~OnLine(cur, threshold, sign, fit, 0)
           /\ breach <= 3 => OnLine(cur, threshold, sign, fit, 3)
  <1> DEFINE num == fit.num
             den == fit.den
  <1>1. num \in Int /\ den \in Int /\ den > 0
    OBVIOUS
  <1>2. /\ sign \in Int
        /\ ~(sign * cur >= sign * threshold)
        /\ ~(sign * num <= 0)
        /\ breach = CeilingOf(sign * (threshold - cur) * den, sign * num)
    BY DEF ProjectBreach, NoBreach
  <1> HIDE DEF num, den
  <1> DEFINE a == sign * (threshold - cur) * den
             b == sign * num
  <1>3. a \in Int /\ b \in Int /\ b > 0
    <2>1. sign = 1 \/ sign = -1
      OBVIOUS
    <2> QED
      BY <1>1, <1>2, <2>1
  <1>4. breach \in Int /\ b * breach >= a /\ b * breach - b < a
    <2> HIDE DEF a, b
    <2>1. breach = CeilingOf(a, b)
      BY <1>2 DEF a, b
    <2> QED
      BY <1>3, <2>1, CeilingFacts
  <1>5. a > 0
    <2>1. \A i, j \in Int : i > 0 /\ j > 0 => i * j > 0
      OBVIOUS
    <2> DEFINE c == sign * (threshold - cur)
    <2>2. c \in Int /\ c > 0
      <3>1. sign = 1 \/ sign = -1
        OBVIOUS
      <3> QED
        BY <1>2, <3>1
    <2> HIDE DEF c
    <2>3. c * den > 0
      BY <1>1, <2>1, <2>2
    <2> QED
      BY <2>3 DEF c
  <1>6. b * breach <= b * 3 \/ ~(breach <= 3)
    <2> HIDE DEF b
    <2>1. \A i, j, k \in Int : i > 0 /\ j <= k => i * j <= i * k
      OBVIOUS
    <2> QED
      BY <1>3, <1>4, <2>1
  <1> DEFINE At(n) == sign * (cur * den + n * num)
             Goal == sign * threshold * den
  <1>7. \A n \in Int : At(n) - Goal = b * n - a /\ At(n) \in Int
    <2> TAKE n \in Int
    <2> QED
      BY <1>1, <1>2
  <1>8. Goal \in Int
    BY <1>1, <1>2
  <1>9. b * (breach - 1) = b * breach - b /\ b * 0 = 0 /\ b * breach \in Int
    <2> HIDE DEF b
    <2> QED
      BY <1>3, <1>4
  <1>10. /\ At(breach) - Goal = b * breach - a /\ At(breach) \in Int
         /\ At(breach - 1) - Goal = b * breach - b - a /\ At(breach - 1) \in Int
         /\ At(0) - Goal = 0 - a /\ At(0) \in Int
         /\ At(3) - Goal = b * 3 - a /\ At(3) \in Int
    <2>1. breach - 1 \in Int /\ 0 \in Int /\ 3 \in Int
      BY <1>4
    <2> HIDE DEF At, Goal, a, b
    <2> QED
      BY <1>4, <1>7, <1>9, <2>1
  <1> DEFINE bb == b * breach
             b3 == b * 3
  <1>11. bb \in Int /\ b3 \in Int
    BY <1>3, <1>9
  <1>12. bb >= a /\ bb - b < a /\ (bb <= b3 \/ ~(breach <= 3))
    BY <1>4, <1>6
  <1>13. /\ At(breach) - Goal = bb - a /\ At(breach - 1) - Goal = bb - b - a
         /\ At(3) - Goal = b3 - a
    BY <1>10
  <1> HIDE DEF At, Goal, a, b, bb, b3
  <1>14. At(breach) >= Goal
    BY <1>3, <1>8, <1>10, <1>11, <1>12, <1>13
  <1>15. ~(At(breach - 1) >= Goal)
    BY <1>3, <1>8, <1>10, <1>11, <1>12, <1>13
  <1>16. ~(At(0) >= Goal)
    BY <1>3, <1>5, <1>8, <1>10
  <1>17. breach <= 3 => At(3) >= Goal
    BY <1>3, <1>8, <1>10, <1>11, <1>12, <1>13
  <1> QED
    BY <1>4, <1>14, <1>15, <1>16, <1>17 DEF OnLine, At, Goal, num, den

LEMMA TrendSoundHolds ==
    ASSUME HistoryInv, NEW metric, NEW threshold \in Int, NEW worse \in BOOLEAN
    PROVE  TrendSound(metric, threshold, worse)
  <1> DEFINE sign == IF worse THEN 1 ELSE -1
             places == InOrderOfTime(metric)
             values == MetricSeries(metric)
             trend == AnalyzeMetric(values, threshold, worse)
             fit == LinearRegression(values)
             n == Cardinality(Having(metric))
             Loss(k) == sign * (runs[places[k + 1]].metrics[metric]
                                  - runs[places[k]].metrics[metric])
             Reaches(k) == sign * (Last(values) * trend.fit.den + k * trend.fit.num)
                             >= sign * threshold * trend.fit.den
  <1> SUFFICES ASSUME OneRunAMoment, Len(places) >= MinRuns
               PROVE  /\ (\A k \in 1..(Len(places) - 1) : Loss(k) > ErosionThreshold)
                            => trend.eroding
                      /\ (\A k \in 1..(Len(places) - 1) : Loss(k) <= ErosionThreshold)
                            => ~trend.eroding
                      /\ trend.breach > 0 =>
                            Reaches(trend.breach) /\ ~Reaches(trend.breach - 1)
                      /\ trend.advice = "critical" => ~Reaches(0) /\ Reaches(3)
    BY DEF TrendSound
  <1>1. /\ n \in Nat /\ Len(places) = n /\ Len(values) = n
        /\ values \in [1..n -> Int]
        /\ \A k \in 1..n : values[k] = runs[places[k]].metrics[metric]
    BY SeriesInOrder
  <1>2. n >= 2 /\ ErosionThreshold \in Int /\ ~(Len(values) < MinRuns)
    <2> HIDE DEF n, places, values
    <2> QED
      BY <1>1, HistoryAssumption DEF HistoryAssumption
  <1>3. sign \in Int
    OBVIOUS
  <1> HIDE DEF n, places, values, sign, fit
  <1>4. /\ fit.num \in Int /\ fit.den \in Int /\ fit.den > 0
        /\ (\A k \in 1..(n - 1) : sign * (values[k + 1] - values[k]) > ErosionThreshold)
              => sign * fit.num > ErosionThreshold * fit.den
        /\ (\A k \in 1..(n - 1) : sign * (values[k + 1] - values[k]) <= ErosionThreshold)
              => sign * fit.num <= ErosionThreshold * fit.den
    BY <1>1, <1>2, <1>3, SlopeFacts DEF fit
  <1> DEFINE slope == IF worse THEN fit.num ELSE -fit.num
             eroding == slope > ErosionThreshold * fit.den
             breach == ProjectBreach(Last(values), fit, threshold, worse)
  <1>5. /\ trend.fit = fit /\ trend.eroding = eroding /\ trend.breach = breach
        /\ trend.advice = Advice(eroding, fit, breach)
    <2>1. trend = [fit |-> fit, eroding |-> eroding, breach |-> breach,
                   advice |-> Advice(eroding, fit, breach)]
      BY <1>2 DEF AnalyzeMetric, fit
    <2> HIDE DEF trend, eroding, breach
    <2> QED
      BY <2>1
  <1>6. slope = sign * fit.num
    BY <1>4 DEF sign
  <1>7. \A k \in 1..(n - 1) : Loss(k) = sign * (values[k + 1] - values[k])
    <2>1. \A k \in 1..(n - 1) : k \in 1..n /\ k + 1 \in 1..n
      BY <1>1
    <2> QED
      BY <1>1, <2>1
  <1>8. /\ (\A k \in 1..(n - 1) : Loss(k) > ErosionThreshold) => eroding
        /\ (\A k \in 1..(n - 1) : Loss(k) <= ErosionThreshold) => ~eroding
    <2> DEFINE u == sign * fit.num
               d == ErosionThreshold * fit.den
    <2>1. u \in Int /\ d \in Int
      BY <1>2, <1>3, <1>4
    <2>2. (\A k \in 1..(n - 1) : Loss(k) > ErosionThreshold) => u > d
      BY <1>4, <1>7
    <2>3. (\A k \in 1..(n - 1) : Loss(k) <= ErosionThreshold) => u <= d
      BY <1>4, <1>7
    <2>4. eroding <=> u > d
      BY <1>6
    <2> HIDE DEF u, d, eroding, Loss
    <2>5. u <= d => ~(u > d)
      BY <2>1
    <2> QED
      BY <2>2, <2>3, <2>4, <2>5
  <1>9. Last(values) \in Int
    <2>1. n \in 1..n
      BY <1>1, <1>2
    <2> QED
      BY <1>1, <2>1 DEF Last
  <1> DEFINE At(k) == sign * (Last(values) * fit.den + k * fit.num)
                        >= sign * threshold * fit.den
  <1>10. breach > 0 => /\ At(breach) /\ ~At(breach - 1) /\ ~At(0)
                       /\ breach <= 3 => At(3)
    <2> DEFINE current == Last(values)
    <2>1. /\ breach = ProjectBreach(current, fit, threshold, worse)
          /\ sign = (IF worse THEN 1 ELSE -1)
          /\ current \in Int
      BY <1>9 DEF sign
    <2> HIDE DEF breach, current
    <2> SUFFICES ASSUME breach > 0
                 PROVE  /\ At(breach) /\ ~At(breach - 1) /\ ~At(0)
                        /\ breach <= 3 => At(3)
      OBVIOUS
    <2>2. /\ OnLine(current, threshold, sign, fit, breach)
          /\ ~OnLine(current, threshold, sign, fit, breach - 1)
          /\ ~OnLine(current, threshold, sign, fit, 0)
          /\ breach <= 3 => OnLine(current, threshold, sign, fit, 3)
      BY <1>4, <2>1, BreachFacts
    <2>3. \A k : At(k) <=> OnLine(current, threshold, sign, fit, k)
      BY DEF OnLine, current
    <2> HIDE DEF At
    <2> QED
      BY <2>2, <2>3
  <1>11. Advice(eroding, fit, breach) = "critical" => breach \in 1..3
    <2> HIDE DEF eroding, breach
    <2> QED
      BY DEF Advice
  <1>12. breach \in 1..3 => breach > 0 /\ breach <= 3
    <2> HIDE DEF breach
    <2> QED
      OBVIOUS
  <1>13. \A k : Reaches(k) <=> At(k)
    <2> HIDE DEF trend
    <2> QED
      BY <1>5
  <1> HIDE DEF trend, eroding, breach, At, Reaches, Loss
  <1>14. trend.advice = "critical" => ~At(0) /\ At(3)
    BY <1>5, <1>10, <1>11, <1>12
  <1>15. trend.breach > 0 => At(trend.breach) /\ ~At(trend.breach - 1)
    BY <1>5, <1>10
  <1> QED
    BY <1>1, <1>5, <1>8, <1>13, <1>14, <1>15

(* The trend of every metric is sound: eroding exactly as its steps are,   *)
(* projected to the threshold with as many releases as the line needs, and *)
(* what is advised as critical is counted as critical, for histories of    *)
(* any length in any order (history.py:188-329, 344-351).                  *)
THEOREM TrendsSoundCorrect == Spec => []TrendsSound
  <1>1. HistoryInv => TrendsSound
    <2> SUFFICES ASSUME HistoryInv, NEW threshold \in TrendThresholds,
                        NEW worse \in BOOLEAN
                 PROVE  LET analyses == AnalyzeAll([m \in Metrics |-> threshold],
                                                   [m \in Metrics |-> worse])
                        IN  /\ \A m \in Metrics : TrendSound(m, threshold, worse)
                            /\ {m \in DOMAIN analyses : analyses[m].advice = "critical"}
                                 \subseteq ReportedCritical(analyses)
      BY DEF TrendsSound
    <2> DEFINE direction == [m \in Metrics |-> worse]
               thresholds == [m \in Metrics |-> threshold]
               analyses == AnalyzeAll(thresholds, direction)
               Analysis(m) == AnalyzeMetric(MetricSeries(m), threshold, worse)
    <2>1. threshold \in Int
      BY ReleaseAssumption DEF ReleaseAssumption
    <2>2. \A m \in Metrics : TrendSound(m, threshold, worse)
      BY <2>1, TrendSoundHolds
    <2>3. ASSUME NEW m \in DOMAIN analyses
          PROVE  m \in Metrics /\ analyses[m] = Analysis(m)
      <3>1. /\ m \in Metrics
            /\ analyses[m] = AnalyzeMetric(MetricSeries(m), thresholds[m],
                                           m \in DOMAIN direction => direction[m])
        BY <2>3 DEF AnalyzeAll
      <3>2. /\ thresholds[m] = threshold
            /\ (m \in DOMAIN direction => direction[m]) = worse
        BY <3>1
      <3> QED
        BY <3>1, <3>2
    <2>4. ASSUME NEW m, Analysis(m).advice = "critical"
          PROVE  Analysis(m).eroding /\ Analysis(m).breach \in 1..3
      <3> DEFINE values == MetricSeries(m)
                 fit == LinearRegression(values)
                 slope == IF worse THEN fit.num ELSE -fit.num
                 eroding == slope > ErosionThreshold * fit.den
                 breach == ProjectBreach(Last(values), fit, threshold, worse)
                 advice == Advice(eroding, fit, breach)
      <3>1. CASE Len(values) < MinRuns
        <4>1. Analysis(m).advice = "insufficient data"
          BY <3>1 DEF AnalyzeMetric
        <4> QED
          BY <2>4, <4>1
      <3>2. CASE ~(Len(values) < MinRuns)
        <4>1. Analysis(m) = [fit |-> fit, eroding |-> eroding, breach |-> breach,
                             advice |-> advice]
          BY <3>2 DEF AnalyzeMetric
        <4> HIDE DEF values, fit, slope, eroding, breach, advice, Analysis
        <4>2. /\ Analysis(m).eroding = eroding /\ Analysis(m).breach = breach
              /\ Analysis(m).advice = advice
          BY <4>1
        <4>3. advice = "critical"
          BY <2>4, <4>2
        <4>4. eroding /\ breach \in 1..3
          BY <4>3 DEF Advice, advice
        <4> QED
          BY <4>2, <4>4
      <3> QED
        BY <3>1, <3>2
    <2>5. {m \in DOMAIN analyses : analyses[m].advice = "critical"}
            \subseteq ReportedCritical(analyses)
      <3> HIDE DEF analyses, Analysis
      <3> QED
        BY <2>3, <2>4 DEF ReportedCritical
    <2> QED
      BY <2>2, <2>5
  <1>2. CompleteInv => HistoryInv
    BY DEF CompleteInv
  <1> QED
    BY <1>1, <1>2, InitCompleteInv, NextCompleteInv, PTL DEF Spec

-----------------------------------------------------------------------------
(***************************************************************************)
(* The detection of gaming (GamingDetector): scores that all grew by the   *)
(* same factor are neither localized nor fragmented, and correlate fully.  *)
(***************************************************************************)

(* The history holds snapshots.                                            *)
HistoryOfSnapshots == history \in Seq(Snapshots)

(* The scores of a snapshot are numbers.                                   *)
LEMMA ScoreTypes ==
  ASSUME NEW s \in Snapshots, NEW m
  PROVE  Score(s, m) \in Int
<1>1. m \in DOMAIN s.metrics => s.metrics[m] \in Int
  BY GamingAssumption DEF GamingAssumption
<1> QED
  BY <1>1 DEF Score

LEMMA LastTwo ==
  ASSUME HistoryOfSnapshots, Len(history) >= 2
  PROVE  Recent \in Snapshots /\ Previous \in Snapshots
<1>1. Len(history) \in Nat /\ \A i \in 1..Len(history) : history[i] \in Snapshots
  BY LenProperties, ElementOfSeq DEF HistoryOfSnapshots
<1> QED
  BY <1>1 DEF Recent, Previous

(* A metric that gained did not fall.                                      *)
LEMMA GainIsNoFall ==
  ASSUME NEW m, NEW percent \in Nat,
         Score(Previous, m) \in Int, ChangedBy(m) \in Int, ChangedBy(m) >= 0
  PROVE  ~Fell(m, percent)
<1> SUFFICES ASSUME Score(Previous, m) > 0, 100 * ChangedBy(m) < -percent * Score(Previous, m)
             PROVE  FALSE
  BY DEF Fell
<1>1. percent * Score(Previous, m) >= 0
  OBVIOUS
<1>2. -percent * Score(Previous, m) = -(percent * Score(Previous, m))
  OBVIOUS
<1> QED
  BY <1>1, <1>2

(* Nor did what rose.                                                      *)
LEMMA RiseIsNoFall ==
  ASSUME NEW m, Score(Previous, m) \in Int, ChangedBy(m) \in Int, Rose(m, 5)
  PROVE  ~Fell(m, 3)
BY DEF Rose, Fell

(* Equal shares are rounded to the same number of thousandths.             *)
LEMMA QuotientsAgree ==
  ASSUME NEW a \in Int, NEW b \in Int, NEW p \in Int, NEW q \in Int,
         p > 0, q > 0, a * q = b * p
  PROVE  a \div p = b \div q
<1> DEFINE s == a \div p
           t == b \div q
<1>1. /\ s \in Int /\ s * p <= a /\ a < (s + 1) * p
      /\ t \in Int /\ t * q <= b /\ b < (t + 1) * q
  OBVIOUS
<1> HIDE DEF s, t
<1>2. ASSUME s < t PROVE FALSE
  <2>1. (s + 1) * (p * q) <= t * (p * q)
    BY <1>1, <1>2
  <2>2. a * q < (s + 1) * p * q
    BY <1>1
  <2>3. t * q * p <= b * p
    BY <1>1
  <2> QED
    BY <1>1, <2>1, <2>2, <2>3
<1>3. ASSUME t < s PROVE FALSE
  <2>1. (t + 1) * (p * q) <= s * (p * q)
    BY <1>1, <1>3
  <2>2. b * p < (t + 1) * q * p
    BY <1>1
  <2>3. s * p * q <= a * q
    BY <1>1
  <2> QED
    BY <1>1, <2>1, <2>2, <2>3
<1> QED
  BY <1>1, <1>2, <1>3 DEF s, t

(* What is the same everywhere does not spread.                            *)
LEMMA ConstantSpread ==
  ASSUME NEW values, IsFiniteSet(DOMAIN values), NEW c \in Int,
         \A x \in DOMAIN values : values[x] = c
  PROVE  Spread(values) = 0
<1> DEFINE S == DOMAIN values
           squares == [i \in S |-> values[i] * values[i]]
           n == Cardinality(S)
<1>1. n \in Nat
  BY FS_CardinalityType
<1>2. SumFunctionOnSet(values, S) = n * c
  BY SumOfEqual
<1>3. c * c \in Int /\ \A x \in S : squares[x] = c * c
  OBVIOUS
<1>4. SumFunctionOnSet(squares, S) = n * (c * c)
  <2> HIDE DEF squares, n
  <2> QED
    BY <1>3, SumOfEqual DEF n
<1>5. DOMAIN squares = S
  OBVIOUS
<1>6. Spread(values) = n * SumFunctionOnSet(squares, S)
                         - SumFunctionOnSet(values, S) * SumFunctionOnSet(values, S)
  BY <1>5 DEF Spread, SumOf, SumFunction
<1>7. \A k, d \in Int : k * (k * (d * d)) - (k * d) * (k * d) = 0
  OBVIOUS
<1> HIDE DEF n, squares, S
<1> QED
  BY <1>1, <1>2, <1>4, <1>6, <1>7

-----------------------------------------------------------------------------
(* From x to y everything grew by the same factor b / a, and so did the    *)
(* sum.                                                                    *)
GrewBy(S, x, y, a, b) ==
    \A m \in S : x[m] \in Int /\ y[m] \in Int /\ a * y[m] = b * x[m]

LEMMA SumGrowsBy ==
  ASSUME NEW S, IsFiniteSet(S), NEW a \in Int, NEW b \in Int, NEW x, NEW y,
         GrewBy(S, x, y, a, b)
  PROVE  /\ SumFunctionOnSet(x, S) \in Int /\ SumFunctionOnSet(y, S) \in Int
         /\ a * SumFunctionOnSet(y, S) = b * SumFunctionOnSet(x, S)
<1> DEFINE h == [m \in S |-> a * y[m]]
<1>1. IntValued(x, S) /\ IntValued(y, S)
  BY DEF IntValued, GrewBy
<1>2. SumFunctionOnSet(x, S) \in Int /\ SumFunctionOnSet(y, S) \in Int
  BY <1>1, SumTypes
<1>3. \A m \in S : /\ x[m] \in Int /\ y[m] \in Int
                   /\ h[m] = a * y[m] /\ h[m] = b * x[m]
  BY DEF GrewBy
<1> HIDE DEF h
<1>4. Combines(h, a, y, 0, y, S) /\ Combines(h, b, x, 0, x, S)
  BY <1>3 DEF Combines
<1>5. /\ SumFunctionOnSet(h, S) = a * SumFunctionOnSet(y, S) + 0 * SumFunctionOnSet(y, S)
      /\ SumFunctionOnSet(h, S) = b * SumFunctionOnSet(x, S) + 0 * SumFunctionOnSet(x, S)
  <2>1. 0 \in Int
    OBVIOUS
  <2> QED
    BY <1>4, <2>1, SumLinear
<1> QED
  BY <1>2, <1>5

(* How two functions on a set vary together, as production_correlation     *)
(* works it out.                                                           *)
Dev(S, r, s) ==
    Cardinality(S) * SumOf([m \in S |-> r[m] * s[m]])
      - SumOf([m \in S |-> r[m]]) * SumOf([m \in S |-> s[m]])

LEMMA DevIsCovariance ==
  \A S, r, s : Dev(S, r, s) =
      Covariance(S, [m \in S |-> r[m]], [m \in S |-> s[m]], [m \in S |-> r[m] * s[m]])
BY DEF Dev, Covariance, SumOf, SumFunction

LEMMA DevOfItself ==
  ASSUME NEW S, IsFiniteSet(S), NEW x, \A m \in S : x[m] \in Int
  PROVE  Dev(S, x, x) \in Int /\ Dev(S, x, x) >= 0
<1> DEFINE f == [m \in S |-> x[m]]
           p == [m \in S |-> x[m] * x[m]]
<1>1. HasProducts(p, f, f, S)
  BY DEF HasProducts
<1>2. MoveTogether(f, f, S)
  <2>1. \A i, j \in Int : (i - j) * (i - j) >= 0
    OBVIOUS
  <2> QED
    BY <2>1 DEF MoveTogether
<1>3. Dev(S, x, x) = Covariance(S, f, f, p)
  BY DevIsCovariance
<1> HIDE DEF f, p
<1> QED
  BY <1>1, <1>2, <1>3, CovarianceSign

(* Scores that all grew by the same factor b / a correlate fully.          *)
LEMMA ProportionalDev ==
  ASSUME NEW S, IsFiniteSet(S), NEW x, NEW y, NEW a \in Int, NEW b \in Int,
         GrewBy(S, x, y, a, b)
  PROVE  /\ Dev(S, x, y) \in Int /\ Dev(S, y, y) \in Int
         /\ a * Dev(S, x, y) = b * Dev(S, x, x)
         /\ a * (a * Dev(S, y, y)) = b * (b * Dev(S, x, x))
<1> DEFINE f == [m \in S |-> x[m]]
           g == [m \in S |-> y[m]]
           p == [m \in S |-> x[m] * x[m]]
           q == [m \in S |-> x[m] * y[m]]
           w == [m \in S |-> y[m] * y[m]]
           n == Cardinality(S)
           F == SumFunctionOnSet(f, S)
           G == SumFunctionOnSet(g, S)
           P == SumFunctionOnSet(p, S)
           Q == SumFunctionOnSet(q, S)
           W == SumFunctionOnSet(w, S)
<1>1. n \in Nat
  BY FS_CardinalityType
<1>2. /\ Dev(S, x, x) = n * P - F * F
      /\ Dev(S, x, y) = n * Q - F * G
      /\ Dev(S, y, y) = n * W - G * G
  BY DevIsCovariance DEF Covariance
<1>3. \A m \in S : /\ f[m] \in Int /\ g[m] \in Int /\ p[m] \in Int /\ q[m] \in Int /\ w[m] \in Int
                   /\ a * g[m] = b * f[m]
                   /\ a * q[m] = b * p[m]
                   /\ a * w[m] = b * q[m]
  <2> TAKE m \in S
  <2>1. x[m] \in Int /\ y[m] \in Int /\ a * y[m] = b * x[m]
    BY DEF GrewBy
  <2>2. /\ f[m] = x[m] /\ g[m] = y[m]
        /\ p[m] = x[m] * x[m] /\ q[m] = x[m] * y[m] /\ w[m] = y[m] * y[m]
    OBVIOUS
  <2>3. a * (x[m] * y[m]) = b * (x[m] * x[m])
    <3>1. a * (x[m] * y[m]) = x[m] * (a * y[m])
      BY <2>1
    <3>2. b * (x[m] * x[m]) = x[m] * (b * x[m])
      BY <2>1
    <3> QED
      BY <2>1, <3>1, <3>2
  <2>4. a * (y[m] * y[m]) = b * (x[m] * y[m])
    <3>1. a * (y[m] * y[m]) = y[m] * (a * y[m])
      BY <2>1
    <3>2. b * (x[m] * y[m]) = y[m] * (b * x[m])
      BY <2>1
    <3> QED
      BY <2>1, <3>1, <3>2
  <2> HIDE DEF f, g, p, q, w
  <2> QED
    BY <2>1, <2>2, <2>3, <2>4
<1> HIDE DEF f, g, p, q, w
<1>4. GrewBy(S, f, g, a, b) /\ GrewBy(S, p, q, a, b) /\ GrewBy(S, q, w, a, b)
  BY <1>3 DEF GrewBy
<1>5. F \in Int /\ G \in Int /\ a * G = b * F
  BY <1>4, SumGrowsBy
<1>6. P \in Int /\ Q \in Int /\ a * Q = b * P
  BY <1>4, SumGrowsBy
<1>7. W \in Int /\ a * W = b * Q
  BY <1>4, SumGrowsBy
<1> HIDE DEF n, F, G, P, Q, W
<1>8. a * (n * Q - F * G) = b * (n * P - F * F)
  <2>1. a * (n * Q - F * G) = n * (a * Q) - F * (a * G)
    BY <1>1, <1>5, <1>6
  <2>2. b * (n * P - F * F) = n * (b * P) - F * (b * F)
    BY <1>1, <1>5, <1>6
  <2> QED
    BY <1>5, <1>6, <2>1, <2>2
<1>9. a * (n * W - G * G) = b * (n * Q - F * G)
  <2>1. a * (n * W - G * G) = n * (a * W) - G * (a * G)
    BY <1>1, <1>5, <1>6, <1>7
  <2>2. b * (n * Q - F * G) = n * (b * Q) - G * (b * F)
    BY <1>1, <1>5, <1>6
  <2> QED
    BY <1>5, <1>7, <2>1, <2>2
<1> DEFINE D == n * P - F * F
           E == n * Q - F * G
           H == n * W - G * G
<1>10. D \in Int /\ E \in Int /\ H \in Int
  BY <1>1, <1>5, <1>6, <1>7
<1> HIDE DEF D, E, H
<1>11. a * E = b * D /\ a * H = b * E
  BY <1>8, <1>9 DEF D, E, H
<1>12. a * (a * H) = b * (b * D)
  <2>1. a * (a * H) = a * (b * E)
    BY <1>11
  <2>2. a * (b * E) = b * (a * E)
    BY <1>10
  <2> QED
    BY <1>11, <2>1, <2>2
<1> QED
  BY <1>2, <1>10, <1>11, <1>12 DEF D, E, H

LEMMA FullyCorrelated ==
  ASSUME NEW a \in Int, NEW b \in Int, a > 0, b > 0,
         NEW D \in Int, NEW E \in Int, NEW H \in Int, D > 0,
         a * E = b * D, a * (a * H) = b * (b * D)
  PROVE  E > 0 /\ 25 * E * E >= 3 * 3 * D * H
<1>1. E > 0
  <2> SUFFICES ASSUME E <= 0 PROVE FALSE
    OBVIOUS
  <2>1. a * E <= 0
    OBVIOUS
  <2>2. b * D > 0
    OBVIOUS
  <2> QED
    BY <2>1, <2>2
<1>2. (a * a) * (E * E) = (a * a) * (D * H)
  <2>1. (a * a) * (E * E) = (a * E) * (a * E)
    OBVIOUS
  <2>2. (a * a) * (D * H) = D * (a * (a * H))
    OBVIOUS
  <2>3. (b * D) * (b * D) = D * (b * (b * D))
    OBVIOUS
  <2> QED
    BY <2>1, <2>2, <2>3
<1>3. E * E = D * H
  <2> DEFINE c == a * a
             u == E * E
             v == D * H
  <2>1. c \in Int /\ u \in Int /\ v \in Int /\ c > 0
    OBVIOUS
  <2>2. c * u = c * v
    BY <1>2
  <2> HIDE DEF c, u, v
  <2>3. u = v
    BY <2>1, <2>2
  <2> QED
    BY <2>3 DEF u, v
<1>4. E * E >= 0
  OBVIOUS
<1>5. 25 * E * E = 25 * (E * E) /\ 3 * 3 * D * H = 9 * (D * H)
  OBVIOUS
<1> QED
  BY <1>1, <1>3, <1>4, <1>5

-----------------------------------------------------------------------------
(* What a uniform gain says of a metric of the gate.                       *)
LEMMA GainFacts ==
  ASSUME HistoryOfSnapshots, UniformGain
  PROVE  /\ Recent \in Snapshots /\ Previous \in Snapshots
         /\ \A m \in DOMAIN GateThresholds :
               /\ Score(Previous, m) \in Int /\ Score(Previous, m) > 0
               /\ Score(Recent, m) \in Int /\ Score(Recent, m) >= Score(Previous, m)
               /\ ChangedBy(m) = Score(Recent, m) - Score(Previous, m)
               /\ ChangedBy(m) \in Int /\ ChangedBy(m) >= 0
         /\ \A m, k \in DOMAIN GateThresholds :
               Score(Recent, m) * Score(Previous, k) = Score(Recent, k) * Score(Previous, m)
<1>1. Recent \in Snapshots /\ Previous \in Snapshots
  BY LastTwo DEF UniformGain
<1>2. \A m : Score(Previous, m) \in Int /\ Score(Recent, m) \in Int
  BY <1>1, ScoreTypes
<1>3. \A m : ChangedBy(m) = Score(Recent, m) - Score(Previous, m)
  BY DEF ChangedBy
<1>4. \A m \in DOMAIN GateThresholds :
          /\ Score(Previous, m) > 0 /\ ChangedBy(m) >= 0
          /\ ChangedBy(m) \in Int
          /\ Score(Recent, m) >= Score(Previous, m)
  BY <1>2, <1>3 DEF UniformGain
<1>5. ASSUME NEW m \in DOMAIN GateThresholds, NEW k \in DOMAIN GateThresholds
      PROVE  Score(Recent, m) * Score(Previous, k) = Score(Recent, k) * Score(Previous, m)
  <2>1. ChangedBy(m) * Score(Previous, k) = ChangedBy(k) * Score(Previous, m)
    BY DEF UniformGain
  <2>2. /\ ChangedBy(m) = Score(Recent, m) - Score(Previous, m)
        /\ ChangedBy(k) = Score(Recent, k) - Score(Previous, k)
    BY <1>3
  <2>3. \A r, p, s, q \in Int : (r - p) * q = (s - q) * p => r * q = s * p
    OBVIOUS
  <2> QED
    BY <1>2, <2>1, <2>2, <2>3
<1> QED
  BY <1>1, <1>2, <1>3, <1>4, <1>5

LEMMA GainIsNotLocal ==
  ASSUME HistoryOfSnapshots, UniformGain
  PROVE  ~LocalizedImprovement
<1>1. \A m \in DOMAIN GateThresholds : ~Fell(m, 2)
  BY GainFacts, GainIsNoFall
<1> DEFINE F == {m \in DOMAIN GateThresholds : Fell(m, 2)}
<1>2. F = {} /\ Cardinality({}) = 0
  BY <1>1, FS_EmptySet
<1>3. LocalizedImprovement => Cardinality(F) >= 3
  BY DEF LocalizedImprovement
<1> HIDE DEF F
<1> QED
  BY <1>2, <1>3

LEMMA GainDoesNotDiverge ==
  ASSUME HistoryOfSnapshots, UniformGain, NEW p \in Diverging
  PROVE  p[2] \notin DOMAIN GateThresholds
<1>1. Fell(p[2], 3)
  BY DEF Diverging
<1> QED
  BY <1>1, GainFacts, GainIsNoFall

LEMMA GainIsWhole ==
  ASSUME HistoryOfSnapshots, UniformGain
  PROVE  Fragmentation = 0
<1> DEFINE gate == DOMAIN GateThresholds
           changed == {m \in gate : Score(Previous, m) > 0}
           values == [m \in changed |-> (1000 * ChangedBy(m)) \div Score(Previous, m)]
<1>1. changed = gate /\ IsFiniteSet(gate)
  BY GainFacts, GamingAssumption DEF GamingAssumption
<1>2. Fragmentation = Spread(values)
  BY DEF Fragmentation, UniformGain
<1>3. ASSUME NEW m \in gate, NEW k \in gate
      PROVE  values[m] = values[k]
  <2> DEFINE a == 1000 * ChangedBy(m)
             b == 1000 * ChangedBy(k)
             p == Score(Previous, m)
             q == Score(Previous, k)
  <2>1. /\ ChangedBy(m) \in Int /\ ChangedBy(k) \in Int
        /\ p \in Int /\ q \in Int /\ p > 0 /\ q > 0
    BY GainFacts
  <2>2. ChangedBy(m) * q = ChangedBy(k) * p
    BY DEF UniformGain
  <2>3. \A c, d, i, j \in Int : c * j = d * i => (1000 * c) * j = (1000 * d) * i
    OBVIOUS
  <2>4. a * q = b * p /\ a \in Int /\ b \in Int
    BY <2>1, <2>2, <2>3
  <2>5. values[m] = a \div p /\ values[k] = b \div q
    BY <1>1
  <2> HIDE DEF a, b, p, q
  <2> QED
    BY <2>1, <2>4, <2>5, QuotientsAgree
<1>4. \A m \in gate : values[m] \in Int
  <2> TAKE m \in gate
  <2>1. /\ 1000 * ChangedBy(m) \in Int
        /\ Score(Previous, m) \in Int /\ Score(Previous, m) > 0
    BY GainFacts
  <2>2. values[m] = (1000 * ChangedBy(m)) \div Score(Previous, m)
    BY <1>1
  <2> QED
    BY <2>1, <2>2
<1>5. DOMAIN values = gate
  BY <1>1
<1> HIDE DEF values
<1>6. \E c \in Int : \A m \in gate : values[m] = c
  <2>1. CASE gate = {}
    BY <2>1
  <2>2. CASE gate # {}
    BY <1>3, <1>4, <2>2
  <2> QED
    BY <2>1, <2>2
<1> QED
  BY <1>1, <1>2, <1>5, <1>6, ConstantSpread

LEMMA GainCorrelates ==
  ASSUME HistoryOfSnapshots, UniformGain
  PROVE  ProductionCorrelated(Gated(Previous.metrics), Gated(Recent.metrics), 3)
<1> DEFINE gate == DOMAIN GateThresholds
           x == Gated(Previous.metrics)
           y == Gated(Recent.metrics)
           n == Cardinality(gate)
<1>1. /\ gate \subseteq DOMAIN Previous.metrics /\ gate \subseteq DOMAIN Recent.metrics
      /\ \A m \in gate : /\ Score(Previous, m) = Previous.metrics[m]
                         /\ Score(Recent, m) = Recent.metrics[m]
  <2>1. \A m \in gate : /\ Score(Previous, m) \in Int /\ Score(Previous, m) > 0
                        /\ Score(Recent, m) \in Int
                        /\ Score(Recent, m) >= Score(Previous, m)
    BY GainFacts
  <2>2. \A m \in gate : Score(Previous, m) # 0 /\ Score(Recent, m) # 0
    BY <2>1
  <2> QED
    BY <2>2 DEF Score
<1>2. /\ DOMAIN x = gate /\ DOMAIN y = gate
      /\ \A m \in gate : x[m] = Previous.metrics[m] \div Unit /\ y[m] = Recent.metrics[m] \div Unit
  BY <1>1 DEF Gated
<1>3. IsFiniteSet(gate) /\ n \in Nat
  BY GamingAssumption, FS_CardinalityType DEF GamingAssumption
<1> HIDE DEF x, y
<1>4. ASSUME NEW m \in gate
      PROVE  /\ x[m] \in Int /\ y[m] \in Int
             /\ Unit * x[m] = Score(Previous, m) /\ Unit * y[m] = Score(Recent, m)
  <2> DEFINE p == Previous.metrics[m]
             r == Recent.metrics[m]
  <2>1. Unit \in Nat \ {0} /\ p \in Int /\ p % Unit = 0 /\ r \in Int /\ r % Unit = 0
    BY <1>1, GainFacts, GamingAssumption DEF GamingAssumption
  <2>2. x[m] = p \div Unit /\ y[m] = r \div Unit
    BY <1>2
  <2>3. Score(Previous, m) = p /\ Score(Recent, m) = r
    BY <1>1
  <2> HIDE DEF p, r
  <2>4. /\ p \div Unit \in Int /\ Unit * (p \div Unit) = p
        /\ r \div Unit \in Int /\ Unit * (r \div Unit) = r
    BY <2>1
  <2> QED
    BY <2>2, <2>3, <2>4
<1>5. \A m \in gate : x[m] > 0 /\ y[m] > 0
  <2> TAKE m \in gate
  <2>1. Unit \in Nat \ {0} /\ Unit * x[m] > 0 /\ Unit * y[m] > 0
    BY <1>4, GainFacts, GamingAssumption DEF GamingAssumption
  <2>2. \A u \in Nat, i \in Int : u * i > 0 => i > 0
    OBVIOUS
  <2> QED
    BY <1>4, <2>1, <2>2
<1>6. ASSUME NEW m \in gate, NEW k \in gate
      PROVE  x[k] * y[m] = y[k] * x[m]
  <2>1. Score(Recent, m) * Score(Previous, k) = Score(Recent, k) * Score(Previous, m)
    BY GainFacts
  <2>2. (Unit * y[m]) * (Unit * x[k]) = (Unit * y[k]) * (Unit * x[m])
    BY <1>4, <2>1
  <2>3. \A u, i, j, e, f \in Int : u > 0 /\ (u * i) * (u * j) = (u * e) * (u * f)
                                     => j * i = e * f
    <3> TAKE u, i, j, e, f \in Int
    <3> HAVE u > 0 /\ (u * i) * (u * j) = (u * e) * (u * f)
    <3>1. (u * u) * (j * i) = (u * u) * (e * f) /\ u * u > 0
      OBVIOUS
    <3> DEFINE c == u * u
               v == j * i
               w == e * f
    <3>2. c \in Int /\ v \in Int /\ w \in Int /\ c > 0 /\ c * v = c * w
      BY <3>1
    <3> HIDE DEF c, v, w
    <3>3. v = w
      BY <3>2
    <3> QED
      BY <3>3 DEF v, w
  <2>4. Unit \in Int /\ Unit > 0
    BY GamingAssumption DEF GamingAssumption
  <2> QED
    BY <1>4, <2>2, <2>3, <2>4
<1>7. Common(x, y) = gate
  BY <1>2 DEF Common
<1>8. ProductionCorrelated(x, y, 3) <=>
        (n >= 3 /\ ~(Dev(gate, x, x) = 0 \/ Dev(gate, y, y) = 0) =>
            /\ Dev(gate, x, y) > 0
            /\ 25 * Dev(gate, x, y) * Dev(gate, x, y)
                 >= 3 * 3 * Dev(gate, x, x) * Dev(gate, y, y))
  BY <1>7 DEF ProductionCorrelated, Dev
<1>9. ASSUME n >= 3, Dev(gate, x, x) # 0
      PROVE  /\ Dev(gate, x, y) > 0
             /\ 25 * Dev(gate, x, y) * Dev(gate, x, y)
                  >= 3 * 3 * Dev(gate, x, x) * Dev(gate, y, y)
  <2>1. PICK k : k \in gate
    <3>1. gate # {}
      <4>1. Cardinality({}) = 0
        BY FS_EmptySet
      <4> QED
        BY <1>9, <4>1
    <3> QED
      BY <3>1
  <2> DEFINE a == x[k]
             b == y[k]
  <2>2. a \in Int /\ b \in Int /\ a > 0 /\ b > 0
    BY <1>4, <1>5, <2>1
  <2>3. \A m \in gate : x[m] \in Int /\ y[m] \in Int /\ a * y[m] = b * x[m]
    BY <1>4, <1>6, <2>1
  <2> HIDE DEF a, b
  <2>4. Dev(gate, x, x) \in Int /\ Dev(gate, x, x) >= 0
    BY <1>3, <2>3, DevOfItself
  <2>5. /\ Dev(gate, x, y) \in Int /\ Dev(gate, y, y) \in Int
        /\ a * Dev(gate, x, y) = b * Dev(gate, x, x)
        /\ a * (a * Dev(gate, y, y)) = b * (b * Dev(gate, x, x))
    <3>1. GrewBy(gate, x, y, a, b)
      BY <2>3 DEF GrewBy
    <3> QED
      BY <1>3, <2>2, <3>1, ProportionalDev
  <2> DEFINE D == Dev(gate, x, x)
             F == Dev(gate, x, y)
             H == Dev(gate, y, y)
  <2>6. D \in Int /\ F \in Int /\ H \in Int /\ D > 0
    BY <1>9, <2>4, <2>5
  <2>7. a * F = b * D /\ a * (a * H) = b * (b * D)
    BY <2>5
  <2> HIDE DEF D, F, H
  <2>8. F > 0 /\ 25 * F * F >= 3 * 3 * D * H
    BY <2>2, <2>6, <2>7, FullyCorrelated
  <2> QED
    BY <2>8 DEF D, F, H
<1>10. ProductionCorrelated(x, y, 3)
  BY <1>8, <1>9
<1> QED
  BY <1>10 DEF x, y

-----------------------------------------------------------------------------
(* Gaps of at most 19 thousandths average less than 20.                    *)
LEMMA ExpectedIsInconsistent ==
  ASSUME HistoryOfSnapshots, Len(history) >= 2,
         OodDropExpected(Previous.metrics, Recent.metrics, 150),
         HoldoutConsistent(Previous.metrics, Recent.metrics, 19)
  PROVE  FALSE
<1> DEFINE p == Previous.metrics
           r == Recent.metrics
           common == Common(p, r)
           n == Cardinality(common)
           gap == [m \in common |-> p[m] - r[m]]
           most == [m \in common |-> 19]
<1>1. /\ IsFiniteSet(DOMAIN p)
      /\ \A m \in DOMAIN p : p[m] \in Int
      /\ \A m \in DOMAIN r : r[m] \in Int
  BY LastTwo, GamingAssumption DEF GamingAssumption
<1>2. IsFiniteSet(common) /\ n \in Nat
  BY <1>1, FS_Subset, FS_CardinalityType DEF Common
<1>3. common # {} /\ SumFunctionOnSet(gap, common) >= 20 * n
  BY DEF OodDropExpected, SumOf, SumFunction
<1>4. \A m \in common : gap[m] \in Int /\ most[m] \in Int /\ gap[m] <= most[m]
  BY <1>1 DEF HoldoutConsistent, Common
<1>5. \A m \in common : most[m] = 19
  OBVIOUS
<1>6. IntValued(gap, common)
  BY <1>4 DEF IntValued
<1>7. n # 0
  BY <1>2, <1>3, FS_EmptySet
<1> HIDE DEF gap, most, common, n, p, r
<1>8. SumFunctionOnSet(gap, common) <= SumFunctionOnSet(most, common)
  BY <1>2, <1>4, SumGrows
<1>9. SumFunctionOnSet(most, common) = n * 19
  <2>1. 19 \in Int
    OBVIOUS
  <2> QED
    BY <1>2, <1>5, <2>1, SumOfEqual DEF n
<1>10. SumFunctionOnSet(gap, common) \in Int
  BY <1>2, <1>6, SumTypes
<1> QED
  BY <1>2, <1>3, <1>7, <1>8, <1>9, <1>10

LEMMA UniformGainQuietHolds == HistoryOfSnapshots => UniformGainQuiet
<1> SUFFICES ASSUME HistoryOfSnapshots PROVE UniformGainQuiet
  OBVIOUS
<1>1. ASSUME UniformGain
      PROVE  "localized_improvement" \notin {a.pattern : a \in DetectAll}
  <2>1. ~LocalizedImprovement
    BY <1>1, GainIsNotLocal
  <2>2. \A a \in DetectAll : a.pattern \in {"overfitting", "threshold_hugging",
                                            "metric_divergence", "temporal_gaming"}
    BY <2>1 DEF DetectAll
  <2> QED
    BY <2>2
<1>2. ASSUME UniformGain, NEW p \in Diverging
      PROVE  p[2] \notin DOMAIN GateThresholds
  BY <1>2, GainDoesNotDiverge
<1>3. ASSUME UniformGain
      PROVE  GamingSummary(DetectAll).fragmentation = 0
  BY <1>3, GainIsWhole DEF GamingSummary
<1>4. ASSUME UniformGain
      PROVE  ProductionCorrelated(Gated(Previous.metrics), Gated(Recent.metrics), 3)
  BY <1>4, GainCorrelates
<1>5. ASSUME NEW p \in Diverging, <<p[2], p[1]>> \in Diverging
      PROVE  FALSE
  <2>1. Len(history) >= 2 /\ Rose(p[1], 5) /\ Fell(p[1], 3)
    BY <1>5 DEF Diverging
  <2>2. Score(Previous, p[1]) \in Int /\ Score(Recent, p[1]) \in Int
    BY <2>1, LastTwo, ScoreTypes
  <2>3. ChangedBy(p[1]) \in Int
    BY <2>2 DEF ChangedBy
  <2> QED
    BY <2>1, <2>2, <2>3, RiseIsNoFall
<1>6. Len(history) >= 2 /\ OodDropExpected(Previous.metrics, Recent.metrics, 150)
        => ~HoldoutConsistent(Previous.metrics, Recent.metrics, 19)
  BY ExpectedIsInconsistent
<1> QED
  BY <1>1, <1>2, <1>3, <1>4, <1>5, <1>6 DEF UniformGainQuiet

-----------------------------------------------------------------------------
(***************************************************************************)
(* What is asked of one submission (SubmissionChecks): scores that fall    *)
(* raise no fewer and no milder alerts, and what is judged from the alerts *)
(* is no better.                                                           *)
(***************************************************************************)

(* A sequence of scores that all fell by a step.                           *)
LEMMA LoweredFacts ==
  ASSUME NEW v \in Seq(Int)
  PROVE  /\ Lowered(v) \in Seq(Int)
         /\ Len(Lowered(v)) = Len(v) /\ Len(v) \in Nat
         /\ DOMAIN v = 1..Len(v) /\ DOMAIN Lowered(v) = 1..Len(v)
         /\ \A i \in 1..Len(v) : /\ v[i] \in Int
                                 /\ Lowered(v)[i] = v[i] - Step
                                 /\ Lowered(v)[i] <= v[i]
         /\ IsFiniteSet(DOMAIN v) /\ Cardinality(DOMAIN v) = Len(v)
<1> DEFINE n == Len(v)
<1>1. n \in Nat /\ DOMAIN v = 1..n /\ \A i \in 1..n : v[i] \in Int
  OBVIOUS
<1>2. Lowered(v) = [i \in 1..n |-> v[i] - Step]
  BY <1>1 DEF Lowered
<1>3. \A i \in 1..n : v[i] - Step \in Int /\ v[i] - Step <= v[i]
  BY <1>1, SubmissionAssumption DEF SubmissionAssumption
<1>4. Lowered(v) \in [1..n -> Int]
  BY <1>2, <1>3
<1>5. Lowered(v) \in Seq(Int) /\ Len(Lowered(v)) = n
  BY <1>1, <1>4
<1>6. IsFiniteSet(1..n) /\ Cardinality(1..n) = n
  <2> HIDE DEF n
  <2>1. 1 \in Int /\ n \in Int
    BY <1>1
  <2>2. IsFiniteSet(1..n) /\ Cardinality(1..n) = IF 1 > n THEN 0 ELSE n - 1 + 1
    BY <2>1, FS_Interval, Zenon
  <2> QED
    BY <1>1, <2>2
<1> QED
  BY <1>1, <1>2, <1>3, <1>5, <1>6

LEMMA SumLowered ==
  ASSUME NEW v \in Seq(Int)
  PROVE  /\ SumSeq(v) \in Int /\ SumSeq(Lowered(v)) \in Int
         /\ SumSeq(Lowered(v)) = SumSeq(v) - Step * Len(v)
         /\ SumSeq(Lowered(v)) <= SumSeq(v)
<1> DEFINE S == DOMAIN v
           w == Lowered(v)
           one == [i \in S |-> 1]
           A == SumFunctionOnSet(v, S)
           B == SumFunctionOnSet(w, S)
<1>1. /\ IsFiniteSet(S) /\ Cardinality(S) = Len(v) /\ DOMAIN w = S /\ Len(v) \in Nat
      /\ \A i \in S : v[i] \in Int /\ w[i] = v[i] - Step
  BY LoweredFacts
<1>2. Step \in Nat
  BY SubmissionAssumption DEF SubmissionAssumption
<1>3. SumSeq(v) = A /\ SumSeq(w) = B
  BY <1>1 DEF SumSeq, SumFunction
<1>4. \A i \in S : one[i] = 1
  OBVIOUS
<1> HIDE DEF w, one, S
<1>5. IntValued(v, S) /\ IntValued(w, S)
  BY <1>1, <1>2 DEF IntValued
<1>6. A \in Int /\ B \in Int
  BY <1>1, <1>5, SumTypes
<1>7. Combines(w, 1, v, -Step, one, S)
  BY <1>1, <1>2, <1>4 DEF Combines
<1>8. SumFunctionOnSet(one, S) = Len(v)
  BY <1>1, <1>4, SumOfOnes
<1>9. B = 1 * A + (-Step) * Len(v)
  <2>1. 1 \in Int /\ -Step \in Int
    BY <1>2
  <2> QED
    BY <1>1, <1>7, <1>8, <2>1, SumLinear
<1>10. Step * Len(v) \in Nat
  BY <1>1, <1>2
<1> HIDE DEF A, B
<1>11. B = A - Step * Len(v) /\ B <= A
  BY <1>1, <1>2, <1>6, <1>9, <1>10
<1> QED
  BY <1>3, <1>6, <1>11 DEF w

(* Scores that fall together disperse as before.                           *)
LEMMA DispersionLowered ==
  ASSUME NEW v \in Seq(Int)
  PROVE  Dispersion(Lowered(v)) = Dispersion(v)
<1> DEFINE S == DOMAIN v
           w == Lowered(v)
           n == Len(v)
           one == [i \in S |-> 1]
           p == [i \in S |-> v[i] * v[i]]
           q == [i \in S |-> w[i] * w[i]]
           u == [i \in S |-> (-2 * Step) * v[i] + (Step * Step) * one[i]]
           A == SumSeq(v)
           P == SumFunctionOnSet(p, S)
           Q == SumFunctionOnSet(q, S)
           U == SumFunctionOnSet(u, S)
<1>1. /\ IsFiniteSet(S) /\ Cardinality(S) = n /\ DOMAIN w = S /\ n \in Nat /\ Len(w) = n
      /\ \A i \in S : v[i] \in Int /\ w[i] = v[i] - Step
  BY LoweredFacts
<1>2. Step \in Nat
  BY SubmissionAssumption DEF SubmissionAssumption
<1>3. A \in Int /\ SumSeq(w) = A - Step * n
  BY SumLowered
<1>4. /\ Dispersion(v) = n * P - A * A
      /\ Dispersion(w) = n * Q - SumSeq(w) * SumSeq(w)
  <2>1. [i \in DOMAIN w |-> w[i] * w[i]] = q
    BY <1>1
  <2>2. SumSeq(p) = P /\ SumSeq(q) = Q
    BY DEF SumSeq, SumFunction
  <2> HIDE DEF q, P, Q, A
  <2> QED
    BY <1>1, <2>1, <2>2 DEF Dispersion, A
<1>5. \A i \in S : /\ one[i] = 1 /\ p[i] = v[i] * v[i] /\ q[i] = w[i] * w[i]
                   /\ u[i] = (-2 * Step) * v[i] + (Step * Step) * one[i]
  OBVIOUS
<1> HIDE DEF w, one, p, q, u, S, n
<1>6. \A i \in S : /\ p[i] \in Int /\ u[i] \in Int /\ q[i] = 1 * p[i] + 1 * u[i]
  <2> TAKE i \in S
  <2>1. \A a, s \in Int : (a - s) * (a - s) = 1 * (a * a) + 1 * ((-2 * s) * a + (s * s) * 1)
    OBVIOUS
  <2>2. v[i] \in Int /\ w[i] = v[i] - Step /\ Step \in Int
    BY <1>1, <1>2
  <2>3. (v[i] - Step) * (v[i] - Step)
            = 1 * (v[i] * v[i]) + 1 * ((-2 * Step) * v[i] + (Step * Step) * 1)
    BY <2>1, <2>2
  <2>4. v[i] * v[i] \in Int /\ (-2 * Step) * v[i] + (Step * Step) * 1 \in Int
    BY <2>2
  <2> QED
    BY <1>5, <2>2, <2>3, <2>4
<1>7. Combines(q, 1, p, 1, u, S)
  BY <1>6 DEF Combines
<1>8. Combines(u, -2 * Step, v, Step * Step, one, S)
  BY <1>1, <1>5 DEF Combines
<1>9. SumFunctionOnSet(one, S) = n /\ SumFunctionOnSet(v, S) = A
  BY <1>1, <1>5, SumOfOnes DEF SumSeq, SumFunction, S
<1>10. U = (-2 * Step) * A + (Step * Step) * n
  <2>1. -2 * Step \in Int /\ Step * Step \in Int
    BY <1>2
  <2> QED
    BY <1>1, <1>8, <1>9, <2>1, SumLinear
<1>11. Q = 1 * P + 1 * U
  <2>1. 1 \in Int /\ IsFiniteSet(S) /\ Combines(q, 1, p, 1, u, S)
    BY <1>1, <1>7
  <2>2. SumFunctionOnSet(q, S) = 1 * SumFunctionOnSet(p, S) + 1 * SumFunctionOnSet(u, S)
    BY <2>1, SumLinear
  <2> QED
    BY <2>2
<1>12. P \in Int /\ U \in Int
  <2>1. IntValued(p, S) /\ IntValued(u, S)
    BY <1>6 DEF IntValued
  <2> QED
    BY <1>1, <2>1, SumTypes
<1> HIDE DEF A, P, Q, U
<1>13. \A k, a, b, s \in Int :
          k * (b + ((-2 * s) * a + (s * s) * k)) - (a - s * k) * (a - s * k) = k * b - a * a
  OBVIOUS
<1>14. Q = P + ((-2 * Step) * A + (Step * Step) * n)
  BY <1>10, <1>11, <1>12
<1>15. n \in Int /\ A \in Int /\ P \in Int /\ Step \in Int
  BY <1>1, <1>2, <1>3, <1>12
<1>16. n * Q - (A - Step * n) * (A - Step * n) = n * P - A * A
  BY <1>13, <1>14, <1>15
<1> QED
  BY <1>3, <1>4, <1>16 DEF w

-----------------------------------------------------------------------------
(* Every alert of the one set is in the other, or a graver one of its type.*)
Gravity == [low |-> 0, medium |-> 1, high |-> 2, critical |-> 3]

Graver(new, old) ==
    \A g \in old : \E h \in new :
        h[1] = g[1] /\ (h = g \/ Gravity[h[2]] > Gravity[g[2]])

LEMMA AlertIs ==
  \A type, severity, when :
      /\ when => Alert(type, severity, when) = {<<type, severity>>}
      /\ ~when => Alert(type, severity, when) = {}
BY DEF Alert

LEMMA AlertFinite == \A type, severity, when : IsFiniteSet(Alert(type, severity, when))
<1> SUFFICES ASSUME NEW type, NEW severity, NEW when
             PROVE  IsFiniteSet(Alert(type, severity, when))
  OBVIOUS
<1>1. IsFiniteSet({}) /\ IsFiniteSet({<<type, severity>>})
  BY FS_EmptySet, FS_Singleton
<1> QED
  BY <1>1 DEF Alert

LEMMA GraverItself == \A alerts : Graver(alerts, alerts)
BY DEF Graver

LEMMA GraverUnion ==
  ASSUME NEW a, NEW b, NEW c, NEW d, Graver(c, a), Graver(d, b)
  PROVE  Graver(c \cup d, a \cup b)
BY DEF Graver

(* An alert that is raised still is, and is no less grave.                 *)
LEMMA AlertGrows ==
  ASSUME NEW type, NEW old \in DOMAIN Gravity, NEW new \in DOMAIN Gravity,
         NEW before, NEW after, before => after,
         before => new = old \/ Gravity[new] > Gravity[old]
  PROVE  Graver(Alert(type, new, after), Alert(type, old, before))
<1>1. CASE before
  <2>1. after
    BY <1>1
  <2>2. /\ Alert(type, new, after) = {<<type, new>>}
        /\ Alert(type, old, before) = {<<type, old>>}
    BY <1>1, <2>1, AlertIs
  <2>3. new = old \/ Gravity[new] > Gravity[old]
    BY <1>1
  <2> DEFINE g == <<type, old>>
             h == <<type, new>>
  <2>4. /\ g[1] = type /\ g[2] = old /\ h[1] = type /\ h[2] = new
        /\ (new = old => h = g)
    OBVIOUS
  <2> HIDE DEF g, h
  <2>5. h[1] = g[1] /\ (h = g \/ Gravity[h[2]] > Gravity[g[2]])
    BY <2>3, <2>4
  <2> QED
    BY <2>2, <2>5 DEF Graver, g, h
<1>2. CASE ~before
  <2>1. Alert(type, old, before) = {}
    BY <1>2, AlertIs
  <2> QED
    BY <2>1 DEF Graver
<1> QED
  BY <1>1, <1>2

LEMMA GravityIs ==
  /\ DOMAIN Gravity = {"low", "medium", "high", "critical"}
  /\ Gravity["low"] = 0 /\ Gravity["medium"] = 1
  /\ Gravity["high"] = 2 /\ Gravity["critical"] = 3
BY DEF Gravity

-----------------------------------------------------------------------------
(* The checks for overfitting, of lower scores where they are compared.    *)
LEMMA EmptyLowered ==
  ASSUME NEW v \in Seq(Int)
  PROVE  v # <<>> => Lowered(v) # <<>>
BY LoweredFacts

LEMMA AboveGrows ==
  ASSUME NEW k \in Seq(Int), NEW v \in Seq(Int), NEW t \in Int, Above(k, v, t)
  PROVE  Above(k, Lowered(v), t)
<1>1. /\ Len(Lowered(v)) = Len(v) /\ Len(v) \in Nat /\ Len(k) \in Nat
      /\ SumSeq(v) \in Int /\ SumSeq(Lowered(v)) \in Int /\ SumSeq(k) \in Int
      /\ SumSeq(Lowered(v)) <= SumSeq(v)
  BY LoweredFacts, SumLowered
<1>2. \A a, b \in Int, n \in Nat : a <= b => a * n <= b * n
  OBVIOUS
<1>3. SumSeq(Lowered(v)) * Len(k) <= SumSeq(v) * Len(k)
  BY <1>1, <1>2
<1> DEFINE A == SumSeq(k) * Len(v)
           B == SumSeq(v) * Len(k)
           C == SumSeq(Lowered(v)) * Len(k)
           D == t * Len(k) * Len(v)
<1>4. A \in Int /\ B \in Int /\ C \in Int /\ D \in Int /\ C <= B
  BY <1>1, <1>3
<1>5. A - B > D
  BY DEF Above
<1>6. Above(k, Lowered(v), t) <=> A - C > D
  BY <1>1 DEF Above
<1> HIDE DEF A, B, C, D
<1> QED
  BY <1>4, <1>5, <1>6

LEMMA GapGrows ==
  ASSUME NEW k \in Seq(Int), NEW v \in Seq(Int)
  PROVE  Graver(EvalTrainGap(k, Lowered(v)), EvalTrainGap(k, v))
<1> DEFINE old == IF Above(k, v, 300) THEN "critical"
                  ELSE IF Above(k, v, 200) THEN "high" ELSE "medium"
           new == IF Above(k, Lowered(v), 300) THEN "critical"
                  ELSE IF Above(k, Lowered(v), 200) THEN "high" ELSE "medium"
           before == k # <<>> /\ v # <<>> /\ Above(k, v, 150)
           after == k # <<>> /\ Lowered(v) # <<>> /\ Above(k, Lowered(v), 150)
<1>1. /\ Above(k, v, 150) => Above(k, Lowered(v), 150)
      /\ Above(k, v, 200) => Above(k, Lowered(v), 200)
      /\ Above(k, v, 300) => Above(k, Lowered(v), 300)
  BY AboveGrows
<1>2. before => after
  BY <1>1, EmptyLowered
<1>3. new = old \/ Gravity[new] > Gravity[old]
  BY <1>1, GravityIs
<1>4. new \in DOMAIN Gravity /\ old \in DOMAIN Gravity
  BY GravityIs
<1>5. /\ EvalTrainGap(k, v) = Alert("eval_train_gap", old, before)
      /\ EvalTrainGap(k, Lowered(v)) = Alert("eval_train_gap", new, after)
  BY DEF EvalTrainGap
<1> HIDE DEF old, new, before, after
<1> QED
  BY <1>2, <1>3, <1>4, <1>5, AlertGrows

LEMMA GeneralizationGrows ==
  ASSUME NEW k \in Seq(Int), NEW v \in Seq(Int)
  PROVE  Graver(Generalization(k, Lowered(v)), Generalization(k, v))
<1> DEFINE Below(w, percent) ==
               \/ SumSeq(k) = 0
               \/ 100 * SumSeq(w) * Len(k) < percent * SumSeq(k) * Len(w)
           old == IF Below(v, 50) THEN "high" ELSE "medium"
           new == IF Below(Lowered(v), 50) THEN "high" ELSE "medium"
           before == v # <<>> /\ Below(v, 70)
           after == Lowered(v) # <<>> /\ Below(Lowered(v), 70)
<1>1. ASSUME NEW percent \in Int, Below(v, percent)
      PROVE  Below(Lowered(v), percent)
  <2>1. CASE SumSeq(k) = 0
    BY <2>1
  <2>2. CASE 100 * SumSeq(v) * Len(k) < percent * SumSeq(k) * Len(v)
    <3>1. /\ Len(Lowered(v)) = Len(v) /\ Len(v) \in Nat /\ Len(k) \in Nat
          /\ SumSeq(v) \in Int /\ SumSeq(Lowered(v)) \in Int /\ SumSeq(k) \in Int
          /\ SumSeq(Lowered(v)) <= SumSeq(v)
      BY LoweredFacts, SumLowered
    <3>2. \A a, b \in Int, n \in Nat : a <= b => 100 * a * n <= 100 * b * n
      OBVIOUS
    <3> DEFINE A == 100 * SumSeq(v) * Len(k)
               B == 100 * SumSeq(Lowered(v)) * Len(k)
               C == percent * SumSeq(k) * Len(v)
    <3>3. B <= A /\ A \in Int /\ B \in Int /\ C \in Int
      <4>1. B <= A
        BY <3>1, <3>2
      <4>2. A \in Int /\ B \in Int
        BY <3>1
      <4>3. C \in Int
        BY <3>1, <1>1
      <4> QED
        BY <4>1, <4>2, <4>3
    <3>4. A < C
      BY <2>2
    <3>5. percent * SumSeq(k) * Len(Lowered(v)) = C
      BY <3>1
    <3>6. B < C => Below(Lowered(v), percent)
      BY <3>5
    <3> HIDE DEF A, B, C
    <3>7. B < C
      BY <3>3, <3>4
    <3> QED
      BY <3>6, <3>7
  <2> QED
    BY <1>1, <2>1, <2>2
<1>2. /\ Below(v, 50) => Below(Lowered(v), 50)
      /\ Below(v, 70) => Below(Lowered(v), 70)
  <2>1. 50 \in Int /\ 70 \in Int
    OBVIOUS
  <2> HIDE DEF Below
  <2> QED
    BY <1>1, <2>1
<1>5. /\ Generalization(k, v) = Alert("generalization_failure", old, before)
      /\ Generalization(k, Lowered(v)) = Alert("generalization_failure", new, after)
  BY DEF Generalization
<1> HIDE DEF Below
<1>3. before => after
  BY <1>2, EmptyLowered
<1>4. /\ new = old \/ Gravity[new] > Gravity[old]
      /\ new \in DOMAIN Gravity /\ old \in DOMAIN Gravity
  BY <1>2, GravityIs
<1> HIDE DEF old, new, before, after
<1> QED
  BY <1>3, <1>4, <1>5, AlertGrows

LEMMA VarianceStays ==
  ASSUME NEW k, NEW v \in Seq(Int)
  PROVE  VariancePattern(k, Lowered(v)) = VariancePattern(k, v)
<1>1. Len(Lowered(v)) = Len(v) /\ Dispersion(Lowered(v)) = Dispersion(v)
  BY LoweredFacts, DispersionLowered
<1> DEFINE when(h, d) ==
               /\ Len(k) >= 5 /\ h >= 5
               /\ 10 * Dispersion(k) * h * (h - 1) < 3 * d * Len(k) * (Len(k) - 1)
               /\ Dispersion(k) < 10000 * Len(k) * (Len(k) - 1)
<1>2. \A w : VariancePattern(k, w)
               = Alert("variance_pattern", "medium", when(Len(w), Dispersion(w)))
  BY DEF VariancePattern
<1> HIDE DEF when
<1>3. when(Len(Lowered(v)), Dispersion(Lowered(v))) <=> when(Len(v), Dispersion(v))
  BY <1>1
<1> QED
  BY <1>2, <1>3 DEF Alert

(* Graver signals ask for no milder action.                                *)
OfOverfitting(signals) ==
    /\ IsFiniteSet(signals)
    /\ signals \subseteq (DOMAIN Confidence) \X {"medium", "high", "critical"}

LEMMA WeightGrows ==
  ASSUME NEW old, NEW new, OfOverfitting(old), OfOverfitting(new), old \subseteq new
  PROVE  /\ SumFunction([s \in old |-> RiskScore[s[2]] * Confidence[s[1]]]) \in Nat
         /\ SumFunction([s \in new |-> RiskScore[s[2]] * Confidence[s[1]]]) \in Nat
         /\ SumFunction([s \in old |-> RiskScore[s[2]] * Confidence[s[1]]])
              <= SumFunction([s \in new |-> RiskScore[s[2]] * Confidence[s[1]]])
<1> DEFINE f == [s \in old |-> RiskScore[s[2]] * Confidence[s[1]]]
           g == [s \in new |-> RiskScore[s[2]] * Confidence[s[1]]]
<1>1. IsFiniteSet(old) /\ IsFiniteSet(new) /\ IsFiniteSet(new \ old)
  BY FS_Subset DEF OfOverfitting
<1>2. \A s \in new : RiskScore[s[2]] * Confidence[s[1]] \in Nat
  <2> TAKE s \in new
  <2>1. s[1] \in DOMAIN Confidence /\ s[2] \in {"medium", "high", "critical"}
    BY DEF OfOverfitting
  <2>2. Confidence[s[1]] \in Nat
    BY <2>1 DEF Confidence
  <2>3. RiskScore[s[2]] \in Nat
    BY <2>1 DEF RiskScore
  <2> QED
    BY <2>2, <2>3
<1>3. /\ \A s \in new : g[s] \in Nat
      /\ \A s \in old : g[s] \in Int /\ f[s] = g[s]
      /\ DOMAIN f = old /\ DOMAIN g = new
  BY <1>2
<1>4. SumFunction(f) = SumFunctionOnSet(f, old) /\ SumFunction(g) = SumFunctionOnSet(g, new)
  BY <1>3 DEF SumFunction
<1> HIDE DEF f, g
<1>5. SumFunctionOnSet(f, old) = SumFunctionOnSet(g, old)
  BY <1>1, <1>3, SumOfSame
<1>6. IntValued(g, new)
  BY <1>3 DEF IntValued
<1>7. SumFunctionOnSet(g, new) = SumFunctionOnSet(g, old) + SumFunctionOnSet(g, new \ old)
  BY <1>1, <1>6, SumSplits
<1>8. SumFunctionOnSet(g, new \ old) \in Nat
  BY <1>1, <1>3, SumOfNaturals
<1>9. SumFunctionOnSet(g, old) \in Nat
  BY <1>1, <1>3, SumOfNaturals
<1>10. /\ SumFunctionOnSet(f, old) \in Nat /\ SumFunctionOnSet(g, new) \in Nat
       /\ SumFunctionOnSet(f, old) <= SumFunctionOnSet(g, new)
  BY <1>5, <1>7, <1>8, <1>9
<1> QED
  BY <1>4, <1>10 DEF f, g

LEMMA ActionGrows ==
  ASSUME NEW old, NEW new, OfOverfitting(old), OfOverfitting(new), Graver(new, old)
  PROVE  ActionRank[OverfittingAction(new)] >= ActionRank[OverfittingAction(old)]
<1> DEFINE W(s) == SumFunction([x \in s |-> RiskScore[x[2]] * Confidence[x[1]]])
           Critical(s) == "critical" \in Severities(s)
           Warns(s) == "high" \in Severities(s) \/ W(s) > 400
<1>1. \A s : OverfittingAction(s) = IF Critical(s) THEN "BLOCK"
                                    ELSE IF Warns(s) THEN "WARN" ELSE "PROCEED"
  BY DEF OverfittingAction
<1>2. \A s, x : x \in Severities(s) <=> \E a \in s : a[2] = x
  BY DEF Severities
<1>3. /\ \A a \in old : a[2] \in {"medium", "high", "critical"} /\ a = <<a[1], a[2]>>
      /\ \A a \in new : a[2] \in {"medium", "high", "critical"} /\ a = <<a[1], a[2]>>
  BY DEF OfOverfitting
<1>4. ASSUME Critical(old) PROVE Critical(new)
  <2>1. PICK g \in old : g[2] = "critical"
    BY <1>2, <1>4
  <2>2. PICK h \in new : h = g \/ Gravity[h[2]] > Gravity[g[2]]
    BY DEF Graver
  <2>3. h[2] = "critical"
    BY <1>3, <2>1, <2>2, GravityIs
  <2> QED
    BY <1>2, <2>3
<1>5. ASSUME Warns(old) PROVE Critical(new) \/ Warns(new)
  <2>1. CASE "high" \in Severities(old)
    <3>1. PICK g \in old : g[2] = "high"
      BY <1>2, <2>1
    <3>2. PICK h \in new : h = g \/ Gravity[h[2]] > Gravity[g[2]]
      BY DEF Graver
    <3>3. h[2] \in {"high", "critical"}
      BY <1>3, <3>1, <3>2, GravityIs
    <3> QED
      BY <1>2, <3>3
  <2>2. CASE "high" \notin Severities(old) /\ ~Critical(new) /\ "high" \notin Severities(new)
    <3>1. \A h \in new : h[2] = "medium"
      BY <1>2, <1>3, <2>2
    <3>2. old \subseteq new
      <4> SUFFICES ASSUME NEW g \in old PROVE g \in new
        OBVIOUS
      <4>1. PICK h \in new : h = g \/ Gravity[h[2]] > Gravity[g[2]]
        BY DEF Graver
      <4>2. ~(Gravity[h[2]] > Gravity[g[2]])
        BY <1>3, <3>1, GravityIs
      <4> QED
        BY <4>1, <4>2
    <3>3. W(old) \in Nat /\ W(new) \in Nat /\ W(old) <= W(new)
      BY <3>2, WeightGrows
    <3>4. W(old) > 400
      BY <1>5, <2>2
    <3> HIDE DEF W
    <3>5. W(new) > 400
      BY <3>3, <3>4
    <3> QED
      BY <3>5
  <2> QED
    BY <2>1, <2>2
<1> HIDE DEF W, Critical, Warns
<1>6. ActionRank["PROCEED"] = 0 /\ ActionRank["WARN"] = 1 /\ ActionRank["BLOCK"] = 2
  BY DEF ActionRank
<1> QED
  BY <1>1, <1>4, <1>5, <1>6

(* The signals are of the kinds that OverfittingAction knows.              *)
LEMMA SignalsTyped ==
  ASSUME NEW known, NEW holdout, NEW results, NEW novel
  PROVE  OfOverfitting(OverfittingSignals(known, holdout, results, novel))
<1> DEFINE G == EvalTrainGap(known, holdout)
           T == TemporalPattern(known, results)
           N == Generalization(known, novel)
           V == VariancePattern(known, holdout)
           Sort == (DOMAIN Confidence) \X {"medium", "high", "critical"}
<1>1. \A type \in DOMAIN Confidence, severity \in {"medium", "high", "critical"} :
        \A when :
          /\ IsFiniteSet(Alert(type, severity, when))
          /\ Alert(type, severity, when) \subseteq Sort
  BY AlertIs, AlertFinite
<1>2. {"temporal_consistency", "generalization_failure", "variance_pattern",
       "eval_train_gap"} \subseteq DOMAIN Confidence
  BY DEF Confidence
<1>3. IsFiniteSet(G) /\ G \subseteq Sort
  BY <1>1, <1>2 DEF EvalTrainGap
<1>4. IsFiniteSet(T) /\ T \subseteq Sort
  BY <1>1, <1>2 DEF TemporalPattern
<1>5. IsFiniteSet(N) /\ N \subseteq Sort
  BY <1>1, <1>2 DEF Generalization
<1>6. IsFiniteSet(V) /\ V \subseteq Sort
  <2> DEFINE a == <<"variance_pattern", "medium">>
  <2>1. V = {a} \/ V = {}
    BY DEF VariancePattern, Alert
  <2>2. a \in Sort
    BY <1>2
  <2> HIDE DEF a, V, Sort
  <2> QED
    BY <2>1, <2>2, FS_Singleton, FS_EmptySet
<1>7. OverfittingSignals(known, holdout, results, novel) = G \cup T \cup N \cup V
  BY DEF OverfittingSignals
<1> HIDE DEF G, T, N, V
<1>8. IsFiniteSet(G \cup T \cup N \cup V)
  BY <1>3, <1>4, <1>5, <1>6, FS_Union
<1>9. G \cup T \cup N \cup V \subseteq Sort
  BY <1>3, <1>4, <1>5, <1>6
<1> QED
  BY <1>7, <1>8, <1>9 DEF OfOverfitting

-----------------------------------------------------------------------------
(* The checks for memorization, of lower scores of what was varied.        *)
LEMMA ParaphraseGrows ==
  ASSUME NEW score \in Int, NEW v \in Seq(Int)
  PROVE  Graver(ParaphraseConsistency(score, Lowered(v)), ParaphraseConsistency(score, v))
<1> DEFINE Below(w, t) == score * Len(w) - SumSeq(w) > t * Len(w)
           old == IF Below(v, 400) THEN "high" ELSE "medium"
           new == IF Below(Lowered(v), 400) THEN "high" ELSE "medium"
           before == v # <<>> /\ Below(v, 200)
           after == Lowered(v) # <<>> /\ Below(Lowered(v), 200)
<1>1. ASSUME NEW t \in Int, Below(v, t) PROVE Below(Lowered(v), t)
  <2>1. /\ Len(Lowered(v)) = Len(v) /\ Len(v) \in Nat
        /\ SumSeq(v) \in Int /\ SumSeq(Lowered(v)) \in Int
        /\ SumSeq(Lowered(v)) <= SumSeq(v)
    BY LoweredFacts, SumLowered
  <2>2. score * Len(v) \in Int /\ t * Len(v) \in Int
    BY <2>1, <1>1
  <2>3. score * Len(v) - SumSeq(v) > t * Len(v)
    BY <1>1
  <2>4. score * Len(v) - SumSeq(Lowered(v)) > t * Len(v)
    BY <2>1, <2>2, <2>3
  <2> QED
    BY <2>1, <2>4
<1>2. /\ Below(v, 400) => Below(Lowered(v), 400)
      /\ Below(v, 200) => Below(Lowered(v), 200)
  <2>1. 400 \in Int /\ 200 \in Int
    OBVIOUS
  <2> HIDE DEF Below
  <2> QED
    BY <1>1, <2>1
<1>3. /\ ParaphraseConsistency(score, v) = Alert("paraphrase_degradation", old, before)
      /\ ParaphraseConsistency(score, Lowered(v)) = Alert("paraphrase_degradation", new, after)
  BY DEF ParaphraseConsistency
<1> HIDE DEF Below
<1>4. before => after
  BY <1>2, EmptyLowered
<1>5. /\ new = old \/ Gravity[new] > Gravity[old]
      /\ new \in DOMAIN Gravity /\ old \in DOMAIN Gravity
  BY <1>2, GravityIs
<1> HIDE DEF old, new, before, after
<1> QED
  BY <1>3, <1>4, <1>5, AlertGrows

LEMMA VariationGrows ==
  ASSUME NEW score \in Int, NEW v \in Seq(Int)
  PROVE  Graver(TemplateVariation(score, Lowered(v)), TemplateVariation(score, v))
<1> DEFINE Passed(w) == Cardinality({i \in DOMAIN w : w[i] > 500})
           w == Lowered(v)
           n == Len(v)
           old == IF 10 * Passed(v) < 3 * n THEN "high" ELSE "medium"
           new == IF 10 * Passed(w) < 3 * n THEN "high" ELSE "medium"
           before == n > 0 /\ score > 500 /\ 2 * Passed(v) < n
           after == n > 0 /\ score > 500 /\ 2 * Passed(w) < n
<1>1. /\ Len(w) = n /\ n \in Nat /\ DOMAIN w = DOMAIN v /\ IsFiniteSet(DOMAIN v)
      /\ \A i \in DOMAIN v : v[i] \in Int /\ w[i] \in Int /\ w[i] <= v[i]
  <2>1. Step \in Nat
    BY SubmissionAssumption DEF SubmissionAssumption
  <2> QED
    BY <2>1, LoweredFacts
<1>2. /\ TemplateVariation(score, v) = Alert("template_variation_failure", old, before)
      /\ TemplateVariation(score, w) = Alert("template_variation_failure", new, after)
  <2> HIDE DEF w
  <2> QED
    BY <1>1 DEF TemplateVariation
<1> HIDE DEF w
<1>3. Passed(w) <= Passed(v) /\ Passed(w) \in Nat /\ Passed(v) \in Nat
  <2> DEFINE A == {i \in DOMAIN w : w[i] > 500}
             B == {i \in DOMAIN v : v[i] > 500}
  <2>1. A \subseteq B /\ B \subseteq DOMAIN v
    BY <1>1
  <2> HIDE DEF A, B
  <2>2. IsFiniteSet(A) /\ IsFiniteSet(B)
    BY <1>1, <2>1, FS_Subset
  <2>3. Cardinality(A) <= Cardinality(B) /\ Cardinality(A) \in Nat /\ Cardinality(B) \in Nat
    BY <2>1, <2>2, FS_Subset, FS_CardinalityType
  <2> QED
    BY <2>3 DEF A, B
<1> HIDE DEF Passed, n
<1>4. before => after
  BY <1>1, <1>3
<1>5. /\ new = old \/ Gravity[new] > Gravity[old]
      /\ new \in DOMAIN Gravity /\ old \in DOMAIN Gravity
  BY <1>1, <1>3, GravityIs
<1> HIDE DEF old, new, before, after
<1> QED
  BY <1>2, <1>4, <1>5, AlertGrows DEF w

(* Graver signals show no lower level of memorization.                     *)
OfMemorization(signals) ==
    /\ IsFiniteSet(signals)
    /\ \A s \in signals : s[2] \in {"medium", "high"}

Among(signals, severity) == Cardinality({s \in signals : s[2] = severity})

LEMMA LevelIs ==
  ASSUME NEW signals, OfMemorization(signals)
  PROVE  LET high == Among(signals, "high")
             medium == Among(signals, "medium")
         IN  /\ high \in Nat /\ medium \in Nat
             /\ LevelRank[MemorizationLevel(signals)] =
                  IF high >= 2 THEN 3 ELSE IF high = 1 THEN 2
                  ELSE IF medium >= 2 THEN 2 ELSE IF medium = 1 THEN 1 ELSE 0
<1> DEFINE H == {s \in signals : s[2] = "high"}
           M == {s \in signals : s[2] = "medium"}
           high == Among(signals, "high")
           medium == Among(signals, "medium")
<1>1. H \subseteq signals /\ M \subseteq signals /\ (H = {} /\ M = {} => signals = {})
  BY DEF OfMemorization
<1>2. high = Cardinality(H) /\ medium = Cardinality(M)
  BY DEF Among
<1>3. MemorizationLevel(signals) =
          CASE high >= 2                  -> "certain"
            [] high = 1                   -> "likely"
            [] high = 0 /\ medium >= 2    -> "likely"
            [] high = 0 /\ medium = 1     -> "possible"
            [] signals = {}               -> "none"
  BY DEF MemorizationLevel, Among
<1> HIDE DEF H, M
<1>4. IsFiniteSet(H) /\ IsFiniteSet(M)
  BY <1>1, FS_Subset DEF OfMemorization
<1>5. /\ high \in Nat /\ medium \in Nat
      /\ (high = 0 <=> H = {}) /\ (medium = 0 <=> M = {})
  BY <1>2, <1>4, FS_CardinalityType, FS_EmptySet
<1>6. /\ LevelRank["none"] = 0 /\ LevelRank["possible"] = 1
      /\ LevelRank["likely"] = 2 /\ LevelRank["certain"] = 3
  BY DEF LevelRank
<1>7. signals = {} => high = 0 /\ medium = 0
  BY <1>1, <1>5
<1> HIDE DEF high, medium
<1>8. CASE high >= 2
  BY <1>3, <1>5, <1>6, <1>7, <1>8 DEF high, medium
<1>9. CASE high = 1
  BY <1>3, <1>5, <1>6, <1>7, <1>9 DEF high, medium
<1>10. CASE high = 0 /\ medium >= 2
  BY <1>3, <1>5, <1>6, <1>7, <1>10 DEF high, medium
<1>11. CASE high = 0 /\ medium = 1
  BY <1>3, <1>5, <1>6, <1>7, <1>11 DEF high, medium
<1>12. CASE high = 0 /\ medium = 0
  <2>1. signals = {}
    BY <1>1, <1>5, <1>12
  <2> QED
    BY <1>3, <1>5, <1>6, <1>12, <2>1 DEF high, medium
<1> QED
  BY <1>5, <1>8, <1>9, <1>10, <1>11, <1>12

LEMMA AmongGrows ==
  ASSUME NEW old, NEW new, IsFiniteSet(old), IsFiniteSet(new), NEW severity,
         \A s \in old : s[2] = severity => s \in new
  PROVE  /\ Among(old, severity) \in Nat /\ Among(new, severity) \in Nat
         /\ Among(old, severity) <= Among(new, severity)
<1> DEFINE A == {s \in old : s[2] = severity}
           B == {s \in new : s[2] = severity}
<1>1. A \subseteq B /\ A \subseteq old /\ B \subseteq new
  OBVIOUS
<1>2. Among(old, severity) = Cardinality(A) /\ Among(new, severity) = Cardinality(B)
  BY DEF Among
<1> HIDE DEF A, B
<1>3. IsFiniteSet(A) /\ IsFiniteSet(B)
  BY <1>1, FS_Subset
<1> QED
  BY <1>1, <1>2, <1>3, FS_Subset, FS_CardinalityType

LEMMA LevelGrows ==
  ASSUME NEW old, NEW new, OfMemorization(old), OfMemorization(new), Graver(new, old)
  PROVE  LevelRank[MemorizationLevel(new)] >= LevelRank[MemorizationLevel(old)]
<1> DEFINE h == Among(old, "high")
           k == Among(new, "high")
           m == Among(old, "medium")
           n == Among(new, "medium")
           Rank(x, y) == IF x >= 2 THEN 3 ELSE IF x = 1 THEN 2
                         ELSE IF y >= 2 THEN 2 ELSE IF y = 1 THEN 1 ELSE 0
<1>1. /\ h \in Nat /\ m \in Nat /\ LevelRank[MemorizationLevel(old)] = Rank(h, m)
      /\ k \in Nat /\ n \in Nat /\ LevelRank[MemorizationLevel(new)] = Rank(k, n)
  BY LevelIs
<1>2. /\ \A s \in old \cup new : s[2] \in {"medium", "high"}
      /\ IsFiniteSet(old) /\ IsFiniteSet(new)
  BY DEF OfMemorization
<1>3. h <= k
  <2>1. ASSUME NEW g \in old, g[2] = "high" PROVE g \in new
    <3>1. PICK a \in new : a = g \/ Gravity[a[2]] > Gravity[g[2]]
      BY DEF Graver
    <3>2. a[2] \in {"medium", "high"}
      BY <1>2
    <3>3. ~(Gravity[a[2]] > Gravity[g[2]])
      BY <2>1, <3>2, GravityIs
    <3> QED
      BY <3>1, <3>3
  <2> QED
    BY <1>2, <2>1, AmongGrows
<1>4. ASSUME k = 0 PROVE m <= n
  <2>1. \A s \in new : s[2] # "high"
    <3> DEFINE H == {s \in new : s[2] = "high"}
    <3>1. H \subseteq new /\ k = Cardinality(H)
      BY DEF Among
    <3> HIDE DEF H
    <3>2. IsFiniteSet(H)
      BY <1>2, <3>1, FS_Subset
    <3>3. H = {}
      BY <1>4, <3>1, <3>2, FS_EmptySet
    <3> QED
      BY <3>3 DEF H
  <2>2. ASSUME NEW g \in old, g[2] = "medium" PROVE g \in new
    <3>1. PICK a \in new : a = g \/ Gravity[a[2]] > Gravity[g[2]]
      BY DEF Graver
    <3>2. a[2] = "medium"
      BY <1>2, <2>1
    <3>3. ~(Gravity[a[2]] > Gravity[g[2]])
      BY <2>2, <3>2, GravityIs
    <3> QED
      BY <3>1, <3>3
  <2> QED
    BY <1>2, <2>2, AmongGrows
<1> HIDE DEF h, k, m, n
<1>5. Rank(k, n) >= Rank(h, m)
  BY <1>1, <1>3, <1>4
<1> QED
  BY <1>1, <1>5

LEMMA MemorizedTyped ==
  ASSUME NEW score, NEW v, NEW w, NEW identical, NEW count
  PROVE  OfMemorization(ParaphraseConsistency(score, v) \cup TemplateVariation(score, w)
                          \cup ResponseSimilarity(identical, count))
<1> DEFINE P == ParaphraseConsistency(score, v)
           T == TemplateVariation(score, w)
           R == ResponseSimilarity(identical, count)
<1>1. \A type, severity, when :
          /\ IsFiniteSet(Alert(type, severity, when))
          /\ \A s \in Alert(type, severity, when) : s[2] = severity
  BY AlertIs, AlertFinite
<1>2. IsFiniteSet(P) /\ \A s \in P : s[2] \in {"medium", "high"}
  BY <1>1 DEF ParaphraseConsistency
<1>3. IsFiniteSet(T) /\ \A s \in T : s[2] \in {"medium", "high"}
  BY <1>1 DEF TemplateVariation
<1>4. IsFiniteSet(R) /\ \A s \in R : s[2] \in {"medium", "high"}
  BY <1>1 DEF ResponseSimilarity
<1> HIDE DEF P, T, R
<1>5. IsFiniteSet(P \cup T \cup R)
  BY <1>2, <1>3, <1>4, FS_Union
<1>6. \A s \in P \cup T \cup R : s[2] \in {"medium", "high"}
  BY <1>2, <1>3, <1>4
<1> QED
  BY <1>5, <1>6 DEF OfMemorization, P, T, R

(* One more alert makes no status milder.                                  *)
LEMMA StatusGrows ==
  ASSUME NEW old, NEW new, old \subseteq new
  PROVE  StatusRank[AlertStatus(new)] >= StatusRank[AlertStatus(old)]
<1>1. Severities(old) \subseteq Severities(new) /\ (new = {} => old = {})
  BY DEF Severities
<1>2. /\ StatusRank["CLEAN"] = 0 /\ StatusRank["REVIEW"] = 1
      /\ StatusRank["WARN"] = 2 /\ StatusRank["BLOCK"] = 3
  BY DEF StatusRank
<1> DEFINE Warns(s) == Severities(s) \cap {"high", "medium"} # {}
<1>3. Warns(old) => Warns(new)
  BY <1>1
<1>4. \A s : AlertStatus(s) = IF s = {} THEN "CLEAN"
                              ELSE IF "critical" \in Severities(s) THEN "BLOCK"
                              ELSE IF Warns(s) THEN "WARN" ELSE "REVIEW"
  BY DEF AlertStatus
<1> HIDE DEF Warns
<1> QED
  BY <1>1, <1>2, <1>3, <1>4

LEMMA LaterIsNoBetter ==
  ASSUME NEW score, NEW before, NEW official, NEW hours \in Int
  PROVE  AnalyzeSubmission(score, before, official, TRUE, hours)
           \subseteq AnalyzeSubmission(score, before, official, TRUE, hours - 1)
<1>1. TimingAnomaly(hours) \subseteq TimingAnomaly(hours - 1)
  BY DEF TimingAnomaly, Alert
<1> QED
  BY <1>1 DEF AnalyzeSubmission

-----------------------------------------------------------------------------
(* The impact of changes: finitely many shifts, and some for every change. *)
Mapped == {"pre_action_filter", "mid_trajectory_monitor", "post_action_validator",
           "policy_dsl", "drift_threshold", "intent_classifier"}

Shifting == {"injection", "false_positive", "policy_erosion", "coordinated_misuse",
             "tool_abuse", "hedging_leakage"}

LEMMA RisksAre ==
  /\ DOMAIN ComponentRisks = Mapped
  /\ \A c \in Mapped : ComponentRisks[c] \subseteq Shifting /\ ComponentRisks[c] # {}
  /\ IsFiniteSet(Mapped) /\ IsFiniteSet(Shifting)
<1>1. \A a, b, c, d, e, f : IsFiniteSet({a, b, c, d, e, f})
  <2> TAKE a, b, c, d, e, f
  <2>1. IsFiniteSet({a})
    BY FS_Singleton
  <2>2. IsFiniteSet({a} \cup {b})
    BY <2>1, FS_Singleton, FS_Union
  <2>3. IsFiniteSet(({a} \cup {b}) \cup {c})
    BY <2>2, FS_Singleton, FS_Union
  <2>4. IsFiniteSet((({a} \cup {b}) \cup {c}) \cup {d})
    BY <2>3, FS_Singleton, FS_Union
  <2>5. IsFiniteSet(((({a} \cup {b}) \cup {c}) \cup {d}) \cup {e})
    BY <2>4, FS_Singleton, FS_Union
  <2>6. IsFiniteSet((((({a} \cup {b}) \cup {c}) \cup {d}) \cup {e}) \cup {f})
    BY <2>5, FS_Singleton, FS_Union
  <2>7. (((({a} \cup {b}) \cup {c}) \cup {d}) \cup {e}) \cup {f} = {a, b, c, d, e, f}
    OBVIOUS
  <2> QED
    BY <2>6, <2>7
<1>2. IsFiniteSet(Mapped)
  BY <1>1 DEF Mapped
<1>3. IsFiniteSet(Shifting)
  BY <1>1 DEF Shifting
<1>4. DOMAIN ComponentRisks = Mapped
  BY DEF ComponentRisks, Mapped
<1>5. \A c \in Mapped : ComponentRisks[c] \subseteq Shifting /\ ComponentRisks[c] # {}
  BY DEF ComponentRisks, Mapped, Shifting
<1> QED
  BY <1>2, <1>3, <1>4, <1>5

LEMMA AffectedFacts ==
  ASSUME NEW c \in Changes
  PROVE  IsFiniteSet(AffectedRisks(c)) /\ AffectedRisks(c) # {}
<1> DEFINE components == IF c.component \in DOMAIN ComponentRisks
                         THEN {c.component} ELSE c.named
           Of(x) == {<<x, risk>> : risk \in ComponentRisks[x]}
<1>1. components \subseteq Mapped
  <2>1. c.named \subseteq DOMAIN ComponentRisks
    BY SubmissionAssumption DEF SubmissionAssumption
  <2> QED
    BY <2>1, RisksAre
<1>2. AffectedRisks(c) = IF components = {} THEN {<<c.component, "policy_erosion">>}
                         ELSE UNION {Of(x) : x \in components}
  BY DEF AffectedRisks
<1> HIDE DEF components
<1>3. CASE components = {}
  <2>1. AffectedRisks(c) = {<<c.component, "policy_erosion">>}
    BY <1>2, <1>3
  <2> QED
    BY <2>1, FS_Singleton
<1>4. CASE components # {}
  <2>1. AffectedRisks(c) = UNION {Of(x) : x \in components}
    BY <1>2, <1>4
  <2>2. AffectedRisks(c) \subseteq Mapped \X Shifting
    BY <1>1, <2>1, RisksAre
  <2>3. IsFiniteSet(Mapped \X Shifting)
    BY RisksAre, FS_Product
  <2>4. IsFiniteSet(AffectedRisks(c))
    BY <2>2, <2>3, FS_Subset
  <2>5. PICK x \in components : x \in Mapped
    BY <1>1, <1>4
  <2>6. PICK risk : risk \in ComponentRisks[x]
    BY <2>5, RisksAre
  <2>7. <<x, risk>> \in AffectedRisks(c)
    BY <2>1, <2>5, <2>6
  <2> QED
    BY <2>4, <2>7
<1> QED
  BY <1>3, <1>4

(* What one change shifts.                                                 *)
ShiftsOf(i, c) ==
    {[change |-> i, component |-> r[1], risk |-> r[2],
      direction |-> PredictDirection(c, r[2])] : r \in AffectedRisks(c)}

LEMMA ShiftsOfFinite ==
  ASSUME NEW c \in Changes, NEW i
  PROVE  /\ IsFiniteSet(ShiftsOf(i, c)) /\ ShiftsOf(i, c) # {}
         /\ \A s \in ShiftsOf(i, c) : s.change = i
<1> DEFINE f == [r \in AffectedRisks(c) |->
                    [change |-> i, component |-> r[1], risk |-> r[2],
                     direction |-> PredictDirection(c, r[2])]]
<1>1. IsFiniteSet(AffectedRisks(c)) /\ AffectedRisks(c) # {}
  BY AffectedFacts
<1>2. ShiftsOf(i, c) = {f[r] : r \in AffectedRisks(c)}
  BY DEF ShiftsOf
<1>3. \A s \in ShiftsOf(i, c) : s.change = i
  BY DEF ShiftsOf
<1> HIDE DEF f
<1>4. IsFiniteSet({f[r] : r \in AffectedRisks(c)})
  BY <1>1, ImageFinite
<1> QED
  BY <1>1, <1>2, <1>3, <1>4

LEMMA ShiftsFinite ==
  ASSUME NEW all \in Seq(Changes)
  PROVE  /\ IsFiniteSet(RiskShifts(all))
         /\ RiskShifts(all) = UNION {ShiftsOf(i, all[i]) : i \in 1..Len(all)}
         /\ \A s \in RiskShifts(all) : s.change \in 1..Len(all)
<1> DEFINE n == Len(all)
           f == [i \in 1..n |-> ShiftsOf(i, all[i])]
<1>1. n \in Nat /\ DOMAIN all = 1..n /\ \A i \in 1..n : all[i] \in Changes
  OBVIOUS
<1>2. RiskShifts(all) = UNION {ShiftsOf(i, all[i]) : i \in 1..n}
  BY <1>1 DEF RiskShifts, ShiftsOf
<1>3. \A i \in 1..n : IsFiniteSet(f[i]) /\ \A s \in f[i] : s.change = i
  BY <1>1, ShiftsOfFinite
<1>4. RiskShifts(all) = UNION {f[i] : i \in 1..n}
  BY <1>2
<1>5. IsFiniteSet(1..n)
  BY <1>1, FS_Interval
<1> HIDE DEF f, n
<1>6. IsFiniteSet(UNION {f[i] : i \in 1..n})
  <2> DEFINE I == 1..n
  <2>1. IsFiniteSet(I) /\ \A i \in I : IsFiniteSet(f[i])
    BY <1>3, <1>5
  <2> HIDE DEF I
  <2>2. IsFiniteSet(UNION {f[i] : i \in I})
    BY <2>1, UnionFinite
  <2> QED
    BY <2>2 DEF I
<1>7. \A s \in RiskShifts(all) : s.change \in 1..n
  BY <1>3, <1>4
<1> QED
  BY <1>2, <1>4, <1>6, <1>7 DEF n

(* A component that is removed makes every risk it bears on greater.       *)
LEMMA RemovalShifts ==
  ASSUME NEW all \in Seq(Changes), NEW c \in Changes, c.type = "removed", c.words = {}
  PROVE  LET n == Len(all) + 1
             more == ShiftsOf(n, c)
         IN  /\ RiskShifts(Append(all, c)) = RiskShifts(all) \cup more
             /\ IsFiniteSet(more) /\ more # {} /\ more \cap RiskShifts(all) = {}
             /\ \A s \in more : s.direction = "increase"
<1> DEFINE k == Len(all)
           n == Len(all) + 1
           more == ShiftsOf(n, c)
           longer == Append(all, c)
<1>1. /\ longer \in Seq(Changes) /\ Len(longer) = n /\ k \in Nat
      /\ longer[n] = c /\ \A i \in 1..k : longer[i] = all[i]
  OBVIOUS
<1>2. 1..n = (1..k) \cup {n}
  BY <1>1
<1> HIDE DEF longer
<1>3. RiskShifts(longer) = UNION {ShiftsOf(i, longer[i]) : i \in 1..n}
  BY <1>1, ShiftsFinite
<1>4. RiskShifts(all) = UNION {ShiftsOf(i, all[i]) : i \in 1..k}
  BY ShiftsFinite
<1>5. RiskShifts(longer) = RiskShifts(all) \cup more
  <2> HIDE DEF n, k
  <2> QED
    BY <1>1, <1>2, <1>3, <1>4
<1>6. IsFiniteSet(more) /\ more # {} /\ \A s \in more : s.change = n
  BY ShiftsOfFinite
<1>7. \A s \in RiskShifts(all) : s.change \in 1..k
  BY ShiftsFinite
<1>8. more \cap RiskShifts(all) = {}
  <2> SUFFICES ASSUME NEW s \in more, s \in RiskShifts(all) PROVE FALSE
    OBVIOUS
  <2> HIDE DEF more
  <2>1. s.change = n /\ s.change \in 1..k
    BY <1>6, <1>7
  <2> QED
    BY <1>1, <2>1
<1>9. \A risk : PredictDirection(c, risk) = "increase"
  BY DEF PredictDirection
<1>10. \A s \in more : s.direction = "increase"
  BY <1>9 DEF ShiftsOf
<1> QED
  BY <1>5, <1>6, <1>8, <1>10 DEF longer

LEMMA RemovalIsNoBetter ==
  ASSUME NEW all \in Seq(Changes), NEW c \in Changes, c.type = "removed", c.words = {}
  PROVE  LET longer == Append(all, c)
         IN  /\ AssessmentRank[OverallAssessment(RiskShifts(longer))]
                  >= AssessmentRank[OverallAssessment(RiskShifts(all))]
             /\ FocusAreas(RiskShifts(all)) \subseteq FocusAreas(RiskShifts(longer))
<1> DEFINE old == RiskShifts(all)
           new == RiskShifts(Append(all, c))
           more == ShiftsOf(Len(all) + 1, c)
           In(shifts, d) == {s \in shifts : s.direction = d}
           Number(shifts, d) == Cardinality(In(shifts, d))
<1>1. /\ new = old \cup more /\ IsFiniteSet(more) /\ more # {} /\ more \cap old = {}
      /\ \A s \in more : s.direction = "increase"
  BY RemovalShifts
<1>2. IsFiniteSet(old)
  BY ShiftsFinite
<1>3. FocusAreas(old) \subseteq FocusAreas(new)
  <2> HIDE DEF old, new, more
  <2> QED
    BY <1>1 DEF FocusAreas
<1> HIDE DEF old, new, more
<1>4. IsFiniteSet(new)
  BY <1>1, <1>2, FS_Union
<1>5. \A d : /\ In(old, d) \subseteq old /\ In(new, d) \subseteq new
  OBVIOUS
<1>6. \A d : Number(old, d) \in Nat /\ Number(new, d) \in Nat
  <2> HIDE DEF In
  <2> QED
    BY <1>2, <1>4, <1>5, FS_Subset, FS_CardinalityType
<1>7. Number(new, "increase") > Number(old, "increase")
  <2>1. /\ In(new, "increase") = In(old, "increase") \cup more
        /\ In(old, "increase") \cap more = {}
    BY <1>1
  <2>2. /\ IsFiniteSet(In(old, "increase"))
    BY <1>2, <1>5, FS_Subset
  <2> DEFINE I == In(old, "increase")
             J == In(new, "increase")
  <2>3. Cardinality(more) \in Nat /\ Cardinality(more) # 0
    BY <1>1, FS_CardinalityType, FS_EmptySet
  <2>4. IsFiniteSet(I) /\ J = I \cup more /\ I \cap more = {}
    BY <2>1, <2>2
  <2>5. Number(old, "increase") = Cardinality(I) /\ Number(new, "increase") = Cardinality(J)
    OBVIOUS
  <2> HIDE DEF I, J, In, Number
  <2>6. Cardinality(I) \in Nat
    BY <2>4, FS_CardinalityType
  <2>7. Cardinality(I \cup more) = Cardinality(I) + Cardinality(more) - Cardinality(I \cap more)
    BY <1>1, <2>4, FS_Union
  <2>8. Cardinality(I \cap more) = 0
    BY <2>4, FS_EmptySet
  <2>9. Cardinality(J) > Cardinality(I)
    BY <2>3, <2>4, <2>6, <2>7, <2>8
  <2> QED
    BY <2>5, <2>9
<1>8. Number(new, "decrease") = Number(old, "decrease")
  <2>1. In(new, "decrease") = In(old, "decrease")
    BY <1>1
  <2> QED
    BY <2>1
<1>9. /\ AssessmentRank["IMPROVED"] = 0 /\ AssessmentRank["NEUTRAL"] = 1
      /\ AssessmentRank["UNCERTAIN"] = 2 /\ AssessmentRank["ELEVATED"] = 3
  BY DEF AssessmentRank
<1>10. \A s : OverallAssessment(s) =
           IF Number(s, "increase") > Number(s, "decrease") THEN "ELEVATED"
           ELSE IF Number(s, "decrease") > Number(s, "increase") THEN "IMPROVED"
           ELSE IF Number(s, "unknown") > 0 THEN "UNCERTAIN" ELSE "NEUTRAL"
  BY DEF OverallAssessment
<1> HIDE DEF Number
<1>11. AssessmentRank[OverallAssessment(new)] >= AssessmentRank[OverallAssessment(old)]
  BY <1>6, <1>7, <1>8, <1>9, <1>10
<1> QED
  BY <1>3, <1>11 DEF old, new

-----------------------------------------------------------------------------
(* Results stay results, and changes are those that may be announced.      *)
SubmissionInv ==
    /\ Fields \subseteq DOMAIN submission
    /\ \A k \in Tested : submission[k] \in Seq(Int)
    /\ submission.score \in Int /\ submission.identical \in Int
    /\ submission.hours \in Int
    /\ changes \in Seq(Changes)

LEMMA InitSubmissionInv == SubmissionInit => SubmissionInv
<1> SUFFICES ASSUME SubmissionInit PROVE SubmissionInv
  OBVIOUS
<1>1. submission \in Submissions /\ changes = <<>>
  BY DEF SubmissionInit
<1> QED
  BY <1>1, SubmissionAssumption DEF SubmissionAssumption, SubmissionInv

(* What a step that degrades leaves alone, and what it lowers.             *)
LEMMA DegradeFields ==
  ASSUME SubmissionInv, NEW k \in {"holdout", "novel", "paraphrases", "variations"},
         submission' = [submission EXCEPT ![k] = Lowered(@)]
  PROVE  /\ submission'[k] = Lowered(submission[k])
         /\ \A j \in Fields : j # k => submission'[j] = submission[j]
         /\ DOMAIN submission' = DOMAIN submission
<1>1. k \in DOMAIN submission /\ Fields \subseteq DOMAIN submission
  BY DEF SubmissionInv, Fields, Tested
<1> QED
  BY <1>1

LEMMA DelayFields ==
  ASSUME SubmissionInv, submission' = [submission EXCEPT !.hours = @ - 1]
  PROVE  /\ submission'["hours"] = submission["hours"] - 1
         /\ \A j \in Fields : j # "hours" => submission'[j] = submission[j]
         /\ DOMAIN submission' = DOMAIN submission
<1>1. "hours" \in DOMAIN submission /\ Fields \subseteq DOMAIN submission
  BY DEF SubmissionInv, Fields
<1> QED
  BY <1>1

LEMMA NextSubmissionInv ==
  ASSUME SubmissionInv, Degrade \/ Delay \/ Announce \/ UNCHANGED submissionVars
  PROVE  SubmissionInv'
<1>0. /\ "score" \in Fields /\ "identical" \in Fields /\ "hours" \in Fields
      /\ Tested \subseteq Fields /\ {"score", "identical", "hours"} \cap Tested = {}
  BY DEF Fields, Tested
<1>1. CASE Degrade
  <2>1. PICK k \in {"holdout", "novel", "paraphrases", "variations"} :
            submission' = [submission EXCEPT ![k] = Lowered(@)]
    BY <1>1 DEF Degrade
  <2>2. /\ submission'[k] = Lowered(submission[k])
        /\ \A j \in Fields : j # k => submission'[j] = submission[j]
        /\ DOMAIN submission' = DOMAIN submission
    BY <2>1, DegradeFields
  <2>3. k \in Tested /\ changes' = changes
    BY <1>1 DEF Degrade, Tested
  <2>4. \A j \in Tested : submission'[j] \in Seq(Int)
    <3> TAKE j \in Tested
    <3>1. submission[j] \in Seq(Int) /\ submission[k] \in Seq(Int)
      BY <2>3 DEF SubmissionInv
    <3>2. Lowered(submission[k]) \in Seq(Int)
      BY <3>1, LoweredFacts
    <3> QED
      BY <1>0, <2>2, <3>1, <3>2
  <2>5. /\ submission'["score"] = submission["score"]
        /\ submission'["identical"] = submission["identical"]
        /\ submission'["hours"] = submission["hours"]
    BY <1>0, <2>2, <2>3
  <2> QED
    BY <2>2, <2>3, <2>4, <2>5 DEF SubmissionInv
<1>2. CASE Delay
  <2>1. /\ submission'["hours"] = submission["hours"] - 1
        /\ \A j \in Fields : j # "hours" => submission'[j] = submission[j]
        /\ DOMAIN submission' = DOMAIN submission
    BY <1>2, DelayFields DEF Delay
  <2>2. changes' = changes
    BY <1>2 DEF Delay
  <2>3. \A j \in Tested : submission'[j] \in Seq(Int)
    BY <1>0, <2>1 DEF SubmissionInv
  <2>4. /\ submission'["score"] = submission["score"]
        /\ submission'["identical"] = submission["identical"]
    BY <1>0, <2>1
  <2> QED
    BY <2>1, <2>2, <2>3, <2>4 DEF SubmissionInv
<1>3. CASE Announce
  <2>1. PICK c \in Changes : changes' = Append(changes, c) /\ submission' = submission
    BY <1>3 DEF Announce
  <2>2. changes' \in Seq(Changes)
    BY <2>1 DEF SubmissionInv
  <2> QED
    BY <2>1, <2>2 DEF SubmissionInv
<1>4. CASE UNCHANGED submissionVars
  BY <1>4 DEF submissionVars, SubmissionInv
<1> QED
  BY <1>1, <1>2, <1>3, <1>4

-----------------------------------------------------------------------------
(* The three judgements, told from the fields of the submission.           *)
SignalsOf(s) == OverfittingSignals(s["known"], s["holdout"], s["results"], s["novel"])

MemorizedOf(s) ==
    MemorizationLevel(ParaphraseConsistency(s["score"], s["paraphrases"])
                        \cup TemplateVariation(s["score"], s["variations"])
                        \cup ResponseSimilarity(s["identical"], Len(s["paraphrases"])))

StatusOf(s) ==
    AlertStatus(AnalyzeSubmission(s["score"], s["runs"], s["official"], TRUE, s["hours"]))

LEMMA JudgementsAre ==
  /\ Signals = SignalsOf(submission) /\ Signals' = SignalsOf(submission')
  /\ Memorized = MemorizedOf(submission) /\ Memorized' = MemorizedOf(submission')
  /\ Status = StatusOf(submission) /\ Status' = StatusOf(submission')
BY DEF Signals, SignalsOf, Memorized, MemorizedOf, Status, StatusOf

LEMMA SignalsGrow ==
  ASSUME NEW s, NEW t, NEW k \in Fields,
         \A j \in Tested : s[j] \in Seq(Int),
         \A j \in Fields : j # k => t[j] = s[j],
         k \in {"holdout", "novel"} => t[k] = Lowered(s[k]),
         k \notin {"known", "results"}
  PROVE  ActionRank[OverfittingAction(SignalsOf(t))]
           >= ActionRank[OverfittingAction(SignalsOf(s))]
<1> DEFINE G(r) == EvalTrainGap(r["known"], r["holdout"])
           T(r) == TemporalPattern(r["known"], r["results"])
           N(r) == Generalization(r["known"], r["novel"])
           V(r) == VariancePattern(r["known"], r["holdout"])
<1>1. \A r : SignalsOf(r) = G(r) \cup T(r) \cup N(r) \cup V(r)
  BY DEF SignalsOf, OverfittingSignals
<1>2. \A r : OfOverfitting(SignalsOf(r))
  BY SignalsTyped DEF SignalsOf
<1>3. /\ s["known"] \in Seq(Int) /\ s["holdout"] \in Seq(Int) /\ s["novel"] \in Seq(Int)
  BY DEF Tested
<1>4. /\ t["known"] = s["known"] /\ t["results"] = s["results"]
      /\ t["holdout"] = s["holdout"] \/ t["holdout"] = Lowered(s["holdout"])
      /\ t["novel"] = s["novel"] \/ t["novel"] = Lowered(s["novel"])
  BY DEF Fields, Tested
<1>5. Graver(G(t), G(s))
  <2>1. CASE t["holdout"] = s["holdout"]
    BY <1>4, <2>1, GraverItself
  <2>2. CASE t["holdout"] = Lowered(s["holdout"])
    BY <1>3, <1>4, <2>2, GapGrows
  <2> QED
    BY <1>4, <2>1, <2>2
<1>6. Graver(T(t), T(s))
  BY <1>4, GraverItself
<1>7. Graver(N(t), N(s))
  <2>1. CASE t["novel"] = s["novel"]
    BY <1>4, <2>1, GraverItself
  <2>2. CASE t["novel"] = Lowered(s["novel"])
    BY <1>3, <1>4, <2>2, GeneralizationGrows
  <2> QED
    BY <1>4, <2>1, <2>2
<1>8. Graver(V(t), V(s))
  <2>1. CASE t["holdout"] = s["holdout"]
    BY <1>4, <2>1, GraverItself
  <2>2. CASE t["holdout"] = Lowered(s["holdout"])
    <3>1. V(t) = V(s)
      BY <1>3, <1>4, <2>2, VarianceStays
    <3> QED
      BY <3>1, GraverItself
  <2> QED
    BY <1>4, <2>1, <2>2
<1> HIDE DEF G, T, N, V
<1>9. Graver(G(t) \cup T(t) \cup N(t) \cup V(t), G(s) \cup T(s) \cup N(s) \cup V(s))
  <2>1. Graver(G(t) \cup T(t), G(s) \cup T(s))
    BY <1>5, <1>6, GraverUnion
  <2>2. Graver((G(t) \cup T(t)) \cup N(t), (G(s) \cup T(s)) \cup N(s))
    BY <1>7, <2>1, GraverUnion
  <2> QED
    BY <1>8, <2>2, GraverUnion
<1> QED
  BY <1>1, <1>2, <1>9, ActionGrows

LEMMA MemorizedGrows ==
  ASSUME NEW s, NEW t, NEW k \in Fields,
         \A j \in Tested : s[j] \in Seq(Int), s["score"] \in Int,
         \A j \in Fields : j # k => t[j] = s[j],
         k \in {"paraphrases", "variations"} => t[k] = Lowered(s[k]),
         k \notin {"score", "identical"}
  PROVE  LevelRank[MemorizedOf(t)] >= LevelRank[MemorizedOf(s)]
<1> DEFINE P(r) == ParaphraseConsistency(r["score"], r["paraphrases"])
           T(r) == TemplateVariation(r["score"], r["variations"])
           R(r) == ResponseSimilarity(r["identical"], Len(r["paraphrases"]))
<1>1. \A r : MemorizedOf(r) = MemorizationLevel(P(r) \cup T(r) \cup R(r))
  BY DEF MemorizedOf
<1>2. \A r : OfMemorization(P(r) \cup T(r) \cup R(r))
  BY MemorizedTyped
<1>3. s["paraphrases"] \in Seq(Int) /\ s["variations"] \in Seq(Int)
  BY DEF Tested
<1>4. /\ t["score"] = s["score"] /\ t["identical"] = s["identical"]
      /\ t["paraphrases"] = s["paraphrases"] \/ t["paraphrases"] = Lowered(s["paraphrases"])
      /\ t["variations"] = s["variations"] \/ t["variations"] = Lowered(s["variations"])
  BY DEF Fields, Tested
<1>5. Graver(P(t), P(s))
  <2>1. CASE t["paraphrases"] = s["paraphrases"]
    BY <1>4, <2>1, GraverItself
  <2>2. CASE t["paraphrases"] = Lowered(s["paraphrases"])
    BY <1>3, <1>4, <2>2, ParaphraseGrows
  <2> QED
    BY <1>4, <2>1, <2>2
<1>6. Graver(T(t), T(s))
  <2>1. CASE t["variations"] = s["variations"]
    BY <1>4, <2>1, GraverItself
  <2>2. CASE t["variations"] = Lowered(s["variations"])
    BY <1>3, <1>4, <2>2, VariationGrows
  <2> QED
    BY <1>4, <2>1, <2>2
<1>7. Graver(R(t), R(s))
  <2>1. Len(t["paraphrases"]) = Len(s["paraphrases"])
    BY <1>3, <1>4, LoweredFacts
  <2>2. R(t) = R(s)
    BY <1>4, <2>1
  <2> QED
    BY <2>2, GraverItself
<1> HIDE DEF P, T, R
<1>8. Graver(P(t) \cup T(t) \cup R(t), P(s) \cup T(s) \cup R(s))
  <2>1. Graver(P(t) \cup T(t), P(s) \cup T(s))
    BY <1>5, <1>6, GraverUnion
  <2> QED
    BY <1>7, <2>1, GraverUnion
<1>9. LevelRank[MemorizationLevel(P(t) \cup T(t) \cup R(t))]
        >= LevelRank[MemorizationLevel(P(s) \cup T(s) \cup R(s))]
  BY <1>2, <1>8, LevelGrows
<1> QED
  BY <1>1, <1>9

NoBetter ==
    /\ ActionRank[OverfittingAction(Signals')] >= ActionRank[OverfittingAction(Signals)]
    /\ LevelRank[Memorized'] >= LevelRank[Memorized]
    /\ StatusRank[Status'] >= StatusRank[Status]

LEMMA DegradeIsNoBetter == SubmissionInv /\ Degrade => NoBetter
<1> SUFFICES ASSUME SubmissionInv, Degrade PROVE NoBetter
  OBVIOUS
<1> DEFINE s == submission
           t == submission'
<1>1. PICK k \in {"holdout", "novel", "paraphrases", "variations"} :
          submission' = [submission EXCEPT ![k] = Lowered(@)]
  BY DEF Degrade
<1>2. /\ t[k] = Lowered(s[k])
      /\ \A j \in Fields : j # k => t[j] = s[j]
  BY <1>1, DegradeFields
<1>3. /\ \A j \in Tested : s[j] \in Seq(Int)
      /\ s["score"] \in Int
  BY DEF SubmissionInv
<1>4. /\ k \in Fields
      /\ k \notin {"known", "results", "score", "identical", "runs", "official", "hours"}
  BY DEF Fields, Tested
<1> HIDE DEF s, t
<1>5. ActionRank[OverfittingAction(SignalsOf(t))] >= ActionRank[OverfittingAction(SignalsOf(s))]
  BY <1>2, <1>3, <1>4, SignalsGrow
<1>6. LevelRank[MemorizedOf(t)] >= LevelRank[MemorizedOf(s)]
  BY <1>2, <1>3, <1>4, MemorizedGrows
<1>7. StatusOf(t) = StatusOf(s)
  BY <1>2, <1>4 DEF StatusOf, Fields
<1>8. StatusRank[StatusOf(t)] >= StatusRank[StatusOf(s)]
  BY <1>7, StatusGrows DEF StatusOf
<1> QED
  BY <1>5, <1>6, <1>8, JudgementsAre DEF NoBetter, s, t

LEMMA DelayIsNoBetter == SubmissionInv /\ Delay => NoBetter
<1> SUFFICES ASSUME SubmissionInv, Delay PROVE NoBetter
  OBVIOUS
<1> DEFINE s == submission
           t == submission'
<1>1. /\ t["hours"] = s["hours"] - 1
      /\ \A j \in Fields : j # "hours" => t[j] = s[j]
  BY DelayFields DEF Delay
<1>2. /\ \A j \in Tested : s[j] \in Seq(Int)
      /\ s["score"] \in Int /\ s["hours"] \in Int
  BY DEF SubmissionInv
<1>3. "hours" \in Fields
  BY DEF Fields
<1> HIDE DEF s, t
<1>4. ActionRank[OverfittingAction(SignalsOf(t))] >= ActionRank[OverfittingAction(SignalsOf(s))]
  BY <1>1, <1>2, <1>3, SignalsGrow
<1>5. LevelRank[MemorizedOf(t)] >= LevelRank[MemorizedOf(s)]
  BY <1>1, <1>2, <1>3, MemorizedGrows
<1>6. StatusRank[StatusOf(t)] >= StatusRank[StatusOf(s)]
  <2>1. t["score"] = s["score"] /\ t["runs"] = s["runs"] /\ t["official"] = s["official"]
    BY <1>1 DEF Fields
  <2>2. StatusOf(t) = AlertStatus(AnalyzeSubmission(s["score"], s["runs"], s["official"],
                                                    TRUE, s["hours"] - 1))
    BY <1>1, <2>1 DEF StatusOf
  <2> QED
    BY <1>2, <2>2, LaterIsNoBetter, StatusGrows DEF StatusOf
<1> QED
  BY <1>4, <1>5, <1>6, JudgementsAre DEF NoBetter, s, t

LEMMA AnnounceIsNoBetter ==
  ASSUME SubmissionInv, Announce, Last(changes').type = "removed", Last(changes').words = {}
  PROVE  /\ AssessmentRank[OverallAssessment(RiskShifts(changes'))]
              >= AssessmentRank[OverallAssessment(RiskShifts(changes))]
         /\ FocusAreas(RiskShifts(changes)) \subseteq FocusAreas(RiskShifts(changes'))
<1>1. PICK c \in Changes : changes' = Append(changes, c)
  BY DEF Announce
<1>2. changes \in Seq(Changes)
  BY DEF SubmissionInv
<1>3. Last(changes') = c
  BY <1>1, <1>2 DEF Last
<1> QED
  BY <1>1, <1>2, <1>3, RemovalIsNoBetter

-----------------------------------------------------------------------------
SubmissionMoves == Degrade \/ Delay \/ Announce \/ UNCHANGED submissionVars

LEMMA ReleaseMovesSubmission == [Next]_releaseVars => SubmissionMoves
BY DEF Next, releaseVars, submissionVars, SubmissionMoves, LedgerStep, HistoryStep,
       VerdictStep, ConstitutionStep, GamingStep, SubmissionStep, PackageStep, MemoStep

LEMMA WorseStep ==
  SubmissionInv /\ [Next]_releaseVars =>
    [/\ submission' # submission => NoBetter
     /\ changes' # changes /\ Last(changes').type = "removed"
          /\ Last(changes').words = {} =>
           /\ AssessmentRank[OverallAssessment(RiskShifts(changes'))]
                >= AssessmentRank[OverallAssessment(RiskShifts(changes))]
           /\ FocusAreas(RiskShifts(changes)) \subseteq FocusAreas(RiskShifts(changes'))
    ]_submissionVars
<1> SUFFICES ASSUME SubmissionInv, [Next]_releaseVars, ~ UNCHANGED submissionVars
             PROVE  /\ submission' # submission => NoBetter
                    /\ changes' # changes /\ Last(changes').type = "removed"
                         /\ Last(changes').words = {} =>
                          /\ AssessmentRank[OverallAssessment(RiskShifts(changes'))]
                               >= AssessmentRank[OverallAssessment(RiskShifts(changes))]
                          /\ FocusAreas(RiskShifts(changes))
                               \subseteq FocusAreas(RiskShifts(changes'))
  OBVIOUS
<1>1. Degrade \/ Delay \/ Announce
  BY ReleaseMovesSubmission DEF SubmissionMoves
<1>2. CASE Degrade
  BY <1>2, DegradeIsNoBetter DEF Degrade
<1>3. CASE Delay
  BY <1>3, DelayIsNoBetter DEF Delay
<1>4. CASE Announce
  BY <1>4, AnnounceIsNoBetter DEF Announce
<1> QED
  BY <1>1, <1>2, <1>3, <1>4

LEMMA HistoryStaysSnapshots ==
  HistoryOfSnapshots /\ [Next]_releaseVars => HistoryOfSnapshots'
<1> SUFFICES ASSUME HistoryOfSnapshots, [Next]_releaseVars PROVE HistoryOfSnapshots'
  OBVIOUS
<1>1. AddSnapshot \/ history' = history
  BY DEF Next, releaseVars, gamingVars, LedgerStep, HistoryStep, VerdictStep,
         ConstitutionStep, GamingStep, SubmissionStep, PackageStep, MemoStep
<1>2. CASE AddSnapshot
  <2>1. PICK s \in Snapshots : history' = Append(history, s)
    BY <1>2 DEF AddSnapshot
  <2> QED
    BY <2>1, AppendProperties DEF HistoryOfSnapshots
<1>3. CASE history' = history
  BY <1>3 DEF HistoryOfSnapshots
<1> QED
  BY <1>1, <1>2, <1>3

JudgedInv == HistoryOfSnapshots /\ SubmissionInv

LEMMA JudgedInductive ==
  /\ Init => JudgedInv
  /\ JudgedInv /\ [Next]_releaseVars => JudgedInv'
<1>1. Init => JudgedInv
  BY InitSubmissionInv DEF Init, GamingInit, JudgedInv, HistoryOfSnapshots
<1>2. JudgedInv /\ [Next]_releaseVars => JudgedInv'
  BY HistoryStaysSnapshots, ReleaseMovesSubmission, NextSubmissionInv
     DEF JudgedInv, SubmissionMoves
<1> QED
  BY <1>1, <1>2

(* Gaming is not rewarded and honest work not suspected: whatever was      *)
(* measured before, a gain that is the same for every metric of the gate   *)
(* raises no pattern of gaming and correlates with what it grew from; and  *)
(* whatever the submission, worse results or a later one are never judged  *)
(* better, nor is the outlook when a component is removed                  *)
(* (core/gaming_detector.py:151-443, anti_gaming/).                        *)
THEOREM GamingJudgedCorrect == Spec => GamingJudged
<1>1. JudgedInv => UniformGainQuiet /\ SubmissionInv
  BY UniformGainQuietHolds DEF JudgedInv
<1>2. SubmissionInv /\ [Next]_releaseVars =>
        [/\ submission' # submission =>
               /\ ActionRank[OverfittingAction(Signals')]
                    >= ActionRank[OverfittingAction(Signals)]
               /\ LevelRank[Memorized'] >= LevelRank[Memorized]
               /\ StatusRank[Status'] >= StatusRank[Status]
         /\ changes' # changes /\ Last(changes').type = "removed"
              /\ Last(changes').words = {} =>
               /\ AssessmentRank[OverallAssessment(RiskShifts(changes'))]
                    >= AssessmentRank[OverallAssessment(RiskShifts(changes))]
               /\ FocusAreas(RiskShifts(changes)) \subseteq FocusAreas(RiskShifts(changes'))
        ]_submissionVars
  BY WorseStep DEF NoBetter
<1> QED
  BY <1>1, <1>2, JudgedInductive, PTL DEF Spec, GamingJudged, WorseNeverBetter
=============================================================================
