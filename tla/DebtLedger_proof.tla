-------------------------- MODULE DebtLedger_proof --------------------------
(***************************************************************************)
(* SoundLedgers holds for any number of overlapping programs, any crashes  *)
(* and any ledger.  It is inductive once the files and the drafts are      *)
(* known to be ledgers of entries: every program writes back a draft, and  *)
(* a draft is made from a sound ledger by operations that keep each entry  *)
(* sound.                                                                  *)
(*                                                                         *)
(* LedgerAccounted needs of every ledger and draft that its total is at    *)
(* least the sum over its active entries.  An operation changes one entry  *)
(* or adds one; the sum theorems say by how much the sum can move.         *)
(*                                                                         *)
(* BlockingStands and SettleComplete hold of the same programs once the    *)
(* history is added: the draft of a program keeps what the program saw     *)
(* (SeenInv), and a settlement's ledger has no open debt of its principles *)
(* until another program writes it (SettleInv).                            *)
(***************************************************************************)
EXTENDS DebtLedger, SumTheorems, FiniteSetTheorems, TLAPS

SoundEntries(entries) ==
    /\ entries \in Seq(Entry)
    /\ \A k \in 1..Len(entries) : SoundEntry(entries[k])

SoundLedger(l) ==
    /\ l = [entries |-> l.entries, total |-> l.total]
    /\ SoundEntries(l.entries)

IInv ==
    /\ today \in 0..MaxDay
    /\ file = [path \in Paths |->
                  [state |-> file[path].state, ledger |-> file[path].ledger]]
    /\ \A path \in Paths : SoundLedger(file[path].ledger)
    /\ draft = [p \in Procs |-> draft[p]]
    /\ \A p \in Procs : SoundLedger(draft[p])
    /\ target \in [Procs -> Paths]

(* A new entry is sound if it blocks as an incident's does. *)
LEMMA NewEntrySound ==
    ASSUME today \in 0..MaxDay, NEW s \in Sources, NEW severities,
           s \in Incidents => severities = {"critical", "high"}
    PROVE  /\ NewEntry(s, severities) \in Entry
           /\ SoundEntry(NewEntry(s, severities))
  <1>1. NewEntry(s, severities) \in Entry
    BY DEF NewEntry, Entry
  <1>2. SoundEntry(NewEntry(s, severities))
    BY DEF NewEntry, SoundEntry, Active
  <1> QED
    BY <1>1, <1>2

(* Clearing an entry makes it sound, whatever it was. *)
LEMMA ClearedSound ==
    ASSUME NEW e \in Entry, NEW how \in {"mitigated", "accepted"}
    PROVE  Cleared(e, how) \in Entry /\ SoundEntry(Cleared(e, how))
  BY DEF Cleared, Entry, SoundEntry, Active

(* Changing entries one by one into sound ones keeps a ledger sound. *)
LEMMA ChangedSound ==
    ASSUME NEW entries, SoundEntries(entries),
           NEW changed,
           DOMAIN changed = DOMAIN entries,
           changed = [k \in DOMAIN changed |-> changed[k]],
           \A k \in DOMAIN entries :
               changed[k] \in Entry /\ SoundEntry(changed[k])
    PROVE  SoundEntries(changed)
  <1>1. entries \in Seq(Entry) /\ DOMAIN entries = 1..Len(entries)
        /\ Len(entries) \in Nat
    BY DEF SoundEntries
  <1>2. changed \in [1..Len(entries) -> Entry]
    BY <1>1
  <1>3. changed \in Seq(Entry) /\ Len(changed) = Len(entries)
    BY <1>1, <1>2
  <1> QED
    BY <1>1, <1>3 DEF SoundEntries

LEMMA EntrySound ==
    ASSUME NEW entries, SoundEntries(entries)
    PROVE  /\ DOMAIN entries = 1..Len(entries)
           /\ \A k \in DOMAIN entries :
                 entries[k] \in Entry /\ SoundEntry(entries[k])
  <1>1. entries \in Seq(Entry)
    BY DEF SoundEntries
  <1>2. DOMAIN entries = 1..Len(entries)
    BY <1>1
  <1>3. \A k \in DOMAIN entries : entries[k] \in Entry
    BY <1>1, <1>2
  <1> QED
    BY <1>2, <1>3 DEF SoundEntries

LEMMA SettledSound ==
    ASSUME NEW entries, SoundEntries(entries), NEW principles
    PROVE  SoundEntries(Settled(entries, principles))
  <1>1. \A k \in DOMAIN entries :
           /\ Settled(entries, principles)[k] \in Entry
           /\ SoundEntry(Settled(entries, principles)[k])
    BY EntrySound, ClearedSound DEF Settled
  <1> QED
    BY <1>1, ChangedSound DEF Settled

LEMMA EnforcedSound ==
    ASSUME NEW entries, SoundEntries(entries)
    PROVE  SoundEntries(Enforced(entries))
  <1>1. ASSUME NEW k \in DOMAIN entries
        PROVE  /\ Enforced(entries)[k] \in Entry
               /\ SoundEntry(Enforced(entries)[k])
    <2>1. entries[k] \in Entry /\ SoundEntry(entries[k])
      BY EntrySound
    <2>2. CASE Overdue(entries[k])
      <3>1. Enforced(entries)[k] = [entries[k] EXCEPT !.blocks = TRUE]
        BY <2>2 DEF Enforced
      <3>2. Active(entries[k])
        BY <2>2 DEF Overdue
      <3> QED
        BY <2>1, <3>1, <3>2 DEF Entry, SoundEntry, Active
    <2>3. CASE ~Overdue(entries[k])
      BY <2>1, <2>3 DEF Enforced
    <2> QED
      BY <2>2, <2>3
  <1> QED
    BY <1>1, ChangedSound DEF Enforced

(* Clearing the entry a DebtClearer found. *)
LEMMA OneClearedSound ==
    ASSUME NEW entries, SoundEntries(entries), NEW k \in 1..Len(entries),
           NEW how \in {"mitigated", "accepted"}
    PROVE  SoundEntries([entries EXCEPT ![k] = Cleared(@, how)])
  <1> DEFINE changed == [entries EXCEPT ![k] = Cleared(@, how)]
  <1>1. \A m \in DOMAIN entries :
           changed[m] = IF m = k THEN Cleared(entries[k], how) ELSE entries[m]
    OBVIOUS
  <1>2. \A m \in DOMAIN entries :
           changed[m] \in Entry /\ SoundEntry(changed[m])
    BY <1>1, EntrySound, ClearedSound
  <1>3. DOMAIN changed = DOMAIN entries
        /\ changed = [m \in DOMAIN changed |-> changed[m]]
    OBVIOUS
  <1> HIDE DEF changed
  <1>4. SoundEntries(changed)
    BY <1>2, <1>3, ChangedSound
  <1> QED
    BY <1>4 DEF changed

LEMMA NoLedgerSound == SoundLedger(NoLedger)
  BY DEF SoundLedger, SoundEntries, NoLedger

LEMMA LoadedSound ==
    ASSUME IInv, NEW path \in Paths
    PROVE  SoundLedger(Loaded(path)) /\ SoundEntries(Loaded(path).entries)
  BY NoLedgerSound DEF IInv, Loaded, SoundLedger

(* A program that holds a sound draft keeps the invariant. *)
LEMMA HoldSound ==
    ASSUME IInv, NEW p \in Procs, NEW path \in Paths, NEW l, SoundLedger(l),
           draft' = [draft EXCEPT ![p] = l],
           target' = [target EXCEPT ![p] = path],
           UNCHANGED <<file, today>>
    PROVE  IInv'
  <1>1. /\ draft' = [q \in Procs |-> draft'[q]]
        /\ \A q \in Procs : draft'[q] = IF q = p THEN l ELSE draft[q]
    BY DEF IInv
  <1>2. \A q \in Procs : SoundLedger(draft'[q])
    BY <1>1 DEF IInv
  <1>3. target' \in [Procs -> Paths]
    BY DEF IInv
  <1> QED
    BY <1>1, <1>2, <1>3 DEF IInv, SoundLedger, SoundEntries

LEMMA SummedSound ==
    ASSUME NEW entries, SoundEntries(entries)
    PROVE  SoundLedger(Summed(entries))
  BY DEF Summed, SoundLedger

LEMMA InitSound ==
    ASSUME Init
    PROVE  IInv
  <1>1. \A path \in Paths :
           /\ file[path].ledger = NoLedger
           /\ file[path] = [state |-> file[path].state,
                            ledger |-> file[path].ledger]
    BY DEF Init
  <1>2. file = [path \in Paths |-> file[path]]
    BY DEF Init
  <1>3. file = [path \in Paths |-> [state |-> file[path].state,
                                   ledger |-> file[path].ledger]]
    BY <1>1, <1>2
  <1>4. /\ today \in 0..MaxDay
        /\ target \in [Procs -> Paths]
        /\ draft = [p \in Procs |-> draft[p]]
        /\ \A p \in Procs : draft[p] = NoLedger
    BY LedgerAssumption DEF Init, LedgerAssumption, Paths
  <1> QED
    BY <1>1, <1>3, <1>4, NoLedgerSound DEF IInv

(* What a reader holds: the changed entries with their total, or a ledger  *)
(* as it was found but for the settled or the overdue entries.             *)
LEMMA ReadCases ==
    ASSUME IInv, NEW p \in Procs, Read(p)
    PROVE  \/ \E entries : SoundEntries(entries) /\ Clearing(p, entries)
           \/ \E entries : SoundEntries(entries) /\ Hold(p, "suite", Summed(entries), <<>>)
           \/ \E principles \in SUBSET Principles : Settle(p, principles)
           \/ Enforce(p)
           \/ CheckSlo(p)
  <1>1. ClearerPath \in Paths /\ "suite" \in Paths
    BY DEF ClearerPath, Paths
  <1>2. SoundEntries(Debts)
    BY <1>1, LoadedSound DEF Debts
  <1>3. ASSUME NEW i \in Incidents, Create(p, i)
        PROVE  \E entries : SoundEntries(entries) /\ Clearing(p, entries)
    <2> DEFINE e == NewEntry(i, {"critical", "high"})
    <2>1. e \in Entry /\ SoundEntry(e)
      BY NewEntrySound DEF Sources, IInv
    <2> HIDE DEF e
    <2>2. Debts \in Seq(Entry) /\ \A k \in 1..Len(Debts) : SoundEntry(Debts[k])
      BY <1>2 DEF SoundEntries
    <2>3. /\ Append(Debts, e) \in Seq(Entry)
          /\ \A k \in 1..Len(Append(Debts, e)) :
                Append(Debts, e)[k] = e \/ /\ k \in 1..Len(Debts)
                                           /\ Append(Debts, e)[k] = Debts[k]
      BY <2>1, <2>2
    <2>4. SoundEntries(Append(Debts, e))
      BY <2>1, <2>2, <2>3 DEF SoundEntries
    <2>5. Clearing(p, Append(Debts, e))
      BY <1>3 DEF Create, e
    <2> QED
      BY <2>4, <2>5
  <1>4. ASSUME NEW i \in Incidents, MarkMitigated(p, i)
        PROVE  \E entries : SoundEntries(entries) /\ Clearing(p, entries)
    <2>1. PICK k \in 1..Len(Debts) :
              Clearing(p, [Debts EXCEPT ![k] = Cleared(@, "mitigated")])
      BY <1>4 DEF MarkMitigated, First
    <2> QED
      BY <1>2, <2>1, OneClearedSound
  <1>5. ASSUME NEW id, MarkAccepted(p, id)
        PROVE  \E entries : SoundEntries(entries) /\ Clearing(p, entries)
    <2>1. PICK k \in 1..Len(Debts) :
              Clearing(p, [Debts EXCEPT ![k] = Cleared(@, "accepted")])
      BY <1>5 DEF MarkAccepted, First
    <2> QED
      BY <1>2, <2>1, OneClearedSound
  <1>6. ASSUME NEW found \in SUBSET Violations, Audit(p, found)
         PROVE  \E entries : SoundEntries(entries) /\ Hold(p, "suite", Summed(entries), <<>>)
    <2> DEFINE severe == {v \in found : SeverityOf[v] \in {"critical", "high"}}
    <2>1. PICK order \in SetToSeqs(severe) :
              Hold(p, "suite",
                   Summed([k \in DOMAIN order |->
                              NewEntry(order[k], {"critical"})]),
                   <<>>)
      BY <1>6 DEF Audit
    <2> DEFINE entries == [k \in DOMAIN order |->
                             NewEntry(order[k], {"critical"})]
    <2>2. Cardinality(severe) \in Nat
      BY LedgerAssumption, FS_Subset, FS_CardinalityType DEF LedgerAssumption
    <2>3. order \in [1..Cardinality(severe) -> severe]
      BY DEF SetToSeqs
    <2>4. \A k \in DOMAIN order : order[k] \in Sources /\ order[k] \notin Incidents
      BY <2>3, LedgerAssumption DEF LedgerAssumption, Sources
    <2>5. \A k \in DOMAIN order : entries[k] \in Entry /\ SoundEntry(entries[k])
      BY <2>4, NewEntrySound DEF IInv
    <2>6. entries \in [1..Cardinality(severe) -> Entry]
      BY <2>3, <2>5
    <2>7. entries \in Seq(Entry) /\ Len(entries) = Cardinality(severe)
      <3> DEFINE n == Cardinality(severe)
      <3>1. n \in Nat /\ entries \in [1..n -> Entry]
        BY <2>2, <2>6
      <3> HIDE DEF n, entries
      <3>2. entries \in Seq(Entry) /\ Len(entries) = n
        BY <3>1
      <3> QED
        BY <3>2 DEF n
    <2>8. SoundEntries(entries)
      BY <2>3, <2>5, <2>7 DEF SoundEntries
    <2> QED
      BY <2>1, <2>8
  <1> QED
    BY <1>3, <1>4, <1>5, <1>6 DEF Read

LEMMA ReadSound ==
    ASSUME IInv, NEW p \in Procs, Read(p)
    PROVE  IInv'
  <1>1. ClearerPath \in Paths /\ "suite" \in Paths
    BY DEF ClearerPath, Paths
  <1>2. ASSUME NEW entries, SoundEntries(entries), Clearing(p, entries)
        PROVE  IInv'
    BY <1>1, <1>2, SummedSound, HoldSound DEF Clearing, Hold, ledgerVars
  <1>3. ASSUME NEW entries, SoundEntries(entries), Hold(p, "suite", Summed(entries), <<>>)
        PROVE  IInv'
    BY <1>1, <1>3, SummedSound, HoldSound DEF Hold, ledgerVars
  <1>4. ASSUME NEW principles, Settle(p, principles)
        PROVE  IInv'
    <2> DEFINE l == [Loaded("suite") EXCEPT !.entries = Settled(@, principles)]
    <2>1. SoundLedger(Loaded("suite")) /\ SoundEntries(Loaded("suite").entries)
      BY <1>1, LoadedSound
    <2>2. l = [entries |-> Settled(Loaded("suite").entries, principles),
               total |-> Loaded("suite").total]
      BY <2>1 DEF SoundLedger
    <2>3. SoundLedger(l)
      BY <2>1, <2>2, SettledSound DEF SoundLedger
    <2> QED
      BY <1>1, <1>4, <2>3, HoldSound DEF Settle, ledgerVars
  <1>5. CASE Enforce(p)
    <2> DEFINE l == [Loaded("suite") EXCEPT !.entries = Enforced(@)]
    <2>1. SoundLedger(Loaded("suite")) /\ SoundEntries(Loaded("suite").entries)
      BY <1>1, LoadedSound
    <2>2. l = [entries |-> Enforced(Loaded("suite").entries),
               total |-> Loaded("suite").total]
      BY <2>1 DEF SoundLedger
    <2>3. SoundLedger(l)
      BY <2>1, <2>2, EnforcedSound DEF SoundLedger
    <2> QED
      BY <1>1, <1>5, <2>3, HoldSound DEF Enforce, Hold, ledgerVars
  <1>6. CASE CheckSlo(p)
    BY <1>1, <1>6, LoadedSound, HoldSound DEF CheckSlo, Hold, ledgerVars
  <1> QED
    BY <1>2, <1>3, <1>4, <1>5, <1>6, ReadCases

LEMMA WriteSound ==
    ASSUME IInv, NEW p \in Procs, Write(p)
    PROVE  IInv'
  <1>1. target[p] \in Paths /\ SoundLedger(draft[p])
    BY DEF IInv
  <1>2. CASE ReadExceptions(p)
    BY <1>2 DEF ReadExceptions, ledgerVars, IInv, SoundLedger, SoundEntries
  <1>3. CASE Truncate(p)
    <2>1. \A path \in Paths :
             file'[path] = IF path = target[p]
                           THEN [file[path] EXCEPT !.state = "torn"]
                           ELSE file[path]
      BY <1>3 DEF Truncate, IInv
    <2>2. \A path \in Paths :
             file[path] = [state |-> file[path].state,
                           ledger |-> file[path].ledger]
      BY DEF IInv
    <2>3. \A path \in Paths : file'[path].ledger = file[path].ledger
      BY <2>1, <2>2
    <2>4. \A path \in Paths : SoundLedger(file'[path].ledger)
      BY <2>3 DEF IInv
    <2>5. file' = [path \in Paths |-> [state |-> file'[path].state,
                                      ledger |-> file'[path].ledger]]
      <3>1. \A path \in Paths :
               file'[path] = [state |-> file'[path].state,
                              ledger |-> file'[path].ledger]
        BY <2>1, <2>2
      <3>2. file' = [path \in Paths |-> file'[path]]
        BY <1>3 DEF Truncate, IInv
      <3> QED
        BY <3>1, <3>2
    <2> QED
      BY <1>3, <2>4, <2>5 DEF Truncate, IInv, SoundLedger, SoundEntries
  <1>4. CASE Dump(p)
    <2>1. \A path \in Paths :
             file'[path] = IF path = target[p]
                           THEN [state |-> "saved", ledger |-> draft[p]]
                           ELSE file[path]
      BY <1>4 DEF Dump, IInv
    <2>2. \A path \in Paths : SoundLedger(file'[path].ledger)
      BY <2>1, <1>1 DEF IInv
    <2>3. file' = [path \in Paths |-> [state |-> file'[path].state,
                                      ledger |-> file'[path].ledger]]
      BY <1>4, <2>1 DEF Dump, IInv
    <2>4. draft' = [q \in Procs |-> draft'[q]]
          /\ \A q \in Procs : SoundLedger(draft'[q])
      BY <1>4, NoLedgerSound DEF Dump, IInv
    <2>5. target' \in [Procs -> Paths] /\ today' \in 0..MaxDay
      BY <1>4 DEF Dump, IInv, Paths
    <2> QED
      BY <2>2, <2>3, <2>4, <2>5 DEF IInv, SoundLedger, SoundEntries
  <1>5. CASE TruncateExceptions(p) \/ DumpExceptions(p)
    BY <1>5
       DEF TruncateExceptions, DumpExceptions, IInv, SoundLedger, SoundEntries
  <1> QED
    BY <1>2, <1>3, <1>4, <1>5 DEF Write

LEMMA CrashSound ==
    ASSUME IInv, NEW p \in Procs, Crash(p)
    PROVE  IInv'
  <1>1. draft' = [q \in Procs |-> draft'[q]]
        /\ \A q \in Procs : SoundLedger(draft'[q])
    BY NoLedgerSound DEF Crash, IInv
  <1>2. target' \in [Procs -> Paths]
    BY DEF Crash, IInv, Paths
  <1> QED
    BY <1>1, <1>2 DEF Crash, ledgerVars, IInv, SoundLedger, SoundEntries

(* Noting work on an open debt changes the state of its entry alone.       *)
Begun(entries, k) == [entries EXCEPT ![k].status = "in_progress"]

LEMMA BegunEntries ==
    ASSUME NEW entries, SoundEntries(entries), NEW k \in DOMAIN entries,
           entries[k].status = "open"
    PROVE  /\ SoundEntries(Begun(entries, k))
           /\ DOMAIN Begun(entries, k) = DOMAIN entries
           /\ \A m \in DOMAIN entries :
                 /\ Begun(entries, k)[m].source = entries[m].source
                 /\ Id(Begun(entries, k)[m]) = Id(entries[m])
                 /\ Begun(entries, k)[m].blocks = entries[m].blocks
                 /\ Active(Begun(entries, k)[m]) <=> Active(entries[m])
                 /\ Begun(entries, k)[m].status = "open"
                       => entries[m].status = "open"
  <1> DEFINE begun == Begun(entries, k)
             e == [entries[k] EXCEPT !.status = "in_progress"]
  <1>1. entries[k] \in Entry /\ SoundEntry(entries[k])
    BY EntrySound
  <1>2. /\ e \in Entry /\ e.source = entries[k].source /\ e.day = entries[k].day
        /\ e.blocks = entries[k].blocks /\ e.status = "in_progress"
    BY <1>1 DEF Entry
  <1>3. Active(e) /\ Active(entries[k])
    BY <1>2 DEF Active
  <1>4. SoundEntry(e) /\ Id(e) = Id(entries[k])
    BY <1>1, <1>2, <1>3 DEF SoundEntry, Id
  <1>5. /\ DOMAIN begun = DOMAIN entries
        /\ begun = [m \in DOMAIN begun |-> begun[m]]
        /\ \A m \in DOMAIN entries : begun[m] = IF m = k THEN e ELSE entries[m]
    BY DEF Begun
  <1> HIDE DEF begun, e
  <1>6. \A m \in DOMAIN entries : begun[m] \in Entry /\ SoundEntry(begun[m])
    BY <1>2, <1>4, <1>5, EntrySound
  <1>7. SoundEntries(begun)
    BY <1>5, <1>6, ChangedSound
  <1>8. \A m \in DOMAIN entries :
           /\ begun[m].source = entries[m].source
           /\ Id(begun[m]) = Id(entries[m])
           /\ begun[m].blocks = entries[m].blocks
           /\ Active(begun[m]) <=> Active(entries[m])
           /\ begun[m].status = "open" => entries[m].status = "open"
    BY <1>2, <1>3, <1>4, <1>5
  <1> QED
    BY <1>5, <1>7, <1>8 DEF begun

BegunLedger(l, k) == [l EXCEPT !.entries = Begun(l.entries, k)]

LEMMA WorkBegun ==
    ASSUME IInv, NEW path \in Paths, NEW k \in DOMAIN Entries(path),
           BeginWork(path, k)
    PROVE  /\ SoundEntries(Entries(path)) /\ Entries(path)[k].status = "open"
           /\ file'[path].state = "saved"
           /\ file'[path].ledger = BegunLedger(file[path].ledger, k)
           /\ file'[path].ledger.entries = Begun(Entries(path), k)
           /\ file' = [file EXCEPT ![path] =
                          [state |-> "saved",
                           ledger |-> BegunLedger(file[path].ledger, k)]]
  <1>1. /\ SoundLedger(file[path].ledger)
        /\ file[path] = [state |-> file[path].state, ledger |-> file[path].ledger]
    BY DEF IInv
  <1>2. SoundEntries(Entries(path))
    BY <1>1 DEF SoundLedger, Entries
  <1>3. Entries(path)[k].status = "open" /\ file[path].state = "saved"
    BY DEF BeginWork, Entries
  <1> DEFINE saved == [file[path] EXCEPT
                           !.ledger.entries[k].status = "in_progress"]
  <1>4. saved = [state |-> "saved", ledger |-> BegunLedger(file[path].ledger, k)]
    BY <1>1, <1>3 DEF Begun, BegunLedger
  <1>5. BegunLedger(file[path].ledger, k).entries = Begun(Entries(path), k)
    BY <1>1 DEF SoundLedger, BegunLedger, Entries
  <1>6. file' = [file EXCEPT ![path] = saved]
    BY DEF BeginWork
  <1> HIDE DEF saved
  <1>7. file'[path] = saved
    BY <1>6 DEF IInv
  <1>8. file'[path].state = "saved" /\ file'[path].ledger = BegunLedger(file[path].ledger, k)
    BY <1>4, <1>7
  <1>9. file'[path].ledger.entries = Begun(Entries(path), k)
    BY <1>5, <1>8
  <1> QED
    BY <1>2, <1>3, <1>4, <1>6, <1>8, <1>9

LEMMA BeginSound ==
    ASSUME IInv, NEW path \in Paths, NEW k \in DOMAIN Entries(path),
           BeginWork(path, k)
    PROVE  IInv'
  <1> DEFINE l == BegunLedger(file[path].ledger, k)
  <1>1. SoundEntries(Begun(Entries(path), k))
    BY WorkBegun, BegunEntries
  <1>2. SoundLedger(l)
    <2>1. SoundLedger(file[path].ledger)
      BY DEF IInv
    <2>2. l = [entries |-> Begun(Entries(path), k), total |-> file[path].ledger.total]
      BY <2>1 DEF SoundLedger, BegunLedger, Entries
    <2> QED
      BY <1>1, <2>2 DEF SoundLedger
  <1>3. file' = [file EXCEPT ![path] = [state |-> "saved", ledger |-> l]]
    BY WorkBegun
  <1> HIDE DEF l
  <1>4. /\ file' = [other \in Paths |-> file'[other]]
        /\ \A other \in Paths :
              file'[other] = IF other = path THEN [state |-> "saved", ledger |-> l]
                             ELSE file[other]
    BY <1>3 DEF IInv
  <1>5. \A other \in Paths :
           /\ SoundLedger(file'[other].ledger)
           /\ file'[other] = [state |-> file'[other].state,
                              ledger |-> file'[other].ledger]
    BY <1>2, <1>4 DEF IInv
  <1>6. file' = [other \in Paths |-> [state |-> file'[other].state,
                                     ledger |-> file'[other].ledger]]
    BY <1>4, <1>5
  <1>7. UNCHANGED <<today, draft, target>>
    BY DEF BeginWork
  <1> QED
    BY <1>5, <1>6, <1>7 DEF IInv, SoundLedger, SoundEntries

LEMMA OtherSound ==
    ASSUME IInv, (\E c \in Principles : AddException(c)) \/ NextDay
                 \/ UNCHANGED vars
    PROVE  IInv'
  BY LedgerAssumption
     DEF AddException, NextDay, vars, ledgerVars, IInv, SoundLedger,
         SoundEntries, LedgerAssumption

(* In every ledger, whatever programs overlap or are killed, a cleared     *)
(* debt blocks no release and a severe incident's debt blocks until it is  *)
(* cleared.                                                                *)
THEOREM LedgersSound == Spec => []SoundLedgers
  <1>1. IInv /\ [Next]_vars => IInv'
    BY ReadSound, WriteSound, CrashSound, BeginSound, OtherSound
       DEF Next, Entries
  <1>2. ASSUME NEW l, SoundLedger(l), NEW e \in EntriesOf(l)
        PROVE  SoundEntry(e)
    <2>1. PICK k \in DOMAIN l.entries : e = l.entries[k]
      BY <1>2 DEF EntriesOf
    <2> QED
      BY <1>2, <2>1, EntrySound DEF SoundLedger
  <1>3. IInv => SoundLedgers
    BY <1>2 DEF IInv, SoundLedgers
  <1> QED
    BY InitSound, <1>1, <1>3, PTL DEF Spec

-----------------------------------------------------------------------------
(***************************************************************************)
(* The totals.  Every file and every draft has a total that covers its     *)
(* debts, however the programs overlap: a total is worked out of the       *)
(* entries it is held with, or kept while debts are cleared.               *)
(***************************************************************************)
AmountOf(entries) == [k \in DOMAIN entries |-> Amount[SeverityOf[entries[k].source]]]
ActiveIn(entries) == {k \in DOMAIN entries : Active(entries[k])}

Covers(l) == l.total \in Nat /\ Total(l.entries) <= l.total

AccountedInv ==
    /\ exceptions \subseteq Principles
    /\ at \in [Procs -> Steps \cup {"idle"}]
    /\ verified \in [Procs -> SUBSET Principles]
    /\ kept \in [Procs -> SUBSET Principles]
    /\ seen \in [Procs -> [blocking : SUBSET Ids, cleared : SUBSET Ids]]
    /\ undisturbed \subseteq Procs
    /\ \A path \in Paths :
          /\ file[path].state \in {"absent", "torn", "saved"}
          /\ Covers(file[path].ledger)
    /\ \A p \in Procs : Covers(draft[p])

LEMMA TotalFacts ==
    ASSUME NEW entries \in Seq(Entry)
    PROVE  /\ IsFiniteSet(ActiveIn(entries))
           /\ \A k \in ActiveIn(entries) : AmountOf(entries)[k] \in Nat
           /\ Total(entries) = SumFunctionOnSet(AmountOf(entries), ActiveIn(entries))
           /\ Total(entries) \in Nat
  <1>1. PICK n \in Nat : n = Len(entries) /\ DOMAIN entries = 1..n
    OBVIOUS
  <1>2. 1 \in Int /\ n \in Int
    BY <1>1
  <1>3. IsFiniteSet(1..n)
    BY <1>2, FS_Interval
  <1>4. ActiveIn(entries) \subseteq 1..n
    BY <1>1 DEF ActiveIn
  <1>5. IsFiniteSet(ActiveIn(entries))
    BY <1>3, <1>4, FS_Subset
  <1>6. \A k \in DOMAIN entries : AmountOf(entries)[k] \in Nat
    <2> TAKE k \in DOMAIN entries
    <2>1. entries[k] \in Entry
      OBVIOUS
    <2>2. SeverityOf[entries[k].source] \in Severities
      BY <2>1, LedgerAssumption DEF LedgerAssumption, Entry
    <2> QED
      BY <2>2 DEF AmountOf, Amount, Severities
  <1>7. Total(entries) = SumFunctionOnSet(AmountOf(entries), ActiveIn(entries))
    BY DEF Total, AmountOf, ActiveIn
  <1>8. \A k \in ActiveIn(entries) : AmountOf(entries)[k] \in Nat
    BY <1>1, <1>4, <1>6
  <1> QED
    BY <1>5, <1>7, <1>8, SumOfNaturals

(* Entries that are changed, none of them to active, come to no more.      *)
LEMMA TotalShrinks ==
    ASSUME NEW entries \in Seq(Entry), NEW changed \in Seq(Entry),
           DOMAIN changed = DOMAIN entries,
           \A k \in DOMAIN entries : /\ changed[k].source = entries[k].source
                                     /\ Active(changed[k]) => Active(entries[k])
    PROVE  Total(changed) <= Total(entries)
  <1> DEFINE f == AmountOf(entries)
             g == AmountOf(changed)
             A == ActiveIn(entries)
             B == ActiveIn(changed)
  <1>1. B \in SUBSET A /\ \A k \in B : g[k] = f[k]
    BY DEF ActiveIn, AmountOf
  <1>2. /\ IsFiniteSet(A) /\ \A k \in A : f[k] \in Nat
        /\ Total(entries) = SumFunctionOnSet(f, A)
    BY TotalFacts
  <1>3. IsFiniteSet(B) /\ Total(changed) = SumFunctionOnSet(g, B)
    BY TotalFacts
  <1> HIDE DEF f, g, A, B
  <1>4. /\ IsFiniteSet(A \ B) /\ IntValued(f, A)
        /\ (\A k \in A \ B : f[k] \in Nat) /\ (\A k \in B : f[k] \in Nat)
    BY <1>1, <1>2, FS_Subset DEF IntValued
  <1>5. SumFunctionOnSet(f, A) = SumFunctionOnSet(f, B) + SumFunctionOnSet(f, A \ B)
    BY <1>1, <1>2, <1>4, SumSplits
  <1>6. SumFunctionOnSet(f, B) \in Nat /\ SumFunctionOnSet(f, A \ B) \in Nat
    BY <1>3, <1>4, SumOfNaturals
  <1>7. SumFunctionOnSet(g, B) = SumFunctionOnSet(f, B)
    <2>1. \A k \in B : f[k] \in Int /\ g[k] = f[k]
      BY <1>1, <1>4
    <2> QED
      BY <1>3, <2>1, SumOfSame
  <1> QED
    BY <1>2, <1>3, <1>5, <1>6, <1>7

LEMMA NoLedgerCovers == Covers(NoLedger)
  <1>1. NoLedger.entries = <<>> /\ NoLedger.total = 0
    BY DEF NoLedger
  <1>2. {k \in DOMAIN <<>> : Active(<<>>[k])} = {}
    OBVIOUS
  <1>3. Total(<<>>) = 0
    BY <1>2, SumOfNone DEF Total
  <1> QED
    BY <1>1, <1>3 DEF Covers

LEMMA SummedCovers ==
    ASSUME NEW entries, SoundEntries(entries)
    PROVE  Covers(Summed(entries))
  <1>1. Total(entries) \in Nat
    BY TotalFacts DEF SoundEntries
  <1>2. Summed(entries).entries = entries /\ Summed(entries).total = Total(entries)
    BY DEF Summed
  <1> QED
    BY <1>1, <1>2 DEF Covers

LEMMA ChangedCovers ==
    ASSUME NEW l, Covers(l), SoundLedger(l),
           NEW changed, SoundEntries(changed), DOMAIN changed = DOMAIN l.entries,
           \A k \in DOMAIN l.entries : /\ changed[k].source = l.entries[k].source
                                       /\ Active(changed[k]) => Active(l.entries[k])
    PROVE  Covers([l EXCEPT !.entries = changed])
  <1>1. l.entries \in Seq(Entry) /\ changed \in Seq(Entry)
    BY DEF SoundLedger, SoundEntries
  <1>2. Total(changed) <= Total(l.entries)
    BY <1>1, TotalShrinks
  <1>3. Total(changed) \in Nat /\ Total(l.entries) \in Nat
    BY <1>1, TotalFacts
  <1>4. l.total \in Nat /\ Total(l.entries) <= l.total
    BY DEF Covers
  <1>5. l = [entries |-> l.entries, total |-> l.total]
    BY DEF SoundLedger
  <1> DEFINE c == [l EXCEPT !.entries = changed]
  <1>6. c.entries = changed /\ c.total = l.total
    BY <1>5
  <1> HIDE DEF c
  <1>7. Covers(c)
    BY <1>2, <1>3, <1>4, <1>6 DEF Covers
  <1> QED
    BY <1>7 DEF c

(* What a program saw is a set of ids of each kind.                        *)
LEMMA SeenTyped ==
    ASSUME NEW entries \in Seq(Entry)
    PROVE  Seen(entries) \in [blocking : SUBSET Ids, cleared : SUBSET Ids]
  <1>1. \A k \in DOMAIN entries : entries[k] \in Entry
    OBVIOUS
  <1>2. \A k \in DOMAIN entries : Id(entries[k]) \in Ids
    BY <1>1 DEF Id, Ids, Entry
  <1> QED
    BY <1>2 DEF Seen, BlockingIn, ClearedIn

LEMMA NothingSeenTyped ==
    NothingSeen \in [blocking : SUBSET Ids, cleared : SUBSET Ids]
  BY DEF NothingSeen

(* A program that holds a ledger that is covered keeps the invariant.      *)
LEMMA HoldCovers ==
    ASSUME AccountedInv, IInv, NEW p \in Procs, NEW l, Covers(l),
           NEW step \in Steps, NEW principles \in SUBSET Principles,
           draft' = [draft EXCEPT ![p] = l],
           at' = [at EXCEPT ![p] = step],
           verified' = verified \/ verified' = [verified EXCEPT ![p] = principles],
           NEW entries \in Seq(Entry),
           seen' = [seen EXCEPT ![p] = Seen(entries)],
           UNCHANGED <<file, exceptions, kept, undisturbed>>
    PROVE  AccountedInv'
  <1>1. \A q \in Procs : draft'[q] = IF q = p THEN l ELSE draft[q]
    BY DEF IInv
  <1>2. \A q \in Procs : Covers(draft'[q])
    BY <1>1 DEF AccountedInv
  <1>3. /\ at' \in [Procs -> Steps \cup {"idle"}]
        /\ verified' \in [Procs -> SUBSET Principles]
    BY DEF AccountedInv
  <1>4. seen' \in [Procs -> [blocking : SUBSET Ids, cleared : SUBSET Ids]]
    <2>1. Seen(entries) \in [blocking : SUBSET Ids, cleared : SUBSET Ids]
      BY SeenTyped
    <2> QED
      BY <2>1 DEF AccountedInv
  <1> QED
    BY <1>2, <1>3, <1>4 DEF AccountedInv, Covers

LEMMA ReadCovers ==
    ASSUME AccountedInv, IInv, NEW p \in Procs, Read(p)
    PROVE  AccountedInv'
  <1>1. "suite" \in Paths /\ "saving" \in Steps /\ "reading" \in Steps /\ {} \in SUBSET Principles
    BY DEF Paths, Steps
  <1>2. SoundLedger(Loaded("suite")) /\ SoundEntries(Loaded("suite").entries)
    BY <1>1, LoadedSound
  <1>3. Covers(Loaded("suite"))
    BY <1>1, NoLedgerCovers DEF Loaded, AccountedInv
  <1>4. ASSUME NEW path, NEW l, Covers(l), NEW entries \in Seq(Entry),
               Hold(p, path, l, entries)
        PROVE  AccountedInv'
    <2>1. /\ draft' = [draft EXCEPT ![p] = l]
          /\ at' = [at EXCEPT ![p] = "saving"]
          /\ UNCHANGED <<file, exceptions, kept, undisturbed>>
          /\ verified' = verified /\ seen' = [seen EXCEPT ![p] = Seen(entries)]
      BY <1>4 DEF Hold, ledgerVars
    <2> QED
      BY <1>1, <1>4, <2>1, HoldCovers
  <1>5. ASSUME NEW entries, SoundEntries(entries), Clearing(p, entries)
        PROVE  AccountedInv'
    <2>1. ClearerPath \in Paths /\ Debts \in Seq(Entry)
      BY LoadedSound DEF ClearerPath, Paths, Debts, SoundEntries
    <2> QED
      BY <1>4, <1>5, <2>1, SummedCovers DEF Clearing
  <1>6. ASSUME NEW entries, SoundEntries(entries), Hold(p, "suite", Summed(entries), <<>>)
        PROVE  AccountedInv'
    <2>1. <<>> \in Seq(Entry)
      OBVIOUS
    <2> QED
      BY <1>4, <1>6, <2>1, SummedCovers
  <1>7. ASSUME NEW principles \in SUBSET Principles, Settle(p, principles)
        PROVE  AccountedInv'
    <2> DEFINE entries == Loaded("suite").entries
               settled == Settled(entries, principles)
    <2>1. SoundEntries(settled)
      BY <1>2, SettledSound
    <2>2. DOMAIN settled = DOMAIN entries
      BY DEF Settled
    <2>3. ASSUME NEW k \in DOMAIN entries
          PROVE  /\ settled[k].source = entries[k].source
                 /\ Active(settled[k]) => Active(entries[k])
      <3>1. entries[k] \in Entry
        BY <1>2, EntrySound
      <3>2. settled[k] = Cleared(entries[k], "mitigated") \/ settled[k] = entries[k]
        BY DEF Settled
      <3> HIDE DEF settled, entries
      <3> QED
        BY <3>1, <3>2 DEF Cleared, Active, Entry
    <2> HIDE DEF settled
    <2>4. Covers([Loaded("suite") EXCEPT !.entries = settled])
      BY <1>2, <1>3, <2>1, <2>2, <2>3, ChangedCovers
    <2>5. /\ draft' = [draft EXCEPT ![p] = [Loaded("suite") EXCEPT !.entries = settled]]
          /\ at' = [at EXCEPT ![p] = "reading"]
          /\ verified' = [verified EXCEPT ![p] = principles]
          /\ seen' = [seen EXCEPT ![p] = Seen(entries)]
          /\ UNCHANGED <<file, exceptions, kept, undisturbed>>
      BY <1>7 DEF Settle, ledgerVars, settled
    <2>6. entries \in Seq(Entry)
      BY <1>2 DEF SoundEntries
    <2> QED
      BY <1>1, <2>4, <2>5, <2>6, HoldCovers
  <1>8. CASE Enforce(p)
    <2> DEFINE entries == Loaded("suite").entries
               enforced == Enforced(entries)
    <2>1. SoundEntries(enforced)
      BY <1>2, EnforcedSound
    <2>2. DOMAIN enforced = DOMAIN entries
      BY DEF Enforced
    <2>3. ASSUME NEW k \in DOMAIN entries
          PROVE  /\ enforced[k].source = entries[k].source
                 /\ Active(enforced[k]) => Active(entries[k])
      <3>1. entries[k] \in Entry
        BY <1>2, EntrySound
      <3>2. enforced[k] = [entries[k] EXCEPT !.blocks = TRUE] \/ enforced[k] = entries[k]
        BY DEF Enforced
      <3> HIDE DEF enforced, entries
      <3> QED
        BY <3>1, <3>2 DEF Active, Entry
    <2> HIDE DEF enforced
    <2>4. Covers([Loaded("suite") EXCEPT !.entries = enforced])
      BY <1>2, <1>3, <2>1, <2>2, <2>3, ChangedCovers
    <2>5. Hold(p, "suite", [Loaded("suite") EXCEPT !.entries = enforced], entries)
      BY <1>8 DEF Enforce, enforced
    <2>6. entries \in Seq(Entry)
      BY <1>2 DEF SoundEntries
    <2> QED
      BY <1>4, <2>4, <2>5, <2>6
  <1>9. CASE CheckSlo(p)
    BY <1>2, <1>3, <1>4, <1>9 DEF CheckSlo, SoundEntries
  <1> QED
    BY <1>5, <1>6, <1>7, <1>8, <1>9, ReadCases

LEMMA WriteCovers ==
    ASSUME AccountedInv, IInv, NEW p \in Procs, Write(p)
    PROVE  AccountedInv'
  <1>1. target[p] \in Paths /\ Covers(draft[p]) /\ at \in [Procs -> Steps \cup {"idle"}]
    BY DEF IInv, AccountedInv
  <1>2. CASE ReadExceptions(p)
    <2>1. /\ at' \in [Procs -> Steps \cup {"idle"}]
          /\ kept' \in [Procs -> SUBSET Principles]
      BY <1>2 DEF ReadExceptions, AccountedInv, Steps
    <2> QED
      BY <1>2, <2>1 DEF ReadExceptions, ledgerVars, AccountedInv, Covers
  <1>3. CASE Truncate(p)
    <2>1. \A path \in Paths :
             file'[path] = IF path = target[p]
                           THEN [file[path] EXCEPT !.state = "torn"]
                           ELSE file[path]
      BY <1>3 DEF Truncate, IInv
    <2>2. \A path \in Paths :
             file[path] = [state |-> file[path].state,
                           ledger |-> file[path].ledger]
      BY DEF IInv
    <2>3. \A path \in Paths : /\ file'[path].ledger = file[path].ledger
                              /\ file'[path].state \in {"absent", "torn", "saved"}
      BY <2>1, <2>2 DEF AccountedInv
    <2>4. \A path \in Paths : Covers(file'[path].ledger)
      BY <2>3 DEF AccountedInv
    <2>5. at' \in [Procs -> Steps \cup {"idle"}] /\ undisturbed' \subseteq Procs
      BY <1>3 DEF Truncate, AccountedInv, Steps
    <2> QED
      BY <1>3, <2>3, <2>4, <2>5 DEF Truncate, AccountedInv, Covers
  <1>4. CASE Dump(p)
    <2>1. \A path \in Paths :
             file'[path] = IF path = target[p]
                           THEN [state |-> "saved", ledger |-> draft[p]]
                           ELSE file[path]
      BY <1>4 DEF Dump, IInv
    <2>2. \A path \in Paths : /\ file'[path].state \in {"absent", "torn", "saved"}
                              /\ Covers(file'[path].ledger)
      BY <1>1, <2>1 DEF AccountedInv
    <2>3. \A q \in Procs : draft'[q] = IF q = p THEN NoLedger ELSE draft[q]
      BY <1>4 DEF Dump, IInv
    <2>4. \A q \in Procs : Covers(draft'[q])
      BY <2>3, NoLedgerCovers DEF AccountedInv
    <2>5. at' \in [Procs -> Steps \cup {"idle"}] /\ undisturbed' \subseteq Procs
      BY <1>4 DEF Dump, AccountedInv, Steps
    <2>6. seen' \in [Procs -> [blocking : SUBSET Ids, cleared : SUBSET Ids]]
      BY <1>4, NothingSeenTyped DEF Dump, AccountedInv
    <2> QED
      BY <1>4, <2>2, <2>4, <2>5, <2>6 DEF Dump, AccountedInv, Covers
  <1>5. CASE TruncateExceptions(p)
    <2>1. at' \in [Procs -> Steps \cup {"idle"}]
      BY <1>5 DEF TruncateExceptions, AccountedInv, Steps
    <2> QED
      BY <1>5, <2>1 DEF TruncateExceptions, AccountedInv, Covers
  <1>6. CASE DumpExceptions(p)
    <2>1. /\ at' \in [Procs -> Steps \cup {"idle"}]
          /\ verified' \in [Procs -> SUBSET Principles]
          /\ kept' \in [Procs -> SUBSET Principles]
          /\ exceptions' \subseteq Principles
          /\ undisturbed' \subseteq Procs
      BY <1>6 DEF DumpExceptions, AccountedInv
    <2> QED
      BY <1>6, <2>1 DEF DumpExceptions, AccountedInv, Covers
  <1> QED
    BY <1>2, <1>3, <1>4, <1>5, <1>6 DEF Write

LEMMA OtherCovers ==
    ASSUME AccountedInv, IInv,
           \/ \E p \in Procs : Crash(p)
           \/ \E c \in Principles : AddException(c)
           \/ NextDay
           \/ UNCHANGED vars
    PROVE  AccountedInv'
  <1>1. ASSUME NEW p \in Procs, Crash(p)
        PROVE  AccountedInv'
    <2>1. \A q \in Procs : draft'[q] = IF q = p THEN NoLedger ELSE draft[q]
      BY <1>1 DEF Crash, IInv
    <2>2. \A q \in Procs : Covers(draft'[q])
      BY <2>1, NoLedgerCovers DEF AccountedInv
    <2>3. /\ at' \in [Procs -> Steps \cup {"idle"}]
          /\ verified' \in [Procs -> SUBSET Principles]
          /\ kept' \in [Procs -> SUBSET Principles]
          /\ seen' \in [Procs -> [blocking : SUBSET Ids, cleared : SUBSET Ids]]
          /\ undisturbed' \subseteq Procs
      BY <1>1, NothingSeenTyped DEF Crash, AccountedInv
    <2> QED
      BY <1>1, <2>2, <2>3 DEF Crash, ledgerVars, AccountedInv, Covers
  <1>2. CASE (\E c \in Principles : AddException(c)) \/ NextDay \/ UNCHANGED vars
    BY <1>2 DEF AddException, NextDay, vars, ledgerVars, AccountedInv, Covers
  <1> QED
    BY <1>1, <1>2

LEMMA BeginCovers ==
    ASSUME AccountedInv, IInv, NEW path \in Paths,
           NEW k \in DOMAIN Entries(path), BeginWork(path, k)
    PROVE  AccountedInv'
  <1> DEFINE l == file[path].ledger
             begun == Begun(Entries(path), k)
             c == BegunLedger(l, k)
  <1>1. SoundLedger(l) /\ Covers(l) /\ l.entries = Entries(path)
    BY DEF IInv, AccountedInv, Entries
  <1>2. /\ SoundEntries(Entries(path)) /\ Entries(path)[k].status = "open"
        /\ file' = [file EXCEPT ![path] = [state |-> "saved", ledger |-> c]]
    BY WorkBegun
  <1>3. c = [l EXCEPT !.entries = begun]
    BY <1>1 DEF BegunLedger
  <1>4. /\ SoundEntries(begun) /\ DOMAIN begun = DOMAIN Entries(path)
        /\ \A m \in DOMAIN Entries(path) :
              /\ begun[m].source = Entries(path)[m].source
              /\ Active(begun[m]) => Active(Entries(path)[m])
    BY <1>2, BegunEntries
  <1> HIDE DEF l, begun, c
  <1>5. Covers(c)
    BY <1>1, <1>3, <1>4, ChangedCovers
  <1>6. \A other \in Paths :
           file'[other] = IF other = path THEN [state |-> "saved", ledger |-> c]
                          ELSE file[other]
    BY <1>2 DEF IInv
  <1>7. \A other \in Paths : /\ file'[other].state \in {"absent", "torn", "saved"}
                             /\ Covers(file'[other].ledger)
    BY <1>5, <1>6 DEF AccountedInv
  <1> QED
    BY <1>7 DEF BeginWork, AccountedInv, Covers

LEMMA InitCovers ==
    ASSUME Init
    PROVE  AccountedInv
  <1>1. \A path \in Paths : /\ file[path].ledger = NoLedger
                            /\ file[path].state \in {"absent", "torn", "saved"}
    BY DEF Init
  <1>2. \A p \in Procs : draft[p] = NoLedger
    BY DEF Init
  <1>3. /\ exceptions \subseteq Principles
        /\ at \in [Procs -> Steps \cup {"idle"}]
        /\ verified \in [Procs -> SUBSET Principles]
        /\ kept \in [Procs -> SUBSET Principles]
        /\ seen \in [Procs -> [blocking : SUBSET Ids, cleared : SUBSET Ids]]
        /\ undisturbed \subseteq Procs
    BY NothingSeenTyped DEF Init
  <1> QED
    BY <1>1, <1>2, <1>3, NoLedgerCovers DEF AccountedInv

LEMMA SoundNext == IInv /\ [Next]_vars => IInv'
  BY ReadSound, WriteSound, CrashSound, BeginSound, OtherSound DEF Next, Entries

LEMMA AccountedNext == IInv /\ AccountedInv /\ [Next]_vars => AccountedInv'
  BY ReadCovers, WriteCovers, BeginCovers, OtherCovers DEF Next, Entries

(* A reader finds every file and every copy well typed, and no ledger, in  *)
(* whatever order the programs overlap and whenever one is killed, tells   *)
(* of less debt than it holds (debt_clearing.py:293-323).                  *)
THEOREM LedgerAccountedCorrect == Spec => []LedgerAccounted
  <1>1. ASSUME IInv, AccountedInv
        PROVE  LedgerAccounted
    <2>1. ASSUME NEW l, SoundLedger(l), Covers(l)
          PROVE  l \in Ledger
      <3>1. l.entries \in Seq(Entry) /\ l.total \in Nat
        BY <2>1 DEF SoundLedger, SoundEntries, Covers
      <3>2. l = [entries |-> l.entries, total |-> l.total]
        BY <2>1 DEF SoundLedger
      <3> QED
        BY <3>1, <3>2 DEF Ledger
    <2>2. \A path \in Paths : file[path] \in File
      <3> TAKE path \in Paths
      <3>1. file[path].ledger \in Ledger /\ file[path].state \in {"absent", "torn", "saved"}
        BY <1>1, <2>1 DEF IInv, AccountedInv
      <3>2. file[path] = [state |-> file[path].state, ledger |-> file[path].ledger]
        BY <1>1 DEF IInv
      <3> QED
        BY <3>1, <3>2 DEF File
    <2>3. file \in [Paths -> File]
      <3>1. file = [path \in Paths |-> file[path]]
        BY <1>1 DEF IInv
      <3> QED
        BY <2>2, <3>1
    <2>4. draft \in [Procs -> Ledger]
      BY <1>1, <2>1 DEF IInv, AccountedInv
    <2>5. TypeOK
      BY <1>1, <2>3, <2>4 DEF TypeOK, IInv, AccountedInv
    <2>6. TotalCoversDebt
      BY <1>1 DEF TotalCoversDebt, AccountedInv, Covers
    <2> QED
      BY <2>5, <2>6 DEF LedgerAccounted
  <1> QED
    BY InitSound, InitCovers, SoundNext, AccountedNext, <1>1, PTL DEF Spec

-----------------------------------------------------------------------------
(***************************************************************************)
(* What the programs keep of what they read.  The draft of every program   *)
(* holds each debt that blocked in the ledger it read, as blocking or as   *)
(* cleared, and each cleared one as cleared; so what its write takes away  *)
(* it had not seen.                                                        *)
(***************************************************************************)
Keeps(what, entries) ==
    /\ what.blocking \subseteq BlockingIn(entries) \cup ClearedIn(entries)
    /\ what.cleared \subseteq ClearedIn(entries)

SeenInv == \A p \in Procs : Keeps(seen[p], draft[p].entries)

(* Each old entry is still there; it blocks if it did, unless cleared, and *)
(* is cleared if it was.                                                   *)
Follows(old, new) ==
    /\ DOMAIN old \subseteq DOMAIN new
    /\ \A k \in DOMAIN old :
          /\ Id(new[k]) = Id(old[k])
          /\ old[k].blocks /\ Active(old[k]) => new[k].blocks \/ ~Active(new[k])
          /\ ~Active(old[k]) => ~Active(new[k])

LEMMA FollowsKeeps ==
    ASSUME NEW old, NEW new, Follows(old, new)
    PROVE  Keeps(Seen(old), new)
  <1>1. BlockingIn(old) \subseteq BlockingIn(new) \cup ClearedIn(new)
    <2> SUFFICES ASSUME NEW k \in DOMAIN old, old[k].blocks, Active(old[k])
                 PROVE  Id(old[k]) \in BlockingIn(new) \cup ClearedIn(new)
      BY DEF BlockingIn
    <2>1. k \in DOMAIN new /\ Id(new[k]) = Id(old[k])
          /\ (new[k].blocks \/ ~Active(new[k]))
      BY DEF Follows
    <2>2. CASE Active(new[k])
      BY <2>1, <2>2 DEF BlockingIn
    <2>3. CASE ~Active(new[k])
      BY <2>1, <2>3 DEF ClearedIn
    <2> QED
      BY <2>2, <2>3
  <1>2. ClearedIn(old) \subseteq ClearedIn(new)
    <2> SUFFICES ASSUME NEW k \in DOMAIN old, ~Active(old[k])
                 PROVE  Id(old[k]) \in ClearedIn(new)
      BY DEF ClearedIn
    <2>1. k \in DOMAIN new /\ Id(new[k]) = Id(old[k]) /\ ~Active(new[k])
      BY DEF Follows
    <2> QED
      BY <2>1 DEF ClearedIn
  <1> QED
    BY <1>1, <1>2 DEF Keeps, Seen

LEMMA NothingKept == \A entries : Keeps(NothingSeen, entries)
  BY DEF Keeps, NothingSeen

LEMMA SeenNone == Seen(<<>>) = NothingSeen
  BY DEF Seen, NothingSeen, BlockingIn, ClearedIn

(* Clearing one entry, adding one, settling and enforcing.                 *)
LEMMA OneClearedFollows ==
    ASSUME NEW entries, SoundEntries(entries), NEW k \in 1..Len(entries),
           NEW how \in {"mitigated", "accepted"}
    PROVE  Follows(entries, [entries EXCEPT ![k] = Cleared(@, how)])
  <1> DEFINE changed == [entries EXCEPT ![k] = Cleared(@, how)]
  <1>1. \A m \in DOMAIN entries :
           changed[m] = IF m = k THEN Cleared(entries[k], how) ELSE entries[m]
    OBVIOUS
  <1>2. k \in DOMAIN entries /\ entries[k] \in Entry
    BY EntrySound
  <1>3. Id(Cleared(entries[k], how)) = Id(entries[k]) /\ ~Active(Cleared(entries[k], how))
    BY <1>2 DEF Cleared, Id, Active, Entry
  <1>4. DOMAIN changed = DOMAIN entries
    OBVIOUS
  <1> HIDE DEF changed
  <1>5. Follows(entries, changed)
    BY <1>1, <1>3, <1>4 DEF Follows
  <1> QED
    BY <1>5 DEF changed

LEMMA AppendFollows ==
    ASSUME NEW entries, SoundEntries(entries), NEW e \in Entry
    PROVE  Follows(entries, Append(entries, e))
  <1>1. entries \in Seq(Entry)
    BY DEF SoundEntries
  <1>2. DOMAIN entries \subseteq DOMAIN Append(entries, e)
        /\ \A k \in DOMAIN entries : Append(entries, e)[k] = entries[k]
    BY <1>1
  <1> QED
    BY <1>2 DEF Follows

NoneOpen(entries, principles) ==
    \A k \in DOMAIN entries :
        PrincipleOf[entries[k].source] \in principles => entries[k].status # "open"

LEMMA SettledFollows ==
    ASSUME NEW entries, SoundEntries(entries), NEW principles
    PROVE  /\ Follows(entries, Settled(entries, principles))
           /\ NoneOpen(Settled(entries, principles), principles)
  <1> DEFINE settled == Settled(entries, principles)
  <1>1. ASSUME NEW k \in DOMAIN entries
        PROVE  /\ Id(settled[k]) = Id(entries[k])
               /\ Active(settled[k]) => settled[k] = entries[k]
               /\ ~Active(entries[k]) => ~Active(settled[k])
               /\ PrincipleOf[settled[k].source] \in principles
                     => settled[k].status # "open"
    <2>1. entries[k] \in Entry
      BY EntrySound
    <2>2. settled[k] = IF /\ PrincipleOf[entries[k].source] \in principles
                          /\ entries[k].status = "open"
                       THEN Cleared(entries[k], "mitigated") ELSE entries[k]
      BY DEF Settled
    <2> HIDE DEF settled
    <2>3. /\ Cleared(entries[k], "mitigated").status = "mitigated"
          /\ Id(Cleared(entries[k], "mitigated")) = Id(entries[k])
          /\ ~Active(Cleared(entries[k], "mitigated"))
      BY <2>1 DEF Cleared, Id, Active, Entry
    <2> QED
      BY <2>2, <2>3
  <1>2. DOMAIN settled = DOMAIN entries
    BY DEF Settled
  <1> HIDE DEF settled
  <1>3. Follows(entries, settled)
    BY <1>1, <1>2 DEF Follows
  <1>4. NoneOpen(settled, principles)
    BY <1>1, <1>2 DEF NoneOpen
  <1> QED
    BY <1>3, <1>4 DEF settled

LEMMA EnforcedFollows ==
    ASSUME NEW entries, SoundEntries(entries)
    PROVE  Follows(entries, Enforced(entries))
  <1> DEFINE enforced == Enforced(entries)
  <1>1. ASSUME NEW k \in DOMAIN entries
        PROVE  /\ Id(enforced[k]) = Id(entries[k])
               /\ entries[k].blocks => enforced[k].blocks
               /\ Active(enforced[k]) <=> Active(entries[k])
    <2>1. entries[k] \in Entry
      BY EntrySound
    <2>2. enforced[k] = IF Overdue(entries[k]) THEN [entries[k] EXCEPT !.blocks = TRUE]
                        ELSE entries[k]
      BY DEF Enforced
    <2> HIDE DEF enforced
    <2> QED
      BY <2>1, <2>2 DEF Id, Active, Entry
  <1>2. DOMAIN enforced = DOMAIN entries
    BY DEF Enforced
  <1> HIDE DEF enforced
  <1>3. Follows(entries, enforced)
    BY <1>1, <1>2 DEF Follows
  <1> QED
    BY <1>3 DEF enforced

-----------------------------------------------------------------------------
(***************************************************************************)
(* The settlements.  Their drafts have no open debt of their principles,   *)
(* nor has the ledger they wrote while no other program writes it.         *)
(***************************************************************************)
SettleInv ==
    \A p \in Procs :
       /\ at[p] = "idle" => verified[p] = {}
       /\ at[p] \in {"reading", "saving", "dumping"} =>
             NoneOpen(draft[p].entries, verified[p])
       /\ at[p] \in {"saving", "dumping", "revoking", "listing"} =>
             kept[p] \cap verified[p] = {}
       /\ p \in undisturbed =>
             /\ at[p] \in {"revoking", "listing"}
             /\ NoneOpen(Entries("suite"), verified[p])

HistoryInv == IInv /\ AccountedInv /\ SeenInv /\ SettleInv

LEMMA NoneOpenOfNone == \A entries : NoneOpen(entries, {})
  BY DEF NoneOpen

(* A program that takes up a draft that keeps what it read.                *)
LEMMA HoldHistory ==
    ASSUME HistoryInv, NEW p \in Procs, NEW path, NEW l, NEW read,
           Keeps(Seen(read), l.entries), Hold(p, path, l, read)
    PROVE  SeenInv' /\ SettleInv'
  <1>1. /\ at[p] = "idle" /\ at'[p] = "saving" /\ draft'[p] = l
        /\ seen'[p] = Seen(read)
        /\ \A q \in Procs \ {p} :
              at'[q] = at[q] /\ draft'[q] = draft[q] /\ seen'[q] = seen[q]
        /\ UNCHANGED <<file, verified, kept, undisturbed>>
    BY DEF Hold, ledgerVars, HistoryInv, IInv, AccountedInv
  <1>2. verified[p] = {} /\ p \notin undisturbed
    BY <1>1 DEF HistoryInv, SettleInv
  <1>3. SeenInv'
    BY <1>1 DEF HistoryInv, SeenInv
  <1>4. ASSUME NEW q \in Procs \ {p}
        PROVE  /\ at'[q] = at[q] /\ draft'[q] = draft[q]
               /\ verified'[q] = verified[q] /\ kept'[q] = kept[q]
               /\ Entries("suite")' = Entries("suite")
    BY <1>1 DEF Entries
  <1>5. SettleInv'
    BY <1>1, <1>2, <1>4, NoneOpenOfNone DEF HistoryInv, SettleInv
  <1> QED
    BY <1>3, <1>5

LEMMA ClearerReads ==
    ASSUME HistoryInv
    PROVE  SoundEntries(Debts) /\ SoundLedger(Loaded("suite"))
           /\ SoundEntries(Loaded("suite").entries)
  <1>1. ClearerPath \in Paths /\ "suite" \in Paths
    BY DEF ClearerPath, Paths
  <1> QED
    BY <1>1, LoadedSound DEF Debts, HistoryInv

LEMMA ReadHistory ==
    ASSUME HistoryInv, NEW p \in Procs, Read(p)
    PROVE  SeenInv' /\ SettleInv'
  <1>1. /\ SoundEntries(Debts) /\ SoundLedger(Loaded("suite"))
        /\ SoundEntries(Loaded("suite").entries) /\ today \in 0..MaxDay
    BY ClearerReads DEF HistoryInv, IInv
  <1>2. ASSUME NEW entries, Follows(Debts, entries), Clearing(p, entries)
        PROVE  SeenInv' /\ SettleInv'
    <2>1. Hold(p, ClearerPath, Summed(entries), Debts)
      BY <1>2 DEF Clearing
    <2>2. Keeps(Seen(Debts), Summed(entries).entries)
      BY <1>2, FollowsKeeps DEF Summed
    <2> QED
      BY <2>1, <2>2, HoldHistory
  <1>3. ASSUME NEW i \in Incidents, Create(p, i)
        PROVE  SeenInv' /\ SettleInv'
    <2> DEFINE e == NewEntry(i, {"critical", "high"})
    <2>1. e \in Entry
      BY <1>1, NewEntrySound DEF Sources
    <2>2. Clearing(p, Append(Debts, e))
      BY <1>3 DEF Create
    <2> HIDE DEF e
    <2> QED
      BY <1>1, <1>2, <2>1, <2>2, AppendFollows
  <1>4. ASSUME NEW i \in Incidents, MarkMitigated(p, i)
        PROVE  SeenInv' /\ SettleInv'
    <2>1. PICK k \in 1..Len(Debts) :
              Clearing(p, [Debts EXCEPT ![k] = Cleared(@, "mitigated")])
      BY <1>4 DEF MarkMitigated, First
    <2>2. Follows(Debts, [Debts EXCEPT ![k] = Cleared(@, "mitigated")])
      BY <1>1, OneClearedFollows
    <2> QED
      BY <1>2, <2>1, <2>2
  <1>5. ASSUME NEW id, MarkAccepted(p, id)
        PROVE  SeenInv' /\ SettleInv'
    <2>1. PICK k \in 1..Len(Debts) :
              Clearing(p, [Debts EXCEPT ![k] = Cleared(@, "accepted")])
      BY <1>5 DEF MarkAccepted, First
    <2>2. Follows(Debts, [Debts EXCEPT ![k] = Cleared(@, "accepted")])
      BY <1>1, OneClearedFollows
    <2> QED
      BY <1>2, <2>1, <2>2
  <1>6. ASSUME NEW principles \in SUBSET Principles, Settle(p, principles)
        PROVE  SeenInv' /\ SettleInv'
    <2> DEFINE entries == Loaded("suite").entries
               settled == Settled(entries, principles)
    <2>1. Follows(entries, settled) /\ NoneOpen(settled, principles)
      BY <1>1, SettledFollows
    <2>2. [Loaded("suite") EXCEPT !.entries = settled].entries = settled
      BY <1>1 DEF SoundLedger
    <2> HIDE DEF settled
    <2>3. /\ at[p] = "idle" /\ at'[p] = "reading" /\ draft'[p].entries = settled
          /\ verified'[p] = principles /\ seen'[p] = Seen(entries)
          /\ \A q \in Procs \ {p} :
                /\ at'[q] = at[q] /\ draft'[q] = draft[q]
                /\ verified'[q] = verified[q] /\ seen'[q] = seen[q]
          /\ UNCHANGED <<file, kept, undisturbed>>
      BY <1>6, <2>2 DEF Settle, ledgerVars, HistoryInv, IInv, AccountedInv, settled
    <2>4. Keeps(Seen(entries), settled)
      BY <2>1, FollowsKeeps
    <2> HIDE DEF entries
    <2>5. SeenInv'
      BY <2>3, <2>4 DEF HistoryInv, SeenInv
    <2>6. Entries("suite")' = Entries("suite") /\ p \notin undisturbed
      BY <2>3 DEF Entries, HistoryInv, SettleInv
    <2>7. SettleInv'
      BY <2>1, <2>3, <2>6 DEF HistoryInv, SettleInv
    <2> QED
      BY <2>5, <2>7
  <1>7. CASE Enforce(p)
    <2> DEFINE l == Loaded("suite")
               enforced == Enforced(l.entries)
    <2>1. Hold(p, "suite", [l EXCEPT !.entries = enforced], l.entries)
      BY <1>7 DEF Enforce
    <2>2. [l EXCEPT !.entries = enforced].entries = enforced
      BY <1>1 DEF SoundLedger
    <2>3. Keeps(Seen(l.entries), enforced)
      BY <1>1, EnforcedFollows, FollowsKeeps
    <2> HIDE DEF enforced, l
    <2> QED
      BY <2>1, <2>2, <2>3, HoldHistory
  <1>8. CASE CheckSlo(p)
    <2> DEFINE l == Loaded("suite")
    <2>1. Hold(p, "suite", l, l.entries)
      BY <1>8 DEF CheckSlo
    <2>2. Follows(l.entries, l.entries)
      BY DEF Follows
    <2>3. Keeps(Seen(l.entries), l.entries)
      BY <2>2, FollowsKeeps
    <2> HIDE DEF l
    <2> QED
      BY <2>1, <2>3, HoldHistory
  <1>9. ASSUME NEW found \in SUBSET Violations, Audit(p, found)
        PROVE  SeenInv' /\ SettleInv'
    <2>1. PICK l : Hold(p, "suite", l, <<>>)
      BY <1>9 DEF Audit
    <2>2. Keeps(Seen(<<>>), l.entries)
      BY SeenNone, NothingKept
    <2> QED
      BY <2>1, <2>2, HoldHistory
  <1> QED
    BY <1>3, <1>4, <1>5, <1>6, <1>7, <1>8, <1>9 DEF Read

LEMMA WriteHistory ==
    ASSUME HistoryInv, NEW p \in Procs, Write(p)
    PROVE  SeenInv' /\ SettleInv'
  <1>1. target[p] \in Paths /\ "suite" \in Paths
    BY DEF HistoryInv, IInv, Paths
  <1>2. CASE ReadExceptions(p)
    <2>1. /\ at[p] = "reading" /\ at'[p] = "saving"
          /\ kept'[p] = exceptions \ verified[p]
          /\ \A q \in Procs \ {p} : at'[q] = at[q] /\ kept'[q] = kept[q]
          /\ UNCHANGED <<file, draft, verified, seen, undisturbed>>
      BY <1>2 DEF ReadExceptions, ledgerVars, HistoryInv, AccountedInv
    <2>2. SeenInv'
      BY <2>1 DEF HistoryInv, SeenInv
    <2>3. Entries("suite")' = Entries("suite") /\ p \notin undisturbed
      BY <2>1 DEF Entries, HistoryInv, SettleInv
    <2>4. SettleInv'
      BY <2>1, <2>3 DEF HistoryInv, SettleInv
    <2> QED
      BY <2>2, <2>4
  <1>3. CASE Truncate(p)
    <2>1. /\ at[p] = "saving" /\ at'[p] = "dumping"
          /\ \A q \in Procs \ {p} : at'[q] = at[q]
          /\ UNCHANGED <<draft, verified, kept, seen>>
          /\ undisturbed' \subseteq undisturbed
      BY <1>3 DEF Truncate, HistoryInv, AccountedInv
    <2>2. file'["suite"].ledger = file["suite"].ledger
      <3>1. file["suite"] = [state |-> file["suite"].state,
                             ledger |-> file["suite"].ledger]
        BY <1>1 DEF HistoryInv, IInv
      <3>2. file'["suite"] = file["suite"]
            \/ file'["suite"] = [file["suite"] EXCEPT !.state = "torn"]
        BY <1>1, <1>3 DEF Truncate, HistoryInv, IInv
      <3> QED
        BY <3>1, <3>2
    <2>3. SeenInv'
      BY <2>1 DEF HistoryInv, SeenInv
    <2>4. Entries("suite")' = Entries("suite") /\ p \notin undisturbed
      BY <2>1, <2>2 DEF Entries, HistoryInv, SettleInv
    <2>5. SettleInv'
      BY <2>1, <2>4 DEF HistoryInv, SettleInv
    <2> QED
      BY <2>3, <2>5
  <1>4. CASE Dump(p)
    <2>1. /\ at[p] = "dumping"
          /\ at'[p] = IF verified[p] = {} THEN "idle" ELSE "revoking"
          /\ seen'[p] = NothingSeen
          /\ \A q \in Procs \ {p} :
                at'[q] = at[q] /\ draft'[q] = draft[q] /\ seen'[q] = seen[q]
          /\ UNCHANGED <<verified, kept>>
      BY <1>4 DEF Dump, HistoryInv, IInv, AccountedInv
    <2>2. SeenInv'
      BY <2>1, NothingKept DEF HistoryInv, SeenInv
    <2>3. NoneOpen(draft[p].entries, verified[p]) /\ p \notin undisturbed
      BY <2>1 DEF HistoryInv, SettleInv
    <2>4. CASE target[p] = "suite"
      <3>1. /\ Entries("suite")' = draft[p].entries
            /\ undisturbed' = {q \in {p} : verified[q] # {}}
        BY <1>1, <1>4, <2>4 DEF Dump, Entries, HistoryInv, IInv
      <3> QED
        BY <2>1, <2>2, <2>3, <3>1 DEF HistoryInv, SettleInv
    <2>5. CASE target[p] # "suite"
      <3>1. Entries("suite")' = Entries("suite") /\ undisturbed' = undisturbed
        BY <1>1, <1>4, <2>5 DEF Dump, Entries, HistoryInv, IInv
      <3> QED
        BY <2>1, <2>2, <2>3, <3>1 DEF HistoryInv, SettleInv
    <2> QED
      BY <2>4, <2>5
  <1>5. CASE TruncateExceptions(p)
    <2>1. /\ at[p] = "revoking" /\ at'[p] = "listing"
          /\ \A q \in Procs \ {p} : at'[q] = at[q]
          /\ UNCHANGED <<file, draft, verified, kept, seen, undisturbed>>
      BY <1>5 DEF TruncateExceptions, HistoryInv, AccountedInv
    <2>2. SeenInv' /\ Entries("suite")' = Entries("suite")
      BY <2>1 DEF HistoryInv, SeenInv, Entries
    <2>3. SettleInv'
      BY <2>1, <2>2 DEF HistoryInv, SettleInv
    <2> QED
      BY <2>2, <2>3
  <1>6. CASE DumpExceptions(p)
    <2>1. /\ at'[p] = "idle" /\ verified'[p] = {} /\ p \notin undisturbed'
          /\ undisturbed' \subseteq undisturbed
          /\ \A q \in Procs \ {p} :
                at'[q] = at[q] /\ verified'[q] = verified[q] /\ kept'[q] = kept[q]
          /\ UNCHANGED <<file, draft, seen>>
      BY <1>6 DEF DumpExceptions, HistoryInv, AccountedInv
    <2>2. SeenInv' /\ Entries("suite")' = Entries("suite")
      BY <2>1 DEF HistoryInv, SeenInv, Entries
    <2>3. SettleInv'
      BY <2>1, <2>2 DEF HistoryInv, SettleInv
    <2> QED
      BY <2>2, <2>3
  <1> QED
    BY <1>2, <1>3, <1>4, <1>5, <1>6 DEF Write

LEMMA OtherHistory ==
    ASSUME HistoryInv,
           \/ \E p \in Procs : Crash(p)
           \/ \E path \in Paths : \E k \in DOMAIN Entries(path) : BeginWork(path, k)
           \/ \E c \in Principles : AddException(c)
           \/ NextDay
           \/ UNCHANGED vars
    PROVE  SeenInv' /\ SettleInv'
  <1>1. ASSUME NEW p \in Procs, Crash(p)
        PROVE  SeenInv' /\ SettleInv'
    <2>1. /\ at'[p] = "idle" /\ verified'[p] = {} /\ seen'[p] = NothingSeen
          /\ p \notin undisturbed' /\ undisturbed' \subseteq undisturbed
          /\ \A q \in Procs \ {p} :
                /\ at'[q] = at[q] /\ verified'[q] = verified[q]
                /\ kept'[q] = kept[q] /\ draft'[q] = draft[q] /\ seen'[q] = seen[q]
          /\ UNCHANGED file
      BY <1>1 DEF Crash, ledgerVars, HistoryInv, IInv, AccountedInv
    <2>2. SeenInv'
      BY <2>1, NothingKept DEF HistoryInv, SeenInv
    <2>3. Entries("suite")' = Entries("suite")
      BY <2>1 DEF Entries
    <2>4. SettleInv'
      BY <2>1, <2>3 DEF HistoryInv, SettleInv
    <2> QED
      BY <2>2, <2>4
  <1>2. ASSUME NEW path \in Paths, NEW k \in DOMAIN Entries(path), BeginWork(path, k)
        PROVE  SeenInv' /\ SettleInv'
    <2>1. UNCHANGED <<at, draft, verified, kept, seen, undisturbed>>
      BY <1>2 DEF BeginWork
    <2>2. SeenInv'
      BY <2>1 DEF HistoryInv, SeenInv
    <2>3. \/ Entries("suite")' = Entries("suite")
          \/ /\ path = "suite"
             /\ Entries("suite")' = Begun(Entries("suite"), k)
             /\ SoundEntries(Entries("suite")) /\ Entries("suite")[k].status = "open"
      <3>1. CASE path = "suite"
        BY <1>2, <3>1, WorkBegun DEF Entries, HistoryInv
      <3>2. CASE path # "suite"
        <4>1. file'["suite"] = file["suite"]
          BY <1>2, <3>2 DEF BeginWork, HistoryInv, IInv, Paths
        <4> QED
          BY <4>1 DEF Entries
      <3> QED
        BY <3>1, <3>2
    <2>4. ASSUME NEW principles, NoneOpen(Entries("suite"), principles)
          PROVE  NoneOpen(Entries("suite")', principles)
      <3>1. CASE Entries("suite")' = Entries("suite")
        BY <2>4, <3>1
      <3>2. CASE /\ path = "suite"
                 /\ Entries("suite")' = Begun(Entries("suite"), k)
                 /\ SoundEntries(Entries("suite")) /\ Entries("suite")[k].status = "open"
        <4> DEFINE old == Entries("suite")
                   new == Begun(old, k)
        <4>1. /\ DOMAIN new = DOMAIN old
              /\ \A m \in DOMAIN old : /\ new[m].source = old[m].source
                                       /\ new[m].status = "open" => old[m].status = "open"
          BY <1>2, <3>2, BegunEntries
        <4> HIDE DEF new, old
        <4>2. NoneOpen(new, principles)
          BY <2>4, <4>1 DEF NoneOpen, old
        <4> QED
          BY <3>2, <4>2 DEF new, old
      <3> QED
        BY <2>3, <3>1, <3>2
    <2>5. SettleInv'
      BY <2>1, <2>4 DEF HistoryInv, SettleInv
    <2> QED
      BY <2>2, <2>5
  <1>3. CASE (\E c \in Principles : AddException(c)) \/ NextDay \/ UNCHANGED vars
    <2>1. UNCHANGED <<file, at, draft, verified, kept, seen, undisturbed>>
      BY <1>3 DEF AddException, NextDay, vars, ledgerVars
    <2> QED
      BY <2>1 DEF HistoryInv, SeenInv, SettleInv, Entries
  <1> QED
    BY <1>1, <1>2, <1>3

LEMMA InitHistory ==
    ASSUME Init
    PROVE  HistoryInv
  <1>1. /\ IInv /\ AccountedInv
        /\ \A p \in Procs : /\ at[p] = "idle" /\ verified[p] = {}
                            /\ seen[p] = NothingSeen
        /\ undisturbed = {}
    BY InitSound, InitCovers DEF Init
  <1> QED
    BY <1>1, NothingKept DEF HistoryInv, SeenInv, SettleInv

LEMMA HistoryNext == HistoryInv /\ [Next]_vars => HistoryInv'
  <1>1. ASSUME HistoryInv, [Next]_vars
        PROVE  SeenInv' /\ SettleInv'
    BY <1>1, ReadHistory, WriteHistory, OtherHistory DEF Next, Entries
  <1> QED
    BY <1>1, SoundNext, AccountedNext DEF HistoryInv

(* Only a truncation, a dump and a hand's edit change a ledger.            *)
LEMMA WhoWrites ==
    ASSUME [Next]_vars
    PROVE  \/ \E p \in Procs : Dump(p) \/ Truncate(p)
           \/ \E path \in Paths : \E k \in DOMAIN Entries(path) : BeginWork(path, k)
           \/ UNCHANGED file
  BY DEF Next, Read, Write, Create, MarkMitigated, MarkAccepted, Clearing,
         Hold, Settle, Enforce, CheckSlo, Audit, ReadExceptions,
         TruncateExceptions, DumpExceptions, Crash, AddException,
         NextDay, vars, ledgerVars, Entries

(* However many programs overlap and wherever they are killed, a debt that *)
(* blocks goes on blocking until it is cleared, and a cleared one stays    *)
(* cleared, unless a program writes the ledger that had not seen it so     *)
(* when it read (debt_clearing.py:143-188, 254-291,                        *)
(* settle_alignment_debt.py:80-107, debt_aging.py:193-208).                *)
THEOREM BlockingStandsCorrect == Spec => BlockingStands
  <1> DEFINE Stands ==
         \A path \in Paths :
            /\ \A id \in BlockingIn(Entries(path)) :
                  \/ id \in BlockingIn(Entries(path)') \cup ClearedIn(Entries(path)')
                  \/ WrittenUnseen(path, "blocking", id)
            /\ \A id \in ClearedIn(Entries(path)) :
                  \/ id \in ClearedIn(Entries(path)')
                  \/ WrittenUnseen(path, "cleared", id)
  <1>1. ASSUME HistoryInv, [Next]_vars
        PROVE  Stands
    <2> SUFFICES ASSUME NEW path \in Paths
                 PROVE  /\ \A id \in BlockingIn(Entries(path)) :
                              \/ id \in BlockingIn(Entries(path)')
                                         \cup ClearedIn(Entries(path)')
                              \/ WrittenUnseen(path, "blocking", id)
                        /\ \A id \in ClearedIn(Entries(path)) :
                              \/ id \in ClearedIn(Entries(path)')
                              \/ WrittenUnseen(path, "cleared", id)
      OBVIOUS
    <2>1. CASE Follows(Entries(path), Entries(path)')
      <3>1. Keeps(Seen(Entries(path)), Entries(path)')
        BY <2>1, FollowsKeeps
      <3> QED
        BY <3>1 DEF Keeps, Seen
    <2>2. ASSUME Entries(path)' = Entries(path)
          PROVE  Follows(Entries(path), Entries(path)')
      BY <2>2 DEF Follows
    <2>3. ASSUME NEW p \in Procs, Dump(p), target[p] = path
          PROVE  /\ \A id \in BlockingIn(Entries(path)) :
                       \/ id \in BlockingIn(Entries(path)')
                                  \cup ClearedIn(Entries(path)')
                       \/ WrittenUnseen(path, "blocking", id)
                 /\ \A id \in ClearedIn(Entries(path)) :
                       \/ id \in ClearedIn(Entries(path)')
                       \/ WrittenUnseen(path, "cleared", id)
      <3>1. Entries(path)' = draft[p].entries
        BY <1>1, <2>3 DEF Dump, Entries, HistoryInv, IInv
      <3>2. Keeps(seen[p], Entries(path)')
        BY <1>1, <3>1 DEF HistoryInv, SeenInv
      <3>3. seen[p]["blocking"] = seen[p].blocking /\ seen[p]["cleared"] = seen[p].cleared
        OBVIOUS
      <3> QED
        BY <2>3, <3>2, <3>3 DEF Keeps, WrittenUnseen
    <2>4. ASSUME NEW p \in Procs, Dump(p), target[p] # path
          PROVE  Entries(path)' = Entries(path)
      BY <1>1, <2>4 DEF Dump, Entries, HistoryInv, IInv
    <2>5. ASSUME NEW p \in Procs, Truncate(p)
          PROVE  Entries(path)' = Entries(path)
      <3>1. file[path] = [state |-> file[path].state, ledger |-> file[path].ledger]
        BY <1>1 DEF HistoryInv, IInv
      <3>2. file'[path] = file[path]
            \/ file'[path] = [file[path] EXCEPT !.state = "torn"]
        BY <1>1, <2>5 DEF Truncate, HistoryInv, IInv
      <3> QED
        BY <3>1, <3>2 DEF Entries
    <2>6. ASSUME NEW other \in Paths, NEW k \in DOMAIN Entries(other),
                 BeginWork(other, k)
          PROVE  Follows(Entries(path), Entries(path)')
      <3>1. CASE other = path
        <4>1. /\ SoundEntries(Entries(path)) /\ Entries(path)[k].status = "open"
              /\ Entries(path)' = Begun(Entries(path), k)
          BY <1>1, <2>6, <3>1, WorkBegun DEF Entries, HistoryInv
        <4> QED
          BY <2>6, <3>1, <4>1, BegunEntries DEF Follows
      <3>2. CASE other # path
        <4>1. file'[path] = file[path]
          BY <1>1, <2>6, <3>2 DEF BeginWork, HistoryInv, IInv
        <4> QED
          BY <2>2, <4>1 DEF Entries
      <3> QED
        BY <3>1, <3>2
    <2>7. ASSUME UNCHANGED file
          PROVE  Entries(path)' = Entries(path)
      BY <2>7 DEF Entries
    <2> QED
      BY <1>1, <2>1, <2>2, <2>3, <2>4, <2>5, <2>6, <2>7, WhoWrites
  <1>2. HistoryInv /\ [Next]_vars => [Stands]_file
    BY <1>1
  <1> HIDE DEF Stands
  <1>3. Spec => [][Stands]_file
    BY InitHistory, HistoryNext, <1>2, PTL DEF Spec
  <1> QED
    BY <1>3 DEF Stands, BlockingStands

(* A settlement that comes to its end leaves no exception of a principle   *)
(* whose replay passed and, if no other program has written the ledger     *)
(* since, no open debt of it, whatever was killed before                   *)
(* (settle_alignment_debt.py:80-90, 123-126, 172-186).                     *)
THEOREM SettleCompleteCorrect == Spec => SettleComplete
  <1> DEFINE Complete ==
         \A p \in Procs :
            DumpExceptions(p) =>
                /\ exceptions' \cap verified[p] = {}
                /\ p \in undisturbed =>
                      \A e \in EntriesOf(file["suite"].ledger) :
                         PrincipleOf[e.source] \in verified[p] => e.status # "open"
  <1>1. ASSUME HistoryInv
        PROVE  Complete
    <2> SUFFICES ASSUME NEW p \in Procs, DumpExceptions(p)
                 PROVE  /\ exceptions' \cap verified[p] = {}
                        /\ p \in undisturbed =>
                              \A e \in EntriesOf(file["suite"].ledger) :
                                 PrincipleOf[e.source] \in verified[p] => e.status # "open"
      OBVIOUS
    <2>1. at[p] = "listing" /\ exceptions' = kept[p]
      BY DEF DumpExceptions
    <2>2. /\ kept[p] \cap verified[p] = {}
          /\ p \in undisturbed => NoneOpen(Entries("suite"), verified[p])
      BY <1>1, <2>1 DEF HistoryInv, SettleInv
    <2> QED
      BY <2>1, <2>2 DEF NoneOpen, Entries, EntriesOf
  <1>2. HistoryInv => [Complete]_vars
    BY <1>1
  <1> HIDE DEF Complete
  <1>3. Spec => [][Complete]_vars
    BY InitHistory, HistoryNext, <1>2, PTL DEF Spec
  <1> QED
    BY <1>3 DEF Complete, SettleComplete
=============================================================================
