----------------------------- MODULE DebtLedger -----------------------------
(***************************************************************************)
(* The alignment-debt ledger and the programs that share it.  The ledger   *)
(* is a YAML file; each program reads it, changes its copy and writes the  *)
(* whole file back, with no lock:                                          *)
(*   incident-lab/debt_clearing.py             create, mitigate, accept    *)
(*   incident-lab/pipeline/settle_alignment_debt.py               settle   *)
(*   incident-lab/pipeline/debt_aging.py --enforce                enforce  *)
(*   regression-suite/scripts/check_alignment_debt_slo.py         slo      *)
(*   regression-suite/scripts/generate_constitution_audit.py      audit    *)
(* debt_clearing uses the suite's file if it exists when a DebtClearer is  *)
(* made and a local one otherwise; the other programs use the suite's.     *)
(*                                                                         *)
(* The files are small enough for one write: another program sees a file   *)
(* as it was, truncated, or complete.                                      *)
(***************************************************************************)
EXTENDS Integers, FiniteSets, Sequences, SequencesExt, Functions

CONSTANTS Incidents,       (* the incidents debts are created from         *)
          Violations,      (* the violations an audit may report           *)
          Principles,      (* the constitutional principles                *)
          PrincipleOf,     (* the principle each of them is about          *)
          SeverityOf,      (* and how severe it is                         *)
          Mentions,        (* per incident, the sources of the debts whose *)
                           (* id or evidence contains the incident's id    *)
          BlockDays,       (* debt_aging: days until a debt blocks         *)
          Procs,           (* the programs that may run at the same time   *)
          Programs,        (* the operations they perform                  *)
          SuiteAtStart,    (* whether the suite's file exists at first     *)
          KilledAt,        (* the steps before which it may be killed      *)
          MaxEntries,      (* bound: entries of a ledger                   *)
          MaxDay,          (* bound: days                                  *)
          DebtDays,        (* bound: the days on which debts are created   *)
          Worked           (* bound: the sources of the debts worked on    *)

Sources == Incidents \cup Violations
Severities == {"critical", "high", "medium"}
Paths == {"suite", "local"}
Steps == {"saving", "dumping", "reading", "revoking", "listing"}

ASSUME LedgerAssumption ==
    /\ Incidents \cap Violations = {}
    /\ IsFiniteSet(Violations)
    /\ PrincipleOf \in [Sources -> Principles]
    /\ SeverityOf \in [Sources -> Severities]
    /\ Mentions \in [Incidents -> SUBSET Sources]
    /\ BlockDays \in [Severities -> Nat]
    /\ SuiteAtStart \in BOOLEAN
    /\ KilledAt \subseteq Steps
    /\ MaxEntries \in Nat
    /\ MaxDay \in Nat
    /\ DebtDays \subseteq 0..MaxDay
    /\ Worked \subseteq Sources

VARIABLES file,            (* the ledger files                             *)
          exceptions,      (* principles with an entry in the exceptions   *)
                           (* of policy_exception.yaml                     *)
          today,           (* the day, counted from 0                      *)
          at,              (* what each program does next                  *)
          target,          (* the path of the ledger it will write         *)
          draft,           (* its copy of the ledger                       *)
          verified,        (* settle: the principles whose replay passed   *)
          kept             (* settle: its copy of the exceptions           *)

(* History: no guard reads these, only the properties do.                  *)
VARIABLES seen,            (* what blocked and what was cleared in the     *)
                           (* ledger the program read                      *)
          undisturbed      (* settle: the settlements whose ledger no      *)
                           (* other program has written since              *)

ledgerVars == <<file, exceptions>>
vars == <<file, exceptions, today, at, target, draft, verified, kept, seen,
          undisturbed>>

(* in_progress stands for the other states of work the shipped ledgers     *)
(* hold, partial and planned, too.                                         *)
Entry == [source : Sources, day : 0..MaxDay, blocks : BOOLEAN,
          status : {"open", "in_progress", "mitigated", "accepted"}]

(* summary.total_active_debt in hundredths; 0 stands for a missing one.    *)
Ledger == [entries : Seq(Entry), total : Nat]
NoLedger == [entries |-> <<>>, total |-> 0]

(* debt_id: the day the debt was created and what it came from.            *)
Ids == (0..MaxDay) \X Sources
Id(e) == <<e.day, e.source>>

Active(e) == e.status \notin {"mitigated", "accepted"}

(* get_blocking_debt, and the debts of which a ledger says they are done.  *)
BlockingIn(entries) ==
    {Id(entries[k]) : k \in {m \in DOMAIN entries :
                                entries[m].blocks /\ Active(entries[m])}}

ClearedIn(entries) ==
    {Id(entries[k]) : k \in {m \in DOMAIN entries : ~Active(entries[m])}}

Seen(entries) == [blocking |-> BlockingIn(entries), cleared |-> ClearedIn(entries)]
NothingSeen == [blocking |-> {}, cleared |-> {}]

(* A torn file holds nothing; its ledger is the one it held before.        *)
File == [state : {"absent", "torn", "saved"}, ledger : Ledger]

TypeOK ==
    /\ file \in [Paths -> File]
    /\ exceptions \subseteq Principles
    /\ today \in 0..MaxDay
    /\ at \in [Procs -> Steps \cup {"idle"}]
    /\ target \in [Procs -> Paths]
    /\ draft \in [Procs -> Ledger]
    /\ verified \in [Procs -> SUBSET Principles]
    /\ kept \in [Procs -> SUBSET Principles]
    /\ seen \in [Procs -> [blocking : SUBSET Ids, cleared : SUBSET Ids]]
    /\ undisturbed \subseteq Procs

Init ==
    /\ file = [p \in Paths |->
                  [state |-> IF p = "suite" /\ SuiteAtStart THEN "saved"
                             ELSE "absent",
                   ledger |-> NoLedger]]
    /\ exceptions \in SUBSET Principles
    /\ today = 0
    /\ at = [p \in Procs |-> "idle"]
    /\ target = [p \in Procs |-> "suite"]
    /\ draft = [p \in Procs |-> NoLedger]
    /\ verified = [p \in Procs |-> {}]
    /\ kept = [p \in Procs |-> {}]
    /\ seen = [p \in Procs |-> NothingSeen]
    /\ undisturbed = {}

----------------------------------------------------------------------------
(* The entries. *)

Amount == [critical |-> 10, high |-> 5, medium |-> 2]

(* _recalculate_summary *)
Total(entries) ==
    SumFunctionOnSet([k \in DOMAIN entries |-> Amount[SeverityOf[entries[k].source]]],
                     {k \in DOMAIN entries : Active(entries[k])})

Summed(entries) == [entries |-> entries, total |-> Total(entries)]

NewEntry(s, severities) ==
    [source |-> s, day |-> today, status |-> "open",
     blocks |-> SeverityOf[s] \in severities]

Cleared(e, how) == [e EXCEPT !.status = how, !.blocks = FALSE]

(* The first of some positions, if there is one. *)
First(positions) ==
    {k \in positions : \A m \in positions : k <= m}

(* Mutant: only the debts that block are looked at.                        *)
Settled_Blocking(entries, principles) ==
    [k \in DOMAIN entries |->
        IF /\ PrincipleOf[entries[k].source] \in principles
           /\ entries[k].status = "open"
           /\ entries[k].blocks
        THEN Cleared(entries[k], "mitigated")
        ELSE entries[k]]

(* update_debt_ledger: the open debts of the principles are mitigated.     *)
Settled(entries, principles) ==
    [k \in DOMAIN entries |->
        IF /\ PrincipleOf[entries[k].source] \in principles
           /\ entries[k].status = "open"
        THEN Cleared(entries[k], "mitigated")
        ELSE entries[k]]

(* Mutant: cleared debts age too.                                          *)
Overdue_Any(e) == today - e.day >= BlockDays[SeverityOf[e.source]]

Overdue(e) ==
    Active(e) /\ today - e.day >= BlockDays[SeverityOf[e.source]]

(* enforce_aging_blocks *)
Enforced(entries) ==
    [k \in DOMAIN entries |->
        IF Overdue(entries[k]) THEN [entries[k] EXCEPT !.blocks = TRUE]
        ELSE entries[k]]

----------------------------------------------------------------------------
(* The first step of a program: it reads its ledger and changes its copy.  *)
(* A program that finds nothing to change ends without writing.            *)

Loaded(path) ==
    IF file[path].state = "saved" THEN file[path].ledger ELSE NoLedger

Hold(p, path, ledger, read) ==
    /\ at[p] = "idle"
    /\ at' = [at EXCEPT ![p] = "saving"]
    /\ target' = [target EXCEPT ![p] = path]
    /\ draft' = [draft EXCEPT ![p] = ledger]
    /\ seen' = [seen EXCEPT ![p] = Seen(read)]
    /\ UNCHANGED <<ledgerVars, today, verified, kept, undisturbed>>

(* DebtClearer.__init__ *)
ClearerPath == IF file["suite"].state = "absent" THEN "local" ELSE "suite"

(* What load_ledger returns to a DebtClearer. *)
Debts == Loaded(ClearerPath).entries

(* Mutant: the summary is left as it was.                                  *)
Clearing_NoSummary(p, entries) ==
    /\ file[ClearerPath].state # "torn"
    /\ Hold(p, ClearerPath, [Loaded(ClearerPath) EXCEPT !.entries = entries],
            Debts)

(* A DebtClearer that reads a truncated file fails. *)
Clearing(p, entries) ==
    /\ file[ClearerPath].state # "torn"
    /\ Hold(p, ClearerPath, Summed(entries), Debts)

(* Mutant: the ledger is written with the new entry alone.                 *)
Create_Alone(p, i) ==
    /\ "create" \in Programs
    /\ today \in DebtDays
    /\ Len(Debts) < MaxEntries
    /\ Clearing(p, <<NewEntry(i, {"critical", "high"})>>)

Create(p, i) ==
    /\ "create" \in Programs
    /\ today \in DebtDays
    /\ Len(Debts) < MaxEntries
    /\ Clearing(p, Append(Debts, NewEntry(i, {"critical", "high"})))

MarkMitigated(p, i) ==
    /\ "mitigate" \in Programs
    /\ \E k \in First({m \in 1..Len(Debts) :
                         /\ Debts[m].source \in Mentions[i]
                         /\ Debts[m].status # "mitigated"}) :
          Clearing(p, [Debts EXCEPT ![k] = Cleared(@, "mitigated")])

MarkAccepted(p, id) ==
    /\ "accept" \in Programs
    /\ \E k \in First({m \in 1..Len(Debts) : Id(Debts[m]) = id}) :
          Clearing(p, [Debts EXCEPT ![k] = Cleared(@, "accepted")])

(* enforce_aging_blocks, when it updates an entry. *)
Enforce(p) ==
    LET l == Loaded("suite")
    IN  /\ "enforce" \in Programs
        /\ Enforced(l.entries) # l.entries
        /\ Hold(p, "suite", [l EXCEPT !.entries = Enforced(@)], l.entries)

(* The check writes its annotations, which are not modelled: the entries   *)
(* are written back as they were read.                                     *)
CheckSlo(p) ==
    /\ "slo" \in Programs
    /\ Loaded("suite").entries # <<>>
    /\ Hold(p, "suite", Loaded("suite"), Loaded("suite").entries)

(* generate_alignment_debt: a ledger with the violations of this run,      *)
(* made without a look at the one it replaces.                             *)
Audit(p, found) ==
    /\ "audit" \in Programs
    /\ today \in DebtDays
    /\ LET severe == {v \in found : SeverityOf[v] \in {"critical", "high"}}
       IN  \E order \in SetToSeqs(severe) :
              Hold(p, "suite",
                   Summed([k \in DOMAIN order |->
                              NewEntry(order[k], {"critical"})]),
                   <<>>)

(* settle_debt, when the replay results name a passing principle.  The     *)
(* total of the summary stays as it was.                                   *)
Settle(p, principles) ==
    /\ "settle" \in Programs
    /\ at[p] = "idle"
    /\ at' = [at EXCEPT ![p] = "reading"]
    /\ target' = [target EXCEPT ![p] = "suite"]
    /\ draft' = [draft EXCEPT ![p] =
                    [Loaded("suite") EXCEPT
                        !.entries = Settled(@, principles)]]
    /\ verified' = [verified EXCEPT ![p] = principles]
    /\ seen' = [seen EXCEPT ![p] = Seen(Loaded("suite").entries)]
    /\ UNCHANGED <<ledgerVars, today, kept, undisturbed>>

(* ... and reads the exceptions. *)
ReadExceptions(p) ==
    /\ at[p] = "reading"
    /\ at' = [at EXCEPT ![p] = "saving"]
    /\ kept' = [kept EXCEPT ![p] = exceptions \ verified[p]]
    /\ UNCHANGED <<ledgerVars, today, target, draft, verified, seen,
                   undisturbed>>

----------------------------------------------------------------------------
(* The write: open truncates the file, the dump fills it. *)

Truncate(p) ==
    /\ at[p] = "saving"
    /\ at' = [at EXCEPT ![p] = "dumping"]
    /\ file' = [file EXCEPT ![target[p]].state = "torn"]
    /\ undisturbed' = IF target[p] = "suite" THEN {} ELSE undisturbed
    /\ UNCHANGED <<exceptions, today, target, draft, verified, kept, seen>>

(* A settlement goes on to the exceptions; any other program ends.         *)
Dump(p) ==
    /\ at[p] = "dumping"
    /\ at' = [at EXCEPT ![p] =
                 IF verified[p] = {} THEN "idle" ELSE "revoking"]
    /\ file' = [file EXCEPT ![target[p]] =
                   [state |-> "saved", ledger |-> draft[p]]]
    /\ target' = [target EXCEPT ![p] = "suite"]
    /\ draft' = [draft EXCEPT ![p] = NoLedger]
    /\ seen' = [seen EXCEPT ![p] = NothingSeen]
    /\ undisturbed' = IF target[p] = "suite"
                      THEN {q \in {p} : verified[q] # {}}
                      ELSE undisturbed
    /\ UNCHANGED <<exceptions, today, verified, kept>>

TruncateExceptions(p) ==
    /\ at[p] = "revoking"
    /\ at' = [at EXCEPT ![p] = "listing"]
    /\ exceptions' = {}
    /\ UNCHANGED <<file, today, target, draft, verified, kept, seen, undisturbed>>

DumpExceptions(p) ==
    /\ at[p] = "listing"
    /\ at' = [at EXCEPT ![p] = "idle"]
    /\ exceptions' = kept[p]
    /\ verified' = [verified EXCEPT ![p] = {}]
    /\ kept' = [kept EXCEPT ![p] = {}]
    /\ undisturbed' = undisturbed \ {p}
    /\ UNCHANGED <<file, today, target, draft, seen>>

(* The program is killed. *)
Crash(p) ==
    /\ at[p] \in KilledAt
    /\ at' = [at EXCEPT ![p] = "idle"]
    /\ target' = [target EXCEPT ![p] = "suite"]
    /\ draft' = [draft EXCEPT ![p] = NoLedger]
    /\ verified' = [verified EXCEPT ![p] = {}]
    /\ kept' = [kept EXCEPT ![p] = {}]
    /\ seen' = [seen EXCEPT ![p] = NothingSeen]
    /\ undisturbed' = undisturbed \ {p}
    /\ UNCHANGED <<ledgerVars, today>>

(* Work on an open debt is noted in its entry by hand.                     *)
BeginWork(path, k) ==
    /\ file[path].state = "saved"
    /\ file[path].ledger.entries[k].status = "open"
    /\ file[path].ledger.entries[k].source \in Worked
    /\ file' = [file EXCEPT ![path].ledger.entries[k].status = "in_progress"]
    /\ UNCHANGED <<exceptions, today, at, target, draft, verified, kept, seen,
                   undisturbed>>

(* An exception is added by hand. *)
AddException(principle) ==
    /\ principle \notin exceptions
    /\ exceptions' = exceptions \cup {principle}
    /\ UNCHANGED <<file, today, at, target, draft, verified, kept, seen,
                   undisturbed>>

NextDay ==
    /\ today < MaxDay
    /\ today' = today + 1
    /\ UNCHANGED <<ledgerVars, at, target, draft, verified, kept, seen,
                   undisturbed>>

Read(p) ==
    \/ \E i \in Incidents : Create(p, i) \/ MarkMitigated(p, i)
    \/ \E s \in Sources, d \in 0..MaxDay : MarkAccepted(p, <<d, s>>)
    \/ \E principles \in SUBSET Principles \ {{}} : Settle(p, principles)
    \/ Enforce(p)
    \/ CheckSlo(p)
    \/ \E found \in SUBSET Violations : Audit(p, found)

Write(p) ==
    \/ ReadExceptions(p)
    \/ Truncate(p)
    \/ Dump(p)
    \/ TruncateExceptions(p)
    \/ DumpExceptions(p)

Next ==
    \/ \E p \in Procs : Read(p) \/ Write(p) \/ Crash(p)
    \/ \E path \in Paths : \E k \in DOMAIN file[path].ledger.entries :
          BeginWork(path, k)
    \/ \E principle \in Principles : AddException(principle)
    \/ NextDay

Spec == Init /\ [][Next]_vars

----------------------------------------------------------------------------

EntriesOf(ledger) == {ledger.entries[k] : k \in DOMAIN ledger.entries}

(* An entry blocks no release once it is cleared, and a debt that came     *)
(* from a critical or high incident blocks from its creation to its        *)
(* clearing.                                                               *)
SoundEntry(e) ==
    /\ ~Active(e) => ~e.blocks
    /\ /\ Active(e)
       /\ e.source \in Incidents
       /\ SeverityOf[e.source] \in {"critical", "high"}
       => e.blocks

(* Each writer keeps the two fields of an entry in step, and no write back *)
(* of an older copy, in whatever order the programs overlap and whenever   *)
(* one is killed, mixes an entry's old fields with its new ones            *)
(* (debt_clearing.py:163-167, 216-218, 275, settle_alignment_debt.py:      *)
(* 85-90, debt_aging.py:194-208).                                          *)
SoundLedgers ==
    /\ \A path \in Paths :
          \A e \in EntriesOf(file[path].ledger) : SoundEntry(e)
    /\ \A p \in Procs : \A e \in EntriesOf(draft[p]) : SoundEntry(e)

Entries(path) == file[path].ledger.entries

(* A program that writes back a ledger in which it had not seen the debt   *)
(* block, or cleared: it read before that came about, or found the file    *)
(* truncated, or, like the audit, did not look.                            *)
WrittenUnseen(path, what, id) ==
    \E p \in Procs : /\ Dump(p)
                     /\ target[p] = path
                     /\ id \notin seen[p][what]

(* However the programs overlap and wherever one is killed, a debt that    *)
(* blocks the release goes on blocking it until its entry says mitigated   *)
(* or accepted, and a cleared one stays cleared, unless a program writes   *)
(* that had not seen it so: no program drops or reopens what it has read   *)
(* (debt_clearing.py:143-188, 254-291, settle_alignment_debt.py:80-107,    *)
(* debt_aging.py:193-208, check_alignment_debt_slo.py:275-310).  The debts *)
(* of a torn file count until a program writes over them.                  *)
BlockingStands ==
    [][\A path \in Paths :
          /\ \A id \in BlockingIn(Entries(path)) :
                \/ id \in BlockingIn(Entries(path)') \cup ClearedIn(Entries(path)')
                \/ WrittenUnseen(path, "blocking", id)
          /\ \A id \in ClearedIn(Entries(path)) :
                \/ id \in ClearedIn(Entries(path)')
                \/ WrittenUnseen(path, "cleared", id)]_file

(* "debt is only cleared when mitigations are verified working"            *)
(* (debt_clearing.py:15): a debt that blocks the release is not rid of in  *)
(* any other way than by the clearing of its entry.                        *)
NoDebtVanishes ==
    [][\A path \in Paths :
          BlockingIn(Entries(path))
              \subseteq BlockingIn(Entries(path)') \cup ClearedIn(Entries(path)')]_file

(* A settlement that has come to its end has left no exception of a        *)
(* principle whose replay passed, also when an earlier one was killed      *)
(* between its two files, and, if no other program has written the ledger  *)
(* since, no open debt of it (settle_alignment_debt.py:80-90, 123-126,     *)
(* 172-186).  A debt in progress stays active without its exception.       *)
SettleComplete ==
    [][\A p \in Procs :
          DumpExceptions(p) =>
              /\ exceptions' \cap verified[p] = {}
              /\ p \in undisturbed =>
                    \A e \in EntriesOf(file["suite"].ledger) :
                       PrincipleOf[e.source] \in verified[p] => e.status # "open"]_vars

(* No ledger tells of less debt than it holds: the total that the gate     *)
(* compares is at least the sum of the debts that are not cleared.  It may *)
(* be more, since a settlement mitigates debts and leaves the total as it  *)
(* was (debt_clearing.py:293-323, settle_alignment_debt.py:94-105).        *)
TotalCoversDebt ==
    \A path \in Paths : Total(file[path].ledger.entries) <= file[path].ledger.total

(* What a reader of the ledgers relies on: the files, and what the programs *)
(* hold of them, are of the kinds that the dataclasses declare, with a      *)
(* total that no shortfall hides debt behind (debt_clearing.py:293-323).    *)
LedgerAccounted == TypeOK /\ TotalCoversDebt
=============================================================================
