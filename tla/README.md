# TLA+ models of the safety harness

This directory holds TLA+ specifications of the programs in this repository,
TLC configurations that check them on small instances, and theorems about them
with proofs that TLAPS checks. The code is the reference: every definition is
translated from a source file, and `PROJECT.json` (`map`) names the lines.

## 1. The system

The repository is one safety pipeline made of five Python parts that exchange
files rather than messages: `simulator` runs an agent behind safeguards,
`stress-testing` attacks it over many turns, `regression-suite` compares a
candidate with a baseline and holds the governance scripts, `release-gate`
evaluates at scale and decides on the release, `incident-lab` turns failures
into regression tests and debts. `demo` replays the whole story with prepared
data. Concurrency appears in three places: the threads of the batch scheduler,
the sampler thread of the streaming evaluator, and the programs (run by hand, by
CI and by schedules) that read and write the same YAML files.

| component | state it keeps | operations | interacts with | hard behaviour | what makes it correct |
|---|---|---|---|---|---|
| rate limiter (`release-gate/orchestrator/scheduler.py`) | tokens, time of the last update | `acquire` | the scheduler's workers call it under its lock | many threads, one clock; rates below one per second | no window of time lets through more than a full bucket plus its refill; `acquire` returns |
| job scheduler (same file, `run_batch.py`) | jobs by id, queue, futures; per job status, attempts, result | `submit`, `run`, `process_job`, `get_status`, `get_results` | thread pool, rate limiter, worker function, `run_batch` | submissions during a run, several runs, retries, two queues | no job lost, doubled or given two writers; a run ends with an outcome for what it was given; final statuses stay |
| alignment-debt ledger (`incident-lab/debt_clearing.py`, `pipeline/settle_alignment_debt.py`, `pipeline/debt_aging.py`, `regression-suite/scripts/check_alignment_debt_slo.py`, `generate_constitution_audit.py`) | two possible YAML ledgers, their summaries, the exceptions in `policy_exception.yaml` | create, mitigate, accept, settle, enforce aging, check SLO, audit | the programs share the files; the release freeze and the gate read them | read-modify-write with no lock, truncate before dump, kills between two files, two paths | a blocking debt blocks until it is cleared; fields of an entry agree; a settlement leaves no open debt and no exception of its principles |
| release gate decision (`release-gate/core/release_gate.py`, `budget_metrics.py`, `run_release_gate.py`) | none (pure), prints a report | load thresholds, compute deltas, compare, decide | reads both runs' metrics and the gate configuration | keys of two dictionaries that must agree, falsy zeros, strict and weak comparisons | the verdict is the one the configured gate logic states |
| rollback and alerts (`orchestrator/rollback_policy.py`, `monitoring/alerts.py`) | last trigger per rule, cooldowns, history | evaluate, execute, send | fed by the streaming evaluator and drift monitor | cooldowns that suppress a more severe action, a channel that fails after the cooldown is set | a severe trigger is acted on; an alert is not lost |
| streaming evaluation and drift (`streaming/online_eval.py`, `monitoring/drift.py`) | sample queue, running flag, sliding window, baseline | start, stop, submit, loop; add, check | the alert manager, the metrics store | a thread started twice, stop racing a blocked get, window at its limit | each sample is evaluated at most once; drift is judged on a full window |
| evaluation workers and storage (`release-gate/workers`, `storage/metrics_store.py`, `run_batch.py`) | one directory per run with two files | evaluate a scenario, save, load, summarise | the scheduler calls the worker function, the gate reads the runs | a batch that dies between the files, ids of one second | the gate judges the results of a whole batch |
| agent executor (`simulator/agent`) | trajectory, memory, planner, tools | `execute`, one turn after another | two safeguard hooks in fixed order | early termination by any hook; state that survives from one run to the next | a stopped run executes no further tool; counters are those of the run |
| safeguards (`simulator/safeguards`, `analysis/policy_conflict_detector.py`) | drift scores, registered hooks, composed layers, loaded policies, escalation thresholds | check, register, compose, load, adapt, audit, search for conflicts | the executor; the policies are searched for conflicts | severities compared as strings, rules of equal priority, confidences that change a vote | one more guard, or a riskier context, never makes the answer laxer |
| chaos engine (`simulator/chaos`) | registered experiments and their results | register, run one experiment, run all, summarise | wraps the simulated pipeline | two independent random runs, grades by halves, an experiment that raises | every scenario is accounted for; a run that lost every block is not summed up as PASS |
| human review (`regression-suite/governance/human_review.py`) | requests, decisions, escalations | create, decide, check SLA, final verdict | the regression verdict, reviewers | deferred and escalated requests and the clock, two reviewers | a tier's approvals are complete before the release is approved |
| release risk ledger (`governance/release_risk_ledger.py`) | hash-chained entries | record release, record rollback, verify | audit export | an entry changed after it was hashed | verification succeeds exactly when nothing was changed |
| release freeze (`scripts/check_freeze_playbook.py`, `check_safety_exceptions.py`, `check_alignment_error_budget.py`, `check_exception_blast_radius.py`) | none; reads ledger, budget, exceptions | decide BLOCK, WARN or PASS; validate exceptions | reads what the ledger's programs write | exceptions that expire, annotations that are older than the debt, two counts of one budget | an over-age debt or exhausted budget blocks unless a valid exception covers it |
| regression verdict (`core/runner.py`, `diff.py`, `risk.py`, `stats.py`, `history.py`) | history of runs | compare, grade, append | the gate, human review | thresholds, statistics | a verdict no milder than any grade it rests on |
| anti-gaming, constitution, impact analysis, business risk, audit package, risk memo | history of metrics, evaluations, alignment debts, artifacts | detect, evaluate, record, export | the regression verdict, the governance scripts | many thresholds and weights that must point the same way | what is worse is never judged better; what was recorded can be told again |
| incident pipeline (`incident-lab/pipeline.py` and the modules it calls) | incident files, generated and promoted tests | analyse, replay, generate, promote, clear | the debt ledger, the regression suite | a step that fails half way, promoted tests that never passed | a debt is cleared only after the test that proves it |
| near-miss and decay (`incident-lab/core`) | relevance and trigger counts of tests | record, decay, retire | the regression suite | thresholds that exclude each other | a stale test is retired at some time, a useful one never |
| incident replay, counterfactuals, causal graph (`incident-lab/replay`, `counterfactuals`, `analysis/causal_graph.py`) | none; read an incident | sweep a threshold, remove a safeguard, route otherwise, rank, build the graph and the timeline | simulator's logs | a mitigation that appears only late, turns that become known one after another | what hindsight offers would have prevented the violation; later turns revise nothing |
| stress testing | rollouts, coverage matrix | roll out, summarise | the model under test | the turn at which a run fails | the first failing turn is the one reported |
| simulator analysis and telemetry, demo, dashboards | logs, rendered files | - | - | - | - |

Every row is listed in `PROJECT.json` (`components`) with its sources and
status, and what could go wrong in it in `hazards`, at its line.

## 2. What was planned and what is left

The models were written in the order of what a mistake would cost, each with
what it composes:

1. `RateLimiter`, `RateLimiterCallers`, `JobScheduler` and its abstract
   specification `JobBatch` (the workers take the limiter's two actions);
2. `DebtLedger`, `ReleaseFreeze`, `ReviewWorkflow`: the files and requests that
   hold a release back;
3. `AgentExecutor`, then the safeguards around it, the chaos experiments and the
   stress tests: `Simulator` puts them together;
4. what the regression suite keeps and says about a release: `ReleaseRecord`
   and its parts;
5. what happens around a release: `ProductionLoop` with streaming, rollback, gate,
   incident lab, replay and the life of tests.

Left: the composition of `DebtLedger` with `ReleaseFreeze` (the clock of days and
the single steps of writers multiply), the blast-radius limiter of exceptions, and the
SLO check's annotations in the ledger.
What will not be modelled is in section 7.

Parameters are CONSTANTS with named assumptions, invariants are conjunctions of
named parts, and no module uses RECURSIVE operators, so that each can be proved
about. Proofs are in a module of their own for each specification (section 5).

**Compositions by part.** `ReleaseRecord`, `ProductionLoop` and `Simulator` put
together programs, and objects that no program uses together, which share no
state. Their specification has an auxiliary variable `part`, chosen at the start:
the part that acts, while the others stay as they begin. A property of one part
constrains only that part's variables, so nothing is lost against the interleaving
of all of them, whose states are the product. The interleavings that matter are
inside the parts: loops, callers and interrupts of the stream, batches that share a
directory, programs of the incident lab that are cut short.

## 3. Modules

### RateLimiter, RateLimiterCallers

The token bucket. Time advances in ticks and tokens are counted in units, so
that the code's floats become integers: one token is `Unit`, a tick refills
`PerTick`, a second has `TicksPerSecond` ticks, and the capacity is what one
second refills because the code caps the bucket at `self.rate`. `elapsed` is the
time since `last_update`; it saturates at a second, when the bucket is full
anyway, so the clock needs no bound. `TakeToken` and `FindNoToken` are the two
outcomes of one pass of the loop in `acquire`, which holds the lock for the
whole pass. `RateLimiterCallers` adds threads that call `acquire` at any time,
and an observer that starts to count at any moment (`Observe`): `WindowBound` is
then a statement about every window of up to `MaxWindow` ticks.

### JobScheduler, JobBatch

One action per step that other threads can see.

- `submit` is two steps: `Register` (under the lock) and `Enqueue` (outside it).
- `run` drains the queue job by job into the executor (`Drain`, `DrainEnd`) and
  waits for all futures it ever made (`Return`): `_futures` is not cleared.
- `process_job` is a program per worker: `Take`, then `Acquire` or `Poll` at the
  head of the loop, `Begin` (count the attempt), then the worker function
  returns (`Succeed`, and `Store` as a step of its own because the status is
  written before the result) or raises (`Backoff` or `GiveUp`), and `LoopExit`.
- The thread pool is the executor's queue and its idle threads, modelled from
  how `run` uses it. The sleep between attempts takes no state.

A job is submitted once and under an id of its own, as `run_batch` does; ids and
payloads are model values. `promised` records what was queued when the run
began, for `RunKeepsPromise`.

`JobBatch` states what a caller relies on: a job waits, is tried by one worker
at a time at most `MaxRetries` times with at most `MaxParallel` in parallel,
ends as succeeded or failed, and a run is over only when all it was asked to do
has ended. `ImplementsBatch` is the refinement: the stage of a job is read off
its status.

### DebtLedger, MCDebtLedger

The file and the seven operations on it that five programs perform. Each
program is read (with the change of its own copy), `Truncate` (`open(..., "w")`)
and `Dump`; the settlement goes on to read the exceptions before it writes, and
to write them after. Between any two of these another program can take its
steps, or the program can be killed (`Crash`, at the
steps that `KilledAt` names: those at which it has touched a file, since a program that is
killed before that might as well not have run). The files are small enough for
one write, so that a reader sees a file as it was, truncated, or complete.
`ClearerPath` is the choice `DebtClearer.__init__` makes between the two files.

An entry is open, worked on, mitigated or accepted. No program writes that a debt is worked on
(`in_progress`, `partial` and `planned` in the shipped ledger, one state in the model):
`BeginWork` is the edit by hand. Such a debt is active and may block, age and be
mitigated or accepted, but a settlement passes it by.

Two history variables, which no guard reads, let the properties say who is to blame when a debt
gets lost: `seen` is what blocked and what was cleared in the ledger a program read,
`undisturbed` the settlements whose ledger no other program has written since.

Abstractions: a debt's source stands for its principle, severity and text; the
days that matter are the day it was created and the day it is looked at; amounts
are hundredths; the SLO check's annotations are left out, so that the check
rewrites the entries it read (which is what its overlap with the others is
about); exceptions are the principles they name. Exceptions are added by hand,
by an action of their own. Replay results that a settlement reads are any
non-empty set of passing principles. `MaxEntries`, `MaxDay`, `DebtDays` and `Worked` bound
the ledger, the clock, the days on which debts are created and the debts that are worked on.

### ReleaseFreeze, MCReleaseFreeze

Four scripts that share files and a clock in days. `Decision` is the playbook's
`main` as an operator of the state, so that every state is one in which somebody
may ask; it is built from the four checks with their own conditions (the debt's
age is the *noted* one, open debts are *counted*, coverage looks at the audit
only). `Breached`, `BudgetExceeded` and `Valid` are what the other three scripts
say about the same files. `CheckSlo` is a run of the SLO check, which writes the
age of each active debt back to the ledger. Debts enter, are planned and cleared
as whole steps: how the programs that do so interleave is `DebtLedger`'s
question. Exceptions and audits are written by people and by programs outside the
repository. An exception's scopes are the principles it names; roles that may
approve are those in `MaxTtl`; weights are in quarters of a debt, quarters are
`DaysPerQuarter` days long.

### ReviewWorkflow, MCReviewWorkflow

One object that holds both classes of `human_review.py`: the queue's pending
requests and completed decisions, and the request objects that callers keep.
`Required` says which tier a release needs, from what the automated comparison
found (`candidate`); `Create` opens a request, `RecordDecision` records one of
the four decisions with its effect on the request (`Ruled`), `CheckSlaBreaches`
escalates what is late, and `CanProceed` is the answer a release gets. Time is
in hours. A decision is what was decided: who decided and why is stored and
hashed but never looked at, and a decision whose hash is wrong raises before it
changes anything. `MaxDecisions` and `MaxHour` bound the model.

### AgentExecutor, MCAgentExecutor

One executor that takes request after request (`Execute`: reset the memory,
plan). A step of a plan is `Block` or `Admit` (the pre-action hook), `RunTool`
(the tool returns or raises) and `MidTrajectory` or, without that hook,
`Unwatched`; `Return` is what `execute` does with a step that has returned. Any
of the two hooks may be missing, as in the constructor. The post-action hook only
adds to the report and is modelled in `SafeguardRuntime`.

A request is its kind, which decides the plan, and what the safeguards count in
its text: matches of malicious patterns, high-risk keywords, risky and sensitive
words, an injection, and whether a tool that repeats it would return a pattern of
violations. Scores are integers: the intent score in 300ths, the drift score in
50ths of the accumulated drift, of which a step's level sees a fifth. The model's
thresholds are those of sensitivity 0.45 because no score meets one of them
exactly, where the floats of the code could round either way. `Primary` compares
levels as the code does, as strings (`Alphabet`). `baseline` belongs to the drift
monitor, which outlives the runs and is never reset; `memory` belongs to a run.
The context holds the last ten entries of the history; a built-in plan has at
most four actions, so the request is always among them and the score of a step
is that of its request.

### Simulator: AgentExecutor, SafeguardRuntime, ChaosEngine, StressTest

`SafeguardRuntime` holds what can be plugged in around an agent. `RuntimeNext`
registers a hook with `SafeguardsRuntime` at its point; `StepDecision` is what
`step` answers to a signal, by a table of decision priorities. `ComposerNext` adds an
answer to `SafeguardComposer` or changes its rule; `Composed` is the rule applied
to the answers. `PolicyNext` loads a file of declared policies (`Evaluate` sorts by
priority and takes the first rule that matches; a condition is alternatives of
conjunctions of comparisons, as the evaluator splits them, and one it cannot split
never matches) and adapts the thresholds of the escalation policy to a context.
`PostAction` is the hook after a tool, `DetectorNext` adds a policy to the catalogue
that `Analyze` searches for conflicts. Scores are percents, adapted thresholds
ten-thousandths of a percent.

`ChaosEngine` runs each registered experiment on the scenarios twice, one scenario
per step, because both the simulated pipeline and the injections are random:
`RunPipeline`, then `RunPipelineWithChaos` with `Inject`, then `FinishExperiment`
with the experiment's own analysis, or nothing when it raises. `StressTest` rolls
every attack and its variants out, one `Turn` per step (`attack` and `variant` are the
places of its two loops); an answer is the number of phrases of each list in it; the sums
over the rollouts are operators.

### ReleaseRecord: the records of the regression suite

- `ReleaseLedger`: entries chained by hashes, where a hash is the sequence of the
  contents it stands for. `AddEntry` appends; `RecordIncident` and `RecordRollback`
  write into the first entry of the release. `Export` is an audit. `added` is
  auxiliary: what each entry said when it was added.
- `ReleaseHistory`: runs in the order of their timestamps; the fitted line is a
  quotient of integers (`LinearRegression`), with the projected breach and the advice.
- `ReleaseVerdict` on `EvaluationAdapters`: the four places that judge a candidate,
  each on what an adapter can measure. The outcome of the resampling in the
  statistics is any; the rest is computed.
- `Constitution`: the evaluation of a release against principles, its debts, their
  acceptance and resolution by age, and the report.
- `GamingDetector`: the patterns over a history of snapshots. `SubmissionChecks`: the
  checks of one submission (`Degrade`, `Delay` make it worse) and of a change before it
  is evaluated.
- `GovernanceRecords`: the audit package with its custody chain, and the memo.

### ProductionLoop: what happens around a release

- `StreamingEvaluator`: each loop is a program (evaluate, measure its window,
  check drift, claim the cooldown's key, log, sleep), in a thread of its own or in the
  caller's; the caller starts, stops and joins, runs synchronously, or is
  interrupted. A log that cannot be written kills the loop.
- `RollbackPolicy`: triggers, cooldown, actions, recovery, resolution, on a clock of
  minutes.
- `ReleaseGate`: a scenario's turns are classified (`EvaluateTurns`), a batch is collected,
  its two files are written (`SaveMetadata`, `SaveResults`), a crash may come before
  either, the clock that names the runs has seconds; `RunGate` reads two runs and gives an
  exit code. Rates are in thousandths, rounded up, so that none falls to a threshold it is above. `backend` is the format: with parquet a
  missing file is an empty table, and a column of turns and blanks has an average that is not a number.
- `IncidentLab` on `IncidentAnalysis`: a promotion writes file after file and may be cut short;
  `Mitigated` finds the first entry of the ledger whose id or evidence names the incident and
  which is not mitigated yet, and merges the evidence into it; `Verification` is what
  `verify_regression_coverage` answers: the gaps, an error without a case, or the exception
  that a truncated case raises. The full analysis raises for types without a hook.
- `IncidentReplay` on `Counterfactuals`: turns become known one by one (`AddTurn`); the timeline,
  the graph and the what-if analyses are computed anew each time. `RunAnalyzeAll` takes the
  analyses that come by default, `RunAnalyze` any list of up to `MaxSpecs` of those in `Specs`,
  as `engine.analyze` does. The lists that the program sorts
  (events, what-if results, runs of the history, policy rules) are those of `Ordering`: a stable
  sort by the rank of an item among the others.
- `TestLifecycle`: near misses become tests, relevance halves with each half-life, the
  retirement policy and the quarterly revalidation.

## 4. Runs

| run | what it asks | outcome |
|---|---|---|
| `limiter_window` | two threads, a rate of two per second, windows of up to two seconds | `WindowBound` holds |
| `scheduler_safety` | three jobs, two workers, two attempts, two runs, submissions at any time | jobs are at one place, with one writer, with an outcome; runs keep their promise; `JobBatch` is implemented |
| `scheduler_liveness` | two jobs, two workers, rate of one per second, fair threads | every run returns, every `acquire` returns |
| `ledger_overlap` | two programs of any kind, the audit included, overlap and are killed anywhere | the fields of each entry agree (`SoundLedgers`), totals cover the debt (`LedgerAccounted`), a debt gets lost or reopened only by a program that had not seen it so (`BlockingStands`), a settlement that ends has done its work in both files (`SettleComplete`) |
| `ledger_lost` | "debt is only cleared when mitigations are verified working" | violated: two programs overlap and a blocking debt is gone (`NoDebtVanishes`) |
| `freeze_decision` | debts that age, are checked, planned and cleared; exceptions, audits | a freeze has a cause, ends by a decision only, follows from a fresh check; a lapse is final |
| `freeze_aggregates` | "Unified release freeze decision. Aggregates all freeze signals" | violated: the playbook has conditions of its own |
| `review_queue` | two requests, decisions and SLA checks in any order | a ruling is the last word, releases are held until then, late requests are escalated once |
| `simulator` | one executor with any hooks; hooks, layers, policies and answers added in any order; ten chaos suites; four rollouts of two attacks | `CountersMatch`, `EscalationEnds`, `BlockedForCause`, `SlowDriftIsPaused`; `GuardsTighten`: no addition makes an answer laxer; `TrialsJudged`: a run that lost every block is not passed over and the sums of rollouts agree |
| `agent_masked` | "Take the more severe result" | violated: a hard stop is the least of the strings |
| `release_record` | the parts of the regression suite, each on every input it is given | an audit names the first change (`AuditNamesFirstChange`), trends, verdicts, debts, gaming and records are as stated at `TrendsSound`, `VerdictsOrdered`, `DebtFollowsVerdicts`, `GamingJudged`, `RecordsComplete` |
| `production_loop` | the parts around a release, with crashes, failed writes, interrupts and restarts | `CooldownsHold`, `GateAllows`, `IncidentsJudged`, `ClosedLoop`, `TimelineSteady`, `RecentlyTriggeredKept`; `StopEnds`: every `stop()` returns |

**Disagreements.** A violation run stops at the first counterexample; these are
the ways, found while modelling, in which its property fails.

- `freeze_aggregates`: the playbook counts open debts where the budget check
  weighs those of the quarter; it reads the age noted by the last SLO check, 0
  before the first; it knows one limit for all debts where the SLO check has one
  per severity; any active exception, expired or for another principle, turns the
  freeze of an old debt into a warning. `FrozenForCause` and `OldDebtsFreeze` say
  what it does guarantee.
- `ledger_lost`: each program writes back the whole ledger it read. Two that overlap lose
  what one of them wrote, a program that is killed in a dump loses all, and so does the audit,
  which does not read the ledger at all; a reader that meets a truncated file takes it for an
  empty one (`DebtClearer` alone fails). `BlockingStands` is what remains: each program keeps
  what it had seen.
- `agent_masked`: as strings, hard_stop < pass < soft_stop < warn. An injection is
  passed unless the classifier also calls for a hard stop; a hard stop of the drift
  monitor is hidden by a violation monitor that passes, and the other way round. A
  soft stop of the pre-action hook is never looked at. What remains is
  `BlockedForCause` (no block without a hard stop) and `SlowDriftIsPaused`: a soft
  stop of the drift monitor is above a pass, so drift that does not jump over the
  band of the soft stop in one step is caught.

The runs of the scheduler have a rate of at least one request per second. Below
that `acquire` never returns, because the bucket's capacity is the rate itself and
a token is never complete; the documentation names no such rate.

**Bounds.** Three jobs and two workers give a job in each hand and one in a
queue, with a second run while futures of the first exist; two attempts give a
first failure that is retried and a last one that is not. The limiter's constants
make a tick refill a fraction of a token. For the ledger two entries allow
one to be changed by each of two programs and a lost entry; one day allows a debt
to become over-age, and the debts are from the day before; there is one incident, one violation
and one principle, because what matters is which program writes which copy. `Symmetry`
exchanges the two programs: they are alike, the properties quantify over them, and none of
them is a liveness property. Work is noted on the incident's debts (`Worked`), which block from
the start; the suite's file exists, so that what happens when it appears later (`ClearerPath`) is
left to the proofs, which hold for both files. For the freeze the days are scaled down: a limit of one day and a clock
of four let a debt be younger and older than the limit, with notes of both
ages, and a quarter pass; two debts exceed a budget of one, and a critical and a
high violation exercise both thresholds; the exception is new, renewed, expired
and revoked within the clock.

For the review two requests may be for one release or for two; three decisions let
one be passed on, put off and ruled on; the tiers' limits are zero, one and two of
three hours, so that each can be met and missed; the candidates need each tier or
none.

For the agent three requests in sequence let a second run inherit the baseline of
the first and a third follow a run that was stopped; the eight requests, each
quoted with its counts, meet every level of every safeguard and each plan.

For the safeguards the signals lie on both sides of every threshold, three guards are
added to the same point or layer, the sensitivities are 20, 50 and 90 percent (below ten
percent the adapted drift threshold passes the hard stop of the declared policy, and the
two cannot agree), and the contexts of risk 50 and 100 percent. The chaos scenarios are no
scenario, three attacks, attacks with a benign one, and one that is neither; a loss of one,
of half and of all blocks occurs. Two attacks of four turns and of one, at most three turns,
give rollouts that end early, at the limit, and by a failure.

For the release record: ledgers of three decisions about two releases, histories of four runs at
three moments (equal and reversed ones included) with two thresholds, seven snapshots (a spike in
time needs ten, and never arises) with scores that are multiples of 20 (`Unit`, which keeps their
squared sums within TLC's integers), three changes for the worse, two releases under the
constitution with an acceptance and a pause of 31 days, and three artifacts. For the production
loop: windows of two, a history of five, five evaluations over two streams in two units of time with
a cooldown of two, so that an alert is suppressed and is given again; rollbacks at 29, 30, 60 and 61
minutes around a cooldown of 30; two batches in the same second or in the next with workloads of 12
and 13 results around the warning at eight percent; three incidents, one of a type with a hook and
two without; three ledgers, with two entries of one incident, entries worked on, accepted, mitigated
already, and without a field for evidence; up to two analyses at once out of six, of which two make
the policy stricter; trajectories of up to three turns of five kinds; four half-lives, of which the
default threshold needs three.

| run | distinct states | run | distinct states |
|---|---|---|---|
| `limiter_window` | 1,093 | `scheduler_safety` | 271,018 |
| `scheduler_liveness` | 23,736 | `ledger_overlap` | 1,211,412 |
| `freeze_decision` | 455,504 | `review_queue` | 2,071,244 |
| `simulator` | 59,095 | `release_record` | 97,864 |
| `production_loop` | 459,288 | | |

**Deadlock** is not checked where the system may stop: all submitted jobs are
done, or the bounded days are over. The limiter's run checks it.

**Fairness.** `FairSpec` assumes weak fairness of the running thread, of each
worker and of the clock: the operating system schedules runnable threads and
time passes. Nothing forces anybody to submit a job or to start a run, and the
worker function is assumed to return or raise, as the scheduler itself assumes
(it has no timeout). Strong fairness of `acquire` is not assumed and not needed:
a worker that finds no token polls, and each job takes at most `MaxRetries`
tokens, so no worker is overtaken for ever.

`ProductionLoop` assumes weak fairness of the thread of each loop and of the caller that
waits in `stop()`: a loop that sleeps wakes, evaluations return or raise, and `join`
returns once its thread has ended. Nothing forces anybody to start or to stop.

**Mutants.** Each property of a passing run is shown to depend on the code: the
definitions named `<Definition>_<Change>` are the mapped definition with a
plausible mistake (a dropped guard, a missing wait, an early exit), and with the
mistake in place TLC finds the property violated.

## 5. Proofs

All theorems hold for every value of the constants that satisfies the named
assumptions, and every leaf is checked. The proof modules follow the specifications:

| module | about | inductive invariants |
|---|---|---|
| `JobScheduler_proof` | the limiter, the scheduler and its refinement | `WindowPotential`; `TypeInv`, `PlaceInv`, `FieldInv`, `FlowInv` |
| `DebtLedger_proof` | the ledger and its programs | `IInv`, `AccountedInv`, `SeenInv`, `SettleInv` |
| `ReleaseFreeze_proof` | the freeze decision | `IInv` |
| `ReviewWorkflow_proof` | the review queue | `IInv` |
| `Simulator_proof` | the agent, the chaos engine, the stress tests, the safeguards | `AgentInv`, `ChaosInv`, `StressInv`, `GuardInv` |
| `ReleaseRecord_proof` | the risk ledger, the trends, the constitution, the judges, the detection of gaming and the checks of submissions, the audit package and the memo | `LedgerInv`, `ConstitutionInv`, `VerdictInv`, `JudgedInv`, `CompleteInv` |
| `ProductionLoop_proof` | alerts and rollbacks, the gate, the incident lab, the replay of incidents, the life of tests | `CooldownInv`, `GateInv`, `LabInv`, `LifecycleInv`, `GradingInv`, `ReplayInv`, `TimelineInv` |
| `SumTheorems` | sums over sets (`SumFunctionOnSet`), covariance, and the sorted lists of `Ordering` | - |

**Limiter and scheduler.** `WindowBound` is not inductive: a full bucket at the end
of a window could still exceed it. `WindowPotential` counts what the bucket would
give out now as given; taking a token leaves the sum, a tick adds at most its
refill. The scheduler's invariant has four layers, each proved from those before
it: `TypeInv` (types, and a busy worker holds a job), `PlaceInv` (the places of a
job exclude each other, cover the submitted jobs, and no queue repeats one),
`FieldInv` (the fields of a job fit the step its worker is at; a job nobody has
taken is untouched) and `FlowInv` (which jobs have a future, and what the running
thread has handed on). `BatchImplemented` goes step by step: each action is a
`JobBatch` step or a stutter; that at most `MaxParallel` jobs execute follows from
an injection of the executing jobs into the busy workers.

**Alignment-debt ledger.** `IInv` adds to `SoundLedgers` that files and drafts hold
sequences of entries; each way to change an entry keeps it sound, and a read, a
truncation, a dump and a crash only move ledgers. `AccountedInv` says that every file
and draft has a total of at least the sum over its active entries: a program works the
total out of the entries it holds, or keeps it while it clears some. `SeenInv` is what
`BlockingStands` rests on: the draft of every program still holds each debt that blocked in the
ledger it read, as blocking or cleared, and each cleared one as cleared (`Keeps`), because each
operation changes entries in place or appends (`Follows`); so whatever a dump takes away is a debt
its program had not seen. `SettleInv` says that neither the draft of a settlement nor, as long as no
other program writes it, its ledger has an open debt of its principles, and that the exceptions it
will keep name none of them. All four hold for any number of overlapping programs, with the audit,
and with kills at any of the steps.

**Freeze.** `NotesBehind` is added to the types: no noted age exceeds the debt's age,
because the clock only goes forward and only the SLO check writes notes. From it
follow that a freeze by age is a freeze for an old debt, and that a new note is never
below the one before, so a check thaws nothing. That the end of an exception thaws
nothing rests on `TooManyGrows`: more uncovered violations are still too many.

**Review.** The invariant is a statement per request (`Fits`) that joins its status,
its place in the queue, its decisions and its count of escalations; two lemmas say
that a new request and a recorded decision fit. `RulingIsLast`, `HeldUntilRuled` and
`EscalatedOnce` follow from it, `LateIsEscalated` from it and the step.

**Simulator.** `AgentInv` adds to the types and the four properties of the executor: `Underway`
(where a run is, it has steps left to do), `WatchedByHook` (no step is watched without the hook, and
with it every step a run has gone past was) and `NextBelow` (the drift that the next step starts
from). `SimulatorRunsAgent` shows that a behaviour of the simulator is one of the executor, so that
its theorems carry over. `ChaosInv` counts: the blocks and passes of a run add up to the scenarios
done, except that the rejected metrics make up a hundred blocks each (`Accounted`). `StressInv` says
that every result is that of a rollout of one to ten turns; the counts, the erosion curve and the
half-life, each summed over the rollouts in its own way, then agree by the sum theorems. `GuardInv`
says which hooks, rules and policies there can be, and that the thresholds of the escalation policy
only shrink; it holds `StopsArePaused` as well. That an addition makes no answer laxer needs what
the parts have in common: the decision that is favoured is the greatest of those said
(`FavouredIsGreatest`), so that one voice more never lowers it; the first rule that matches is the
worst one, because rules are sorted when they are loaded (`DefaultSorted`, `ByKeySorts`); tighter
thresholds answer no more mildly (`ThresholdsShrink`, `EscalationTightens`); and whether two
policies conflict depends on these two alone, so that a longer catalogue keeps its conflicts
(`AnalysisGrows`).

**Release record.** `LedgerInv` says of each entry of the risk ledger that its hash is the sequence
of the contents added up to it, whatever was written into it later. The audit recomputes the hash of
an entry from the hash before it and the content as it is, which differs exactly when the entry was
altered (`BrokenIsAltered`); that it names the first one is the well-foundedness of the numbers. For
the trends the runs of a metric are a list by time (`RunsInOrder`), and the sign of the slope is
that of a covariance, which is a sum over pairs of runs of the product of their distance with the
rise between them (`CovarianceSign`): it is zero or more when no later run is lower, and a projected
breach lies at or after the release at which the fitted line meets the threshold. `ConstitutionInv`
says that every debt was booked by an evaluation at the rate of its category, that an evaluation
left deviation debt exactly when it found a hard violation, and that the total is the sum over what
is active. A hard violation follows from a measured metric that breaks a hard principle
(`BreaksHard`), and is one when nothing was missing (`MeasuresHard`); of a missing metric the
property says nothing. The judges keep no state but their answers, so `VerdictInv` is the property;
the work is in the lemmas that what the statistical gate, or a tracer that knows the direction of
the metric (`TracedAsHigherIsWorse`), finds critical is critical for the others. `PackageInv` counts
the events of the custody chain: the artifacts present at an event are as many as were added up to
it (`Count`), whatever came between, and a hash that was handed out is the prefix of the present one
that was there at the last approval. For the memo each risk is monotone in its metric (`ScoreGrows`,
`RisksGrow`), and the residual is a sum over the risks of at most three metrics, which the sums by
metric compare (`ResidualGrows`). `JudgedInv` is only about the history of snapshots and the
submission; `GamingJudged` is argued about any of them. When all metrics gained alike, the quotients
of the gains are equal (`QuotientsAgree`), their spread is that of a constant (`ConstantSpread`) and
nothing is fragmented; when all scores grew by one factor, the deviations of their sums are
proportional (`ProportionalDev`) and the correlation is full (`FullyCorrelated`). For a submission,
alerts are compared by `Graver`: lower scores where they should hold raise no fewer and no milder
alerts, and the action, the level and the status follow (`ActionGrows`, `LevelGrows`,
`StatusGrows`). Lowering all the scores leaves their dispersion as it was (`DispersionLowered`), and
a removed component only adds shifts (`RemovalShifts`). The proof showed that the model of the
correlation had rounded its scores to fiftieths and had taken in metrics outside the gate: it counts
them exactly now, in the unit `Unit`, and sums those of the gate alone. `CompleteInv` puts these
together with the types of all parts.

**Production loop.** `StreamingInv` says that only the newest loop may be alive and that it is the
thread `stop()` joins or the caller's (`OneLoop`), and that the last time of a key is no earlier
than any of its alerts (`KeysHeld`): the cooldown needs the first, since two loops could both find
it over. `RollbackInv` ties the time of the last rollback to the last event. `GateInv` follows the
results from the worker to the disk: what a file calls written is what a batch that ended has
collected. The proof of `GateAllows` showed that the model had rounded a rate down where the code
compares the float: it is rounded up now (`ThousandthsUp`), so that a rate a little above the
warning stays above it. `LabInv` says that the ledger holds entries, and that a promotion which has
not cleared its debt yet left the whole test on the disk; that clearing changes one entry, and how,
is `MitigatedFact`. `LifecycleInv` dates a test by what it was made and triggered last, never in the
future. `GradingInv` says only that two impacts, or radii, of which the second is graver are
compared; that the grades follow is arithmetic, with `Overlooked` for the technical severities that
the matrix forgets. `ReplayInv` says that the trajectory is a list of turns of the case. Hindsight
is then argued about any trajectory: a more sensitive sweep misses no less late and catches no later
(`MissesGrow`, `CatchesEarlier`). The lists of analyses are sorted by confidence times impact
(`HelpedRanked`). With one stricter policy among them, as by default, one that prevents weighs more
than any that softens (`PreventionLeads`, `DefaultsPrevent`); in a list that was asked for, a
softening one can only go before if it is surer (`AskedSurer`, `SurerLeads`). A path of the causal
graph is followed by the breadth-first search. Its queue has a closed form (`Walk`), because an edge
only leads from one link to the next or from the trigger to the safeguard (`WayEdges`,
`WaySuccessors`), so that the safeguard comes third; that the search computes it is shown at the
least step where it would not (`SearchSolved`). `TimelineInv` says that the events of a turn lie
within 15 s of it, turns being 30 s apart: a new turn's events come after all others
(`EventsExtend`), so that the sorted timeline only grows at its end (`InOrderPrefix`).

**Sums.** The induction theorems of the library take an operator as a parameter, which the provers
cannot instantiate. `SumTheorems` therefore proves its facts by an induction over a *set* of sets
(`SubsetInduction`): that `SumFunctionOnSet` is one value of a recursive function (`SumIsOne`), that
it can be split, compared, and taken element by element. The same module proves that the lists of
`Ordering` are sorted and hold every item once (`InOrderSorts`, `ByKeySorts`), each at the place
which its rank gives (`PlacesInOrder`).

**Assumptions on constants**, and what in the code justifies them: the limiter and the scheduler
have positive rates and counts (`LimiterAssumption`, `SchedulerAssumption`); limits, days and
cooldowns are naturals (`FreezeAssumption`, `ReviewAssumption`, `RollbackAssumption`,
`StreamingAssumption`, `LoopAssumption`); every kind of debt is booked at a positive rate
(`ConstitutionAssumption`, `constitution.yaml:270-287`); no more turns are rolled out than the
erosion curve has (`StressAssumption`, ten); whenever suites are evaluated the misuse suite is among
them and measures its violation rate (`VerdictAssumption`); the results of a workload are those of
the worker (`GateAssumption`); an incident's id is the stem of its file, so that no two share one,
and ledgers are lists of entries (`IncidentAssumption`); the retirement threshold is at most 360
thousandths, since above it a test could be retired a half-life after it triggered
(`LifecycleAssumption`, the default is 100); metrics and trend thresholds are numbers
(`ReleaseAssumption`); the what-if thresholds, times and false positives are naturals, the analyses
asked for are of the registered types, signals are numbers and a turn has finitely many calls and
safeguards (`ReplayAssumption`). For the safeguards (`GuardAssumption`) scores are naturals and
features passed under a name that the engine itself takes from the context (`policy_dsl.py:105`)
agree with it, both being the same measurement; hooks answer one of the known decisions; risks are
at most 100 percent, and sensitivities 10 to 100 percent. A submission has sequences of numbers as
results, and a change names components that the map of components has (`SubmissionAssumption`).
There are finitely many metrics, and their scores are multiples of the unit in which they are
correlated (`GamingAssumption`): unit 1 admits all scores. TLC evaluates each of them in the run of
the module.

**Only model-checked.** Liveness (`RunReturns`, `AcquireReturns`, `StopEnds`): the prover cannot
reason about ENABLED. Every other property of the passing runs is stated by a theorem.

## 6. What else was seen

Not every disagreement deserves a run. These were met while translating, and the
models show them: where a property has an exception, or a bound that seems odd, one of
these is the reason.

**Ledger, freeze, review.** The audit writes a new ledger with the debts of its own run only
(`generate_constitution_audit.py:289`), where its header says "Alignment debt accumulates
transparently": it is one of the writers that `BlockingStands` excuses for not having seen what it
writes over. A settlement mitigates only debts with the status `open`
(`settle_alignment_debt.py:85`) and revokes the exceptions of its principles whatever else is there,
so that a debt in progress stays active and loses its exception. Killed between the two files it
leaves exceptions of debts it has cleared, which the next settlement of the principle takes away. It
creates the suite's ledger empty when there is none, after which `DebtClearer` no longer looks at
the local one. It leaves the total in the summary as it was, so that it may be too large;
`TotalCoversDebt` says it is never too small. A recorded review is never found again, since
`_get_request_for_decision` returns None (`human_review.py:459`): the answer is the automated
verdict's as soon as no request is pending, and one approval ends a request of any tier ("Two
reviewers", `human_review.py:31`).

**Release record.** The shipped principle `< block_threshold` names a metric where a number is
needed, and evaluation raises when the metric is there (`NoNumber`). "Missing metric is a soft
violation", says the comment (`constitution.py:67`); `evaluate_release` takes the enforcement of the
principle, so that it blocks when that is hard. `DebtFollowsVerdicts` exempts missing metrics. The
tracer knows `failure_rate` and `false_negative_rate` for worse when higher and takes every other
metric for worse when lower (`decision_trace.py:112-117`): given the `violation_rate` of the other
three judges it calls a drop a regression, traces `BLOCK` where the grader says `OK`, and passes a
rise. `VerdictsOrdered` asks for agreement only under a name the tracer knows. An entry added and
resolved in the window of a trend counts as resolved only. The gaming detector takes every metric
for one where higher is better, calls a uniform regression of three metrics a localized improvement,
and lets constant scores pass with a correlation that is not a number; no hacking check has the
severity that would block. Runs with equal timestamps come out in reverse (`history.py:109`), and a
breach in 0 releases is falsy and so only monitored (`history.py:271`). With a negative threshold
for the average first failure any decrease blocks. A rollback is written into an entry after it was
hashed, so that the audit reports it as tampering; incidents and rollbacks go to the first entry of
a release, also when a later decision about it led to them. The memo of a blocked release still says
"APPROVED_WITH_CONDITIONS"; the package's `verify_integrity` is always true, `MEASURE-2.2` needs no
evidence, and an artifact after `finalize` makes a hash that was handed out stale.

**Production loop.** A gate that raises (no average first failure against a baseline with one) exits
with 1, which the pipeline documents as "WARN (release allowed)". A run whose parquet results are
missing passes with 0. The severity of a difference uses its absolute value, so that an improvement
can warn or block; the regression thresholds never apply, because their names end in `_delta`. A
batch without results divides by zero before it saves. Run ids have a resolution of one second. An
alert whose log write fails is suppressed afterwards, because the key was claimed first, and the
loop dies with `_running` still set; starting twice leaves a loop that nobody joins. A mere alert
suppresses a full rollback for the cooldown. `pipeline.py` raises for incident types without a hook,
so that no test is generated. Nothing in the lab runs a test, although debts are to be cleared when
mitigations are "verified working" and after "verifying the regression tests pass"
(`debt_clearing.py:15`, `367-368`): `ClosedLoop` only asks that the test is on the disk. Clearing
debts alone names as evidence a test that need not exist, records "regression_promotion" as the way
it was mitigated all the same, and the evidence already in an entry is never looked up; an entry
without a field for evidence gets none. A second debt of the same incident waits for a second
clearing. A promotion cut short while it writes over an old test leaves it truncated, and
`verify_regression_coverage` raises on it, whatever the other cases are. The severity matrix asks
for a technical severity by its name in some rows only (`severity_scoring.py:137, 157, 166, 174`): a
medium incident with few users is SEV2, a high or critical one SEV3; a high one with hundreds of
users is SEV1, a critical one SEV2. `GradesOrdered` leaves these out (`Overlooked`). The causal
graph looks for marks that the shipped incidents do not have, and `get_causal_chain`, documented as
"trigger → propagation* → harm", has the bypassed safeguard in third place; taking away a useful
safeguard is ranked as a mitigation. Ranked by confidence times impact, a sure mitigation (0.9 times
0.7) goes before an unsure prevention (0.5); this needs two stricter policies in one call of
`engine.analyze`. With the default parameters a test that triggered five times never retires.

**Simulator and stress tests.** `run_agent.py:32` passes a parameter that `AgentExecutor` does not
take; nothing evaluates the escalation policy during a run. A majority or a weighted composition can
outvote a hard stop, which is why `GuardsTighten` speaks of the most restrictive rule; with a
sensitivity below a tenth the adapted policy lets pass a drift that the default rules block. The
conflict detector lets the smaller priority win, the policy engine the larger. `policy_dsl.py:135`
documents "not", which no condition with a comparison can use. Two chaos runs draw independently, so
that corrupting the latency only can be graded catastrophic; dropping the middle layer changes
nothing; an experiment that raises is left out of the summary, which can then be PASS. A partial
loss of at most half of the blocks counts as "safety maintained". The simulated refusal of the
stress tests is classified as hedging, never as compliance; a refusal outweighs any violation that
comes with it. `calculate_recovery_failure_rate` looks for statuses in capitals that no rollout
carries (`rollout.py:16-20`), so that its rate would be 0; nothing calls it and it is not modelled.

## 7. Not modelled

- Rendering, logging, plotting: dashboards, incident reports, diagrams, telemetry, the demo with its
  prepared numbers. They keep no state and nothing reads what they write but people.
- Statistics over finished runs that no decision reads: failure mining, coverage of the attack
  taxonomy, power analysis, cost and latency, effect sizes.
- The return-on-safety scripts: arithmetic on money, once, over files that others wrote. The board
  report's generator always raises a `TypeError` (`templates/board_report.py:479`).
- Texts: attacks and their mutations, scenarios, prompts, reasons and recommendations. A text is
  what the code finds in it.
- Within modelled parts: `time.time` set backwards, the summary printed by `run_batch` for a job
  list without cases, expiry of an accepted debt, the SLO check's annotations in `DebtLedger`, the
  blast radius of exceptions and their audit log, the identity and the reasons of reviewers, the
  texts of the agent's history, reading of configuration and data sets, the HTTP clients (stubs).
