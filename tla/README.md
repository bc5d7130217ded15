# A verification of BDB AUDIT

BDB AUDIT runs an audit campaign over a product: it hands out work to lanes (people or language
models outside the program), takes their results back as ZIP archives, and keeps everything it
accepts in one append-only *canonical history* in a SQLite file. Nothing is done until a commit
of that history says so; every service first reads the history at a *cut* (an accepted head),
then asks the store to accept a command built on it.

The program has no threads, no async code and no file locks. Its concurrency is that of
**several processes** (the command line, the terminal interface, a second operator) on one
database, each of which may be killed at any moment, lose an answer, time out on the lock, and
be started again. Almost every service has the same shape, *read a cut, decide, read the head,
send*, and almost every hard question is what happens when another commit, or a death, falls in
between.

This directory models that core in TLA+, model-checks it with TLC and proves the properties that
matter most with TLAPS. `PROJECT.json` is the index: components, runs, mutants, the map from
definitions to source lines, findings, hazards and theorems. Paths below are under
`src/src/bdb_audit/` unless they say otherwise.

## 1. Inventory

### The core: what is modelled

**Lifecycle projector** (`orchestration/fsm.py`). Pure: transition tables of four aggregates
(campaign, stage run, lane run, attempt) and `project_states`, which replays accepted facts and
refuses an illegal, stale or terminal one. The store replays all accepted facts plus those of
the new command before it persists. *Hard*: duplicates, late facts, retries after a terminal
state. *Correct when* no order of accepted facts completes something that never ran, and no
terminal state is ever left.

**Canonical history store** (`history/store.py`, `history/closure.py`). State: the tables
`immutable_objects`, `history_commits`, `receipts`, `command_index` and `accepted_head`. One
operation changes them, `accept()`: BEGIN IMMEDIATE, replay of a known command identity,
validation of the whole closure against the head, five groups of writes with named persistence
boundaries (`HOOKS`), COMMIT, answer. `head()`, `commits()` and `accepted_records()` read.
*Hard*: death at a boundary, two writers, a lost answer and a resend, a cut that is older than
the parent head, references to rows that exist but are not accepted where they must be. *Correct
when* it behaves as an indivisible append to a log, whoever dies where, and what is appended
refers only backwards.

**Authority hooks** (`history/authority_hooks.py`). What the store asks of the objects of a
stage beside the checks above, whoever sends them. *Hard*: each hook sees one commit and what
was accepted before it. *Correct when* together they let no stage be completed by work that is
missing, foreign, used twice or not accepted.

**E1: preparation and result inbox** (`workflow/assignments.py`, `packaging.py`,
`package_resume.py`, `inbox.py`, the E1 part of `orchestrator.py`). A preparation has a stage
and its lanes specified, hands all lanes out by one commit, and publishes a package and a
receipt per lane; `resume_campaign` loads them again. An inbox opens (loads its cache),
`ingest_zip` (stage in the vault, find the assignment, look for an accepted result, admit
evidence, admit the result, reload; one retry after a head conflict), `ingest_multiple_zips`
(many archives, then complete E1). *Hard*: several commits and many files per call, look and
commit apart, exceptions that turn into a report, a cache that outlives other people's commits.
*Correct when* an assignment gets one result, nobody sets out to complete E1 once it is complete,
what is said to be accepted is, and what was cut off can be repeated.

**E2 to E5** (`workflow/manual_stage.py`, `stage_resume.py`, `stage_finalize.py`, `e2_*`,
`e3_*`, `scope_baseline.py`, `e5_runtime.py`, `orchestrator.py`). Ten phases in four stages.
`advance_to_next_stage` finds where the campaign is, prepares a phase (assignments, a grant of
what its packages show, then the packages), or hands the results that are in to the services of
their phase: seal, reveal, synthesis, shadow, contradictions, baseline, gap, cumulative,
holdout, fidelity, findings, candidate, challenges, completion. *Hard*: one call is many steps,
each on a cut of its own; two sessions; grants decided on a view that goes on changing. *Correct
when* no phase is done twice, nothing is shown before it was sealed and granted, and no stage is
completed by results that are missing or were made from something else.

**Campaign operations and continuation** (`coordinator/operations.py`,
`workflow/continuation_service.py`, `stage_service.py`, `stop/*`). `create_campaign`,
`prepare_stage`, `prepare_lane`, `evaluate_stop_gate`, and the continuation that says what is
next. *Hard*: every operation decides on a status, reads a head later and commits on that; the
STOP is decided from a projection of the history and decided again by the store. *Correct when*
the plan's order holds, a passed STOP was deserved when it was accepted, and advice can be taken
and ends.

**Campaign finalization** (`assurance/finalization_service.py`, the termination part of
`coordinator/operations.py`, `stop/operation.py`, the finalization basis in
`history/authority_hooks.py`, `project_finalization_progress`). `evaluate_stop_gate` (one
commit) and `conclude_campaign` (find or make a STOP, check its basis, then conclusion, final
assurance case and release qualification, each one commit that needs the one before; each is
looked for first, so that a repeated call resumes). *Hard*: deaths between the three commits,
two operators, material accepted in between, a resumed call with other arguments. *Correct when*
a qualification rests on one complete and fresh chain, no part exists twice, an interrupted call
can be completed, and an answer says what was asked.

**The engines**: components that share no state with the store or with one another. Bounded
exploration, stateful and property tests with their shrinking, crash tests, schedules and
replay, traces and endurance (`deepen/`); the tool supervisor and the experiments run by it
(`runner/`, `execution/adapters.py`); the raw vault (`vault/`); the evidence graph, hypotheses,
adjudication and the three pipelines from an execution to a finding (`evidence/`, `hypothesis/`,
`adjudication/`, `execution/`); the ensembles in memory (`orchestration/native_ensemble.py`,
`e3*.py`). *Hard*: a target process beside its supervisor, files published one by one,
propagation interleaved with new edges, callers who still hold old revisions, lanes that report
and ask in any order.

How they interact: E1, the stages, the operations and the finalization are clients of the store;
the store calls the projector inside its transaction and the authority hooks after the closure
checks; the read models read the history at a cut and tell the operator what to do next. There
are no callbacks and no shared memory: the history, and the package files beside it, are all the
processes share. The pipelines call the evidence graph and adjudication; the ensembles call
adjudication.

### The rest of the repository

`PROJECT.json` lists all 35 components, each with its files, its status and the reason.

| group | standing |
|---|---|
| exposure and grants in memory (`knowledge/`, `orchestration/capability`) | not modelled yet; the grants of the stages are in the stage modules |
| attack graph and scheduler (`attack/`), inventory and coverage | not modelled yet: pure functions over documents |
| successor campaigns, replay (`history/successor`, `history/replay`) | not modelled: no caller accepts what they build |
| schemas, identity core, specifications of stages and lanes | not modelled: validators of immutable documents, no behaviour beyond refusing |
| strategy, incremental, remediation, reports, views, opportunities, features | not modelled: pure, read one cut |
| command line, terminal interface, source acquisition | not modelled: I/O around the services |
| qualification, self-audit, release validator, the frozen legacy wrapper | not modelled: offline scripts and a copy of an older program |

"Hazards" in `PROJECT.json` names 40 things that are hard to test, each at its line, with the
properties that would catch them.

## 2. Plan

Done: the lifecycle and the store with the abstract history; E1 from its preparation to its
completion; finalization; campaign operations with the STOP gate and the continuation; the
phases of E2 to E5; the engines; and the proofs of section 5, which state every invariant a
passing run checks, some of them under a condition the theorem names.

Left, in this order:

1. A theorem that the admissions of `StageAdmission` suffice for a client of `StagePhases`:
   today the two model the hooks from the two sides, and nothing connects them.
2. `Exposure` (which corpus a lane has seen) and the attack scheduler, as small machines of the
   engines' run.
3. The preparation of stage and lane specifications in one model with E6.

## 3. Modules

```
LifecycleRules ─── Lifecycle
      │
HistoryRules ─┬─ AcceptedHistory ──── AcceptedHistoryProofs
      │       └─ HistoryStore ────┬── MCHistoryStore
      │            (refines)      └── HistoryStoreProofs

E1Inbox ─── E1Campaign ────────────── MCE1Inbox, MCE1Campaign, E1InboxProofs
Finalization ──────────────────────── MCFinalization, FinalizationProofs
StopRules ─ CampaignOperations ────── MCOperations, OperationsProofs

StagePhases ┬ E2Phases ────────────┐
            ├ E3Phases ─ E3Results ┼─ StageCampaign ── MCStages, StageCampaignProofs
            └ E5Phases ────────────┘

Lifecycle   Explorer ─ ModelTests   CrashHarness   Schedules   TraceRules   ┐
ToolRuns    Vault   StageAdmission                                          ├ MCEngines,
EvidenceGraph ┐                                                             │ EngineProofs,
Adjudication ─┼─ FindingPipelines                                           │ RecursionProofs
      └────── BlindEnsembles                                                ┘
```

A definition whose comment begins "Faulty variant" is a plausible bug in the code. No behaviour
uses it; `PROJECT.json` pairs each with a property that must fail when it replaces the right
one.

### LifecycleRules, Lifecycle

`Edges` and `Terminal` are the tables, `legal_transition` and `Projects` the functions of those
names; `ProjectionAccepts` is "`project_states` raises nothing". `Lifecycle` is the log of
accepted facts: it grows by one fact the projector takes. The explicit checks of
`legal_transition` for GENESIS, E0 and lane READY repeat what the tables already refuse and are
not written twice.

### HistoryRules, AcceptedHistory, HistoryStore

`HistoryRules` has one operator per check of `accept()`, and `Admissible` is their conjunction.
Digests are modelled by what they determine: a commit hash covers the commit and through
`prev_history_ref` all before it, so it *is* the sequence of jobs committed; the envelope digest
covers the command and *not* the objects sent with it, as in the code. Only the references and
the cut of an object matter, so an object is a name with a `Shape`.

`AcceptedHistory` is the abstract specification: a log and the acknowledgements given, with
`Accept` and `Acknowledge` indivisible.

`HistoryStore` has a process per connection. `ReadCut` and `BuildCommand` are the caller's two
reads; `Begin`, `Replay`, `Validate`, `Reject`, `InsertObjects`, `InsertCommit`,
`InsertReceipt`, `MoveHead`, `CommitTransaction` and `Return` are `accept()` cut at its `HOOKS`;
`Crash`, `Resend` and `StartOver` are death and its two sequels; `BusyTimeout` is SQLite's. `db`
is what is committed, `txn` what the open transaction sees. The refinement maps `db.commits` to
`log`.

### E1Inbox

`imp[p]` is the place of process p in the code, the archives still to import, the head or cut it
holds and its cache. `_current_cut` is two reads, `head()` and `commits()`, and raises if a
commit falls between: `ReadHead` takes the head, the step that uses it requires it still to be
the head (`AtCut`), and `CutLost` is the exception. A send is likewise `ReadHead` and then the
command. `Failed` is where an exception goes: inside `ingest_zip` it becomes a REJECTED report,
elsewhere it is raised. `Elsewhere` is a commit of another operator. `accept()` is indivisible
here: the theorem StoreImplementsHistory says that it may be.

One state is simplified: a load that raises in the middle leaves in the cache the lanes it had
reached; the model drops them, since such a history never loads again (the comment at `Loaded`).

### E1Campaign

`E1Inbox` with what comes before it. `plan` is what is accepted between the genesis and the
hand-out, `packages` and `receipts` what is published, `prep[q]` where a preparer is. Each step
of `Prepares` ends at a commit or at one file: the status is read, the stage specified, each
missing lane specified, all lanes handed out by one commit, then packages and receipts appear
one by one. `Loads` is `load_e1_batch`, `ResumeSays` what `resume_campaign` answers. A preparer
may be stopped anywhere and called again, with another model. A package is its lane and
settings: the digest of its bytes covers these and not the cut of the moment.

### Finalization

The log holds the kinds of commit the service looks at; audit work of any other kind is
`material`. References are sequence numbers. `op[p]` is the call a process is in. The store's
demands are `StopAdmitted` ... `QualificationAdmitted`: bound to the exact head, the references
accepted before, the STOP basis fresh (`Basis`) and the termination state earned (`Earned`). The
verdict of an evaluation is any in `Verdict`: the caller chooses the candidate case and
challengers, and the evaluator is a component of its own. `Progress` is
`project_finalization_progress`.

### StagePhases, E2Phases, E3Phases, E3Results, E5Phases, StageCampaign

A session of an operator (`op[p]`) has its open batch, what its inbox knows, and `todo`, the
rest of the call it is in. A call is a *sequence of steps*: a step reads a cut (`ReadCut`),
decides on it, and sends at most one command that names this cut; the store takes it only if
that is still the head (`Commits`). So what a step looked for and what it commits belong
together, and what two steps do does not: that is where deaths and other sessions come between.
The kinds of `Unbound` are the exception: their commands are built on a head read after the cut,
and only their command names keep them unique. A commit is `[kind, phase, basis, ...]`, and
`basis` names the commits a view was made of: two views are the same exactly if they are built
from the same commits. `packages` and `receipts` are published file by file, after the
assignments and the grant, and resumption reads them.

`StagePhases` has what is alike in all phases: assignment, publication, import in two commits,
resumption. `E2Phases`, `E3Phases`, `E3Results` and `E5Phases` have one step per service.
`StageCampaign` is `advance_to_next_stage`: `Decide` and `Check` turn the place of the campaign
into the steps of the call. `Prepare` is a direct call of a `prepare_...` method, out of turn or
not.

### StopRules, CampaignOperations

`StopRules` is pure: the STOP input of a cut as the builder takes it and as the store derives it
again, and `Decide`, the evaluator. `Clean` says the same as a pass, record by record, without
the projection: the reference the decision is compared with. `CampaignOperations` has the
operations as calls of three steps (status, head, command) and the continuation, which reads the
store twice. The work of the stages is a record or a completion that appears.

### The engines

| module | code | state | a step is |
|---|---|---|---|
| `Explorer` | `deepen/state_model.py`, `exploration.py` | the search: frontier, seen, counters, verdict | one transition tried, or one bound hit |
| `ModelTests` | `deepen/adapters.py` | a stateful or numeric test and its shrinking | one event on both sides, one removal tried |
| `CrashHarness` | `deepen/crash.py` | records, head row, the test under way | one statement of the transaction, a death at the boundary, the second send |
| `Schedules` | `deepen/concurrency.py` | the schedule being drawn, the replay cache | one point drawn or run |
| `TraceRules` | `deepen/temporal.py`, `endurance.py` | the trace, the endurance run | an event, a sample |
| `ToolRuns` | `runner/*`, `execution/adapters.py` | the call, the target, the evidence directory, the results | one poll, write, exit, tick of the clock, kill, or file |
| `Vault` | `vault/raw_store.py` | the blob, the metadata, its temporary name, each put | one system call |
| `StageAdmission` | `history/authority_hooks.py` | the accepted objects, commit by commit | a commit of one or two objects any client sends |
| `EvidenceGraph` | `evidence/graph.py` | standing, edges, the propagation's queue | a node, an edge, an invalidation, one node degraded |
| `Adjudication` | `adjudication/*` | decisions, cases, resolutions | one decision, opening, resolution, reopening |
| `FindingPipelines` | `execution/fuzzing.py`, `differential.py`, `metamorphic.py`, `hypothesis/*` | executions, hypothesis chains, what transitions answered | an execution, a revision recorded, a transition, a pass of the pipeline |
| `BlindEnsembles` | `orchestration/native_ensemble.py`, `e3*.py` | brokers, convergence, knowledge, blind runs, gates | one call of a broker, reveal, scheduler or gate |

`TargetWrites` and `TargetExits` are the target's, which runs beside the supervisor's polling
loop: that is the concurrency of `ToolRuns`. In `StageAdmission` a reference *is* its target,
since a digest determines it, and the cut of an object is a sequence number; the client is
anyone, so objects of every combination are sent and only the hooks decide. The evidence graph,
the decisions, the cases and the pipelines are joined in `FindingPipelines`, where invalidations
come between the steps of a pipeline's callers. `BlindEnsembles` extends `Adjudication` for the
convergence.

## 4. Runs

Every passing run's properties have a mutant each: the run must fail when the mapped definition
is replaced by its faulty variant. States are distinct states.

| run | instance | asks | states |
|---|---|---|---|
| `store_accept` | two regimes: one living process tries 12 jobs, five of them illegal or illegal in most orders; two processes race three jobs and may die at every boundary | TablesAgree; CommandsOnce; HistoryIsSound; ImplementsAcceptedHistory | 55 k |
| `e1_campaign` | two lanes, two models; one preparer that may return with another model beside one importer, or two preparers with one model; two rival archives, one other, one malformed | OneResultPerAssignment; PreparedResumes; ImportReturns; PreparationRecovers | 60 k |
| `inbox_race` | two importers, one lane, two rival archives | ReportsAreBacked; NoneCompletesAgain; ReimportRecovers | 291 k |
| `final_conclude` | two regimes: one operator with four wishes and two statements over two STOPs; two operators at once, of one STOP; one material | QualificationIsEarned; OneChainPerStop; SuccessIsAsAsked; RepeatedCallsComplete | 134 k |
| `stages_advance` | two operators, one lane per phase, beginning before E2, E3 or E4; alone with one death or direct call, or racing | OncePerPhase; GrantsFollowSeals; StageOrder; ResultsUnderTheirGrant; CompletionsAreEarned; ChallengedWasNewest | 229 k |
| `operations` | three regimes: two operators race from four points of a campaign; one evaluates STOP while records come in; one follows the continuation's advice | BaselineInOrder; ReportsAreTrue; AdviceIsPossible; PassIsEarned; FollowedAdviceEnds | 186 k |
| `engines` | each engine alone, all others at rest | fourteen properties, one or two per engine | 207 k |
| `inbox_two_results`, `final_two_conclusions`, `stages_interrupted`, `stages_gap_records`, `operations_plan` | as small as shows it | one property each, **violated**: section 7 | |

### What they show

- `store_accept`: the committed tables agree at every moment whichever process died at whichever
  boundary; commands are committed once under resends on old and new heads; the chain is intact,
  cuts and references go strictly back, the context stays, answers speak of commits; and the
  transactional store implements the abstract history. Jobs that must be refused (a second
  initialization, a reused identity, an object taken as accepted in its own commit, a foreign
  cut, another policy) are tried in every order around the legal ones.
- `e1_campaign`, `inbox_race`: a prepared campaign resumes whoever died where; a preparation
  that is called again gets there; one importer accepts one result per assignment. With two
  importers both may complete E1, and the run has the states in which they do; neither sets out
  to do so once E1 is complete, so that it stays at one completion for each. Reports and caches
  still only speak of the history, and repetition recovers.
- `final_conclude`: a chain is made once, fits together, is earned, answers as asked, and is
  completed by repetition after any death.
- `stages_advance`: two sessions do nothing twice that is done once; grants follow the seals of
  their blind phase; results were made under a grant that shows what their package shows; a
  completion names every result of its stage; challenges are about the newest candidate.
- `operations`: stages are prepared in the plan's order although each operator decides on an old
  status; a passed STOP was deserved up to the commit before it; what the continuation advises
  is not refused and ends in a conclusion.
- `engines`: an EXHAUSTED search covered everything and a counterexample is shortest; a shrunk
  test fails and nothing shorter by one does; a crash test leaves its record once; a replay is
  of its schedule; constraint verdicts agree with each other; an observation comes from the run
  it names; a receipt is of published bytes; a completed stage has the work it needs; nothing
  counts that rests on what was invalidated; a finding has its failure, observation and
  hypothesis; revisions of a hypothesis are not rewritten, nor is an answered transition undone
  by what others record; what is blind saw nothing, what passes a gate is what was sealed, and
  knowledge is accounted for although one manifest may be shown again and again.

### Bounds

Bounds are constants and appear in guards; every one of them disappears in the proofs, which
hold for every value.

- *Store*: none needed; command identities are committed once.
- *E1*: `MaxElsewhere = 1` foreign commit. The importer works while no preparer is in a call and
  preparations begin while no inbox is open: the two touch each other through the history only,
  and the theorems of section 5 hold without this. Two preparers race with one model (section 8
  says what two models do).
- *Finalization*: `MaxMaterial = 1`; `MaxStops = 2` stops *new* evaluations, those under way may
  exceed it. At once, both ask alike, of one STOP: that is the race; calls that ask for
  different things are made one by one.
- *Stages*: one death or direct call per behaviour (`MaxTurns`), one package beyond the first of
  its lane (`MaxCopies`), one material commit, not before E2 is complete since no earlier view
  is built from it. In the race, results are those of a straight course and are imported while
  the other session is between calls; the race of two imports is E1's. `Direct` has a direct
  call for each kind of preparation; E2-CONTRADICTION and E5B-CHALLENGE are prepared in turn.
  The three beginnings cut the course of a campaign where nothing of the earlier stage but its
  completion is read. One lane, because more lanes multiply states and add no step; the proofs
  have any number.
- *Operations*: two commits after the beginning in a race, two records and one STOP at the gate;
  four beginnings (empty, after E1, in E5, ready to pass).
- *Engines*: five lifecycle facts complete an aggregate and leave one for a duplicate; every
  state model of at most three of five transitions, and two with a counter, under bounds that
  are never and that are early reached; traces of five events; two experiments, or one and a
  death; two deaths of putters; E1 and E3 with a required and an optional lane, one object of a
  kind, and two discoveries in E3 (one sealed, one directed); three edges and two invalidations;
  three reports to converge; four revisions that callers hold (`Held`: two under numbers of
  recorded ones, two that leave numbers out), numbers up to four (`MaxRevisions`); two manifests
  (`Manifest`), one of them the first gap projection, and four reveals (`MaxReveals`), which
  leave room for the gaps, the corpus by one manifest twice, and a holdout by any, also on two
  branches of one attempt. `MCEngines` says at each instance which cases it has. One
  discovery of a lane has a foreign field at a time.

`CHECK_DEADLOCK FALSE` is set where the bounds or the end of a campaign stop everything (stages,
operations, engines).

### Fairness

A process that is not killed runs the call it is in to its end: weak fairness of the steps of a
call (`Accepting`, `Working`, `Prepares`, `Supervising`), per process, since the code has no
wait other than SQLite's busy timeout and the operating system runs the process. The clock of
the tool supervisor runs; nothing is asked of the target, which may never write or exit. Nobody
has to call, and nothing makes a process die, time out, resend or commit elsewhere.

ReimportRecovers, PreparationRecovers and RepeatedCallsComplete assume, inside the property,
what an operator would: deaths, timeouts (and new material) end at some time, and the call is
repeated. A refusal by the code itself is not counted as a disturbance, so that a call which is
refused for ever would violate them. FollowedAdviceEnds has one fair operator who does what he
is told, and stages that are completed when he waits for them.

## 5. Proofs

All theorems hold for every value of the constants, under the named assumptions of the modules
(sets are of their kinds and, where a cardinality is taken, finite; `Nobody` is no process; a
beginning of `CampaignOperations` is lawful). No theorem takes anything else on trust.
`PROJECT.json` lists 47 of them; the pattern is always an inductive invariant that is stronger
than the properties, preserved by each action, from which the properties follow.

**The abstract history** (`AcceptedHistoryProofs`). The conjunction of its safety properties is
inductive: an admitted command extends the head by the hash of head and command, has an identity
not committed before, a context equal to its parent's, cuts that are the head or the hash of an
earlier commit, and prior references into accepted rows. *Invariance, HistoryOnlyGrows.*

**The store** (`HistoryStoreProofs`). TablesAgree is not inductive: COMMIT makes the open
transaction durable, so the invariant says what it holds at each boundary (`Staged`), that only
the holder of the lock is inside one (`OneWriter`), and that what validation decided still holds
at COMMIT (`Decided`), because under the lock nothing changes. `Durable` is what the answer
rests on. *TablesAlwaysAgree, StoreTyped.* For the refinement, COMMIT maps to `Accept` and an
answer to `Acknowledge`; the one gap is that a request may carry a cut read before its parent
head, and *StaleCutIsHarmless* closes it: such a request is admitted only if it is the one built
on the head itself. *StoreImplementsHistory*, and through it *CommittedHistoryIsSound* and
*CommandsCommitOnce*: the abstract invariant holds of the committed tables.

**E1** (`E1InboxProofs`). For any number of importers, `Backed` (a report, the cache and the
step before a report are about commits that exist) is inductive since the log only grows:
*SaidIsAccepted.* For one importer, `Unrivalled` adds that between its look and its commit there
is no result of the lane, and between the summary and the completion no completion:
*AloneOneResult, AloneOneCompletion.* With two importers exactly this step fails: for results
`inbox_two_results` shows how. For completions, what is left is proved for any finite number of
importers: those between the decision and the commit are counted (`Finalizing`), a commit moves
one of them among the completions, and once there is a completion no summary lets another in.
*NoInboxCompletesAgain.* In a campaign, each step is a step of the inbox or leaves its
variables alone but for commits the inbox does not look at, so that the invariants carry over:
*CampaignsSayWhatIsAccepted, CampaignOneResult.* *PreparedCampaignsResume* rests on `CInv`:
every published package has the settings handed out (`FilesFit`), and a preparer at its n-th
file has published all before it (`PublishedUpTo`). Its hypothesis (`NoRivals`: one preparer, or
one model) is needed: section 8 has the race.

**Finalization** (`FinalizationProofs`). `Linked` (each commit refers to earlier ones about the
same STOP, and earned them) and `Once` (no part twice) are not inductive without `Missing`: a
call about to send a part found none up to its cut. The store takes the part only if the cut is
still the head, and there lies the whole protection against a race. *QualificationsAreEarned,
ChainsAreSingle.* That a call which says SUCCESS names a chain of what it asked for also when it
resumed someone else's is a second invariant over the first (`SInv`): what a call holds at each
step agrees with its wish and statement, or is its own. *CallersGetWhatTheyAsked.*

**The stages** (`StageCampaignProofs`). In two parts. The first needs of a session only the step
it is at: a commit is accepted at the exact head, so what the step saw at its cut is what the
commit finds before it; the two kinds without this bond are unique by their command names.
*PhasesAreDoneOnce, StagesFollowEachOther.* The second cannot do with the last cut: a grant
rests on a check some steps before, a package on an assignment and a grant, E2's completion on
decisions and successors of other cuts. Its invariant `Fine` says of each commit what it has to
be at its place in the log, of each package that its lane was assigned and granted, and of each
session that what the rest of its call relies on is either in the log or *ahead of it in
`todo`*; a step takes the head of `todo` off, and the proof shows that it made what the tail
needs. *StagesAreOfType, NothingIsRevealedEarly, ResultsAreGranted, NewestIsChallenged*, and
*StagesAreEarned*, on the condition that no lane of the contradiction phase has two results: the
import of two rivals at once is possible there as in E1 (finding 1). The condition is stated in
the theorem, about the log.

**Operations** (`OperationsProofs`). Histories only grow, so a status is a prefix (`OInv`). The
stages before one that is about to be sent were prepared at that prefix, and stay prepared.
*StagesInOrder, ReportsAreBacked, AdviceCanBeTaken.* That a pass is earned is two facts: the
decision on a cut is `Clean` there (*PassIsClean*, by cases over the evaluator), and admission
makes the cut the commit before. *PassesAreEarned.* That no STOP requires E6 (finding 5) is part
of the invariant and not an assumption.

**The engines** (`EngineProofs`), each with an invariant of its own:

- *Lifecycle*: an edge into COMPLETED starts at a candidate, and one into a candidate at
  RUNNING; so a completed aggregate's facts have a running one first (`RanFirst`), whatever
  duplicates lie between. *CompletionsAreLegal, TerminalStatesStay.*
- *Tool runs*: `ToolInv` says by phase what is in the evidence directory and of which run.
  *ObservationsAreReal.* *Vault*: `VaultInv`, with the metadata of the one put at work unless
  two ever overlapped. *ReceiptsKeepTheirWord.* *Crash harness*: `CrashInv` by the call's place
  and the outcome. *TestsCommitOnce.* *Schedules*: what is drawn is a prefix of an interleaving,
  and a cache entry one that was completed. *ReplaysSpeakOfTheirs.*
- *Admission*: `AdmissionInv`: an object is accepted once (`OnlyOnce`) and names only what was
  accepted no later (`NamesEarlier`), and a seal held all there was of its assignment
  (`SealsAreWhole`). With these, what a hook saw in its own commit and before is all there is to
  see. *AdmissionIsEarned.*
- *Findings*: a chain is numbered upwards (`InLine`), and what a transition answered is a pair
  of neighbours in it (`Adjacent`). A chain only takes what is numbered after all it holds, and
  no number lies between a revision and its successor, so neighbours stay neighbours whatever
  else is recorded. What a pipeline decides about was recorded before. *FindingsStayEarned.*
- *Ensembles*: a lane is shown others only after the seal and records nothing then, and an
  answer for the checkpoint is the one seal (`SealHolds`): *LanesStayBlind.* A partition of the
  claims by their key: *ConvergenceStaysEvidenced.* States of knowledge form chains, and
  each exposure in them was made by a reveal to the very state it names, of the gaps first, then
  of the corpus, then of a holdout (`Happened`, `Accounted`, `Scheduled`). Nothing is assumed of
  the manifests, which may be shown any number of times:
  *KnowledgeStaysAccounted.* The three together are *EnsemblesStaySound.*

**What computes over data of any depth** (`RecursionProofs`). A pass over a sequence or a walk
of a graph is a recursive function, and a theorem about it is an induction. The library's
induction theorems cannot be used here, so each is an argument from a least number that would
refute the claim (`Counting`, from the well-foundedness of `<`), in three parts: the function
exists, a step of it continues those before, and the invariant of the component uses that.

- *Traces*: `InOrderIs` says what the one pass of STRICT_ORDER finds; the endurance classes
  follow from the phase. *VerdictsStayTrue.*
- *Tests*: the events executed so far are a run on both sides, and one event more goes on where
  it ended (`RunBothGrows`), so the prefix handed to the shrinking fails; from there the
  invariant says that the present sequence fails and which removals were tried without a
  failure. *ShrunkStaysMinimal.*
- *Exploration*: the queue is ordered by depth with at most one layer between its ends
  (`OrderInv`), every node of it is a path of that length (`QueueInv`), and what was visited and
  is no longer waiting has its successors visited (`CoverInv`). So everything within the depth
  of the first waiting node was visited (`LayersCovered`): nothing shorter was passed over, and
  an empty queue that no bound cut has seen everything. *ExplorationStaysSound.*
- *Evidence*: while a propagation is under way, what is degraded is closed along the edges it
  has seen but for the queue, and everything degraded lies downstream of an announced root. The
  search for circles is defined by a recursion that ends because a call has fewer targets left
  or a longer stack (`RanksFall`); what it has left behind is closed and circle-free, and every
  node of the stack depends on every target (`Given`, `Returned`), so that it reports a circle
  exactly if there is one (`SearchFinds`). *EvidenceStaysSound.*

**Only model-checked.** All liveness (PreparationRecovers, ImportReturns, ReimportRecovers,
RepeatedCallsComplete, FollowedAdviceEnds, RunsReturn), which is out of the prover's reach. The
five violations are TLC's counterexamples. Folding `FactsOf` is never unfolded: no proof needs
what the projector says of a whole log, only that both specifications of the store ask it the
same question; what the projector does with one log is the theorem about the lifecycle.

## 6. Reading the model against the code

The `map` gives the lines of every definition that models code. Conventions:

- An action is a whole stretch of code between two points at which another process can be seen
  to act, that is between two calls of the store or two files; everything the code does in
  between belongs to it.
- An exception ends the call: `Failed` (inbox), `Raises` (stages, operations), and the ELSE
  branches to `Idle` (finalization).
- A reference by digest is the thing itself; a view is the set of commits it is built from.
- A vault put is idempotent by content and has no action in the clients; the vault is modelled
  by itself.
- The text of documents, their field validation, wording and layout are left out. That a
  document may be refused for them is `Malformed` for archives; a result whose contents its
  phase refuses is one that says "unusable".

## 7. Findings

Each is a run that TLC refutes with the code's own steps.

1. `inbox_two_results`. The look for a result of the assignment and the commit are apart
   (`inbox.py:468-504`), and the command identity has the archive's digest: two operators get
   two results of one assignment accepted. Every later inbox raises
   MULTIPLE_RESULTS_FOR_ASSIGNMENT.
2. `final_two_conclusions`. Neither the service nor the store asks whether the campaign is
   concluded: another evaluation and conclusion are accepted after COMPLETE, and the status
   becomes BLOCKED, MULTIPLE_TERMINAL_CONCLUSIONS, for ever.
3. `stages_interrupted`. Assignments, grant and package files of a phase are made one after the
   other (`manual_stage.py:1534`); after a death in between `resume_campaign` refuses what it
   finds, and so does the terminal interface.
4. `stages_gap_records`. The finalization of E3 names the lane results and checkpoints as
   outputs, and the store wants a discovery record among them (`stage_finalize.py:297`,
   `authority_hooks.py:903-918`): the completion is refused, whatever the gap phase found.
5. `operations_plan`. E6_REQUIRED is decided with an argument the STOP input does not hold; the
   store decides again without it (`history/store.py:656`) and refuses. No E6 can be prepared
   through the store.

## 8. Limits

Left out of the modules:

- The store's integrity scan (`commits()` re-hashing what it reads): a file altered behind the
  program's back is outside the model, and SQLite is trusted to commit or roll back as a whole.
- A second resume inside one session, and a STOP after E5, in `StageCampaign`; the preparation
  of stage and lane specifications beyond their existence, and E6's contents, in
  `CampaignOperations`.
- Slots of insufficient isolation (`Insufficient`) are empty in the E1 runs; they only ever
  prevent the completion of E1. The theorems hold for any.
- The E1 inbox drops what a load that raises in the middle had already put into the cache, since
  such a history never loads again (the comment at `Loaded`).
- Clients of the store do not meet the authority hooks of `StageAdmission`; a command refused
  there is, for them, one more refusal. Nothing after the completion of the stage is modelled in
  it.
- A target orphaned by the death of the caller, and one that leaves grandchildren (`ToolRuns`).
- `qualify_stage` always refuses and is no action. Unresolved references of the inventory's
  scope are a state of the scope.

Met while modelling, in the code as it is, and refuted by no run:

*Preparation and import.* Two operators who prepare E1 with different models: the command
identity `prepare_assignments:{seed_root}` covers campaign and head only, so the loser is
answered from the winner's commit and publishes packages of assignments nobody accepted; the
campaign cannot be resumed any more. A different name for the same commit gives a second package
per lane (RESUME_DUPLICATE_LANE_PACKAGE). After a lost race the second importer may report
REJECTED though the result is accepted. Two operators who both complete E1 both commit a
completion (`inbox.py:669`), and every inbox that opens later raises
MULTIPLE_E1_STAGE_COMPLETIONS (`inbox.py:255-257`): `inbox_race` reaches this, and
`NoneCompletesAgain` says how far it can go. `prepare_lane` takes a second specification of a lane
(`operations.py:397`), and a repeated one answers its own digest for a rival's body
(`operations.py:418`). `prepare_stage` can commit after a conclusion it did not see
(`operations.py:291-294`).

*Stages.* Results accepted after a phase was finished stay, also the rival result of a blind
lane (`manual_stage.py:2128`). A candidate frozen after contradictions were found, an E1 without
findings at the synthesis, and an E5 whose candidate is older than its material lead to steps
that are refused for ever. Exposure is not monotonic (`e3_gap.py:780-855`; the roadmap asks for
it, `src/F1_QUALIFICATION/inputs/BDB_AUDIT_V2_IMPLEMENTATION_ROADMAP.md:587`). With several
lanes a discovery may name the grant of the validating session's batch
(`e3_cumulative_result.py:485`). The store does not compare a result's findings with its
archive, accepts a lane of an optional slot that the stage completion then refuses, and refuses
ENFORCED isolation always.

*Operations and end.* CONCLUDE_CAMPAIGN is advised on a PASS that is stale; an INTERMEDIATE STOP
has the advice EVALUATE repeated. A finalization cannot be resumed after a `prepare_lane`
between its boundaries: the STOP basis is stale from then on.

*Lifecycle.* `project_states` ignores a fact about a terminated aggregate that ends in the same
state, also another fact than the one accepted (`fsm.py:203`).

*Engines.* `run_crash_test` reports RECOVERED_ROLLEDBACK also when the first send committed
without a crash or the record was there before. The output limit is not looked at after the
exit; an exit at the time limit is TIMEOUT with exit code 0. Growth from no memory at all is
STABLE. Two schedules whose seeds differ only in salt share an id. The explorer uses the first
initial state only, and the model side of a stateful test runs without variables. Two puts of
one digest share `.json.tmp`; `verify` compares a manifest by run and specification only. The
calibration's leakage guard can never fire. The pipelines take up an observation that was
invalidated and a hypothesis that was rejected and still decide CONFIRMED_CURRENT
(`fuzzing.py:334-419`). A hypothesis need not have been tested: `transition` records the revision
it is given (`hypothesis/orchestrator.py:98-99`) and `record_revision` compares numbers only, so
that PROPOSED 1, CONFIRMED 3, REJECTED 4 is recorded, or a confirmed draft after a rejection,
although the module promises "Exact predecessor/successor binding across revisions"
(`orchestrator.py:6`); the model has these chains, and `LineageIsKept` says what does hold of
them. `transition_finding_lifecycle` confirms with REFUTED axes (its docstring
says otherwise, `adjudication/engine.py:57-61`), and `adjudicate_finding` does not look at the
lifecycle of its `previous`. A differential result says it is independent also with a shared
oracle; `preregister_relation_spec` replaces a relation after runs. A refused cyclic edge stays
in the graph and has every later edge refused (`graph.py:199-203`), and an edge hung onto a node
already degraded is seen by no propagation.

*Ensembles.* The broker of E1 hands out its own records (`native_ensemble.py:103-121`);
isolation may be registered again after the seal; a blind ensemble of E3 can be run again with
the same contexts; the digest of a completion does not cover its attempts. The manifest of a
corpus or a holdout is taken unchecked (`e3_reveal.py:437-479`, `502-550`): it may have been shown
before, to this attempt or another, as either of the two, or name the gap projection; the model
has this, and nothing is claimed about the novelty of a view. A reveal may be made
to an attempt of another blind run, forks of a state of knowledge lose each other's exposures,
the scheduler does not compare its projection with the view revealed, and the gate compares
neither scheduler nor checkpoint. A contradicted group can still be CONFIRMED_CURRENT.
Duplicates of a discovery are counted in the code and are one element in the model.
