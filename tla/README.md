# DevCadence: specifications, checks and proofs

DevCadence keeps the state of a software project in an append-only journal of
typed events.  A principal (a person or a model behind MCP), the command line
and the executors all append to that journal through one control plane; a
reducer turns it into the canonical projection; executors run model sessions in
worktrees and report back with more events.  These TLA+ modules model that core
(the reducer, the transactional write path, the task and review executors with
their crashes and recoveries) and the services around it: model sessions,
worktrees, processes, validation, discovery, the flight recorder, setup, the
doctor, portfolios, planners and operator receipts.  `PROJECT.json` lists the
runs, the source lines behind each definition, the hazards and the theorems.

## 1. Inventory

| component | state it keeps | operations | talks to |
| --- | --- | --- | --- |
| task and attempt lifecycles (`internal/tasks`) | none: two adjacency lists | `CanTransition`, `CanFinishAttempt` | reducer |
| reducer (`internal/state`) | projection: tasks, attempts, proposals, evidence index, baseline, high watermark | one handler per event type, `Apply`, `Reduce`, `ProjectState` | called by the control plane inside a transaction |
| discovery projection (`internal/state/discovery.go`, `internal/principal/discovery`) | problem model, readiness verdict, questions, decisions | discovery events; a read-only analysis that folds them again | reducer, facade |
| event payloads (`internal/events`) | none | `Validate` per payload | reducer, control plane |
| control plane write path (`internal/controlplane`) | none of its own | `Apply`, `ApplyBatch`, `RebuildProjection`, batch guards | store, reducer |
| store (`internal/storage`) | SQLite: events, records, projection tables, the serialization row | `Write`, `WriteSerialized`, `Read`, migrations, export | SQLite; shared by processes |
| task executor (`internal/taskexec`) | per call and per attempt progress | `Delegate`, `runDelegate`, `failAttempt`, `Recover` | control plane, registry, policies, worktrees, model sessions |
| review executor (`internal/reviewexec`) | per call progress, review worktrees | `Review`, one dimension after the other, intent and terminal batches | control plane, registry, sessions |
| model sessions (`internal/cognition/drivers`, `sessionclients`) | meter, loop detector, messages, listeners | `ExecuteTurn`, tool mediation, pauses | task and review executor |
| project lock (`internal/execrt`) | a lock file | `AcquireProjectLock` | every executing process |
| operation registry (`internal/principal/facade/operations.go`) | running and completed operations, deadlines | `Start`, `Wait`, `Lookup`, `finish` with eviction, `Close` | executors, facade |
| worktrees (`internal/worktrees`) | directories, git's list, a manifest | `Create`, `Cleanup`, `Recover` | executors, command line |
| process runner (`internal/process`) | process groups, running operations | `Run`, `StartOperation`, `CancelOperation` | validation, tools |
| validation runner (`internal/validation`) | supervised services, results of checks | `RunProfile`, `ExecuteAndRecord` | process runner, control plane |
| flight recorder (`internal/flightrec`) | segments of checksummed frames, a queue | `AppendCritical`, `AppendDiagnostic`, `Flush`, `Close`, scan | executors |
| setup (`internal/setup`) | hash-chained ledger, the machine | `Apply`, `Recover` | planner, model runtimes |
| setup planner, doctor (`internal/setup`) | a cache of host profiles | `PlanWithContext`; `Run` | cognition adapters |
| cognition endpoints and routing (`internal/cognition`) | none: a function of what the machine answers | discover, probe, assess, route | doctor, portfolios |
| portfolios (`internal/cognition/portfolio_*`) | active portfolio, history, lineage, pending intent | propose, `Activate`, `Rollback`, recovery at startup | planners, command line |
| workflow and portfolio planners (`internal/cognition/workflowplanner`, `planner`) | none | `Plan` with a model's advice | sessions, portfolios |
| operator receipts (`internal/operator/receipts`) | signed statements, trust anchors, consumption records | `Verify`, `ConsumeOnce` | control plane |
| principal facade, context compiler, compaction, tools, execution policy, credentials, environment, benchmarks, MCP adapter, repository, command line | mostly none, or per call | see `PROJECT.json` | |

What is hard in it:

* **Sequences of legal events.**  Any client may append any event the reducer
  accepts.  A block, a new plan and an attempt that outlives both are each legal;
  together they test whether a candidate still belongs to the plan that is
  accepted, and whether "the" running attempt is unique.
* **Processes over one database.**  A plain write reads first in a deferred
  transaction, a batch takes the write lock first; both must see the journal they
  write to, retry only what did not happen, and tell the caller the truth about
  a commit whose outcome is unknown.
* **Reads before a slow step, a decision after it.**  `Delegate` reads the task,
  its attempts and the revision, resolves a policy and an endpoint, compiles a
  context, and only then journals the start.
* **Two-step outcomes.**  An attempt is journalled before it is scheduled and its
  outcome is journalled after it happened.  A crash, a lost commit, a full
  registry or a moved revision may fall in each gap.
* **Work that outlives its caller.**  An operation runs in its own goroutine under
  a deadline.  Its return, the deadline, the shutdown of the server, eviction and
  a restart that reuses its number race with a caller who holds its handle.
* **Recovery by journal state alone.**  `Recover` fails every attempt it finds
  running, which is right only if no one else executes.
* **Files instead of a database.**  The flight journal, the setup ledger, the
  portfolio folder, the worktree manifest and the profile cache are files.  Any
  write, sync or rename may fail, the process may die between two of them, and a
  power loss undoes what was not synced.
* **Evidence that outlives what earned it.**  A readiness verdict for an older
  problem model, an inference probe in a cache, an anchor file read at start, a
  clean tree that was checked a moment ago.
* **Two folds, two executors, two validators.**  The discovery journal is folded
  by code that refuses and by code that reports; tool calls are executed by the
  driver and by the loop around it; what a model proposes passes through defaults
  and two validators.  They must agree, or leave each other's work alone.

The properties that make each part correct:

* reducer: an accepted commit is explained by an attempt of the approved plan and
  by evidence about exactly that commit; one running attempt per task; history is
  immutable; the baseline moves only on a passing integration run.
* write path: a call lands whole, once, where its caller expected, and the answer
  says so; the stored projection is the fold of the journal; every call ends.
* task executor: no second model session over unknown effects, the attempt budget
  over the task's whole life, no worker without a journalled running attempt.
* operation registry: the limits hold, an operation in flight is never evicted, an
  answer is about the operation the handle was issued for, every operation ends,
  and the project lock is free only when none is left.
* review executor: one model session per candidate and dimension whatever calls
  overlap; a recorded review is about what its intent announced.
* sessions: a result was reached within the limits; no call runs twice.
* worktrees, processes, validation: work is not lost that nobody discarded; a
  finished command is finished; a pass is earned by every check and live services.
* discovery: the folds agree; a verdict is shown only for the model it is about.
* flight recorder: what was acknowledged survives, sequences only advance.
* setup, planner, doctor: an effect is settled before the next one begins; a model
  reported as installed is there; plans are valid; evidence is somebody's.
* portfolios, planners, receipts: active portfolio, history and lineage tell one
  story; advice never gets past the validators; one receipt, one effect, and a
  human behind it.

## 2. Modules

| module | what it is |
| --- | --- |
| `TaskLifecycle` | the adjacency lists of `internal/tasks` |
| `Reducer` | one action per journal event, over the projection (extends `TaskLifecycle`) |
| `ReducerProofs` | the theorems about `Reducer` |
| `Reduction` | the little the write path needs of the reducer: legality and the fold |
| `Journal` | abstract specification: the journal grows by whole legal bodies, each call at most once, and the view is its fold |
| `ControlPlane` | `Apply`, `ApplyBatch`, `RebuildProjection` over SQLite, from several processes (extends `Reduction`; implements `Journal` under `log <- journal, summary <- view`) |
| `ControlPlaneProofs` | the theorems about `ControlPlane`, the refinement among them |
| `Delegation` | the task executor composed with the reducer (extends `Reducer`) |
| `DelegationProofs` | the theorems about `Delegation` |
| `Reviews` | the review executor composed with the reducer (extends `Reducer`) |
| `ReviewsProofs` | the theorems about `Reviews` |
| `OperationRegistry` | the process-scoped operations, over restarts of the server |
| `RegistryProofs` | the theorems about `OperationRegistry` |
| `Sessions` | the turn loop of worker and reviewer, the meter, the driver and the mediator |
| `Worktrees`, `Processes`, `Validation` | where and how work is executed and judged |
| `Discovery` | the discovery events of the reducer and the analysis that folds them again |
| `ServiceProofs` | the theorems about `Worktrees`, `Processes`, `Validation`, `Discovery`, `Sessions` and `Planners` |
| `FlightJournal` | the writer of the flight recorder, and what a scan delivers |
| `Setup`, `SetupPlanner` | the executor over its ledger; the planner of what it executes |
| `Cognition`, `Doctor` | endpoints, probes, evidence and routing as operators; concurrent doctor runs over the cache (extends `Cognition`) |
| `Portfolios`, `Activation`, `Planners` | the validator's eight dimensions as operators; activation as file operations; planning with a model's advice (the last two extend `Portfolios`, which extends `Cognition`) |
| `DurabilityProofs` | the theorems about what outlives a process: `Setup`, `Activation` and `Doctor`; and about `SetupPlanner`, whose plans `Setup` executes |
| `Receipts` | custody, anchors, verification and consumption of operator receipts |
| `RecordsProofs` | the theorems about `Receipts` and `FlightJournal` |
| `PortfolioSamples`, `ReceiptSamples` | the portfolios, facts, answers, receipts and requests the runs enumerate |
| `MCReducer`, `MCControlPlane`, `MCDelegation`, `MCReviews` | instances and symmetries for TLC |
| `MCServices` | the twelve services side by side; `part` says which one moves |

Operators named "Mutation: ..." in a comment are plausible faults of the operator
below them.  No specification uses them; each one, put in the place of the right
operator, makes the property paired with it in `PROJECT.json` fail.

### Reducer

A variable per index of `state.Projection`, functions from the small sets of ids
to records with an "absent" slot.  `passing` and `approvals` are facts of the
journal that the projection forgets; they occur in properties, never in guards.
An action is one event: its guard is the conjunction of the handler's
preconditions (`requireTaskInState`, `requireAttemptOf`, `requireCandidate`, ...,
under the source's names) and the legality of the edge; its primed variables are
the handler's assignments.  An event the code refuses is an action that is not
enabled: `Apply` is all-or-nothing and the control plane rolls the append back.
Ids are opaque, titles and timestamps are left out, "" is `None`.

### ControlPlane

A call goes through `called -> locking | reading -> upgrading -> body ->
committed -> answered`.  A process has one connection (`SetMaxOpenConns(1)`).
SQLite is external and modelled by what the code relies on: a snapshot at the
first read, one write lock, `SQLITE_BUSY` for a write over an old snapshot,
rollback at a crash.  `Apply` and `RebuildProjection` use `Store.Write` (read,
then upgrade, no retry); `ApplyBatch` uses `WriteSerialized` (lock, then read,
bounded retries of contention only).  `CommitFails` is a commit that reports an
error and may or may not be durable; if the caller's context has ended too, the
caller sees that context's error, so a "cancelled" answer leaves the outcome as
open as an "uncertain" one.  There is one project, so the high watermark is the
length of the journal.  The reducer is reduced to three events: one that must
come first, one that needs a free slot, one that needs a taken slot.

### Delegation

`Delegate` is the chain `RequestDelegate, ReadTask, ReadDetail, ReadRevision,
StartBatch, StartOperation`, each a separate step because each is a separate read
or transaction; any of them may return early, and `DelegateFails` stands for the
policy, profile, endpoint and compilation failures.  `runDelegate` is the
worktree, the session, the decision on an outcome (which reads the revision) and
the batch that records it.  `Crash` drops goroutines and calls; recovery scans,
then for each orphan reads a revision and appends its failure.  Revisions are
compared for equality only, so `fresh` holds the observers whose last read is
still current.  A facade call always carries an expected revision
(`ValidateMutation`).  The comparison of base commits in the Work Package guard
is left out: it only adds refusals, and `DelegateFails` may refuse there anyway.
Assumed: only the executor starts and ends attempts, which is how the code uses
those events; clients append everything else in between.

### OperationRegistry

A handle is an instance and a number; numbers start over in each process, and the
random instance id is taken to be new.  `Start` is the whole method under the
mutex: a closed or full registry refuses and changes nothing.  The goroutine is
three steps, because other goroutines run in between: the function returns
(`Return`), the context's error is read and the context cancelled
(`ReadContext`), and `Finish` takes the mutex, decides the status, counts down
and evicts.  `ContextEnds` is the deadline.  `Wait` holds on to the operation it
found, so it answers even after an eviction; for a handle it does not know it
returns what the caller passed in.  `Close` cancels what runs, then waits;
`Release` is the rest of the deferred function of `run`.  `bodies` is a history
variable: what became of the function behind each handle.  A server has one
project, so the comparison of projects in `Lookup` is left out, and so are
refusals for a deadline that is not positive.

### Reviews

A call of `Review` reads and checks (`Review`), then works through its dimensions
in a goroutine: `PrepareDimension` (candidate, author, reviewer, endpoint),
`ReadRevision`, `CommitIntent` under `intentAbsentGuard`, the session in a
worktree of its own, and `PersistReview`, the terminal batch under
`terminalPersistenceGuard`.  Each is a step because others may append in between;
`OtherClient` is every other writer of the journal.  A crash drops the calls and
keeps intents and worktrees, which the next start of the executor cleans up.
Revisions are modelled as in `Delegation`.

### Sessions

A tool call is its tool with its arguments; its id is its position in the answer,
because `LoopbackClient.Complete` numbers the calls of each answer from `call_0`.
`ModelAnswers` and `DriverRunsCall` are the inside of `ExecuteTurn`, where the
driver executes each call through the mediator, whose listeners tell the meter
(`RecordFileEdit`, `RecordToolResult`).  `EndTurn` is the deferred
`RecordOperationEnd` and what the loop then looks at: the meter, the usage, the
calls.  A worker leaves out the calls its driver ran (`AlreadyRun`), a reviewer
runs them again.  The only token limit the executors set is the total, so there
is one sum; an unknown part makes the sum unknown for good.  Request sizes and
durations are choices.  `used` is a history variable: what the model really did.

### Worktrees, Processes, Validation

`Worktrees`: `Create`, `Cleanup` and `Recover` are chains of their external
effects (git, the manifest) under the manager's mutex; the process may die
between two, workers edit and commit, operators delete directories, put others in
their place and prune git's list.  Git is external.  `Processes`: one command
with descendants in its group, under `Run` or as an operation; its exit, the
deadline, the caller's context and `CancelOperation` may come in any order.
`Validation`: `ExecuteAndRecord` claims a commit, starts the services one by one,
runs each check under the monitor, and records; services die, the context ends
and checks move `HEAD` at any step.

### Discovery

The journal's discovery events with the guards of the reducer, and beside them
what `foldJournal` of the analysis makes of the same events (`fold`, with its
anomalies).  Ledger and problem model are records without events, so the analysis
may meet any stored ledger.

### FlightJournal

The writer's mutex makes an operation atomic, so an action is one operation; the
I/O call at which it fails is chosen when it starts (`luck`).  A segment is a
sequence of frames of which a prefix is synced and the rest may turn out damaged; rotation, the bounded
queue, drop counts, health frames, poisoned segments and the recovery scan are
there.  The byte layout of frames is left out: a scan sees whole or damaged ones.

### Setup, SetupPlanner, Cognition, Doctor

`Setup`: `Apply` and `Recover` as the walk over a plan, each ledger append and
each effect a step, with failing and torn appends and a stop of the process or of
the machine at any point.  `SetupPlanner`: `PlanWithContext` block by block over
every combination of report and facts, with `SetupPlan.Validate`.  `Cognition`:
what each adapter discovers and a probe establishes, as operators over what the
machine answers.  `Doctor`: several runs, each reading the cache, probing,
merging, archiving and refreshing in separate steps, over time and over changes
of the machine.

### Portfolios, Activation, Planners

`Portfolios` states the eight dimensions of the validator over records that keep
every field a dimension compares.  `Activation` keeps two folders, what the
process sees and what a loss of power leaves; a file operation may fail, and the
undo of a failed activation may fail as well.  `Planners` is one planning call:
the baseline, the choice of an endpoint, the single model turn, decoding,
sanitising, both validators, the budget, the fallback.

### Receipts

Anyone may drop files into the receipts directory; the operator enrols, replaces
and revokes keys; custody of a path may be lost.  Two programs verify, by name or
by search, and later spend what they verified inside the batch of the effect.
Time passes between all of these.  A signature is the key that made it.

### MCServices

The twelve services share no state.  `MCServices` extends them all; `part` is
chosen initially and never changes, and only that service moves.  The run is
therefore the sum of twelve explorations, not their product.

## 3. Runs

Passing runs:

| run | instance | shows |
| --- | --- | --- |
| `reducer` | 1 task, 2 attempts, 2 versions, 2 commits, 2 validations, 1 review | lineage, unique running attempt, pinned evidence, review after a pass, baseline, immutability over all event sequences (about 100,000 states) |
| `control_plane` | 3 calls, 2 processes, 2 tries | the safety of the write path and its refinement of `Journal` (about 1.5 million states) |
| `control_plane_live` | 2 calls, 2 processes, no symmetry | every call is answered (43,000 states) |
| `delegation` | 3 `Delegate` calls, 3 attempts, budget 2, 2 versions | no silent retry, the budget, workers are journalled (about 160,000 states) |
| `operation_registry` | 3 operations in 2 processes, 2 active, 1 kept, 1 caller | limits, eviction, answers, shutdown, and that every operation ends (about 86,000 states) |
| `reviews` | 2 calls over 2 dimensions, 2 attempts, 2 actors | one session per dimension; reviews are what was announced (about 2 million states) |
| `services` | twelve parts, below | one or two properties per part (about 590,000 states) |

The properties of `services`: `WorkIsKept` (Worktrees), `FinishedIsFinished`
(Processes), `PassIsEarned` (Validation), `FoldsAgree` and `ReadinessIsCurrent`
(Discovery), `AcknowledgedSurvives` and `SequencesAdvance` (FlightJournal),
`EffectsAreSettled` and `ModelSuccessIsReal` (Setup), `PlanIsSound`
(SetupPlanner), `EvidenceIsEarned` (Doctor), `LineageIsWhole` (Activation),
`AdviceIsOnlyAdvice` (Planners), `OnceMeansOnce` and `AuthorityIsHuman`
(Receipts), `ResultWithinLimits` and `WorkIsCountedOnce` (Sessions).  Each is
stated in words above its definition.

Runs that show a disagreement between a text of the repository and the code:

| run | the text | the code |
| --- | --- | --- |
| `reducer_accept` | passing tests are necessary (DCI-040) | the evidence index keeps no outcome: a candidate whose own validation failed can be accepted after another one passed |
| `reducer_baseline` | `accepted_commit_verified` is about the current commit | an integration moves the commit and keeps the flag |
| `delegation_orphans` | recovery closes orphaned attempts | an attempt of a blocked task is not seen, and later refuses every new attempt |
| `reviews_early` | the candidate is still `reviewing` when the intent is committed | any task of the Running bucket will do; the review is then refused at the end and its dimension is spent |
| `session_tool_budget` | the tool-call count is enforced over a session | the calls of every answer have the same ids and the meter counts ids |

**Bounds.**  `MaxVersion` (2): a plan and its replacement.  Two attempts are the
least that can be confused; the delegation run has three so that a budget of two
can be exceeded.  Two commits and two validations let evidence name the wrong
one.  One task: no handler relates two tasks except through ids of attempts and
evidence, and the theorems hold for any number of tasks.  Two processes and three
calls let one call be overtaken by a second while a third waits.
`MaxContentionAttempts` is 2 (5 in the code): one retry and its exhaustion.  The
bodies contain refusals at the first and at the second member.  Each call and
each `Delegate` is made once.  Three operations, two of them active and one kept
(64 and 256 in the code), let the first one still run while the second is
evicted by the third; two processes let a number be used again (`MaxStarts`,
`MaxTotalStarts`, `MaxInstances`); callers do not affect each other, so one is
enough.  In `reviews`, two calls
over two dimensions let one call overtake the other inside each of them, and two
actors let author and reviewer coincide or differ.  The services run uses the
smallest numbers at which each hazard happens: two worktrees, services, checks,
decisions and devices; segments of four frames with one fault and five sequence
numbers (a rotation, an abandoned segment and a recovery); two executions with one
failed append and one stop; three doctor runs, two at a time, with one verified
probe and a cache that expires; two activations with two failing file operations
and one restart (the second fault hits the undo of the first); two consumers of a
receipt issued twice; two turns of two calls, with each limit one below what the
turns can use up.  The samples differ from a sound one in one respect each, so
that every check of a validator decides something.  `MaxSegments`, `MaxSequence`,
`MaxDropped`, `MaxFaults`, `MaxExecutions`, `MaxAppendFaults`, `MaxStops`,
`MaxDoctors`, `MaxDoctorRuns`, `MaxVerified`, `MaxDoctorTime`, `MaxActivations`,
`MaxFileFaults`, `MaxReboots`, `MaxSpent`, `MaxReceiptTime`, `MaxFileDrops` and
`MaxOperatorActs` only bound the run; `MaxSegmentFrames`, `QueueSize`,
`CacheTTL`, `MaxScanned`, `MaxTurns`, `MaxTotalTokens`, `MaxToolCalls`,
`MaxConsecutiveFailedCalls`, `MaxOscillatingEdits` and `MaxRepair` stand for
limits of the code or of a policy, made small.  Symmetry permutes opaque ids in
runs without liveness.  `CHECK_DEADLOCK FALSE` is set where everything may
really come to an end: reviews, sessions and the services.

**Fairness.**  `ControlPlane` assumes weak fairness of each call's own steps,
nothing of clients, failures or crashes.  The code justifies it: the call's
goroutine runs while its process lives, waiting for the connection ends when the
holder's transaction ends, and waiting for the lock is bounded by `busy_timeout`
and the contention budget.  In a crash the call ends as "lost".  Weak fairness is
enough because each call in flight always has a step of its own or waits for a
connection whose holder has one.  `OperationRegistry` assumes that deadlines pass
(`context.WithTimeout`, and `Start` refuses an operation without one), that a
function returns some time after its context has ended (it passes the context to
its sessions, subprocesses and transactions), and that its goroutine then runs;
nothing of callers, `Close` or restarts.  The other modules state no
fairness: no client, operator or model has to do anything.

## 4. Proofs

`ReducerProofs` holds for every finite or infinite set of ids and any
`MaxVersion`, from two assumptions of `Reducer`: `MaxVersion` is a positive
natural number and `None` is no id.

* `TypeCorrect`: the type invariant.  Its interesting part is `blockedFrom`: a
  task is blocked only out of an active state.
* `HistoryImmutable`: an action property, from the lemmas `AttemptsKept` and
  `EvidenceKept`, which say for each writer of attempts and evidence what it
  leaves alone.
* `AcceptanceExplained`, `OneRunningAttempt`, `EvidencePinned`,
  `ReviewNeedsPass`: parts of one inductive invariant, `LineageInv`.  That
  evidence stays true and that an acceptance stays explained rests on the two
  lemmas above: terminated attempts and recorded evidence never change.  The
  uniqueness of the running attempt is not inductive alone: it needs that an
  attempt that is present is owned by a task (`AttemptOwned`).  Acceptance also
  needs `AcceptedEdges`: each state after acceptance is reached only from the one
  before it, so a task cannot enter one of them past the check.  There is one
  lemma per conjunct (`OwnedStep`, `RunningStep`, `EvidenceStep`, `ReviewStep`,
  `AcceptanceStep`), each with one case for each kind of step that can disturb it.
* `BaselineMoves`: an action property, by the writers of the baseline.

`RegistryProofs` holds for every set of callers and all bounds and limits (the
bounds on starts and processes positive, the limits natural numbers).
`RegistryTyped`, `ActiveKept`, `OwnAnswers` and `QuietShutdown` are consequences
of one inductive invariant, `RegistryInv`, which adds to the properties:

* the counter is the cardinality of the set of operations in flight, so that a
  start adds exactly one and a finish takes exactly one;
* `OpShape`: for each program counter, what is known of status, error and context;
* `QueueShape`: the queue holds each kept ended operation exactly once, so the
  head of the queue is never an operation in flight;
* `BodyShape`: handles of later numbers and later processes are unissued, and an
  operation agrees with the fate of its function;
* `ClientShape`: a caller waits only for an operation of the current process, and
  answers are only about handles that were issued.

There is one lemma per action.

`ControlPlaneProofs` holds for any number of calls, retries, faults and deaths and
any set of bodies; `NoneAssumption` (the value for "no call" is no call) is the
only assumption added for it.  The inductive invariant `Inv` says of each call how
far its transaction has come and what the journal holds of it by then:

* before its commit a call has nothing in the journal and no answer;
* a deferred transaction's snapshot is a past of the journal, and the present one
  if nothing was appended since, which is what the upgrade of the lock compares;
* the one call in its body holds the lock, has seen the whole journal, and its work
  is the reduction of the journal with the members it has applied, each of them
  legal;
* after its commit a call has landed; answered, it has landed or left nothing, and
  the answer agrees;
* the rows of a batch are those behind the revision its caller expected.

`ProjectionTheorem`, `ReadsTheorem`, `PrefixTheorem` and `AnswersTheorem` are parts
or consequences of it.  `Refinement` is the theorem that `ControlPlane` implements
`Journal`: a commit is the abstract append of the whole body, a rebuild of the
view stutters because the view is the fold already (this is where
`ProjectionIsReduction` is needed), and every other step leaves the journal and
the view alone.

`DelegationProofs` holds for every set of requests, attempts and tasks and any
budget; `ObserverAssumption` only keeps the names of requests, attempts and the
recovery apart.  The checks of `Delegate` are made long before the batch they
justify, and `ReadsHold`, the centre of `DelegationInv`, says what keeps them true:
while the revision a call has read is current, what it read of the attempts holds.
The rest are an attempt's owner and the one running attempt of a task, that the
attempts of a task are finite in number (the budget is about a cardinality), that
a started attempt waits for one call only, and that calls and runs live only while
the executor is up.  `BudgetTheorem` and `WorkersTheorem` are parts of it,
`RetryTheorem` is an action property that follows from it.

`ReviewsProofs` holds for every set of calls, dimensions and review ids, where
`None` is no review id (`ReviewIdAssumption`).  `OneSession` rests on intents that
are never removed, and on the guard that refuses a second intent in the same
transaction.  `AnnouncedReviews` needs `CallInv`, which says what each call knows
at each step (`HasCandidate`, `Independent`, `Intended`, `Judged`), and that no
step changes the commit of a finished attempt.

`ServiceProofs` proves each service against its own specification (`SpecWorktrees`,
`SpecProcesses`, `SpecValidation`, `SpecDiscovery`, `SpecSessions`,
`SpecPlanners`); the run `services` checks the same actions side by side.

* `WorkKept` (an action property): uncommitted work is in a directory that is
  there, and a worktree that is still being created has none.
* `FinishedProcesses`: for each place of `Run`, which of leader and group may live.
* `PassEarned`: a pass so far means every check before the next one passed and
  every service was alive; a verdict is written last, after teardown.
* `FoldsAlwaysAgree`, `ReadinessCurrent`: both folds hold the same open questions
  and decisions after each event (`NoNameAssumption`: the name that stands
  for none is no model, question or decision).
* `LimitsHold`, `CountedOnce`: the meter's sum is what the model used, but for the
  answer under way, for which the turn's end adds the same usage; a sum may be
  unknown only where that is allowed.  A worker's driver runs each call of an
  answer exactly once and its loop leaves all of them out, so no result is handed
  to a turn, and the detector's streak is the real one.  For this the loop
  detector's fold over incoming results is proved to do nothing when there are
  none (`NoResults`); what it computes for a reviewer's results is an induction
  over data, and no theorem depends on it.
* `AdviceAlwaysOnlyAdvice`: whatever a model proposes.  The only thing assumed of a
  proposal is its shape (`ModelPlansAssumption`, `ModelPortfoliosAssumption`): a
  stage that decodes has the fields of a stage and an integer for its order.
  `PlannersInv` says that a session is open during the turn only, that nothing is
  returned before the end, that an answer belongs to the request (its author was
  eligible, the fallback is the baseline of this task), and that a returned plan or
  portfolio is sound.  That dependencies come to an end is no induction: in every
  set of stages that would wait for each other, the validator has compared orders,
  and one with the least order waits for none of them; escalations in the same way.

`RecordsProofs` holds for every set of receipts, requests, anchors and consumers,
from `ReceiptsAssumption`: there is an anchor document, times are integers, no
enrolled key is the key of a forgery, and a signed identifier is the issuer's, who
gives none to both a grant and a receipt for one use
(`wp-m5-r4-protected-operator-ingress-ewp.md:83`).
It also holds, for `FlightJournal`, for segments of four frames or more, and any
size of the queue and number of faults and processes.
`OnceIsOnce` rests on the consumption record, which is written in the transaction
of the effect and never removed; `HumanAuthority` on what a verification has
checked against the pinned anchors.
`AcknowledgedAlwaysSurvives` and `SequencesAlwaysAdvance` are consequences of
`FlightInv`.  It says of every segment that its readable frames have increasing
sequences between the first one of its header and the writer's next one, and that a
segment that reads as whole starts behind everything before it; that a running
writer appends only to a last segment which is whole; and that every acknowledged
sequence is a synced critical frame.  A write may touch the file in several places
(rotation, a health frame, then the record itself), each of which may fail; so
`WriterInv` states the same of the writer as a record, and there is a lemma for
each function of the writer that it keeps `WriterInv` and loses no synced frame.
That acknowledged frames are delivered once follows because sequences differ
between and inside segments (a scan selects frames in order, and the positions of
what it selects are found by the least natural number instead of an induction over
the scan).

`DurabilityProofs` is about any number of executions and actions, and of
activations, failures and reboots.

* `EffectsSettled`: `SetupInv` says that the starting line of every action that
  touched the machine is not only written but synced, because a failed sync or a
  death may take back a written line; that it is synced before the operation
  begins; and at which steps of the executor every earlier effect is settled.
* `LineageWhole`: `ActivationInv` quantifies over what a power loss may leave of
  each file.  `CrashSafe`: if the pending intent can be there then it restores the
  folder from whatever else is there, and if it can be missing the folder is
  settled without it.  `StepInv` says for each step of an activation, a rollback
  and a recovery which files already have their new content, and which are synced.
* `ModelSuccessAlwaysReal`: `ReportInv` adds to `SetupInv` what the ledger says.
  An execution logs a start, an outcome and an end of an action once each; in front
  of an end that says "succeeded" stands the success of every action of its plan; and
  a success of a model action has the complete approved revision behind it.  A
  sync that fails or a death takes back only lines behind the synced ones, so a line
  that is read stands where it was written.
* `EvidenceIsAlwaysEarned`: `DoctorInv` names, for each envelope of evidence in the
  cache, in a running doctor and in a report, a probe that earned it on this machine
  and whose validity lasts at least as long as the envelope says.  What makes it
  inductive is that merging and refreshing keep the expiry an envelope came with,
  however many doctors run at once and whichever of them writes last.
* `PlanAlwaysSound`: `PlannerInv` says that what was planned are sound actions of
  what was observed.  A plan is a sequence of blocks (directories, git, hardware,
  authentication, models, configuration).  `Block` keeps of each: the directories
  come first, what stands behind them waits for all of them or for nothing, and
  its idempotency keys are of kinds the blocks before it do not have, so that keys
  have to differ inside a block only (`JoinBlocks`).  Inside a block they differ
  because the actions come from different candidates or endpoints: `FlattenSeq` of
  sequences with at most one member gathers each member from a place of its own
  (`FlattenGathers`), which is proved about the recursive function inside
  `FlattenSeq` with the least natural number for which it fails.

Each inductive invariant was checked by TLC over the whole state space of the
instance of its run, except for conjuncts that TLC cannot evaluate (a sequence
over some set, for instance).

Only model-checked:

* liveness (`EveryCallAnswered`, `EveryOperationEnds`): the prover has neither
  ENABLED nor fairness;
* what the operators of `Cognition` and `Portfolios` compute: pure functions, which
  the runs apply to samples.  The theorems use what a validator's acceptance
  implies, not which of the sound inputs it accepts;
* the real reducer's fold over journals of every length.  In `Reduction` the state
  after a legal event is determined by the event, so that `Reduce` of any journal
  is found without induction (`ReduceIs`); the write path never looks into it.

## 5. What reading the code showed besides

Not stated as properties, because no text of the repository says otherwise or
because the case is outside the models; a reviewer of the code may want to know.

* **Sessions.**  The loop of a review runs every call the driver has already run,
  so one failing call counts up to three times and a single failure may end a
  review as "limit reached"; results are attributed to the last call with the
  same id; a worker that reached a limit is reported with `effects=none` although
  commands ran; nothing in production streams, restores or resumes a session.
* **Worktrees.**  `verifyGitWorktreeRegistration` asks `git worktree list`, which
  goes on listing a path whose directory was replaced, so `Recover` can make an
  entry active over a foreign directory.  `WorkIsKept` shows that it is not
  removed as one.
* **Setup.**  When an append fails, `Apply` still appends `ExecutionFinished`, so
  an execution may end with an action in `ActionStarting`, against the comment of
  `walk`.  After a failed sync or a short write the next append breaks the chain
  and the ledger no longer opens.  Recovery marks `write_managed_config` and
  `remove_stale_cache` as succeeded without looking.  A manual action makes the
  whole plan `high_impact_manual`, and `--yes` is refused.
* **Doctor and planner.**  Every caller on the command line passes the evidence
  status "live" and `Run` fills it in only when it is empty (`doctor.go:203`), so
  `stale_inference_retained` never reaches a report and the eviction of a stale
  cache is never planned.  No adapter reports "ready" at health depth and nothing
  sets `VerifyEndpointID`, so the shipped `doctor` cannot report a ready endpoint.
  A health run may overwrite the fresher evidence of a verify run.
* **Flight recorder.**  `flushHealthLocked` does not look at the size of the
  segment, so `Flush` and `Close` may exceed it by one health frame.
* **Portfolios.**  No lock keeps a second process out of the folder.
  `ProposeAndActivate` releases the mutex between its lineage check and the
  activation, and compares portfolio ids.  A pending intent whose write fails
  after its rename is reported as a failure and rolled forward at the next start.
  `GetActivePortfolio` answers while recovery is required.  The diff leaves out
  `AllowOverage`, `FallbackAllowedToMetered`, escalation rules and reservations.
  `RequireStructuredOutput` accepts "declared" where the comment at
  `routing.go:56` asks for a passed probe.  Reviewer and verifier have no default
  requirement.  A dual review whose endpoints are not named needs distinct roles
  only, and a model may choose any topology for a task that is neither risky nor
  dual.
* **Receipts.**  A verified receipt is not verified again when it is spent, so a
  revocation in between is not seen; host-plan receipts are verified and never
  consumed; a search takes the newest match even if it is spent, among the first
  256 file names.
* **Batches.**  Any later event of a task, such as the late failure of an old
  attempt, moves the revision a fresh approval was given at
  (`controlplane/batch.go:328`); the approval is then refused and must be given
  again.  This hazard has no property: it is about how often a principal must ask.

## 6. Not modelled

`PROJECT.json` gives the reason for each part.  In short: tools, the context
compiler, compaction, credentials, environment probes, repository, artifacts and
adapters are input and output, pure rendering, or talk to external systems;
records, schemas and wording do not affect the modelled control.  Of the reducer,
the descriptive facts (milestones, components, risks, titles) are left out; of the
flight recorder, the wire codec; of the sessions, the command line driver,
streaming, snapshots and resumption; of the receipts, the in-memory verifier; of
the portfolios, a second manager of one folder; of the doctor, the immutable
archive, which is written and never read back.

## 7. Plan

Every module of the plan is written, and every safety property that a passing run
checks is a theorem; the two liveness properties stay with TLC.  What remains are
parts without a module (section 6).  The first of them would be the resumption of
sessions, once something in production uses it, and a second portfolio manager in
one folder, once a lock says what it may rely on.
