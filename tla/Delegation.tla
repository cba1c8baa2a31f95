---------------------------- MODULE Delegation ----------------------------
(***************************************************************************)
(* The task executor over the reducer: Executor.Delegate with its staged   *)
(* reads, the asynchronous run of an attempt, the two-step recording of    *)
(* its outcome, crashes of the executor's process, and Recover when it is  *)
(* started again.  The principal and the CLI append their own events in    *)
(* between.                                                                *)
(*                                                                         *)
(* Only the executor starts and ends attempts.  One process executes at a  *)
(* time: AcquireProjectLock is held before the executor is built.          *)
(* A state revision is compared for equality only, so the model keeps, for *)
(* each observer, whether the journal has moved since it read the revision *)
(* ("fresh") instead of the number.                                        *)
(***************************************************************************)
EXTENDS Reducer, FiniteSets

CONSTANTS
  Requests,             \* calls of Delegate, each made once
  MaxAttemptsPerTask    \* the execution policy's attempt budget

ASSUME BudgetAssumption == MaxAttemptsPerTask \in Nat

VARIABLES
  effects,   \* per attempt, the effects= token of its failure summary
  clean,     \* tasks with no event of their own since their last approval
  requests,  \* per Delegate call, its progress
  run,       \* per attempt, its operation's goroutine
  acted,     \* attempts whose model session was started
  executor,  \* "up", "down", "recovering" or "closing" an orphan
  orphans,   \* attempts Recover has still to fail
  fresh      \* observers whose last read of the revision is still current

execVars == <<effects, clean, requests, run, acted, executor, orphans, fresh>>
allVars == <<vars, execVars>>

Recovery == "recovery"

(* Each reader of the revision is its own observer.                        *)
ASSUME ObserverAssumption ==
  Requests \cap AttemptIds = {} /\ Recovery \notin Requests \cup AttemptIds

NoRequest == [pc |-> "new", task |-> None, wp |-> None, version |-> 0,
              state |-> "absent", attempt |-> None]

InitDelegation ==
  /\ Init
  /\ effects = [a \in AttemptIds |-> "none"]
  /\ clean = {}
  /\ requests = [d \in Requests |-> NoRequest]
  /\ run = [a \in AttemptIds |-> "none"]
  /\ acted = {}
  /\ executor = "up"
  /\ orphans = {}
  /\ fresh = {}

-----------------------------------------------------------------------------

(* Appending an event makes every revision read so far stale.              *)
Moved == fresh' = {}

AttemptsOf(t) == {a \in AttemptIds : attempts[a].task = t}

(* Events of the principal, the validators and the CLI about the task t.   *)
(* Acceptance and integration are left to module Reducer: an accepted task *)
(* is never delegated again.                                               *)
ClientEvent(t) ==
  /\ \/ TaskCreated(t) \/ TaskDesignStarted(t)
     \/ \E w \in WorkPackageIds, v \in Versions : WorkPackageApproved(t, w, v)
     \/ \E w \in WorkPackageIds : TaskDelegated(t, w)
     \/ EscalationRaised(t, None)
     \/ \E a \in AttemptIds, c \in Commits, id \in ValidationIds,
           o \in {"pass", "fail"} : ValidationCompletedAttempt(t, a, c, id, o)
     \/ \E a \in AttemptIds : ChangeRejected(t, a)
  /\ clean' = IF tasks'[t].state = "ready" THEN clean \cup {t} ELSE clean \ {t}
  /\ Moved
  /\ UNCHANGED <<effects, requests, run, acted, executor, orphans>>

(* Events that concern no task.  A baseline run stands for all of them:    *)
(* the executor only sees that the revision has moved.                     *)
OtherEvent ==
  /\ \/ ProjectInitialized(None)
     \/ \E c \in Commits : ValidationCompletedBaseline(c, "fail")
  /\ Moved
  /\ UNCHANGED <<effects, clean, requests, run, acted, executor, orphans>>

-----------------------------------------------------------------------------
(* Delegate.                                                               *)

(* The call has returned; nothing of what it read is kept.                 *)
Returned == [NoRequest EXCEPT !.pc = "returned"]

Return(d) ==
  requests' = [requests EXCEPT ![d] = Returned] /\ fresh' = fresh \ {d}

Advance(d, pc) ==
  requests' = [requests EXCEPT ![d].pc = pc] /\ UNCHANGED fresh

Check(d, ok, pc) == IF ok THEN Advance(d, pc) ELSE Return(d)

At(d, pc) == executor = "up" /\ requests[d].pc = pc

(* The facade: the caller's expected revision is the current one and the   *)
(* Work Package it names is the approved one.                              *)
RequestDelegate(d, t) ==
  /\ At(d, "new")
  /\ initialised
  /\ tasks[t].wp # None
  /\ requests' = [requests EXCEPT ![d] =
       [NoRequest EXCEPT !.pc = "admitted", !.task = t, !.wp = tasks[t].wp,
                         !.version = tasks[t].version]]
  /\ fresh' = fresh \cup {d}
  /\ UNCHANGED <<vars, effects, clean, run, acted, executor, orphans>>

(* The task list: the state decides between a first and a repeated start.  *)
ReadTask(d) ==
  /\ At(d, "admitted")
  /\ LET task == tasks[requests[d].task]
     IN  IF /\ task.state \in {"ready", "running"}
            /\ task.wp = requests[d].wp
            /\ task.version = requests[d].version
         THEN /\ requests' = [requests EXCEPT ![d].pc = "listed",
                                              ![d].state = task.state]
              /\ UNCHANGED fresh
         ELSE Return(d)
  /\ UNCHANGED <<vars, effects, clean, run, acted, executor, orphans>>

(* Mutation: the budget is off by one.                                     *)
WithinBudgetInclusive(t) == Cardinality(AttemptsOf(t)) <= MaxAttemptsPerTask

WithinBudget(t) == Cardinality(AttemptsOf(t)) < MaxAttemptsPerTask

(* The attempts of the task: none may be running, none may have ended with *)
(* uncertain effects, and the budget must have room.                       *)
Delegable(t, state) ==
  /\ state = "running" => ~HasRunningAttempt(t)
  /\ \A a \in AttemptsOf(t) : effects[a] # "uncertain"
  /\ WithinBudget(t)

ReadDetail(d) ==
  /\ At(d, "listed")
  /\ Check(d, Delegable(requests[d].task, requests[d].state), "read")
  /\ UNCHANGED <<vars, effects, clean, run, acted, executor, orphans>>

(* The revision is read once more and must be the caller's, so that what   *)
(* was read before belongs to it.                                          *)
ReadRevision(d) ==
  /\ At(d, "read")
  /\ Check(d, d \in fresh, "checked")
  /\ UNCHANGED <<vars, effects, clean, run, acted, executor, orphans>>

(* Policy, post-check profile, endpoint or compilation is unavailable, or  *)
(* the batch is refused or fails.                                          *)
DelegateFails(d) ==
  /\ executor = "up"
  /\ requests[d].pc \in {"listed", "read", "checked"}
  /\ Return(d)
  /\ UNCHANGED <<vars, effects, clean, run, acted, executor, orphans>>

(* Mutation: the batch carries no expected revision.                       *)
AnyRevision(d) == TRUE

ExpectedRevision(d) == d \in fresh

(* The start-execution guard of a first start (checkWorkPackageGuard).     *)
PlanIsCurrent(t, w, v) ==
  tasks[t].state = "ready" /\ tasks[t].wp = w /\ tasks[t].version = v /\ t \in clean

(* What the batch demands: the revision, the plan of a first start, and    *)
(* the reducer's own preconditions of TaskDelegated and AttemptStarted.    *)
BatchApplies(d, a) ==
  LET q == requests[d]
  IN  /\ ExpectedRevision(d)
      /\ IF q.state = "ready" THEN PlanIsCurrent(q.task, q.wp, q.version)
                              ELSE tasks[q.task].state = "running"
      /\ q.wp = tasks[q.task].wp /\ q.version = tasks[q.task].version
      /\ attempts[a].status = "absent"
      /\ ~HasRunningAttempt(q.task)

(* TaskDelegated and AttemptStarted in one batch, or AttemptStarted alone  *)
(* when the task is already running.  A commit whose outcome is unknown is *)
(* an error to Delegate although the attempt is now journalled.            *)
StartBatch(d, a, known) ==
  /\ At(d, "checked")
  /\ BatchApplies(d, a)
  /\ LET q == requests[d]
     IN  /\ tasks' = [tasks EXCEPT ![q.task] =
              [@ EXCEPT !.state = "running", !.current = a]]
         /\ attempts' = [attempts EXCEPT ![a] =
              [status |-> "running", task |-> q.task, wp |-> q.wp,
               version |-> q.version, commit |-> None]]
         /\ clean' = clean \ {q.task}
  /\ requests' = [requests EXCEPT ![d] =
       IF known THEN [@ EXCEPT !.pc = "started", !.attempt = a] ELSE Returned]
  /\ Moved
  /\ UNCHANGED <<initialised, proposals, validations, reviews, baseline,
                 journalFacts, effects, run, acted, executor, orphans>>

(* OperationRegistry.Start runs the attempt in the background.             *)
StartOperation(d) ==
  /\ At(d, "started")
  /\ run' = [run EXCEPT ![requests[d].attempt] = "worktree"]
  /\ Return(d)
  /\ UNCHANGED <<vars, effects, clean, acted, executor, orphans>>

(* A full or closed registry: the attempt is to be failed, best effort,    *)
(* against a revision read just before.                                    *)
RegistryFull(d) ==
  /\ At(d, "started")
  /\ run' = [run EXCEPT ![requests[d].attempt] = "fail_none"]
  /\ requests' = [requests EXCEPT ![d] = Returned]
  /\ fresh' = (fresh \ {d}) \cup {requests[d].attempt}
  /\ UNCHANGED <<vars, effects, clean, acted, executor, orphans>>

-----------------------------------------------------------------------------
(* runDelegate.                                                            *)

RunStep(a, from, to) ==
  /\ executor = "up"
  /\ run[a] = from
  /\ run' = [run EXCEPT ![a] = to]
  /\ UNCHANGED <<vars, effects, clean, requests, executor, orphans>>

(* The outcome is decided and the revision to record it against is read,   *)
(* once.                                                                   *)
Outcome(a, from, to) ==
  RunStep(a, from, to) /\ fresh' = fresh \cup {a} /\ UNCHANGED acted

(* The worktree comes first; without one nothing has happened yet.         *)
WorktreeFails(a) == Outcome(a, "worktree", "fail_none")

StartSession(a) ==
  /\ RunStep(a, "worktree", "session")
  /\ acted' = acted \cup {a}
  /\ UNCHANGED fresh

(* How a session ends: a candidate, a failure the executor understands, an *)
(* error that leaves the effects open, or the deadline or shutdown.        *)
RunOutcomes == {"candidate", "fail_none", "fail_uncertain", "cancel"}

SessionEnds(a) == \E to \in RunOutcomes : Outcome(a, "session", to)

Recorded(a) ==
  /\ executor = "up"
  /\ a \in fresh
  /\ run' = [run EXCEPT ![a] = "none"]
  /\ clean' = clean \ {attempts[a].task}
  /\ Moved
  /\ UNCHANGED <<requests, acted, executor, orphans>>

(* attemptStillRunningGuard reads the running bucket of the project state. *)
StillRunning(a) == tasks[attempts[a].task].state \in RunningBucket

RecordCandidate(a, c) ==
  /\ run[a] = "candidate"
  /\ StillRunning(a)
  /\ CandidateProduced(attempts[a].task, a, c)
  /\ Recorded(a)
  /\ UNCHANGED effects

(* failAttempt.                                                            *)
RecordFailure(a) ==
  /\ run[a] \in RunOutcomes \ {"candidate"}
  /\ AttemptFailed(attempts[a].task, a, run[a] = "cancel")
  /\ effects' = [effects EXCEPT ![a] =
       IF run[a] = "fail_none" THEN "none" ELSE "uncertain"]
  /\ Recorded(a)

(* The batch is refused or fails: the outcome stays unrecorded.            *)
OutcomeUnrecorded(a) ==
  /\ \E from \in RunOutcomes : RunStep(a, from, "none")
  /\ fresh' = fresh \ {a}
  /\ UNCHANGED acted

-----------------------------------------------------------------------------
(* Crash and recovery.                                                     *)

(* The process dies with its goroutines and its calls.                     *)
Crash ==
  /\ executor # "down"
  /\ executor' = "down"
  /\ run' = [a \in AttemptIds |-> "none"]
  /\ requests' = [d \in Requests |->
       IF requests[d].pc = "new" THEN requests[d] ELSE Returned]
  /\ orphans' = {}
  /\ fresh' = {}
  /\ UNCHANGED <<vars, effects, clean, acted>>

(* Mutation: a second executor starts without taking the project lock.     *)
NoLock == executor \in {"up", "down"}

LockFree == executor = "down"

(* Recover looks for running attempts of tasks in state running.           *)
RecoverScan ==
  /\ LockFree
  /\ executor' = "recovering"
  /\ orphans' = {a \in AttemptIds :
       attempts[a].status = "running" /\ tasks[attempts[a].task].state = "running"}
  /\ UNCHANGED <<vars, effects, clean, requests, run, acted, fresh>>

(* The revision is read for each orphan in turn.                           *)
RecoverReadRevision ==
  /\ executor = "recovering"
  /\ orphans # {}
  /\ executor' = "closing"
  /\ fresh' = fresh \cup {Recovery}
  /\ UNCHANGED <<vars, effects, clean, requests, run, acted, orphans>>

RecoverAttempt(a) ==
  /\ executor = "closing"
  /\ a \in orphans
  /\ Recovery \in fresh
  /\ AttemptFailed(attempts[a].task, a, FALSE)
  /\ effects' = [effects EXCEPT ![a] = "uncertain"]
  /\ clean' = clean \ {attempts[a].task}
  /\ orphans' = orphans \ {a}
  /\ executor' = "recovering"
  /\ Moved
  /\ UNCHANGED <<requests, run, acted>>

(* A read or a batch of the recovery fails: New returns the error and no   *)
(* executor is built.                                                      *)
RecoverFails ==
  /\ executor \in {"recovering", "closing"}
  /\ executor' = "down"
  /\ orphans' = {}
  /\ fresh' = fresh \ {Recovery}
  /\ UNCHANGED <<vars, effects, clean, requests, run, acted>>

ExecutorUp ==
  /\ executor = "recovering"
  /\ orphans = {}
  /\ executor' = "up"
  /\ UNCHANGED <<vars, effects, clean, requests, run, acted, orphans, fresh>>

-----------------------------------------------------------------------------

DelegateNext(d) ==
  \/ \E t \in TaskIds : RequestDelegate(d, t)
  \/ ReadTask(d)
  \/ ReadDetail(d)
  \/ ReadRevision(d)
  \/ DelegateFails(d)
  \/ \E a \in AttemptIds, known \in BOOLEAN : StartBatch(d, a, known)
  \/ StartOperation(d)
  \/ RegistryFull(d)

RunNext(a) ==
  \/ WorktreeFails(a)
  \/ StartSession(a)
  \/ SessionEnds(a)
  \/ \E c \in Commits : RecordCandidate(a, c)
  \/ RecordFailure(a)
  \/ OutcomeUnrecorded(a)

RecoverNext ==
  \/ RecoverScan
  \/ RecoverReadRevision
  \/ \E a \in AttemptIds : RecoverAttempt(a)
  \/ RecoverFails
  \/ ExecutorUp

NextDelegation ==
  \/ \E t \in TaskIds : ClientEvent(t)
  \/ OtherEvent
  \/ \E d \in Requests : DelegateNext(d)
  \/ \E a \in AttemptIds : RunNext(a)
  \/ Crash
  \/ RecoverNext

SpecDelegation == InitDelegation /\ [][NextDelegation]_allVars

-----------------------------------------------------------------------------
(* Properties.                                                             *)

Observers == Requests \cup AttemptIds \cup {Recovery}

RequestType ==
  [pc : {"new", "admitted", "listed", "read", "checked", "started", "returned"},
   task : TaskIds \cup {None}, wp : WorkPackageIds \cup {None},
   version : 0 .. MaxVersion, state : States \cup {"absent"},
   attempt : AttemptIds \cup {None}]

(* Types of the projection, the calls, the runs and the recovery.          *)
TypeDelegation ==
  /\ TypeOK
  /\ effects \in [AttemptIds -> {"none", "uncertain"}]
  /\ clean \subseteq TaskIds
  /\ requests \in [Requests -> RequestType]
  /\ run \in [AttemptIds -> {"none", "worktree", "session"} \cup RunOutcomes]
  /\ acted \subseteq AttemptIds
  /\ executor \in {"up", "down", "recovering", "closing"}
  /\ orphans \subseteq AttemptIds
  /\ fresh \subseteq Observers

(* The effects of an attempt are known: its session never started, or the  *)
(* journal says how it ended.                                              *)
EffectsKnown(a) ==
  \/ a \notin acted
  \/ attempts[a].status = "candidate_produced"
  \/ attempts[a].status \in {"failed", "cancelled"} /\ effects[a] = "none"

(* "A prior attempt whose effects are uncertain ... must not be silently   *)
(* retried with a second model call" (Delegate): when an attempt starts,   *)
(* the effects of every earlier attempt of its task are known, although    *)
(* the call read those attempts long before, and whatever crashed or       *)
(* recovered since.                                                        *)
NoSilentRetry ==
  [][ \A b \in AttemptIds :
        attempts[b].status = "absent" /\ attempts'[b].status = "running" =>
          \A a \in AttemptsOf(attempts'[b].task) : EffectsKnown(a) ]_allVars

(* The attempt budget of the execution policy holds for a task over its    *)
(* whole life, however many calls check it at once (Delegate).             *)
BudgetKept ==
  \A t \in TaskIds : Cardinality(AttemptsOf(t)) <= MaxAttemptsPerTask

Live(a) == run[a] # "none"

(* A worker acts only for an attempt the journal shows as running, and a   *)
(* task has one worker (Delegate journals the start before it schedules    *)
(* the operation; the project lock keeps Recover away from live attempts). *)
WorkersAreJournalled ==
  \A a \in AttemptIds : Live(a) =>
    /\ attempts[a].status = "running"
    /\ \A b \in AttemptIds : Live(b) /\ attempts[b].task = attempts[a].task => b = a

-----------------------------------------------------------------------------
(* A statement of the documents that recovery does not keep.               *)

(* docs/work-packages/window-2026-10-g-overview.md: "recovery closes       *)
(* orphaned attempts as failed".  When the executor is up again, no        *)
(* attempt is left running from before.                                    *)
RecoveryClosesOrphans ==
  [][ executor # "up" /\ executor' = "up" =>
        \A a \in AttemptIds : attempts'[a].status # "running" ]_allVars

=============================================================================
