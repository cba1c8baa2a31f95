------------------------------ MODULE Reducer ------------------------------
(***************************************************************************)
(* The reducer of internal/state: how each journal event changes the       *)
(* canonical projection of one project.  An action is the application of   *)
(* one event; an event the code refuses is an action that is not enabled,  *)
(* because Projection.Apply is all-or-nothing and the control plane rolls  *)
(* the append back.  Any client may append any event (the principal's      *)
(* facade, the executors and the CLI share one journal), so Next is the    *)
(* union over every event and every small payload.                         *)
(*                                                                         *)
(* Left out: titles, summaries, timestamps, sequence numbers, milestones,  *)
(* components and the other descriptive facts of the projection.  A task's *)
(* alias stands for its id.                                                *)
(***************************************************************************)
EXTENDS TaskLifecycle, Naturals

CONSTANTS
  TaskIds, AttemptIds, WorkPackageIds, Commits, ValidationIds, ReviewIds,
  MaxVersion,     \* bound: the highest Work Package version a payload names
  None            \* "" in the code: no id, no commit

ASSUME MaxVersionAssumption == MaxVersion \in Nat \ {0}

ASSUME NoneAssumption ==
  /\ None \notin TaskIds
  /\ None \notin AttemptIds
  /\ None \notin WorkPackageIds
  /\ None \notin Commits

VARIABLES
  initialised,  \* ProjectInitialized has been applied
  tasks,        \* Projection.tasks, by id
  attempts,     \* Projection.attempts, by id
  proposals,    \* Projection.proposals: highest proposed version per package
  validations,  \* Projection.validations: the evidence index
  reviews,      \* Projection.reviews
  baseline,     \* AcceptedCommit and the ValidationState of the project
  (* A fact the journal keeps and the projection does not. *)
  passing       \* the ids whose ValidationCompleted event said "pass"

projection == <<initialised, tasks, attempts, proposals, validations, reviews,
                baseline>>
journalFacts == passing
vars == <<initialised, tasks, attempts, proposals, validations, reviews,
          baseline, passing>>

Versions == 1 .. MaxVersion
Outcomes == {"pass", "fail", "error", "cancelled"}

(* A project record with an empty slot for every id not yet used.          *)
NoTask == [state |-> "absent", wp |-> None, version |-> 0, accepted |-> None,
           current |-> None, blockedFrom |-> "none"]
NoAttempt == [status |-> "absent", task |-> None, wp |-> None, version |-> 0,
              commit |-> None]
NoEvidence == [scope |-> "none", task |-> None, attempt |-> None,
               commit |-> None]

Task == [state : States \cup {"absent"},
         wp : WorkPackageIds \cup {None},
         version : 0 .. MaxVersion,
         accepted : Commits \cup {None},
         current : AttemptIds \cup {None},
         blockedFrom : Active \cup {"none"}]

Attempt == [status : AttemptStatuses \cup {"absent"},
            task : TaskIds \cup {None},
            wp : WorkPackageIds \cup {None},
            version : 0 .. MaxVersion,
            commit : Commits \cup {None}]

Evidence == [scope : {"none", "attempt", "integration"},
             task : TaskIds \cup {None},
             attempt : AttemptIds \cup {None},
             commit : Commits \cup {None}]

Baseline == [commit : Commits \cup {None},
             status : {"unknown", "green", "red"},
             verified : BOOLEAN]

TypeOK ==
  /\ initialised \in BOOLEAN
  /\ tasks \in [TaskIds -> Task]
  /\ attempts \in [AttemptIds -> Attempt]
  /\ proposals \in [WorkPackageIds -> 0 .. MaxVersion]
  /\ validations \in [ValidationIds -> Evidence]
  /\ reviews \in [ReviewIds -> Evidence]
  /\ baseline \in Baseline
  /\ passing \subseteq ValidationIds

Init ==
  /\ initialised = FALSE
  /\ tasks = [t \in TaskIds |-> NoTask]
  /\ attempts = [a \in AttemptIds |-> NoAttempt]
  /\ proposals = [w \in WorkPackageIds |-> 0]
  /\ validations = [v \in ValidationIds |-> NoEvidence]
  /\ reviews = [r \in ReviewIds |-> NoEvidence]
  /\ baseline = [commit |-> None, status |-> "unknown", verified |-> FALSE]
  /\ passing = {}

-----------------------------------------------------------------------------
(* Preconditions the reducer names (lineage.go).                           *)

requireTaskInState(t, want) == initialised /\ tasks[t].state = want

(* transitionTask's own precondition: the task exists and the edge is legal. *)
CanMove(t, to) == initialised /\ CanTransition(tasks[t].state, to)

requireAttemptOf(t, a) == attempts[a].status # "absent" /\ attempts[a].task = t

requireCandidate(a) ==
  attempts[a].status = "candidate_produced" /\ attempts[a].commit # None

requireCandidateCommit(a, claimed) == claimed = attempts[a].commit

AttemptEvidence(t, a) ==
  [scope |-> "attempt", task |-> t, attempt |-> a,
   commit |-> attempts[a].commit]

(* Evidence is indexed once; a second event with the same id is refused.   *)
Unrecorded(index, id) == index[id].scope = "none"

requireEvidenceFor(index, ids, t, a) ==
  \A id \in ids :
    /\ index[id].scope = "attempt"
    /\ index[id].task = t
    /\ index[id].attempt = a
    /\ index[id].commit = attempts[a].commit

(* The attempt ran against the blueprint version the task has approved.    *)
RanApprovedPlan(t, a) ==
  /\ attempts[a].wp = tasks[t].wp
  /\ attempts[a].version = tasks[t].version

MoveTask(t, to) == tasks' = [tasks EXCEPT ![t].state = to]

-----------------------------------------------------------------------------
(* Project and planning events.                                            *)

ProjectInitialized(c) ==
  /\ ~initialised
  /\ initialised' = TRUE
  /\ baseline' = [baseline EXCEPT !.commit = c]
  /\ UNCHANGED <<tasks, attempts, proposals, validations, reviews, journalFacts>>

TaskCreated(t) ==
  /\ requireTaskInState(t, "absent")
  /\ MoveTask(t, "proposed")
  /\ UNCHANGED <<initialised, attempts, proposals, validations, reviews,
                 baseline, journalFacts>>

TaskScoutingStarted(t) ==
  /\ CanMove(t, "scouting")
  /\ MoveTask(t, "scouting")
  /\ UNCHANGED <<initialised, attempts, proposals, validations, reviews,
                 baseline, journalFacts>>

(* Also the only way out of "blocked"; the reason is cleared.              *)
TaskDesignStarted(t) ==
  /\ CanMove(t, "designing")
  /\ tasks' = [tasks EXCEPT ![t].state = "designing", ![t].blockedFrom = "none"]
  /\ UNCHANGED <<initialised, attempts, proposals, validations, reviews,
                 baseline, journalFacts>>

WorkPackageProposed(t, w, v) ==
  /\ requireTaskInState(t, "designing")
  /\ v > proposals[w]
  /\ ~(tasks[t].wp = w /\ v <= tasks[t].version)
  /\ proposals' = [proposals EXCEPT ![w] = v]
  /\ UNCHANGED <<initialised, tasks, attempts, validations, reviews, baseline,
                 journalFacts>>

(* The version must exceed the approved one only when the package is the   *)
(* task's current package.                                                 *)
WorkPackageApproved(t, w, v) ==
  /\ CanMove(t, "ready")
  /\ ~(tasks[t].wp = w /\ v <= tasks[t].version)
  /\ tasks' = [tasks EXCEPT ![t].state = "ready", ![t].wp = w, ![t].version = v]
  /\ UNCHANGED <<initialised, attempts, proposals, validations, reviews,
                 baseline, journalFacts>>

(* Guarded by the edge to "running" alone, so also enabled in "validating" *)
(* and "reviewing".                                                        *)
TaskDelegated(t, w) ==
  /\ CanMove(t, "running")
  /\ tasks[t].wp = w
  /\ MoveTask(t, "running")
  /\ UNCHANGED <<initialised, attempts, proposals, validations, reviews,
                 baseline, journalFacts>>

-----------------------------------------------------------------------------
(* Attempts.                                                               *)

(* Mutation: a second attempt may start while the first still runs.        *)
NeverRunning(t) == FALSE

HasRunningAttempt(t) ==
  \E b \in AttemptIds : attempts[b].task = t /\ attempts[b].status = "running"

AttemptStarted(t, a, w, v) ==
  /\ requireTaskInState(t, "running")
  /\ w = tasks[t].wp
  /\ v = tasks[t].version
  /\ attempts[a].status = "absent"
  /\ ~HasRunningAttempt(t)
  /\ attempts' = [attempts EXCEPT ![a] =
        [status |-> "running", task |-> t, wp |-> w, version |-> v,
         commit |-> None]]
  /\ tasks' = [tasks EXCEPT ![t].current = a]
  /\ UNCHANGED <<initialised, proposals, validations, reviews, baseline,
                 journalFacts>>

(* Mutation: a terminal attempt may be finished again.                     *)
CanFinishAgain(t, a, to) ==
  /\ initialised
  /\ attempts[a].task = t
  /\ to \in AttemptTerminal

CanFinish(t, a, to) ==
  /\ initialised
  /\ attempts[a].task = t
  /\ CanFinishAttempt(attempts[a].status, to)

(* Any running attempt of the task may produce the candidate, including    *)
(* one that outlived a block and a new plan.                               *)
CandidateProduced(t, a, c) ==
  /\ CanMove(t, "validating")
  /\ CanFinish(t, a, "candidate_produced")
  /\ attempts' = [attempts EXCEPT ![a].status = "candidate_produced",
                                  ![a].commit = c]
  /\ MoveTask(t, "validating")
  /\ UNCHANGED <<initialised, proposals, validations, reviews, baseline,
                 journalFacts>>

(* A blocked, failed or cancelled attempt leaves its task where it is.     *)
AttemptEnds(t, a, to) ==
  /\ CanFinish(t, a, to)
  /\ attempts' = [attempts EXCEPT ![a].status = to]
  /\ UNCHANGED <<initialised, tasks, proposals, validations, reviews, baseline,
                 journalFacts>>

AttemptBlocked(t, a) == AttemptEnds(t, a, "blocked")

AttemptFailed(t, a, cancelled) ==
  AttemptEnds(t, a, IF cancelled THEN "cancelled" ELSE "failed")

-----------------------------------------------------------------------------
(* Evidence and decisions.                                                 *)

(* Mutation: a run that could not complete counts as a pass.               *)
AfterValidationLenient(outcome) ==
  IF outcome = "fail" THEN "running" ELSE "reviewing"

AfterValidation(outcome) == IF outcome = "pass" THEN "reviewing" ELSE "running"

JournalOutcome(id, outcome) ==
  passing' = IF outcome = "pass" THEN passing \cup {id} ELSE passing

ValidationCompletedAttempt(t, a, c, id, outcome) ==
  /\ requireTaskInState(t, "validating")
  /\ requireAttemptOf(t, a)
  /\ requireCandidate(a)
  /\ requireCandidateCommit(a, c)
  /\ Unrecorded(validations, id)
  /\ validations' = [validations EXCEPT ![id] = AttemptEvidence(t, a)]
  /\ MoveTask(t, AfterValidation(outcome))
  /\ JournalOutcome(id, outcome)
  /\ UNCHANGED <<initialised, attempts, proposals, reviews, baseline>>

(* Mutation: the candidate of a failed integration becomes the baseline.   *)
AdvanceBaselineAlways(c, outcome) == baseline' = [baseline EXCEPT !.commit = c]

(* Only an integrated, validated commit becomes the baseline.  The         *)
(* ValidationState is left as the last baseline run set it.                *)
AdvanceBaseline(c, outcome) ==
  baseline' = IF outcome = "pass" THEN [baseline EXCEPT !.commit = c]
                                  ELSE baseline

ValidationCompletedIntegration(t, c, id, outcome) ==
  /\ requireTaskInState(t, "integration_validating")
  /\ Unrecorded(validations, id)
  /\ validations' = [validations EXCEPT ![id] =
        [scope |-> "integration", task |-> t, attempt |-> None, commit |-> c]]
  /\ IF outcome = "pass" THEN MoveTask(t, "done") ELSE UNCHANGED tasks
  /\ AdvanceBaseline(c, outcome)
  /\ JournalOutcome(id, outcome)
  /\ UNCHANGED <<initialised, attempts, proposals, reviews>>

(* A baseline run is not indexed as evidence.                              *)
ValidationCompletedBaseline(c, outcome) ==
  /\ initialised
  /\ baseline' = [baseline EXCEPT
        !.status = CASE outcome = "pass" -> "green"
                     [] outcome = "fail" -> "red"
                     [] OTHER -> "unknown",
        !.verified = (outcome = "pass" /\ c = baseline.commit)]
  /\ UNCHANGED <<initialised, tasks, attempts, proposals, validations, reviews,
                 journalFacts>>

ReviewCompleted(t, a, w, id) ==
  /\ requireTaskInState(t, "reviewing")
  /\ requireAttemptOf(t, a)
  /\ requireCandidate(a)
  /\ w = attempts[a].wp
  /\ Unrecorded(reviews, id)
  /\ reviews' = [reviews EXCEPT ![id] = AttemptEvidence(t, a)]
  /\ UNCHANGED <<initialised, tasks, attempts, proposals, validations, baseline,
                 journalFacts>>

(* Mutation: the approved version is not compared.                         *)
AcceptableAnyVersion(t, a, c, w, vs, rs) ==
  /\ requireTaskInState(t, "reviewing")
  /\ requireAttemptOf(t, a)
  /\ requireCandidate(a)
  /\ requireCandidateCommit(a, c)
  /\ w = tasks[t].wp
  /\ attempts[a].wp = tasks[t].wp
  /\ requireEvidenceFor(validations, vs, t, a)
  /\ requireEvidenceFor(reviews, rs, t, a)

Acceptable(t, a, c, w, vs, rs) ==
  /\ requireTaskInState(t, "reviewing")
  /\ requireAttemptOf(t, a)
  /\ requireCandidate(a)
  /\ requireCandidateCommit(a, c)
  /\ w = tasks[t].wp
  /\ RanApprovedPlan(t, a)
  /\ requireEvidenceFor(validations, vs, t, a)
  /\ requireEvidenceFor(reviews, rs, t, a)

(* vs and rs are never empty: the payload's own Validate demands one each. *)
ChangeAccepted(t, a, c, w, vs, rs) ==
  /\ Acceptable(t, a, c, w, vs, rs)
  /\ tasks' = [tasks EXCEPT ![t].state = "accepted", ![t].accepted = c]
  /\ UNCHANGED <<initialised, attempts, proposals, validations, reviews,
                 baseline, journalFacts>>

ChangeRejected(t, a) ==
  /\ requireTaskInState(t, "reviewing")
  /\ requireAttemptOf(t, a)
  /\ requireCandidate(a)
  /\ MoveTask(t, "running")
  /\ UNCHANGED <<initialised, attempts, proposals, validations, reviews,
                 baseline, journalFacts>>

(* Blocks any active task; its attempts are not touched.                   *)
EscalationRaised(t, cited) ==
  /\ CanMove(t, "blocked")
  /\ cited # None => requireAttemptOf(t, cited)
  /\ tasks' = [tasks EXCEPT ![t].state = "blocked",
                            ![t].blockedFrom = tasks[t].state]
  /\ UNCHANGED <<initialised, attempts, proposals, validations, reviews,
                 baseline, journalFacts>>

IntegrationStarted(t) ==
  /\ CanMove(t, "integrating")
  /\ MoveTask(t, "integrating")
  /\ UNCHANGED <<initialised, attempts, proposals, validations, reviews,
                 baseline, journalFacts>>

IntegrationValidationStarted(t) ==
  /\ CanMove(t, "integration_validating")
  /\ MoveTask(t, "integration_validating")
  /\ UNCHANGED <<initialised, attempts, proposals, validations, reviews,
                 baseline, journalFacts>>

-----------------------------------------------------------------------------

PlanningNext(t) ==
  \/ TaskCreated(t)
  \/ TaskScoutingStarted(t)
  \/ TaskDesignStarted(t)
  \/ \E w \in WorkPackageIds :
       \/ TaskDelegated(t, w)
       \/ \E v \in Versions : WorkPackageProposed(t, w, v)
       \/ \E v \in Versions : WorkPackageApproved(t, w, v)

AttemptNext(t) ==
  \E a \in AttemptIds :
    \/ \E w \in WorkPackageIds, v \in Versions : AttemptStarted(t, a, w, v)
    \/ \E c \in Commits : CandidateProduced(t, a, c)
    \/ AttemptBlocked(t, a)
    \/ \E cancelled \in BOOLEAN : AttemptFailed(t, a, cancelled)

DecisionNext(t) ==
  \/ \E a \in AttemptIds, c \in Commits, id \in ValidationIds, o \in Outcomes :
       ValidationCompletedAttempt(t, a, c, id, o)
  \/ \E c \in Commits, id \in ValidationIds, o \in Outcomes :
       ValidationCompletedIntegration(t, c, id, o)
  \/ \E a \in AttemptIds, w \in WorkPackageIds, id \in ReviewIds :
       ReviewCompleted(t, a, w, id)
  \/ \E a \in AttemptIds, c \in Commits, w \in WorkPackageIds,
        vs \in (SUBSET ValidationIds) \ {{}}, rs \in (SUBSET ReviewIds) \ {{}} :
       ChangeAccepted(t, a, c, w, vs, rs)
  \/ \E a \in AttemptIds : ChangeRejected(t, a)
  \/ \E cited \in AttemptIds \cup {None} : EscalationRaised(t, cited)
  \/ IntegrationStarted(t)
  \/ IntegrationValidationStarted(t)

Next ==
  \/ \E c \in Commits \cup {None} : ProjectInitialized(c)
  \/ \E c \in Commits, o \in Outcomes : ValidationCompletedBaseline(c, o)
  \/ \E t \in TaskIds : PlanningNext(t) \/ AttemptNext(t) \/ DecisionNext(t)

Spec == Init /\ [][Next]_vars

-----------------------------------------------------------------------------
(* Properties.                                                             *)

Accepted == {"accepted", "integrating", "integration_validating", "done"}

(* The attempt a produced the commit task t accepted, against the plan t   *)
(* has approved.                                                           *)
AcceptedFrom(t, a) ==
  /\ attempts[a].task = t
  /\ attempts[a].status = "candidate_produced"
  /\ attempts[a].commit = tasks[t].accepted
  /\ RanApprovedPlan(t, a)

AboutAttempt(e, t, a) ==
  e.scope = "attempt" /\ e.task = t /\ e.attempt = a

(* Acceptance is explainable (applyChangeAccepted): from acceptance until  *)
(* the task is done or blocked, its accepted commit is the candidate of    *)
(* one of its own attempts, which ran the approved plan version and is     *)
(* the subject of at least one recorded validation and one review.  It     *)
(* takes an attempt that outlives a block and a new plan to break it.      *)
AcceptanceLineage ==
  \A t \in TaskIds : tasks[t].state \in Accepted =>
    \E a \in AttemptIds :
      /\ AcceptedFrom(t, a)
      /\ \E v \in ValidationIds : AboutAttempt(validations[v], t, a)
      /\ \E r \in ReviewIds : AboutAttempt(reviews[r], t, a)

(* "Which attempt produced this candidate" is never ambiguous              *)
(* (applyAttemptStarted): a running attempt is its task's current attempt, *)
(* so no task has two, whatever blocks and new plans came between.         *)
RunningAttemptIsCurrent ==
  \A a \in AttemptIds : attempts[a].status = "running" =>
    tasks[attempts[a].task].current = a

(* Evidence stays pinned to the candidate it was recorded for              *)
(* (requireCandidateCommit): every indexed attempt validation and review   *)
(* names an attempt of its task that ended with exactly that commit.       *)
EvidenceNamesCandidate ==
  \A e \in {validations[v] : v \in ValidationIds}
           \cup {reviews[r] : r \in ReviewIds} :
    e.scope = "attempt" =>
      /\ e.attempt \in AttemptIds
      /\ attempts[e.attempt].task = e.task
      /\ attempts[e.attempt].status = "candidate_produced"
      /\ attempts[e.attempt].commit = e.commit

(* A task under review has deterministic evidence behind it                *)
(* (applyAttemptValidation): some validation of one of its attempts was    *)
(* journalled as a pass.                                                   *)
ReviewRestsOnPass ==
  \A t \in TaskIds : tasks[t].state = "reviewing" =>
    \E v \in passing : validations[v].scope = "attempt" /\ validations[v].task = t

(* The project baseline moves only with a task that becomes done on a      *)
(* passing integration run of that very commit (applyIntegrationValidation *)
(* and its comment "Only an integrated, validated change becomes the       *)
(* project baseline").                                                     *)
BaselineMovesOnIntegration ==
  [][ initialised /\ baseline'.commit # baseline.commit =>
        \E t \in TaskIds, v \in passing' :
          /\ tasks[t].state = "integration_validating"
          /\ tasks'[t].state = "done"
          /\ validations'[v].scope = "integration"
          /\ validations'[v].task = t
          /\ validations'[v].commit = baseline'.commit ]_vars

(* History is not rewritten (finishAttempt, recordEvidence): a terminated  *)
(* attempt and a piece of recorded evidence never change again.            *)
HistoryIsImmutable ==
  [][ /\ \A a \in AttemptIds :
           attempts[a].status \in AttemptTerminal => attempts'[a] = attempts[a]
      /\ \A v \in ValidationIds :
           validations[v].scope # "none" => validations'[v] = validations[v]
      /\ \A r \in ReviewIds :
           reviews[r].scope # "none" => reviews'[r] = reviews[r] ]_vars

-----------------------------------------------------------------------------
(* Statements of the documents that the reducer does not keep.             *)

(* INVARIANTS.md, DCI-040: "Passing tests are necessary but not            *)
(* sufficient".  The accepted candidate has a validation that passed.      *)
AcceptedCandidatePassed ==
  \A t \in TaskIds : tasks[t].state = "accepted" =>
    \E v \in passing :
      /\ validations[v].scope = "attempt"
      /\ validations[v].task = t
      /\ validations[v].commit = tasks[t].accepted

(* protocol.ValidationState: accepted_commit_verified means "the baseline  *)
(* passed on the commit we currently call accepted".  A verified flag does *)
(* not survive a change of the accepted commit.                            *)
VerifiedFollowsCommit ==
  [][ baseline'.verified /\ baseline.verified =>
        baseline'.commit = baseline.commit ]_vars

=============================================================================
