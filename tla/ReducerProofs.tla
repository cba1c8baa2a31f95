--------------------------- MODULE ReducerProofs ---------------------------
(***************************************************************************)
(* Proofs about the reducer, for every set of ids and every bound on the   *)
(* Work Package version.                                                   *)
(***************************************************************************)
EXTENDS Reducer, TLAPS

-----------------------------------------------------------------------------
(* Facts about the adjacency list.                                         *)

(* No edge of the list leads to "blocked", so only an active task can be   *)
(* blocked.                                                                *)
LEMMA OnlyActiveBlocks ==
  ASSUME NEW s, CanTransition(s, "blocked")
  PROVE  s \in Active
  BY DEF CanTransition, Edges

(* Each state after acceptance is reached only from the one before it.     *)
LEMMA AcceptedEdges ==
  /\ \A s : CanTransition(s, "integrating") => s = "accepted"
  /\ \A s : CanTransition(s, "integration_validating") => s = "integrating"
  BY DEF CanTransition, Edges

-----------------------------------------------------------------------------
(* Type correctness.                                                       *)

(* The initial state is typed.                                             *)
LEMMA TypeInit == Init => TypeOK
<1> SUFFICES ASSUME Init PROVE TypeOK
  OBVIOUS
<1>1. 0 \in 0 .. MaxVersion
  BY MaxVersionAssumption
<1>2. NoTask \in Task
  BY <1>1 DEF NoTask, Task
<1>3. NoAttempt \in Attempt
  BY <1>1 DEF NoAttempt, Attempt
<1>4. NoEvidence \in Evidence
  BY DEF NoEvidence, Evidence
<1>5. baseline \in Baseline
  BY DEF Init, Baseline
<1> QED BY <1>1, <1>2, <1>3, <1>4, <1>5 DEF Init, TypeOK

(* Moving a task keeps the types of the projection's tasks.                *)
LEMMA MoveTaskTyped ==
  ASSUME TypeOK, NEW t \in TaskIds, NEW s \in States, MoveTask(t, s)
  PROVE  tasks' \in [TaskIds -> Task]
  BY DEF TypeOK, MoveTask, Task

(* The record updates of acceptance, of a block, of an attempt's start and *)
(* of its candidate keep the type of the record.                           *)
LEMMA AcceptedTyped ==
  ASSUME NEW r \in Task, NEW c \in Commits
  PROVE  [r EXCEPT !.state = "accepted", !.accepted = c] \in Task
  BY DEF Task, States

(* A task that gets blocked stays typed.                                   *)
LEMMA BlockedTyped ==
  ASSUME NEW r \in Task, NEW from \in Active
  PROVE  [r EXCEPT !.state = "blocked", !.blockedFrom = from] \in Task
  BY DEF Task, States

(* So does one whose current attempt changes.                              *)
LEMMA CurrentTyped ==
  ASSUME NEW r \in Task, NEW a \in AttemptIds
  PROVE  [r EXCEPT !.current = a] \in Task
  BY DEF Task

(* An attempt that produced its candidate stays typed.                     *)
LEMMA CandidateTyped ==
  ASSUME NEW r \in Attempt, NEW c \in Commits
  PROVE  [r EXCEPT !.status = "candidate_produced", !.commit = c] \in Attempt
  BY DEF Attempt, AttemptStatuses, AttemptTerminal

(* Every step keeps the types.                                             *)
LEMMA TypeStep ==
  ASSUME TypeOK, [Next]_vars
  PROVE  TypeOK'
<1>1. CASE UNCHANGED vars
  BY <1>1 DEF vars, TypeOK
<1>2. ASSUME NEW c \in Commits \cup {None}, ProjectInitialized(c)
      PROVE  TypeOK'
  BY <1>2 DEF ProjectInitialized, TypeOK, Baseline, journalFacts
<1>3. ASSUME NEW c \in Commits, NEW o \in Outcomes,
             ValidationCompletedBaseline(c, o)
      PROVE  TypeOK'
  BY <1>3 DEF ValidationCompletedBaseline, TypeOK, Baseline, journalFacts
<1>4. ASSUME NEW t \in TaskIds, PlanningNext(t)
      PROVE  TypeOK'
  <2>1. CASE TaskCreated(t)
    BY <2>1, MoveTaskTyped DEF TaskCreated, TypeOK, States, journalFacts
  <2>2. CASE TaskScoutingStarted(t)
    BY <2>2, MoveTaskTyped DEF TaskScoutingStarted, TypeOK, States, journalFacts
  <2>3. CASE TaskDesignStarted(t)
    <3>1. "designing" \in States
      BY DEF States
    <3>2. [tasks[t] EXCEPT !.state = "designing", !.blockedFrom = "none"] \in Task
      BY <3>1 DEF TypeOK, Task
    <3>3. tasks' \in [TaskIds -> Task]
      BY <2>3, <3>2 DEF TaskDesignStarted, TypeOK
    <3> QED BY <2>3, <3>3 DEF TaskDesignStarted, TypeOK, journalFacts
  <2>4. ASSUME NEW w \in WorkPackageIds, TaskDelegated(t, w)
        PROVE  TypeOK'
    BY <2>4, MoveTaskTyped DEF TaskDelegated, TypeOK, States, journalFacts
  <2>5. ASSUME NEW w \in WorkPackageIds, NEW v \in Versions,
               WorkPackageProposed(t, w, v)
        PROVE  TypeOK'
    BY <2>5, MaxVersionAssumption
       DEF WorkPackageProposed, TypeOK, Versions, journalFacts
  <2>6. ASSUME NEW w \in WorkPackageIds, NEW v \in Versions,
               WorkPackageApproved(t, w, v)
        PROVE  TypeOK'
    <3>1. tasks' \in [TaskIds -> Task]
      BY <2>6, MaxVersionAssumption
         DEF WorkPackageApproved, TypeOK, Task, States, Versions
    <3> QED BY <2>6, <3>1 DEF WorkPackageApproved, TypeOK, journalFacts
  <2> QED BY <1>4, <2>1, <2>2, <2>3, <2>4, <2>5, <2>6 DEF PlanningNext
<1>5. ASSUME NEW t \in TaskIds, AttemptNext(t)
      PROVE  TypeOK'
  <2>1. PICK a \in AttemptIds :
          \/ \E w \in WorkPackageIds, v \in Versions : AttemptStarted(t, a, w, v)
          \/ \E c \in Commits : CandidateProduced(t, a, c)
          \/ AttemptBlocked(t, a)
          \/ \E cancelled \in BOOLEAN : AttemptFailed(t, a, cancelled)
    BY <1>5 DEF AttemptNext
  <2>2. ASSUME NEW w \in WorkPackageIds, NEW v \in Versions,
               AttemptStarted(t, a, w, v)
        PROVE  TypeOK'
    <3>1. tasks' \in [TaskIds -> Task]
      BY <2>2, CurrentTyped DEF AttemptStarted, TypeOK
    <3>2. attempts' \in [AttemptIds -> Attempt]
      BY <2>2, MaxVersionAssumption
         DEF AttemptStarted, TypeOK, Attempt, AttemptStatuses, Versions
    <3> QED BY <2>2, <3>1, <3>2 DEF AttemptStarted, TypeOK, journalFacts
  <2>3. ASSUME NEW c \in Commits, CandidateProduced(t, a, c)
        PROVE  TypeOK'
    <3>1. tasks' \in [TaskIds -> Task]
      BY <2>3, MoveTaskTyped DEF CandidateProduced, States
    <3>2. attempts' \in [AttemptIds -> Attempt]
      BY <2>3, CandidateTyped DEF CandidateProduced, TypeOK
    <3> QED BY <2>3, <3>1, <3>2 DEF CandidateProduced, TypeOK, journalFacts
  <2>4. ASSUME NEW s \in AttemptTerminal, AttemptEnds(t, a, s)
        PROVE  TypeOK'
    BY <2>4 DEF AttemptEnds, TypeOK, Attempt, AttemptStatuses, journalFacts
  <2> QED BY <2>1, <2>2, <2>3, <2>4
          DEF AttemptBlocked, AttemptFailed, AttemptTerminal
<1>6. ASSUME NEW t \in TaskIds, DecisionNext(t)
      PROVE  TypeOK'
  <2>1. ASSUME NEW a \in AttemptIds, NEW c \in Commits,
               NEW id \in ValidationIds, NEW o \in Outcomes,
               ValidationCompletedAttempt(t, a, c, id, o)
        PROVE  TypeOK'
    <3>1. tasks' \in [TaskIds -> Task]
      BY <2>1, MoveTaskTyped
         DEF ValidationCompletedAttempt, AfterValidation, States
    <3>2. validations' \in [ValidationIds -> Evidence]
      BY <2>1 DEF ValidationCompletedAttempt, AttemptEvidence, TypeOK, Evidence,
                  Attempt
    <3> QED BY <2>1, <3>1, <3>2
            DEF ValidationCompletedAttempt, JournalOutcome, TypeOK
  <2>2. ASSUME NEW c \in Commits, NEW id \in ValidationIds, NEW o \in Outcomes,
               ValidationCompletedIntegration(t, c, id, o)
        PROVE  TypeOK'
    <3>1. tasks' \in [TaskIds -> Task]
      BY <2>2, MoveTaskTyped
         DEF ValidationCompletedIntegration, States, TypeOK
    <3>2. validations' \in [ValidationIds -> Evidence]
      BY <2>2 DEF ValidationCompletedIntegration, TypeOK, Evidence
    <3>3. baseline' \in Baseline
      BY <2>2 DEF ValidationCompletedIntegration, AdvanceBaseline, TypeOK,
                  Baseline
    <3> QED BY <2>2, <3>1, <3>2, <3>3
            DEF ValidationCompletedIntegration, JournalOutcome, TypeOK
  <2>3. ASSUME NEW a \in AttemptIds, NEW w \in WorkPackageIds,
               NEW id \in ReviewIds, ReviewCompleted(t, a, w, id)
        PROVE  TypeOK'
    BY <2>3 DEF ReviewCompleted, AttemptEvidence, TypeOK, Evidence, Attempt,
                journalFacts
  <2>4. ASSUME NEW a \in AttemptIds, NEW c \in Commits,
               NEW w \in WorkPackageIds,
               NEW vs \in (SUBSET ValidationIds) \ {{}},
               NEW rs \in (SUBSET ReviewIds) \ {{}},
               ChangeAccepted(t, a, c, w, vs, rs)
        PROVE  TypeOK'
    <3>1. tasks[t] \in Task
      BY DEF TypeOK
    <3>2. [tasks[t] EXCEPT !.state = "accepted", !.accepted = c] \in Task
      BY <3>1, AcceptedTyped
    <3>3. tasks' \in [TaskIds -> Task]
      BY <2>4, <3>2 DEF ChangeAccepted, TypeOK
    <3> QED BY <2>4, <3>3 DEF ChangeAccepted, TypeOK, journalFacts
  <2>5. ASSUME NEW a \in AttemptIds, ChangeRejected(t, a)
        PROVE  TypeOK'
    BY <2>5, MoveTaskTyped DEF ChangeRejected, TypeOK, States, journalFacts
  <2>6. ASSUME NEW cited \in AttemptIds \cup {None}, EscalationRaised(t, cited)
        PROVE  TypeOK'
    <3>1. tasks[t].state \in Active
      BY <2>6, OnlyActiveBlocks DEF EscalationRaised, CanMove
    <3>2. tasks[t] \in Task
      BY DEF TypeOK
    <3>3. [tasks[t] EXCEPT !.state = "blocked", !.blockedFrom = tasks[t].state]
            \in Task
      BY <3>1, <3>2, BlockedTyped
    <3>4. tasks' \in [TaskIds -> Task]
      BY <2>6, <3>3 DEF EscalationRaised, TypeOK
    <3> QED BY <2>6, <3>4 DEF EscalationRaised, TypeOK, journalFacts
  <2>7. CASE IntegrationStarted(t)
    BY <2>7, MoveTaskTyped DEF IntegrationStarted, TypeOK, States, journalFacts
  <2>8. CASE IntegrationValidationStarted(t)
    BY <2>8, MoveTaskTyped
       DEF IntegrationValidationStarted, TypeOK, States, journalFacts
  <2> QED BY <1>6, <2>1, <2>2, <2>3, <2>4, <2>5, <2>6, <2>7, <2>8
          DEF DecisionNext
<1> QED BY <1>1, <1>2, <1>3, <1>4, <1>5, <1>6 DEF Next

(* Every reachable projection is well typed, a blocked task's origin is    *)
(* an active state included.                                               *)
THEOREM TypeCorrect == Spec => []TypeOK
  BY TypeInit, TypeStep, PTL DEF Spec

-----------------------------------------------------------------------------
(* What one step can do to attempts, to evidence and to a task.            *)

(* Three events write an attempt.                                          *)
LEMMA AttemptWriters ==
  ASSUME [Next]_vars
  PROVE  \/ UNCHANGED attempts
         \/ \E t \in TaskIds, a \in AttemptIds, w \in WorkPackageIds,
               v \in Versions : AttemptStarted(t, a, w, v)
         \/ \E t \in TaskIds, a \in AttemptIds, c \in Commits :
               CandidateProduced(t, a, c)
         \/ \E t \in TaskIds, a \in AttemptIds, s \in AttemptTerminal :
               AttemptEnds(t, a, s)
<1>1. CASE UNCHANGED vars
  BY <1>1 DEF vars
<1>2. CASE \E c \in Commits \cup {None} : ProjectInitialized(c)
  BY <1>2 DEF ProjectInitialized
<1>3. CASE \E c \in Commits, o \in Outcomes : ValidationCompletedBaseline(c, o)
  BY <1>3 DEF ValidationCompletedBaseline
<1>4. ASSUME NEW t \in TaskIds, PlanningNext(t)
      PROVE  UNCHANGED attempts
  BY <1>4 DEF PlanningNext, TaskCreated, TaskScoutingStarted,
              TaskDesignStarted, TaskDelegated, WorkPackageProposed,
              WorkPackageApproved
<1>5. ASSUME NEW t \in TaskIds, AttemptNext(t)
      PROVE  \/ \E a \in AttemptIds, w \in WorkPackageIds, v \in Versions :
                  AttemptStarted(t, a, w, v)
             \/ \E a \in AttemptIds, c \in Commits : CandidateProduced(t, a, c)
             \/ \E a \in AttemptIds, s \in AttemptTerminal : AttemptEnds(t, a, s)
  BY <1>5 DEF AttemptNext, AttemptBlocked, AttemptFailed, AttemptTerminal
<1>6. ASSUME NEW t \in TaskIds, DecisionNext(t)
      PROVE  UNCHANGED attempts
  BY <1>6 DEF DecisionNext, ValidationCompletedAttempt,
              ValidationCompletedIntegration, ReviewCompleted, ChangeAccepted,
              ChangeRejected, EscalationRaised, IntegrationStarted,
              IntegrationValidationStarted
<1> QED BY <1>1, <1>2, <1>3, <1>4, <1>5, <1>6 DEF Next

(* Three events index evidence.                                            *)
LEMMA EvidenceWriters ==
  ASSUME [Next]_vars
  PROVE  \/ UNCHANGED <<validations, reviews, passing>>
         \/ \E t \in TaskIds, a \in AttemptIds, c \in Commits,
               id \in ValidationIds, o \in Outcomes :
               ValidationCompletedAttempt(t, a, c, id, o)
         \/ \E t \in TaskIds, c \in Commits, id \in ValidationIds,
               o \in Outcomes : ValidationCompletedIntegration(t, c, id, o)
         \/ \E t \in TaskIds, a \in AttemptIds, w \in WorkPackageIds,
               id \in ReviewIds : ReviewCompleted(t, a, w, id)
<1>1. CASE UNCHANGED vars
  BY <1>1 DEF vars
<1>2. CASE \E c \in Commits \cup {None} : ProjectInitialized(c)
  BY <1>2 DEF ProjectInitialized, journalFacts
<1>3. CASE \E c \in Commits, o \in Outcomes : ValidationCompletedBaseline(c, o)
  BY <1>3 DEF ValidationCompletedBaseline, journalFacts
<1>4. ASSUME NEW t \in TaskIds, PlanningNext(t)
      PROVE  UNCHANGED <<validations, reviews, passing>>
  BY <1>4 DEF PlanningNext, TaskCreated, TaskScoutingStarted,
              TaskDesignStarted, TaskDelegated, WorkPackageProposed,
              WorkPackageApproved, journalFacts
<1>5. ASSUME NEW t \in TaskIds, AttemptNext(t)
      PROVE  UNCHANGED <<validations, reviews, passing>>
  BY <1>5 DEF AttemptNext, AttemptStarted, CandidateProduced, AttemptBlocked,
              AttemptFailed, AttemptEnds, journalFacts
<1>6. ASSUME NEW t \in TaskIds, DecisionNext(t)
      PROVE  \/ UNCHANGED <<validations, reviews, passing>>
             \/ \E a \in AttemptIds, c \in Commits, id \in ValidationIds,
                   o \in Outcomes : ValidationCompletedAttempt(t, a, c, id, o)
             \/ \E c \in Commits, id \in ValidationIds, o \in Outcomes :
                   ValidationCompletedIntegration(t, c, id, o)
             \/ \E a \in AttemptIds, w \in WorkPackageIds, id \in ReviewIds :
                   ReviewCompleted(t, a, w, id)
  BY <1>6 DEF DecisionNext, ChangeAccepted, ChangeRejected, EscalationRaised,
              IntegrationStarted, IntegrationValidationStarted, journalFacts
<1> QED BY <1>1, <1>2, <1>3, <1>4, <1>5, <1>6 DEF Next

(* A terminated attempt never changes again.                               *)
LEMMA AttemptsKept ==
  ASSUME TypeOK, [Next]_vars,
         NEW a \in AttemptIds, attempts[a].status \in AttemptTerminal
  PROVE  attempts'[a] = attempts[a]
<1>1. CASE UNCHANGED attempts
  BY <1>1
<1>2. ASSUME NEW t \in TaskIds, NEW b \in AttemptIds, NEW w, NEW v,
             AttemptStarted(t, b, w, v)
      PROVE  attempts'[a] = attempts[a]
  BY <1>2 DEF AttemptStarted, TypeOK, AttemptTerminal
<1>3. ASSUME NEW t \in TaskIds, NEW b \in AttemptIds, NEW c,
             CandidateProduced(t, b, c)
      PROVE  attempts'[a] = attempts[a]
  BY <1>3 DEF CandidateProduced, CanFinish, CanFinishAttempt, TypeOK,
              AttemptTerminal
<1>4. ASSUME NEW t \in TaskIds, NEW b \in AttemptIds, NEW s,
             AttemptEnds(t, b, s)
      PROVE  attempts'[a] = attempts[a]
  BY <1>4 DEF AttemptEnds, CanFinish, CanFinishAttempt, TypeOK,
              AttemptTerminal
<1> QED BY <1>1, <1>2, <1>3, <1>4, AttemptWriters

(* Recorded evidence never changes, and a pass stays a pass.               *)
LEMMA EvidenceKept ==
  ASSUME TypeOK, [Next]_vars
  PROVE  /\ \A v \in ValidationIds :
              validations[v].scope # "none" => validations'[v] = validations[v]
         /\ \A r \in ReviewIds :
              reviews[r].scope # "none" => reviews'[r] = reviews[r]
         /\ passing \subseteq passing'
<1>1. CASE UNCHANGED <<validations, reviews, passing>>
  BY <1>1
<1>2. ASSUME NEW t, NEW a, NEW c, NEW id \in ValidationIds, NEW o,
             ValidationCompletedAttempt(t, a, c, id, o)
      PROVE  /\ \A v \in ValidationIds \ {id} : validations'[v] = validations[v]
             /\ validations[id].scope = "none"
             /\ UNCHANGED reviews
             /\ passing \subseteq passing'
  BY <1>2 DEF ValidationCompletedAttempt, Unrecorded, JournalOutcome, TypeOK
<1>3. ASSUME NEW t, NEW c, NEW id \in ValidationIds, NEW o,
             ValidationCompletedIntegration(t, c, id, o)
      PROVE  /\ \A v \in ValidationIds \ {id} : validations'[v] = validations[v]
             /\ validations[id].scope = "none"
             /\ UNCHANGED reviews
             /\ passing \subseteq passing'
  BY <1>3 DEF ValidationCompletedIntegration, Unrecorded, JournalOutcome, TypeOK
<1>4. ASSUME NEW t, NEW a, NEW w, NEW id \in ReviewIds,
             ReviewCompleted(t, a, w, id)
      PROVE  /\ \A r \in ReviewIds \ {id} : reviews'[r] = reviews[r]
             /\ reviews[id].scope = "none"
             /\ UNCHANGED <<validations, passing>>
  BY <1>4 DEF ReviewCompleted, Unrecorded, TypeOK, journalFacts
<1> QED BY <1>1, <1>2, <1>3, <1>4, EvidenceWriters

(* History is not rewritten: a terminated attempt and a recorded piece of  *)
(* evidence never change, whatever events follow (finishAttempt,           *)
(* recordEvidence).                                                        *)
THEOREM HistoryImmutable == Spec => HistoryIsImmutable
<1>1. TypeOK /\ [Next]_vars =>
        [/\ \A a \in AttemptIds :
              attempts[a].status \in AttemptTerminal => attempts'[a] = attempts[a]
         /\ \A v \in ValidationIds :
              validations[v].scope # "none" => validations'[v] = validations[v]
         /\ \A r \in ReviewIds :
              reviews[r].scope # "none" => reviews'[r] = reviews[r]]_vars
  BY AttemptsKept, EvidenceKept
<1> QED BY <1>1, TypeCorrect, PTL DEF Spec, HistoryIsImmutable

-----------------------------------------------------------------------------
(* The inductive invariant.  The properties of the reducer are inductive   *)
(* together once an attempt that exists is known to belong to a task.      *)

AttemptOwned ==
  \A a \in AttemptIds : attempts[a].status # "absent" => attempts[a].task \in TaskIds

LineageInv ==
  /\ TypeOK
  /\ AttemptOwned
  /\ RunningAttemptIsCurrent
  /\ EvidenceNamesCandidate
  /\ ReviewRestsOnPass
  /\ AcceptanceLineage

(* The initial state has no lineage to contradict.                         *)
LEMMA LineageInit == Init => LineageInv
<1> SUFFICES ASSUME Init PROVE LineageInv
  OBVIOUS
<1>1. TypeOK
  BY TypeInit
<1>2. \A a \in AttemptIds : attempts[a].status = "absent"
  BY DEF Init, NoAttempt
<1>3. \A t \in TaskIds : tasks[t].state = "absent"
  BY DEF Init, NoTask
<1>4. /\ \A v \in ValidationIds : validations[v].scope = "none"
      /\ \A r \in ReviewIds : reviews[r].scope = "none"
  BY DEF Init, NoEvidence
<1> QED BY <1>1, <1>2, <1>3, <1>4
        DEF LineageInv, AttemptOwned, RunningAttemptIsCurrent,
            EvidenceNamesCandidate, ReviewRestsOnPass, AcceptanceLineage, Accepted

(* How a step can change the state and the plan of the task u: it enters   *)
(* review only by a passing validation, it enters acceptance only by an    *)
(* accepted change and its plan is then frozen, and its current attempt    *)
(* changes only when one starts.                                           *)
TaskEffect(u) ==
  /\ tasks'[u].state = "reviewing" =>
       \/ tasks[u].state = "reviewing"
       \/ \E a \in AttemptIds, c \in Commits, id \in ValidationIds :
            ValidationCompletedAttempt(u, a, c, id, "pass")
  /\ tasks'[u].state \in Accepted =>
       \/ /\ tasks[u].state \in Accepted
          /\ tasks'[u].wp = tasks[u].wp
          /\ tasks'[u].version = tasks[u].version
          /\ tasks'[u].accepted = tasks[u].accepted
       \/ \E a \in AttemptIds, c \in Commits, w \in WorkPackageIds,
             vs \in (SUBSET ValidationIds) \ {{}},
             rs \in (SUBSET ReviewIds) \ {{}} : ChangeAccepted(u, a, c, w, vs, rs)
  /\ tasks'[u].current # tasks[u].current =>
       \E a \in AttemptIds, w \in WorkPackageIds, v \in Versions :
         AttemptStarted(u, a, w, v)

(* A task that a step does not name is not touched by it.                  *)
LEMMA MoveTaskFields ==
  ASSUME TypeOK, NEW t \in TaskIds, NEW s, MoveTask(t, s), NEW u \in TaskIds
  PROVE  /\ u # t => tasks'[u] = tasks[u]
         /\ u = t => tasks'[u].state = s
         /\ tasks'[u].wp = tasks[u].wp
         /\ tasks'[u].version = tasks[u].version
         /\ tasks'[u].accepted = tasks[u].accepted
         /\ tasks'[u].current = tasks[u].current
  BY DEF MoveTask, TypeOK, Task

(* A step changes a task in the ways of TaskEffect only.                   *)
LEMMA TaskStep ==
  ASSUME TypeOK, [Next]_vars, NEW u \in TaskIds
  PROVE  TaskEffect(u)
<1>1. CASE UNCHANGED tasks
  BY <1>1 DEF TaskEffect
<1>2. CASE UNCHANGED vars
  BY <1>1, <1>2 DEF vars
<1>3. ASSUME NEW c \in Commits \cup {None}, ProjectInitialized(c)
      PROVE  TaskEffect(u)
  BY <1>1, <1>3 DEF ProjectInitialized
<1>4. ASSUME NEW c \in Commits, NEW o \in Outcomes,
             ValidationCompletedBaseline(c, o)
      PROVE  TaskEffect(u)
  BY <1>1, <1>4 DEF ValidationCompletedBaseline
<1>5. ASSUME NEW t \in TaskIds, PlanningNext(t)
      PROVE  TaskEffect(u)
  <2>1. ASSUME NEW s, s \notin {"reviewing"} \cup Accepted, MoveTask(t, s)
        PROVE  TaskEffect(u)
    BY <2>1, MoveTaskFields DEF TaskEffect
  <2>2. CASE TaskCreated(t)
    BY <2>1, <2>2 DEF TaskCreated, Accepted
  <2>3. CASE TaskScoutingStarted(t)
    BY <2>1, <2>3 DEF TaskScoutingStarted, Accepted
  <2>4. CASE TaskDesignStarted(t)
    BY <2>4 DEF TaskDesignStarted, TaskEffect, Accepted, TypeOK, Task
  <2>5. ASSUME NEW w \in WorkPackageIds, TaskDelegated(t, w)
        PROVE  TaskEffect(u)
    BY <2>1, <2>5 DEF TaskDelegated, Accepted
  <2>6. ASSUME NEW w \in WorkPackageIds, NEW v \in Versions,
               WorkPackageProposed(t, w, v)
        PROVE  TaskEffect(u)
    BY <1>1, <2>6 DEF WorkPackageProposed
  <2>7. ASSUME NEW w \in WorkPackageIds, NEW v \in Versions,
               WorkPackageApproved(t, w, v)
        PROVE  TaskEffect(u)
    BY <2>7 DEF WorkPackageApproved, TaskEffect, Accepted, TypeOK, Task
  <2> QED BY <1>5, <2>2, <2>3, <2>4, <2>5, <2>6, <2>7 DEF PlanningNext
<1>6. ASSUME NEW t \in TaskIds, AttemptNext(t)
      PROVE  TaskEffect(u)
  <2>1. PICK a \in AttemptIds :
          \/ \E w \in WorkPackageIds, v \in Versions : AttemptStarted(t, a, w, v)
          \/ \E c \in Commits : CandidateProduced(t, a, c)
          \/ AttemptBlocked(t, a)
          \/ \E cancelled \in BOOLEAN : AttemptFailed(t, a, cancelled)
    BY <1>6 DEF AttemptNext
  <2>2. ASSUME NEW w \in WorkPackageIds, NEW v \in Versions,
               AttemptStarted(t, a, w, v)
        PROVE  TaskEffect(u)
    <3>1. /\ u # t => tasks'[u] = tasks[u]
          /\ tasks'[u].state = tasks[u].state
          /\ tasks'[u].wp = tasks[u].wp
          /\ tasks'[u].version = tasks[u].version
          /\ tasks'[u].accepted = tasks[u].accepted
      BY <2>2 DEF AttemptStarted, TypeOK, Task
    <3> QED BY <2>2, <3>1 DEF TaskEffect
  <2>3. ASSUME NEW c \in Commits, CandidateProduced(t, a, c)
        PROVE  TaskEffect(u)
    BY <2>3, MoveTaskFields DEF CandidateProduced, TaskEffect, Accepted
  <2>4. CASE UNCHANGED tasks
    BY <1>1, <2>4
  <2> QED BY <2>1, <2>2, <2>3, <2>4
          DEF AttemptBlocked, AttemptFailed, AttemptEnds
<1>7. ASSUME NEW t \in TaskIds, DecisionNext(t)
      PROVE  TaskEffect(u)
  <2>1. ASSUME NEW a \in AttemptIds, NEW c \in Commits,
               NEW id \in ValidationIds, NEW o \in Outcomes,
               ValidationCompletedAttempt(t, a, c, id, o)
        PROVE  TaskEffect(u)
    <3>1. MoveTask(t, AfterValidation(o))
      BY <2>1 DEF ValidationCompletedAttempt
    <3>2. CASE o = "pass"
      BY <2>1, <3>1, <3>2, MoveTaskFields
         DEF AfterValidation, TaskEffect, Accepted
    <3>3. CASE o # "pass"
      BY <3>1, <3>3, MoveTaskFields DEF AfterValidation, TaskEffect, Accepted
    <3> QED BY <3>2, <3>3
  <2>2. ASSUME NEW c \in Commits, NEW id \in ValidationIds, NEW o \in Outcomes,
               ValidationCompletedIntegration(t, c, id, o)
        PROVE  TaskEffect(u)
    <3>1. CASE MoveTask(t, "done")
      BY <2>2, <3>1, MoveTaskFields
         DEF ValidationCompletedIntegration, requireTaskInState, TaskEffect,
             Accepted
    <3> QED BY <1>1, <2>2, <3>1 DEF ValidationCompletedIntegration
  <2>3. ASSUME NEW a \in AttemptIds, NEW w \in WorkPackageIds,
               NEW id \in ReviewIds, ReviewCompleted(t, a, w, id)
        PROVE  TaskEffect(u)
    BY <1>1, <2>3 DEF ReviewCompleted
  <2>4. ASSUME NEW a \in AttemptIds, NEW c \in Commits,
               NEW w \in WorkPackageIds,
               NEW vs \in (SUBSET ValidationIds) \ {{}},
               NEW rs \in (SUBSET ReviewIds) \ {{}},
               ChangeAccepted(t, a, c, w, vs, rs)
        PROVE  TaskEffect(u)
    <3>1. /\ u # t => tasks'[u] = tasks[u]
          /\ u = t => tasks'[u].state = "accepted"
          /\ tasks'[u].current = tasks[u].current
      BY <2>4 DEF ChangeAccepted, TypeOK, Task
    <3> QED BY <2>4, <3>1 DEF TaskEffect
  <2>5. ASSUME NEW a \in AttemptIds, ChangeRejected(t, a)
        PROVE  TaskEffect(u)
    BY <2>5, MoveTaskFields DEF ChangeRejected, TaskEffect, Accepted
  <2>6. ASSUME NEW cited, EscalationRaised(t, cited)
        PROVE  TaskEffect(u)
    BY <2>6 DEF EscalationRaised, TaskEffect, Accepted, TypeOK, Task
  <2>7. CASE IntegrationStarted(t)
    BY <2>7, MoveTaskFields, AcceptedEdges
       DEF IntegrationStarted, CanMove, TaskEffect, Accepted
  <2>8. CASE IntegrationValidationStarted(t)
    BY <2>8, MoveTaskFields, AcceptedEdges
       DEF IntegrationValidationStarted, CanMove, TaskEffect, Accepted
  <2> QED BY <1>7, <2>1, <2>2, <2>3, <2>4, <2>5, <2>6, <2>7, <2>8
          DEF DecisionNext
<1> QED BY <1>2, <1>3, <1>4, <1>5, <1>6, <1>7 DEF Next

(* One lemma per conjunct of the invariant.                                *)

(* A step keeps every attempt with its task.                               *)
LEMMA OwnedStep ==
  ASSUME LineageInv, [Next]_vars
  PROVE  AttemptOwned'
<1> USE DEF LineageInv
<1>1. CASE UNCHANGED attempts
  BY <1>1 DEF AttemptOwned
<1>2. ASSUME NEW t \in TaskIds, NEW a \in AttemptIds, NEW w, NEW v,
             AttemptStarted(t, a, w, v)
      PROVE  AttemptOwned'
  BY <1>2 DEF AttemptStarted, AttemptOwned, TypeOK
<1>3. ASSUME NEW t \in TaskIds, NEW a \in AttemptIds, NEW c,
             CandidateProduced(t, a, c)
      PROVE  AttemptOwned'
  BY <1>3 DEF CandidateProduced, CanFinish, AttemptOwned, TypeOK, Attempt
<1>4. ASSUME NEW t \in TaskIds, NEW a \in AttemptIds, NEW s,
             AttemptEnds(t, a, s)
      PROVE  AttemptOwned'
  BY <1>4 DEF AttemptEnds, CanFinish, AttemptOwned, TypeOK, Attempt
<1> QED BY <1>1, <1>2, <1>3, <1>4, AttemptWriters

(* A running attempt after a step was running before it or has just        *)
(* started; its task had no running attempt in the second case.            *)
LEMMA RunningStep ==
  ASSUME LineageInv, [Next]_vars
  PROVE  RunningAttemptIsCurrent'
<1> USE DEF LineageInv
<1> SUFFICES ASSUME NEW a \in AttemptIds, attempts'[a].status = "running"
             PROVE  tasks'[attempts'[a].task].current = a
  BY DEF RunningAttemptIsCurrent
<1>1. ASSUME NEW t \in TaskIds, NEW w, NEW v, AttemptStarted(t, a, w, v)
      PROVE  tasks'[attempts'[a].task].current = a
  BY <1>1 DEF AttemptStarted, TypeOK, Task
<1>2. ASSUME attempts'[a] = attempts[a]
      PROVE  tasks'[attempts'[a].task].current = a
  <2>1. attempts[a].task \in TaskIds /\ tasks[attempts[a].task].current = a
    BY <1>2 DEF AttemptOwned, RunningAttemptIsCurrent
  <2>2. \A b, w, v : ~AttemptStarted(attempts[a].task, b, w, v)
    BY <1>2, <2>1 DEF AttemptStarted, HasRunningAttempt
  <2> QED BY <1>2, <2>1, <2>2, TaskStep DEF TaskEffect
<1>3. CASE UNCHANGED attempts
  BY <1>2, <1>3
<1>4. ASSUME NEW t \in TaskIds, NEW b \in AttemptIds, NEW w \in WorkPackageIds,
             NEW v \in Versions, AttemptStarted(t, b, w, v)
      PROVE  tasks'[attempts'[a].task].current = a
  BY <1>1, <1>2, <1>4 DEF AttemptStarted, TypeOK
<1>5. ASSUME NEW t \in TaskIds, NEW b \in AttemptIds, NEW c,
             CandidateProduced(t, b, c)
      PROVE  attempts'[a] = attempts[a]
  BY <1>5 DEF CandidateProduced, TypeOK, Attempt
<1>6. ASSUME NEW t \in TaskIds, NEW b \in AttemptIds, NEW s \in AttemptTerminal,
             AttemptEnds(t, b, s)
      PROVE  attempts'[a] = attempts[a]
  BY <1>6 DEF AttemptEnds, TypeOK, Attempt, AttemptTerminal
<1> QED BY <1>2, <1>3, <1>4, <1>5, <1>6, AttemptWriters

(* Evidence names an attempt that ended as a candidate, and such an        *)
(* attempt is never rewritten.                                             *)
CandidateOf(e) ==
  e.scope = "attempt" =>
    /\ e.attempt \in AttemptIds
    /\ attempts[e.attempt].task = e.task
    /\ attempts[e.attempt].status = "candidate_produced"
    /\ attempts[e.attempt].commit = e.commit

(* Evidence names the candidate of its attempt after a step.               *)
LEMMA EvidenceStep ==
  ASSUME LineageInv, [Next]_vars
  PROVE  EvidenceNamesCandidate'
<1> USE DEF LineageInv
<1>1. EvidenceNamesCandidate <=>
        /\ \A v \in ValidationIds : CandidateOf(validations[v])
        /\ \A r \in ReviewIds : CandidateOf(reviews[r])
  BY DEF EvidenceNamesCandidate, CandidateOf
<1>2. EvidenceNamesCandidate' <=>
        /\ \A v \in ValidationIds : CandidateOf(validations[v])'
        /\ \A r \in ReviewIds : CandidateOf(reviews[r])'
  BY DEF EvidenceNamesCandidate, CandidateOf
<1>3. ASSUME NEW v \in ValidationIds, validations'[v] = validations[v]
      PROVE  CandidateOf(validations[v])'
  BY <1>1, <1>3, AttemptsKept DEF CandidateOf, AttemptTerminal
<1>4. ASSUME NEW r \in ReviewIds, reviews'[r] = reviews[r]
      PROVE  CandidateOf(reviews[r])'
  BY <1>1, <1>4, AttemptsKept DEF CandidateOf, AttemptTerminal
<1>5. CASE UNCHANGED <<validations, reviews, passing>>
  BY <1>2, <1>3, <1>4, <1>5
<1>6. ASSUME NEW t \in TaskIds, NEW a \in AttemptIds, NEW c,
             NEW id \in ValidationIds, NEW o,
             ValidationCompletedAttempt(t, a, c, id, o)
      PROVE  EvidenceNamesCandidate'
  <2>1. CandidateOf(validations[id])'
    BY <1>6 DEF ValidationCompletedAttempt, AttemptEvidence, requireAttemptOf,
                requireCandidate, CandidateOf, TypeOK
  <2>2. \A v \in ValidationIds \ {id} : validations'[v] = validations[v]
    BY <1>6 DEF ValidationCompletedAttempt, TypeOK
  <2>3. UNCHANGED reviews
    BY <1>6 DEF ValidationCompletedAttempt
  <2> QED BY <1>2, <1>3, <1>4, <2>1, <2>2, <2>3
<1>7. ASSUME NEW t \in TaskIds, NEW c, NEW id \in ValidationIds, NEW o,
             ValidationCompletedIntegration(t, c, id, o)
      PROVE  EvidenceNamesCandidate'
  <2>1. CandidateOf(validations[id])'
    BY <1>7 DEF ValidationCompletedIntegration, CandidateOf, TypeOK
  <2>2. \A v \in ValidationIds \ {id} : validations'[v] = validations[v]
    BY <1>7 DEF ValidationCompletedIntegration, TypeOK
  <2>3. UNCHANGED reviews
    BY <1>7 DEF ValidationCompletedIntegration
  <2> QED BY <1>2, <1>3, <1>4, <2>1, <2>2, <2>3
<1>8. ASSUME NEW t \in TaskIds, NEW a \in AttemptIds, NEW w,
             NEW id \in ReviewIds, ReviewCompleted(t, a, w, id)
      PROVE  EvidenceNamesCandidate'
  <2>1. CandidateOf(reviews[id])'
    BY <1>8 DEF ReviewCompleted, AttemptEvidence, requireAttemptOf,
                requireCandidate, CandidateOf, TypeOK
  <2>2. \A r \in ReviewIds \ {id} : reviews'[r] = reviews[r]
    BY <1>8 DEF ReviewCompleted, TypeOK
  <2>3. UNCHANGED validations
    BY <1>8 DEF ReviewCompleted
  <2> QED BY <1>2, <1>3, <1>4, <2>1, <2>2, <2>3
<1> QED BY <1>5, <1>6, <1>7, <1>8, EvidenceWriters

(* After a step a task under review has a passing validation.              *)
LEMMA ReviewStep ==
  ASSUME LineageInv, [Next]_vars
  PROVE  ReviewRestsOnPass'
<1> USE DEF LineageInv
<1> SUFFICES ASSUME NEW u \in TaskIds, tasks'[u].state = "reviewing"
             PROVE  \E v \in passing' :
                      validations'[v].scope = "attempt" /\ validations'[v].task = u
  BY DEF ReviewRestsOnPass
<1>1. CASE tasks[u].state = "reviewing"
  <2>1. PICK v \in passing :
          validations[v].scope = "attempt" /\ validations[v].task = u
    BY <1>1 DEF ReviewRestsOnPass
  <2>2. v \in passing' /\ validations'[v] = validations[v]
    BY <2>1, EvidenceKept DEF TypeOK
  <2> QED BY <2>1, <2>2
<1>2. ASSUME NEW a \in AttemptIds, NEW c \in Commits, NEW id \in ValidationIds,
             ValidationCompletedAttempt(u, a, c, id, "pass")
      PROVE  \E v \in passing' :
               validations'[v].scope = "attempt" /\ validations'[v].task = u
  BY <1>2 DEF ValidationCompletedAttempt, AttemptEvidence, JournalOutcome, TypeOK
<1> QED BY <1>1, <1>2, TaskStep DEF TaskEffect

(* A step keeps acceptances justified.                                     *)
LEMMA AcceptanceStep ==
  ASSUME LineageInv, [Next]_vars
  PROVE  AcceptanceLineage'
<1> USE DEF LineageInv
<1> SUFFICES ASSUME NEW u \in TaskIds, tasks'[u].state \in Accepted
             PROVE  \E a \in AttemptIds :
                      /\ AcceptedFrom(u, a)'
                      /\ \E v \in ValidationIds : AboutAttempt(validations'[v], u, a)
                      /\ \E r \in ReviewIds : AboutAttempt(reviews'[r], u, a)
  BY DEF AcceptanceLineage
<1>1. ASSUME tasks[u].state \in Accepted,
             tasks'[u].wp = tasks[u].wp,
             tasks'[u].version = tasks[u].version,
             tasks'[u].accepted = tasks[u].accepted
      PROVE  \E a \in AttemptIds :
               /\ AcceptedFrom(u, a)'
               /\ \E v \in ValidationIds : AboutAttempt(validations'[v], u, a)
               /\ \E r \in ReviewIds : AboutAttempt(reviews'[r], u, a)
  <2>1. PICK a \in AttemptIds :
          /\ AcceptedFrom(u, a)
          /\ \E v \in ValidationIds : AboutAttempt(validations[v], u, a)
          /\ \E r \in ReviewIds : AboutAttempt(reviews[r], u, a)
    BY <1>1 DEF AcceptanceLineage
  <2>2. attempts'[a] = attempts[a]
    BY <2>1, AttemptsKept DEF AcceptedFrom, AttemptTerminal
  <2>3. AcceptedFrom(u, a)'
    BY <1>1, <2>1, <2>2 DEF AcceptedFrom, RanApprovedPlan
  <2>4. \E v \in ValidationIds : AboutAttempt(validations'[v], u, a)
    BY <2>1, EvidenceKept DEF AboutAttempt
  <2>5. \E r \in ReviewIds : AboutAttempt(reviews'[r], u, a)
    BY <2>1, EvidenceKept DEF AboutAttempt
  <2> QED BY <2>3, <2>4, <2>5
<1>2. ASSUME NEW a \in AttemptIds, NEW c \in Commits, NEW w \in WorkPackageIds,
             NEW vs \in (SUBSET ValidationIds) \ {{}},
             NEW rs \in (SUBSET ReviewIds) \ {{}},
             ChangeAccepted(u, a, c, w, vs, rs)
      PROVE  /\ AcceptedFrom(u, a)'
             /\ \E v \in ValidationIds : AboutAttempt(validations'[v], u, a)
             /\ \E r \in ReviewIds : AboutAttempt(reviews'[r], u, a)
  <2>1. /\ tasks'[u].wp = tasks[u].wp
        /\ tasks'[u].version = tasks[u].version
        /\ tasks'[u].accepted = c
        /\ UNCHANGED <<attempts, validations, reviews>>
    BY <1>2 DEF ChangeAccepted, TypeOK, Task
  <2>2. Acceptable(u, a, c, w, vs, rs)
    BY <1>2 DEF ChangeAccepted
  <2>3. AcceptedFrom(u, a)'
    BY <2>1, <2>2 DEF Acceptable, requireAttemptOf, requireCandidate,
                      requireCandidateCommit, RanApprovedPlan, AcceptedFrom
  <2>4. \E v \in ValidationIds : AboutAttempt(validations'[v], u, a)
    BY <2>1, <2>2 DEF Acceptable, requireEvidenceFor, AboutAttempt
  <2>5. \E r \in ReviewIds : AboutAttempt(reviews'[r], u, a)
    BY <2>1, <2>2 DEF Acceptable, requireEvidenceFor, AboutAttempt
  <2> QED BY <2>3, <2>4, <2>5
<1> QED BY <1>1, <1>2, TaskStep DEF TaskEffect

(* The lineage invariant is inductive.                                     *)
LEMMA LineageInductive ==
  Spec => []LineageInv
<1>1. LineageInv /\ [Next]_vars => LineageInv'
  <2>1. ASSUME LineageInv, [Next]_vars PROVE TypeOK'
    BY <2>1, TypeStep DEF LineageInv
  <2> QED BY <2>1, OwnedStep, RunningStep, EvidenceStep, ReviewStep,
             AcceptanceStep DEF LineageInv
<1> QED BY <1>1, LineageInit, PTL DEF Spec

(* Acceptance is explainable: in every reachable projection the commit a   *)
(* task accepted is the candidate of one of its own attempts, made against *)
(* the approved plan, with recorded validation and review evidence.        *)
THEOREM AcceptanceExplained == Spec => []AcceptanceLineage
<1>1. LineageInv => AcceptanceLineage
  BY DEF LineageInv
<1> QED BY <1>1, LineageInductive, PTL

(* A task never has two running attempts, and the one it has is the one    *)
(* the projection calls current.                                           *)
THEOREM OneRunningAttempt == Spec => []RunningAttemptIsCurrent
<1>1. LineageInv => RunningAttemptIsCurrent
  BY DEF LineageInv
<1> QED BY <1>1, LineageInductive, PTL

(* Evidence never drifts from the candidate it was recorded for.           *)
THEOREM EvidencePinned == Spec => []EvidenceNamesCandidate
<1>1. LineageInv => EvidenceNamesCandidate
  BY DEF LineageInv
<1> QED BY <1>1, LineageInductive, PTL

(* No task is under review without a validation of its own that passed.    *)
THEOREM ReviewNeedsPass == Spec => []ReviewRestsOnPass
<1>1. LineageInv => ReviewRestsOnPass
  BY DEF LineageInv
<1> QED BY <1>1, LineageInductive, PTL

-----------------------------------------------------------------------------
(* The baseline.                                                           *)

(* Three events write the baseline.                                        *)
LEMMA BaselineWriters ==
  ASSUME [Next]_vars
  PROVE  \/ UNCHANGED baseline
         \/ \E c \in Commits \cup {None} : ProjectInitialized(c)
         \/ \E c \in Commits, o \in Outcomes : ValidationCompletedBaseline(c, o)
         \/ \E t \in TaskIds, c \in Commits, id \in ValidationIds,
               o \in Outcomes : ValidationCompletedIntegration(t, c, id, o)
<1>1. CASE UNCHANGED vars
  BY <1>1 DEF vars
<1>2. ASSUME NEW t \in TaskIds, PlanningNext(t)
      PROVE  UNCHANGED baseline
  BY <1>2 DEF PlanningNext, TaskCreated, TaskScoutingStarted,
              TaskDesignStarted, TaskDelegated, WorkPackageProposed,
              WorkPackageApproved
<1>3. ASSUME NEW t \in TaskIds, AttemptNext(t)
      PROVE  UNCHANGED baseline
  BY <1>3 DEF AttemptNext, AttemptStarted, CandidateProduced, AttemptBlocked,
              AttemptFailed, AttemptEnds
<1>4. ASSUME NEW t \in TaskIds, DecisionNext(t)
      PROVE  \/ UNCHANGED baseline
             \/ \E c \in Commits, id \in ValidationIds, o \in Outcomes :
                  ValidationCompletedIntegration(t, c, id, o)
  BY <1>4 DEF DecisionNext, ValidationCompletedAttempt, ReviewCompleted,
              ChangeAccepted, ChangeRejected, EscalationRaised,
              IntegrationStarted, IntegrationValidationStarted
<1> QED BY <1>1, <1>2, <1>3, <1>4 DEF Next

(* Only a passing integration run of the new commit, which finishes a      *)
(* task, moves the accepted commit (applyIntegrationValidation).           *)
THEOREM BaselineMoves == Spec => BaselineMovesOnIntegration
<1> DEFINE Moved == initialised /\ baseline'.commit # baseline.commit =>
                      \E t \in TaskIds, v \in passing' :
                        /\ tasks[t].state = "integration_validating"
                        /\ tasks'[t].state = "done"
                        /\ validations'[v].scope = "integration"
                        /\ validations'[v].task = t
                        /\ validations'[v].commit = baseline'.commit
<1>1. ASSUME TypeOK, [Next]_vars PROVE Moved
  <2>1. CASE UNCHANGED baseline
    BY <2>1
  <2>2. CASE \E c \in Commits \cup {None} : ProjectInitialized(c)
    BY <2>2 DEF ProjectInitialized
  <2>3. CASE \E c \in Commits, o \in Outcomes :
               ValidationCompletedBaseline(c, o)
    BY <1>1, <2>3 DEF ValidationCompletedBaseline, TypeOK, Baseline
  <2>4. ASSUME NEW t \in TaskIds, NEW c \in Commits, NEW id \in ValidationIds,
               NEW o \in Outcomes, ValidationCompletedIntegration(t, c, id, o)
        PROVE  Moved
    <3>1. CASE o # "pass"
      BY <2>4, <3>1 DEF ValidationCompletedIntegration, AdvanceBaseline
    <3>2. CASE o = "pass"
      <4>1. /\ tasks[t].state = "integration_validating"
            /\ tasks'[t].state = "done"
        BY <1>1, <2>4, <3>2, MoveTaskFields
           DEF ValidationCompletedIntegration, requireTaskInState
      <4>2. id \in passing'
        BY <2>4, <3>2 DEF ValidationCompletedIntegration, JournalOutcome
      <4>3. validations'[id] = [scope |-> "integration", task |-> t,
                                attempt |-> None, commit |-> c]
        BY <1>1, <2>4 DEF ValidationCompletedIntegration, TypeOK
      <4>4. baseline'.commit = c
        BY <1>1, <2>4, <3>2
           DEF ValidationCompletedIntegration, AdvanceBaseline, TypeOK, Baseline
      <4> QED BY <4>1, <4>2, <4>3, <4>4
    <3> QED BY <3>1, <3>2
  <2> QED BY <1>1, <2>1, <2>2, <2>3, <2>4, BaselineWriters
<1> QED BY <1>1, TypeCorrect, PTL DEF Spec, BaselineMovesOnIntegration

=============================================================================
