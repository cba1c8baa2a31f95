--------------------------- MODULE ServiceProofs ---------------------------
(***************************************************************************)
(* Proofs about six services that share no state with each other: the      *)
(* worktree manager, the process runner, the validation runner, the        *)
(* discovery projection, the model sessions and the planners, for any      *)
(* number of worktrees, checks, services, models, questions, decisions,    *)
(* turns and calls, and whatever a model may propose.                      *)
(***************************************************************************)
EXTENDS Worktrees, Processes, Validation, Discovery, Sessions,
        Planners, FiniteSetTheorems, TLAPS

-----------------------------------------------------------------------------
(* Worktrees.  Uncommitted changes are in a directory that is there, and a *)
(* worktree that is being created has none: nobody works in it before the  *)
(* manifest says it is active.                                             *)

WorktreeOps ==
  {NoWorktreeOp} \cup [op : {"create"}, id : WorktreeIds]
  \cup [op : {"cleanup"}, id : WorktreeIds, force : BOOLEAN, removed : BOOLEAN]

WorktreeTypes ==
  /\ manifest \in [WorktreeIds -> {"none", "active", "removed", "missing"}]
  /\ disk \in [WorktreeIds -> {"none", "tree", "foreign"}]
  /\ dirty \subseteq WorktreeIds
  /\ wop \in WorktreeOps

DirtyIsThere == \A i \in dirty : disk[i] = "tree"

NewIsUnused ==
  \A i \in WorktreeIds : wop = [op |-> "create", id |-> i] =>
    manifest[i] # "active" /\ i \notin dirty

WorktreeInv == WorktreeTypes /\ DirtyIsThere /\ NewIsUnused

(* No operation is in progress and there is no directory.                  *)
LEMMA WorktreesInit == InitWorktrees => WorktreeInv
  BY DEF InitWorktrees, WorktreeInv, WorktreeTypes, WorktreeOps, DirtyIsThere,
     NewIsUnused, NoWorktreeOp

(* The records of operations differ.                                       *)
LEMMA WorktreeOpsDiffer ==
  ASSUME NEW i \in WorktreeIds
  PROVE  /\ NoWorktreeOp # [op |-> "create", id |-> i]
         /\ \A o : wop = [op |-> "create", id |-> i] /\ wop.op = o => o = "create"
         /\ \A j : [op |-> "create", id |-> i] = [op |-> "create", id |-> j]
                     => i = j
<1>1. /\ NoWorktreeOp.op = "none" /\ [op |-> "create", id |-> i].op = "create"
      /\ \A j : [op |-> "create", id |-> j].id = j
  BY DEF NoWorktreeOp
<1> QED BY <1>1

(* Every step of the manager, of git and of the world keeps the invariant. *)
LEMMA WorktreesStep ==
  ASSUME WorktreeInv, [NextWorktrees]_worktreeVars
  PROVE  WorktreeInv'
<1> USE DEF WorktreeInv, WorktreeTypes, DirtyIsThere, NewIsUnused
<1>1. CASE UNCHANGED worktreeVars
  BY <1>1 DEF worktreeVars
<1>2. ASSUME NEW i \in WorktreeIds, CreateAdd(i) PROVE WorktreeInv'
  <2>1. wop' \in WorktreeOps
    BY <1>2 DEF CreateAdd, WorktreeOps
  <2>2. i \notin dirty
    BY <1>2 DEF CreateAdd
  <2>3. \A j \in WorktreeIds : wop' = [op |-> "create", id |-> j] => j = i
    BY <1>2, WorktreeOpsDiffer DEF CreateAdd
  <2> QED BY <1>2, <2>1, <2>2, <2>3 DEF CreateAdd
<1>3. ASSUME wop' = NoWorktreeOp, WorktreeTypes', DirtyIsThere'
      PROVE  WorktreeInv'
  BY <1>3, WorktreeOpsDiffer
<1>4. ASSUME NEW i \in WorktreeIds,
             CreateSaved(i) \/ CreateRolledBack(i) \/ CleanupSaved(i)
      PROVE  WorktreeInv'
  BY <1>3, <1>4 DEF CreateSaved, CreateRolledBack, CleanupSaved, SaveManifest,
     GitRemove, GitDeleteBranch, WorktreeOps
<1>5. ASSUME NEW i \in WorktreeIds, NEW force \in BOOLEAN,
             CleanupChecked(i, force)
      PROVE  WorktreeInv'
  <2>1. wop' \in WorktreeOps
    BY <1>5 DEF CleanupChecked, WorktreeOps
  <2>2. wop'.op = "cleanup"
    BY <1>5 DEF CleanupChecked
  <2>3. \A j \in WorktreeIds : wop' # [op |-> "create", id |-> j]
    BY <2>2
  <2> QED BY <1>5, <2>1, <2>3 DEF CleanupChecked
<1>6. ASSUME NEW i \in WorktreeIds, CleanupRemoved(i) PROVE WorktreeInv'
  <2>1. CASE wop' = NoWorktreeOp
    BY <1>3, <1>6, <2>1 DEF CleanupRemoved, GitRemove, WorktreeOps
  <2>2. CASE wop' = [wop EXCEPT !.removed = TRUE]
    <3>1. wop \in [op : {"cleanup"}, id : WorktreeIds, force : BOOLEAN,
                   removed : BOOLEAN]
      BY <1>6 DEF CleanupRemoved, WorktreeOps, NoWorktreeOp
    <3>2. wop' \in WorktreeOps /\ wop'.op = "cleanup"
      BY <2>2, <3>1 DEF WorktreeOps
    <3>3. \A j \in WorktreeIds : wop' # [op |-> "create", id |-> j]
      BY <3>2
    <3> QED BY <1>6, <3>2, <3>3 DEF CleanupRemoved, GitRemove
  <2> QED BY <1>6, <2>1, <2>2 DEF CleanupRemoved
<1>7. ASSUME NEW i \in WorktreeIds,
             CleanupMissing(i) \/ RecoverAdopt(i) \/ RecoverGone(i)
      PROVE  WorktreeInv'
  BY <1>3, <1>7 DEF CleanupMissing, RecoverAdopt, RecoverGone, SaveManifest
<1>8. ASSUME NEW i \in WorktreeIds,
             \/ EditWork(i) \/ CommitWork(i) \/ DeleteDirectory(i)
             \/ OccupyPath(i) \/ PruneList(i)
      PROVE  WorktreeInv'
  BY <1>8 DEF EditWork, CommitWork, DeleteDirectory, OccupyPath, PruneList
<1>9. CASE ManagerDies
  BY <1>3, <1>9 DEF ManagerDies, WorktreeOps
<1> QED
  BY <1>1, <1>2, <1>4, <1>5, <1>6, <1>7, <1>8, <1>9 DEF NextWorktrees

(* No operation of the manager destroys uncommitted work or somebody       *)
(* else's directory unless it was told to force; a worker who edits after  *)
(* Cleanup's check is protected by git's own refusal, and one whose        *)
(* worktree is being created cannot have begun (Create, Cleanup).          *)
THEOREM WorkKept == SpecWorktrees => WorkIsKept
<1>1. ASSUME WorktreeInv, NextWorktrees, NEW i \in WorktreeIds,
             i \in dirty \/ disk[i] = "foreign", disk'[i] = "none"
      PROVE  \/ /\ wop.op = "cleanup" /\ wop.id = i /\ wop.force
                /\ disk[i] = "tree"
             \/ DeleteDirectory(i)
  <2> USE DEF WorktreeInv, WorktreeTypes, DirtyIsThere, NewIsUnused
  <2>1. disk[i] # "none"
    BY <1>1
  <2>2. ASSUME NEW j \in WorktreeIds,
               \/ CreateSaved(j) \/ CleanupMissing(j) \/ CleanupSaved(j)
               \/ RecoverAdopt(j) \/ RecoverGone(j)
               \/ \E force \in BOOLEAN : CleanupChecked(j, force)
               \/ EditWork(j) \/ CommitWork(j) \/ PruneList(j)
        PROVE  disk'[i] = disk[i]
    <3>1. UNCHANGED disk
      BY <2>2, Zenon DEF CreateSaved, CleanupMissing, CleanupSaved, RecoverAdopt,
         RecoverGone, CleanupChecked, EditWork, CommitWork, PruneList
    <3> QED BY <3>1
  <2>3. ASSUME NEW j \in WorktreeIds, CreateAdd(j) \/ OccupyPath(j)
        PROVE  disk'[i] # "none"
    BY <1>1, <2>1, <2>3 DEF CreateAdd, OccupyPath
  <2>4. ASSUME NEW j \in WorktreeIds, CreateRolledBack(j)
        PROVE  disk'[i] = disk[i]
    BY <1>1, <2>4 DEF CreateRolledBack, GitRemovable, GitRemove
  <2>5. ASSUME NEW j \in WorktreeIds, CleanupRemoved(j)
        PROVE  \/ wop.op = "cleanup" /\ wop.id = i /\ wop.force /\ disk[i] = "tree"
               \/ disk'[i] = disk[i]
    BY <1>1, <2>5 DEF CleanupRemoved, GitRemovable, GitRemove, RemoveForced
  <2>6. ASSUME NEW j \in WorktreeIds, DeleteDirectory(j)
        PROVE  i = j \/ disk'[i] = disk[i]
    BY <2>6 DEF DeleteDirectory
  <2>7. ManagerDies => disk'[i] = disk[i]
    BY DEF ManagerDies
  <2> QED
    BY <1>1, <2>1, <2>2, <2>3, <2>4, <2>5, <2>6, <2>7, Zenon
    DEF NextWorktrees
<1>2. WorktreeInv /\ [NextWorktrees]_worktreeVars =>
        [\A i \in WorktreeIds :
           (i \in dirty \/ disk[i] = "foreign") /\ disk'[i] = "none" =>
             \/ /\ wop.op = "cleanup" /\ wop.id = i /\ wop.force
                /\ disk[i] = "tree"
             \/ DeleteDirectory(i)]_worktreeVars
  BY <1>1, Zenon
<1> QED
  BY <1>2, WorktreesInit, WorktreesStep, PTL DEF SpecWorktrees, WorkIsKept

-----------------------------------------------------------------------------
(* Processes.  Once the leader has been waited for, nothing of a Run's     *)
(* group is alive and nothing can fork again; a request to stop shows in   *)
(* the status until the end is classified.                                 *)

ProcessTypes ==
  /\ proc \in {"none", "running", "zero", "nonzero", "lost", "signalled"}
  /\ children \in BOOLEAN
  /\ pmode \in {"none", "run", "operation"}
  /\ expired \in BOOLEAN
  /\ waiter \in {"waiting", "reaped", "done"}
  /\ cancelAsked \in BOOLEAN

Reaped == waiter \in {"reaped", "done"}

ProcessInv ==
  /\ ProcessTypes
  /\ proc = "none" <=> pmode = "none"
  /\ Reaped => proc \notin {"none", "running"}
  /\ Reaped /\ pmode = "run" => children = FALSE
  /\ cancelAsked => pmode = "operation"
  /\ cancelAsked /\ waiter # "done" => pstatus = "cancelled"
  /\ cancelAsked /\ waiter = "done" => pstatus \in {"cancelled", "timeout"}
  /\ waiter = "done" => pstatus \in {"cancelled", "timeout", "failed", "completed"}
  /\ answers \subseteq {pstatus}
  /\ answers # {} => waiter = "done"

(* Nothing has been started.                                               *)
LEMMA ProcessesInit == InitProcesses => ProcessInv
  BY DEF InitProcesses, ProcessInv, ProcessTypes, Reaped

(* The statuses a finished command can be given.                           *)
LEMMA ClassifiedAs ==
  ASSUME ProcessInv, waiter = "reaped"
  PROVE  /\ Classified \in {"cancelled", "timeout", "failed", "completed"}
         /\ cancelAsked => Classified \in {"cancelled", "timeout"}
  BY DEF ProcessInv, ProcessTypes, Classified

(* Every step of the command, the clock, the caller and the manager keeps  *)
(* the invariant.                                                          *)
LEMMA ProcessesStep ==
  ASSUME ProcessInv, [NextProcesses]_processVars
  PROVE  ProcessInv'
<1> USE DEF ProcessInv, ProcessTypes, Reaped
<1>1. CASE UNCHANGED processVars
  BY <1>1 DEF processVars
<1>2. ASSUME NEW m \in {"run", "operation"}, Launch(m) PROVE ProcessInv'
  BY <1>2 DEF Launch
<1>3. CASE Fork
  BY <1>3 DEF Fork
<1>4. ASSUME NEW how \in {"zero", "nonzero", "lost"}, LeaderExits(how)
      PROVE  ProcessInv'
  BY <1>4 DEF LeaderExits
<1>5. CASE DeadlineExpires \/ CallerEnds
  <2>1. expired' \in BOOLEAN
    BY <1>5, Zenon DEF DeadlineExpires, CallerEnds
  <2>2. UNCHANGED <<proc, children, pmode, waiter, pstatus, cancelAsked, answers>>
    BY <1>5 DEF DeadlineExpires, CallerEnds
  <2> QED BY <2>1, <2>2
<1>6. CASE Reap
  <2>1. children' \in BOOLEAN
    BY <1>6, Zenon DEF Reap
  <2>2. pmode = "run" => children' = FALSE
    BY <1>6, Zenon DEF Reap, KillsGroup
  <2>3. /\ proc' \in {"zero", "nonzero", "lost", "signalled"}
        /\ waiter = "waiting" /\ waiter' = "reaped" /\ proc # "none"
        /\ UNCHANGED <<pmode, expired, pcaller, pstatus, cancelAsked, answers>>
    BY <1>6 DEF Reap
  <2> QED BY <2>1, <2>2, <2>3
<1>7. CASE Classify
  BY <1>7, ClassifiedAs DEF Classify
<1>8. CASE CancelOperation
  BY <1>8 DEF CancelOperation
<1>9. CASE Observe
  BY <1>9 DEF Observe
<1> QED
  BY <1>1, <1>2, <1>3, <1>4, <1>5, <1>6, <1>7, <1>8, <1>9 DEF NextProcesses

(* However the exit, the deadline, the caller and a cancellation race: no  *)
(* descendant outlives Runner.Run, every answer after the end shows the    *)
(* same terminal status, and a cancelled operation never reads completed.  *)
THEOREM FinishedProcesses == SpecProcesses => []FinishedIsFinished
<1>1. ProcessInv => FinishedIsFinished
  BY DEF ProcessInv, Reaped, FinishedIsFinished
<1> QED
  BY <1>1, ProcessesInit, ProcessesStep, PTL DEF SpecProcesses

-----------------------------------------------------------------------------
(* Validation.  A check that did not pass leaves a mark, and a clean sheet *)
(* after the checks means that all of them were reported and no service    *)
(* was dead.                                                               *)

ValidationTypes ==
  /\ vpc \in {"new", "starting", "checking", "running", "checked", "tearing",
              "claimed", "ended"}
  /\ nextCheck \in 1 .. NumChecks + 1
  /\ results \in [Checks -> {"none", "pass", "fail", "error", "cancelled"}]
  /\ saw \subseteq {"fail", "error", "cancel"}
  /\ torn \in BOOLEAN

(* What is reported before nextCheck passed, or is marked.                 *)
FailuresMarked ==
  \A c \in Checks : c < nextCheck /\ results[c] # "pass" => saw # {}

ChecksOver ==
  /\ vpc = "running" => nextCheck \in Checks
  /\ vpc = "checked" => saw # {}
  /\ vpc \in {"tearing", "claimed"} \/ recorded # "none" =>
       (saw = {} => nextCheck = NumChecks + 1 /\ deadThen = {})

RecordedLast ==
  /\ recorded # "none" => vpc = "ended" /\ serving = {} /\ ~torn
  /\ recorded = "pass" => saw = {} /\ onCommit
  /\ vpc = "claimed" => serving = {}
  /\ torn => vpc = "ended"
  /\ vpc = "ended" /\ serving # {} => torn

ValidationInv ==
  ValidationTypes /\ FailuresMarked /\ ChecksOver /\ RecordedLast

(* Nothing has run.                                                        *)
LEMMA ValidationInit == InitValidation => ValidationInv
<1> SUFFICES ASSUME InitValidation PROVE ValidationInv
  OBVIOUS
<1>1. 1 \in 1 .. NumChecks + 1 /\ \A c \in Checks : ~(c < 1)
  BY NumChecksAssumption DEF Checks
<1>2. ValidationTypes
  BY <1>1 DEF InitValidation, ValidationTypes
<1>3. FailuresMarked
  BY <1>1 DEF InitValidation, FailuresMarked
<1>4. ChecksOver /\ RecordedLast
  BY DEF InitValidation, ChecksOver, RecordedLast
<1> QED BY <1>2, <1>3, <1>4 DEF ValidationInv

(* A check is reported, with a mark unless it passed.                      *)
LEMMA ReportStep ==
  ASSUME ValidationInv, nextCheck \in Checks, recorded = "none",
         NEW status \in {"pass", "fail", "error", "cancelled"},
         NEW mark \in SUBSET {"fail", "error", "cancel"},
         NEW pc \in {"checking", "checked"},
         status # "pass" => mark # {}, pc = "checked" => mark # {},
         vpc \in {"checking", "running"},
         ReportCheck(status, mark, pc)
  PROVE  ValidationInv'
<1> USE NumChecksAssumption DEF ValidationInv
<1>1. ValidationTypes'
  BY DEF ReportCheck, ValidationTypes, Checks
<1>2. FailuresMarked'
  <2>1. ASSUME NEW c \in Checks, c < nextCheck', results'[c] # "pass"
        PROVE  saw' # {}
    <3>1. CASE c = nextCheck
      BY <2>1, <3>1 DEF ReportCheck, ValidationTypes
    <3>2. CASE c # nextCheck
      <4>1. c < nextCheck /\ results'[c] = results[c]
        BY <2>1, <3>2 DEF ReportCheck, ValidationTypes, Checks
      <4> QED BY <2>1, <4>1 DEF ReportCheck, FailuresMarked
    <3> QED BY <3>1, <3>2
  <2> QED BY <2>1 DEF FailuresMarked
<1>3. ChecksOver'
  BY DEF ReportCheck, ChecksOver
<1>4. RecordedLast'
  BY DEF ReportCheck, RecordedLast
<1> QED BY <1>1, <1>2, <1>3, <1>4

(* Every step of the runner, the services and the world keeps the          *)
(* invariant.                                                              *)
LEMMA ValidationStep ==
  ASSUME ValidationInv, [NextValidation]_validationVars
  PROVE  ValidationInv'
<1> USE DEF ValidationInv
<1>1. ASSUME UNCHANGED <<nextCheck, results, saw>>, ValidationTypes',
             ChecksOver', RecordedLast'
      PROVE  ValidationInv'
  BY <1>1 DEF FailuresMarked
<1>2. CASE UNCHANGED validationVars
  BY <1>1, <1>2 DEF validationVars, ValidationTypes, ChecksOver, RecordedLast
<1>3. ASSUME NEW s \in SupervisedServices,
             ServiceDies(s) \/ StartService(s) \/ ServiceFailsToStart(s)
      PROVE  ValidationInv'
  BY <1>1, <1>3 DEF ServiceDies, StartService, ServiceFailsToStart,
     ValidationTypes, ChecksOver, RecordedLast
<1>4. ASSUME NEW how \in {"canceled", "deadline"}, ContextEndsBy(how)
      PROVE  ValidationInv'
  BY <1>1, <1>4 DEF ContextEndsBy, ValidationTypes, ChecksOver, RecordedLast
<1>5. CASE MoveHead
  BY <1>1, <1>5 DEF MoveHead, ValidationTypes, ChecksOver, RecordedLast
<1>6. CASE ClaimCommit \/ ServicesReady
  BY <1>1, <1>6 DEF ClaimCommit, ServicesReady, ValidationTypes, ChecksOver,
     RecordedLast
<1>7. CASE CheckRuns
  BY <1>1, <1>7 DEF CheckRuns, AtCheck, ValidationTypes, ChecksOver,
     RecordedLast
<1>8. CASE CheckSkippedByCancel \/ CheckOnDeadService \/ CheckNotContained
  <2>1. nextCheck \in Checks /\ vpc = "checking" /\ recorded = "none"
    BY <1>8 DEF CheckSkippedByCancel, CheckOnDeadService, CheckNotContained,
       AtCheck, RecordedLast
  <2> QED
    BY <1>8, <2>1, ReportStep DEF CheckSkippedByCancel, CheckOnDeadService,
       CheckNotContained
<1>9. ASSUME \/ CheckAborted
             \/ \E end \in {"zero", "nonzero", "timeout", "unstarted"} :
                  CheckEnds(end)
      PROVE  ValidationInv'
  <2>1. nextCheck \in Checks /\ vpc = "running" /\ recorded = "none"
    BY <1>9 DEF CheckAborted, CheckEnds, ChecksOver, RecordedLast
  <2>2. CASE CheckAborted
    BY <2>1, <2>2, ReportStep DEF CheckAborted
  <2>3. ASSUME NEW end \in {"zero", "nonzero", "timeout", "unstarted"},
               CheckEnds(end)
        PROVE  \/ ReportCheck("cancelled", {"cancel"}, "checking")
               \/ ReportCheck("pass", {}, "checking")
               \/ ReportCheck("fail", {"fail"}, "checking")
               \/ ReportCheck("error", {"error"}, "checking")
    BY <2>3 DEF CheckEnds
  <2> QED
    BY <1>9, <2>1, <2>2, <2>3, ReportStep
<1>10. CASE ProfileDone
  <2>1. ValidationTypes' /\ RecordedLast'
    BY <1>10 DEF ProfileDone, FinalHealth, ValidationTypes, RecordedLast
  <2>2. saw \subseteq saw' /\ (saw' = {} => died = {})
    BY <1>10 DEF ProfileDone, FinalHealth, CheckHealth
  <2>3. ChecksOver'
    BY <1>10, <2>2 DEF ProfileDone, ChecksOver
  <2>4. FailuresMarked'
    BY <1>10, <2>2 DEF ProfileDone, FailuresMarked
  <2> QED BY <2>1, <2>3, <2>4
<1>11. CASE Teardown \/ NotRecorded
  BY <1>1, <1>11 DEF Teardown, NotRecorded, ValidationTypes, ChecksOver,
     RecordedLast
<1>12. CASE RecordOutcome
  <2>1. recorded' = "pass" => saw = {}
    BY <1>12 DEF RecordOutcome, ProfileOutcome, ValidationTypes
  <2> QED
    BY <1>1, <1>12, <2>1 DEF RecordOutcome, ValidationTypes, ChecksOver,
       RecordedLast
<1> QED
  BY <1>2, <1>3, <1>4, <1>5, <1>6, <1>7, <1>8, <1>9, <1>10, <1>11, <1>12
  DEF NextValidation

(* A pass that reached the journal was earned by every check, with every   *)
(* service alive when the last one ended, on the commit it names; and no   *)
(* service outlives the run unless the run failed for it.                  *)
THEOREM PassEarned == SpecValidation => []PassIsEarned
<1>1. ASSUME ValidationInv PROVE PassIsEarned
  <2>1. ASSUME recorded = "pass", NEW c \in Checks PROVE results[c] = "pass"
    <3>1. saw = {} /\ nextCheck = NumChecks + 1
      BY <1>1, <2>1 DEF ValidationInv, ChecksOver, RecordedLast
    <3>2. c < nextCheck
      BY <3>1, NumChecksAssumption DEF Checks
    <3> QED BY <1>1, <3>1, <3>2 DEF ValidationInv, FailuresMarked
  <2>2. recorded = "pass" => deadThen = {} /\ onCommit
    BY <1>1 DEF ValidationInv, ChecksOver, RecordedLast
  <2>3. /\ recorded # "none" => serving = {} /\ ~torn
        /\ vpc = "ended" /\ serving # {} => torn /\ recorded = "none"
    BY <1>1 DEF ValidationInv, RecordedLast
  <2> QED BY <2>1, <2>2, <2>3 DEF PassIsEarned
<1> QED
  BY <1>1, ValidationInit, ValidationStep, PTL DEF SpecValidation

-----------------------------------------------------------------------------
(* Discovery.  The second fold of the journal is the first one's result,   *)
(* and a recorded verdict keeps the model it was given for until another   *)
(* model becomes current.                                                  *)

FoldIsProjection ==
  fold = [open |-> openAmb, decided |-> decided, anomaly |-> FALSE]

VerdictKept ==
  /\ problem.id = NoName => problem.revision = 0
  /\ verdict.ref => verdict.revision \in Revisions
  /\ verdict.ref /\ ~replaced => judged = problem.id \/ problem.id = NoName

DiscoveryInv ==
  /\ openAmb \in [Ambiguities -> Question \cup {NoQuestion}]
  /\ decided \in [Decisions -> DecisionStatuses \cup {"none"}]
  /\ FoldIsProjection
  /\ VerdictKept

(* The journal is empty.                                                   *)
LEMMA DiscoveryInit == InitDiscovery => DiscoveryInv
  BY DEF InitDiscovery, DiscoveryInv, FoldIsProjection, VerdictKept

(* The fold of an event the reducer accepts.                               *)
LEMMA OpenedFold ==
  ASSUME DiscoveryInv, NEW a \in Ambiguities, NEW q, ~IsOpen(a)
  PROVE  FoldOpened(fold, a, q) =
           [open |-> [openAmb EXCEPT ![a] = q], decided |-> decided,
            anomaly |-> FALSE]
<1>1. /\ fold.open = openAmb /\ fold.decided = decided /\ fold.anomaly = FALSE
      /\ fold = [open |-> openAmb, decided |-> decided, anomaly |-> FALSE]
  BY DEF DiscoveryInv, FoldIsProjection
<1>2. (fold.anomaly \/ fold.open[a] # NoQuestion) = FALSE
  BY <1>1, Zenon DEF IsOpen
<1>3. FoldOpened(fold, a, q) =
        [[fold EXCEPT !.open = [fold.open EXCEPT ![a] = q]]
           EXCEPT !.anomaly = FALSE]
  BY <1>1, <1>2 DEF FoldOpened
<1> QED BY <1>1, <1>3

(* An accepted resolution of an open ambiguity folds without an anomaly.   *)
LEMMA ResolvedFold ==
  ASSUME DiscoveryInv, NEW a \in Ambiguities, IsOpen(a)
  PROVE  FoldResolved(fold, a) =
           [open |-> [openAmb EXCEPT ![a] = NoQuestion], decided |-> decided,
            anomaly |-> FALSE]
<1>1. /\ fold.open = openAmb /\ fold.decided = decided /\ fold.anomaly = FALSE
      /\ fold = [open |-> openAmb, decided |-> decided, anomaly |-> FALSE]
  BY DEF DiscoveryInv, FoldIsProjection
<1>2. (fold.anomaly \/ fold.open[a] = NoQuestion) = FALSE
  BY <1>1, Zenon DEF IsOpen
<1>3. FoldResolved(fold, a) =
        [[fold EXCEPT !.open = [fold.open EXCEPT ![a] = NoQuestion]]
           EXCEPT !.anomaly = FALSE]
  BY <1>1, <1>2 DEF FoldResolved
<1> QED BY <1>1, <1>3

(* A decision, with the question it may answer.                            *)
LEMMA DecisionStep ==
  ASSUME DiscoveryInv, NEW d \in Decisions, NEW status \in DecisionStatuses,
         NEW supersedes \in Decisions \cup {NoName},
         NEW resolves \in Ambiguities \cup {NoName},
         ProductDecisionRecorded(d, status, supersedes, resolves)
  PROVE  DiscoveryInv'
<1> DEFINE g == IF resolves = NoName THEN fold ELSE FoldResolved(fold, resolves)
<1>1. g = [open |-> Answered(resolves), decided |-> decided, anomaly |-> FALSE]
  <2>1. CASE resolves = NoName
    <3>1. Answered(resolves) = openAmb
      BY <2>1, NoNameAssumption DEF Answered, DiscoveryInv
    <3> QED BY <2>1, <3>1 DEF DiscoveryInv, FoldIsProjection
  <2>2. CASE resolves # NoName
    <3>1. resolves \in Ambiguities /\ IsOpen(resolves)
      BY <2>2 DEF ProductDecisionRecorded
    <3>2. Answered(resolves) = [openAmb EXCEPT ![resolves] = NoQuestion]
      BY <3>1 DEF Answered, DiscoveryInv
    <3> QED BY <2>2, <3>1, <3>2, ResolvedFold
  <2> QED BY <2>1, <2>2
<1>2. fold' = [g EXCEPT !.decided = decided']
  <2>1. g.decided = decided
    BY <1>1
  <2> QED BY <2>1 DEF ProductDecisionRecorded, FoldDecision
<1> HIDE DEF g
<1>3. FoldIsProjection'
  BY <1>1, <1>2 DEF FoldIsProjection, ProductDecisionRecorded
<1>4. openAmb' \in [Ambiguities -> Question \cup {NoQuestion}]
  BY DEF ProductDecisionRecorded, Answered, DiscoveryInv
<1>5. decided' \in [Decisions -> DecisionStatuses \cup {"none"}]
  <2>1. ASSUME NEW e \in Decisions
        PROVE  decided'[e] \in DecisionStatuses \cup {"none"}
    <3>1. decided'[e] = CASE e = d -> status
                          [] e # d /\ e = supersedes -> "superseded"
                          [] OTHER -> decided[e]
      BY DEF ProductDecisionRecorded
    <3> QED BY <3>1 DEF DiscoveryInv, DecisionStatuses
  <2> QED BY <2>1 DEF ProductDecisionRecorded
<1>6. VerdictKept'
  BY DEF ProductDecisionRecorded, DiscoveryInv, VerdictKept
<1> QED BY <1>3, <1>4, <1>5, <1>6 DEF DiscoveryInv

(* Every discovery event keeps the invariant.                              *)
LEMMA DiscoveryStep ==
  ASSUME DiscoveryInv, [NextDiscovery]_discoveryVars
  PROVE  DiscoveryInv'
<1>1. CASE UNCHANGED discoveryVars
  BY <1>1 DEF discoveryVars, DiscoveryInv, FoldIsProjection, VerdictKept
<1>2. ASSUME NEW m \in Models, NEW r \in Revisions, NEW u \in {0, 1},
             ProblemModelRevised(m, r, u)
      PROVE  DiscoveryInv'
  <2>1. /\ problem'.id = m /\ m # NoName
        /\ UNCHANGED <<openAmb, decided, verdict, judged, fold>>
        /\ replaced' = (replaced \/ (verdict.ref /\ m # judged))
    BY <1>2, NoNameAssumption DEF ProblemModelRevised
  <2>2. verdict'.ref /\ ~replaced' => judged' = problem'.id
    BY <2>1, Zenon
  <2> QED
    BY <2>1, <2>2 DEF DiscoveryInv, FoldIsProjection, VerdictKept
<1>3. ASSUME NEW m \in Models, NEW r \in Revisions,
             SpecificationReadinessRecorded(m, r)
      PROVE  DiscoveryInv'
  BY <1>3 DEF SpecificationReadinessRecorded, DiscoveryInv, FoldIsProjection,
     VerdictKept
<1>4. ASSUME NEW a \in Ambiguities, NEW q \in Question, AmbiguityOpened(a, q)
      PROVE  DiscoveryInv'
  <2>1. FoldIsProjection'
    BY <1>4, OpenedFold DEF AmbiguityOpened, FoldIsProjection
  <2> QED BY <1>4, <2>1 DEF AmbiguityOpened, DiscoveryInv, VerdictKept
<1>5. ASSUME NEW a \in Ambiguities, AmbiguityResolved(a)
      PROVE  DiscoveryInv'
  <2>1. FoldIsProjection'
    BY <1>5, ResolvedFold DEF AmbiguityResolved, FoldIsProjection
  <2> QED BY <1>5, <2>1 DEF AmbiguityResolved, DiscoveryInv, VerdictKept
<1>6. ASSUME NEW status, NEW source, RequirementRecorded(status, source)
      PROVE  DiscoveryInv'
  BY <1>6 DEF RequirementRecorded, DiscoveryInv, FoldIsProjection, VerdictKept
<1> QED
  BY <1>1, <1>2, <1>3, <1>4, <1>5, <1>6, DecisionStep DEF NextDiscovery

(* The invariant holds after every journal.                                *)
THEOREM DiscoveryInvariant == SpecDiscovery => []DiscoveryInv
  BY DiscoveryInit, DiscoveryStep, PTL DEF SpecDiscovery

(* The reducer and the analysis agree on every journal the reducer         *)
(* accepts, so that crossCheckProjection reports damage only.              *)
THEOREM FoldsAlwaysAgree == SpecDiscovery => []FoldsAgree
<1>1. DiscoveryInv => FoldsAgree
  BY DEF DiscoveryInv, FoldIsProjection, FoldsAgree
<1> QED BY <1>1, DiscoveryInvariant, PTL

Standing ==
  {"human_reflection_unverifiable", "independent_review_unverifiable"}

(* The blockers of an analysis are finitely many, two of them always       *)
(* stand, and when there are no others the ones that can be settled are.   *)
LEMMA OnlyStanding ==
  ASSUME NEW ledger, Cardinality(Blockers(ledger, TRUE)) = 2
  PROVE  Blockers(ledger, TRUE) = Standing
<1> DEFINE h == "human_reflection_unverifiable"
           i == "independent_review_unverifiable"
           S2 == {h} \cup {i}
           S3 == S2 \cup {"no_problem_model"}
           S4 == S3 \cup {"problem_model_record_missing"}
           S5 == S4 \cup {"open_material_ambiguities"}
           S6 == S5 \cup {"awaiting_human_questions"}
           S7 == S6 \cup {"unverified_material_assumptions"}
           S8 == S7 \cup {"consistency_violations"}
           S9 == S8 \cup {"recorded_readiness_stale"}
           S10 == S9 \cup {"no_recorded_readiness"}
<1>1. IsFiniteSet({h}) /\ Cardinality({h}) = 1
  BY FS_Singleton
<1>2. IsFiniteSet(S2) /\ Cardinality(S2) = 2
  <2>1. i \notin {h}
    OBVIOUS
  <2> QED BY <1>1, <2>1, FS_AddElement
<1>3. IsFiniteSet(S3)
  BY <1>2, FS_AddElement
<1>4. IsFiniteSet(S4)
  BY <1>3, FS_AddElement
<1>5. IsFiniteSet(S5)
  BY <1>4, FS_AddElement
<1>6. IsFiniteSet(S6)
  BY <1>5, FS_AddElement
<1>7. IsFiniteSet(S7)
  BY <1>6, FS_AddElement
<1>8. IsFiniteSet(S8)
  BY <1>7, FS_AddElement
<1>9. IsFiniteSet(S9)
  BY <1>8, FS_AddElement
<1>10. IsFiniteSet(S10)
  BY <1>9, FS_AddElement
<1>11. Blockers(ledger, TRUE) \in SUBSET S10
  BY DEF Blockers
<1>12. IsFiniteSet(Blockers(ledger, TRUE))
  BY <1>10, <1>11, FS_Subset
<1>13. S2 = Standing /\ Standing \in SUBSET Blockers(ledger, TRUE)
  BY DEF Standing, Blockers
<1> HIDE DEF S2
<1> QED
  BY <1>2, <1>12, <1>13, FS_Subset

(* A shown verdict is about the shown model and revision, and an analysis  *)
(* that finds nothing else to settle rests on such a verdict with no human *)
(* question open in the journal, whatever ledger is stored (discoveryState *)
(* and analyse).                                                           *)
THEOREM ReadinessCurrent == SpecDiscovery => []ReadinessIsCurrent
<1>1. ASSUME DiscoveryInv PROVE ReadinessIsCurrent
  <2>1. ASSUME VerdictShown, ~replaced
        PROVE  judged = problem.id /\ verdict.revision = problem.revision
    <3>1. verdict.ref /\ verdict.revision = problem.revision
      BY <2>1 DEF VerdictShown
    <3>2. problem.id # NoName
      BY <1>1, <3>1, MaxRevisionAssumption
      DEF DiscoveryInv, VerdictKept, Revisions
    <3> QED BY <1>1, <2>1, <3>1, <3>2 DEF DiscoveryInv, VerdictKept
  <2>2. ASSUME NEW ledger \in [Ambiguities -> LedgerEntries],
               Cardinality(Blockers(ledger, TRUE)) = 2
        PROVE  /\ verdict.revision = problem.revision
               /\ \A a \in Ambiguities : ~fold.open[a].human
    <3>1. /\ "recorded_readiness_stale" \notin Blockers(ledger, TRUE)
          /\ "no_recorded_readiness" \notin Blockers(ledger, TRUE)
          /\ "awaiting_human_questions" \notin Blockers(ledger, TRUE)
      <4>1. Blockers(ledger, TRUE) = Standing
        BY <2>2, OnlyStanding, Zenon
      <4> QED BY <4>1 DEF Standing
    <3>2. ~(verdict.ref /\ ~VerdictShown)
      BY <3>1 DEF Blockers
    <3>3. verdict.ref
      BY <3>1 DEF Blockers
    <3>4. AwaitingHumanAmbiguities = {}
      BY <3>1 DEF Blockers
    <3>5. fold.open = openAmb
      BY <1>1 DEF DiscoveryInv, FoldIsProjection
    <3> QED
      BY <3>2, <3>3, <3>4, <3>5 DEF VerdictShown, AwaitingHumanAmbiguities
  <2> QED BY <2>1, <2>2 DEF ReadinessIsCurrent
<1> QED BY <1>1, DiscoveryInvariant, PTL

-----------------------------------------------------------------------------
(* Sessions.  The meter's sum is the sum of what the model really used,    *)
(* known or not, but for the answer whose calls the driver still runs.     *)

MeterFields ==
  {"paused", "why", "tokens", "calls", "processed", "recent", "failedKey",
   "failedCount", "edits", "oscillations"}

IsMeter(m) ==
  /\ m = [x \in MeterFields |-> m[x]]
  /\ m.paused \in BOOLEAN
  /\ m.tokens \in Nat \cup {UnknownTokens}

Steps == {"new", "turn", "model", "driver", "check", "loop", "stopped",
          "limit", "cancelled", "driver_error", "validation_failed",
          "validation_error"}

LoopFields ==
  {"pc", "turn", "input", "answer", "usage", "next", "driverExecuted",
   "already", "results", "rounds"}
UsedFields == {"tokens", "calls", "runs", "key", "streak", "longest"}

LoopTyped ==
  /\ turnLoop = [x \in LoopFields |-> turnLoop[x]]
  /\ turnLoop.pc \in Steps
  /\ turnLoop.turn \in Nat /\ turnLoop.next \in Nat \ {0}
  /\ turnLoop.answer \in AnswerLists
  /\ turnLoop.usage \in Nat \cup {UnknownTokens}
  /\ turnLoop.already \in [CallIds -> Int]
  /\ turnLoop.driverExecuted \in [CallIds -> Nat]

UsedTyped ==
  /\ used = [x \in UsedFields |-> used[x]]
  /\ used.tokens \in Nat \cup {UnknownTokens}
  /\ used.runs \in [CallIds -> Nat]
  /\ used.streak \in Nat /\ used.longest \in Nat

SessionTyped ==
  /\ terms \in Terms \cup {NoTerms}
  /\ IsMeter(meter)
  /\ LoopTyped
  /\ UsedTyped

Allowed(tokens) ==
  IF tokens = UnknownTokens THEN terms.allowUnknown /\ terms.local
  ELSE tokens <= MaxTotalTokens

Accounted ==
  used.tokens = IF turnLoop.pc = "driver"
                THEN addMeasurement(meter.tokens, turnLoop.usage)
                ELSE meter.tokens

(* What a session that goes on, or has its result, stands on.              *)
Solvent ==
  /\ IF turnLoop.pc = "new" THEN terms = NoTerms /\ meter.tokens = 0
     ELSE terms \in Terms
  /\ turnLoop.pc \in {"turn", "model", "driver", "check", "loop",
                      "stopped"} => Allowed(meter.tokens)
  /\ turnLoop.pc \in {"model", "check", "stopped"} => ~meter.paused
  /\ turnLoop.pc \in {"model", "driver", "check", "loop", "stopped"} =>
       turnLoop.turn <= MaxTurns

(* A worker's driver runs each call of an answer once, and its loop leaves *)
(* all of them out: no result is ever handed to a turn, so the detector    *)
(* has seen exactly the executions.                                        *)
Worked ==
  /\ turnLoop.input = << >> /\ turnLoop.results = << >>
  /\ meter.failedKey = used.key /\ meter.failedCount = used.streak
  /\ used.streak <= used.longest
  /\ meter.why = "semantic_loop" =>
       used.longest >= MaxConsecutiveFailedCalls
  /\ \A i \in CallIds : used.runs[i] <= 1
  /\ turnLoop.pc \in {"new", "turn", "model", "check", "loop"} =>
       turnLoop.driverExecuted = NoRuns
  /\ turnLoop.pc = "driver" =>
       \A i \in CallIds :
         /\ used.runs[i] = IF i < turnLoop.next THEN 1 ELSE 0
         /\ turnLoop.driverExecuted[i] = used.runs[i]
  /\ turnLoop.pc = "loop" =>
       \A i \in CallIds :
         i >= turnLoop.next /\ i <= Len(turnLoop.answer) =>
           turnLoop.already[i] > 0

SessionInv ==
  /\ SessionTyped
  /\ Accounted
  /\ Solvent
  /\ turnLoop.pc = "driver" => turnLoop.next <= Len(turnLoop.answer) + 1
  /\ terms.host # "reviewer" => Worked

(* Without results from the turn before, the detector sees nothing new.    *)
LEMMA NoResults ==
  ASSUME NEW m
  PROVE  ResultsSeen(m, << >>) = [loop |-> FALSE, meter |-> m]
<1> DEFINE base == [loop |-> FALSE, meter |-> m]
           step(s, it) ==
             IF s = {} THEN base
             ELSE LET x == Max(s)
                  IN  RecordResult(it[s \ {x}], << >>[x])
           iter == CHOOSE it : it = [s \in SUBSET {} |-> step(s, it)]
<1>1. DOMAIN << >> = {}
  OBVIOUS
<1>2. [s \in SUBSET {} |-> base] =
        [s \in SUBSET {} |-> step(s, [z \in SUBSET {} |-> base])]
  <2>1. \A s \in SUBSET {} : s = {}
    OBVIOUS
  <2> QED BY <2>1
<1>3. iter = [s \in SUBSET {} |-> step(s, iter)]
  <2> HIDE DEF step
  <2> QED BY <1>2
<1>4. iter[{}] = base
  <2>1. {} \in SUBSET {}
    OBVIOUS
  <2>2. iter[{}] = step({}, iter)
    <3> HIDE DEF step, iter
    <3> QED BY <1>3, <2>1
  <2> QED BY <2>2
<1>5. ResultsSeen(m, << >>) = iter[{}]
  BY <1>1 DEF ResultsSeen, FoldLeft, MapThenFoldSet
<1> QED BY <1>4, <1>5

Tokens == Nat \cup {UnknownTokens}

(* The sum of two measurements is one, and unknown if either part is.      *)
LEMMA SumTyped ==
  ASSUME NEW a \in Tokens, NEW b \in Tokens
  PROVE  /\ addMeasurement(a, b) \in Tokens
         /\ addMeasurement(a, b) = UnknownTokens <=>
              (a = UnknownTokens \/ b = UnknownTokens)
BY SessionAssumption DEF addMeasurement, Tokens

(* Two meters that differ in other fields than the sum and the streak.     *)
SameSums(m, r) ==
  /\ IsMeter(r)
  /\ r.tokens = m.tokens
  /\ r.failedKey = m.failedKey /\ r.failedCount = m.failedCount

(* tripPause writes the status and the dimension.                          *)
LEMMA TripPause ==
  ASSUME NEW m, IsMeter(m), NEW why
  PROVE  /\ SameSums(m, tripPause(m, why))
         /\ tripPause(m, why).paused /\ tripPause(m, why).why = why
BY DEF IsMeter, MeterFields, SameSums, tripPause

(* Counting calls writes their ids and their number.                       *)
LEMMA Counting ==
  ASSUME NEW m, IsMeter(m), NEW ids
  PROVE  /\ SameSums(m, CountCalls(m, ids))
         /\ CountCalls(m, ids).paused = m.paused
         /\ CountCalls(m, ids).why = m.why
BY DEF IsMeter, MeterFields, SameSums, CountCalls

(* The limit of calls may pause the meter, for that reason.                *)
LEMMA CallLimit ==
  ASSUME NEW m, IsMeter(m)
  PROVE  /\ SameSums(m, TooManyCalls(m))
         /\ TooManyCalls(m) = m \/ TooManyCalls(m).why = "max_tool_calls"
         /\ m.paused => TooManyCalls(m).paused
<1>1. CASE m.calls > MaxToolCalls
  BY <1>1, TripPause DEF TooManyCalls
<1>2. CASE ~(m.calls > MaxToolCalls)
  BY <1>2 DEF TooManyCalls, SameSums
<1> QED BY <1>1, <1>2

(* The detector writes nothing but its streak.                             *)
LEMMA Detecting ==
  ASSUME NEW m, IsMeter(m), NEW key, NEW failed \in BOOLEAN
  PROVE  LET r == RecordToolCall(m, key, failed)
         IN  /\ IsMeter(r) /\ r.tokens = m.tokens /\ r.why = m.why
             /\ r.failedKey = (IF failed THEN key ELSE NoKey)
             /\ r.failedCount = IF ~failed THEN 0
                                ELSE IF m.failedKey = key
                                THEN m.failedCount + 1 ELSE 1
BY DEF IsMeter, MeterFields, RecordToolCall

(* An edit may pause the meter, but for no loop of failures.               *)
LEMMA Editing ==
  ASSUME NEW m, IsMeter(m), NEW content
  PROVE  LET r == RecordFileEdit(m, content)
         IN  /\ SameSums(m, r)
             /\ r.why \in {m.why, "oscillating_edits"}
<1> DEFINE count == m.oscillations + IF Oscillates(m, content) THEN 1 ELSE 0
           n == Len(m.edits)
           next == Append(IF n < 2 THEN m.edits ELSE Tail(m.edits), content)
           a == [m EXCEPT !.oscillations = count]
           b == [m EXCEPT !.oscillations = count, !.edits = next]
<1>1. IsMeter(a) /\ SameSums(m, a)
  BY DEF IsMeter, MeterFields, SameSums
<1>2. SameSums(m, b) /\ b.why = m.why
  BY DEF IsMeter, MeterFields, SameSums
<1>3. RecordFileEdit(m, content) \in {tripPause(a, "oscillating_edits"), b}
  BY DEF RecordFileEdit, IsMeter, MeterFields
<1>4. /\ SameSums(a, tripPause(a, "oscillating_edits"))
      /\ tripPause(a, "oscillating_edits").why = "oscillating_edits"
  BY <1>1, TripPause
<1> HIDE DEF a, b
<1> QED BY <1>1, <1>2, <1>3, <1>4 DEF SameSums

(* What the listeners of the mediator change of the sums and the streak.   *)
LEMMA Mediating ==
  ASSUME NEW m, IsMeter(m), NEW i, NEW key, NEW failed \in BOOLEAN, NEW edit
  PROVE  LET r == Mediated(m, i, key, failed, edit)
         IN  /\ IsMeter(r) /\ r.tokens = m.tokens
             /\ r.failedKey = (IF failed THEN key ELSE NoKey)
             /\ r.failedCount = IF ~failed THEN 0
                                ELSE IF m.failedKey = key
                                THEN m.failedCount + 1 ELSE 1
             /\ r.why = "semantic_loop" =>
                  \/ m.why = "semantic_loop"
                  \/ r.failedCount >= MaxConsecutiveFailedCalls
<1> DEFINE e == IF failed \/ edit = << >> THEN m
                ELSE RecordFileEdit(m, edit[1])
           c == CountCalls(e, {i})
           n == [c EXCEPT !.recent[i] = key]
           d == RecordToolCall(n, key, failed)
           p == tripPause(d, "semantic_loop")
           q == TooManyCalls(d)
           r == Mediated(m, i, key, failed, edit)
<1>1. SameSums(m, e) /\ e.why \in {m.why, "oscillating_edits"}
  BY Editing DEF SameSums
<1>2. SameSums(e, c) /\ c.why = e.why
  <2> HIDE DEF e
  <2> QED BY <1>1, Counting DEF SameSums
<1>3. SameSums(c, n) /\ n.why = c.why
  <2> HIDE DEF c
  <2> QED BY <1>2 DEF SameSums, IsMeter, MeterFields
<1>4. /\ IsMeter(d) /\ d.tokens = n.tokens /\ d.why = n.why
      /\ d.failedKey = (IF failed THEN key ELSE NoKey)
      /\ d.failedCount = IF ~failed THEN 0
                         ELSE IF n.failedKey = key
                         THEN n.failedCount + 1 ELSE 1
  <2> HIDE DEF n
  <2> QED BY <1>3, Detecting DEF SameSums
<1>5. /\ SameSums(d, p)
      /\ SameSums(d, q) /\ (q.why = d.why \/ q.why = "max_tool_calls")
  <2> HIDE DEF d
  <2> QED BY <1>4, TripPause, CallLimit
<1>6. r = IF LoopDetected(d) THEN p ELSE q
  BY DEF Mediated, RecordToolResult, LoopOrCalls
<1>7. LoopDetected(d) => d.failedCount >= MaxConsecutiveFailedCalls
  BY DEF LoopDetected
<1> HIDE DEF e, c, n, d, p, q, r
<1>8. /\ IsMeter(r) /\ r.tokens = m.tokens
      /\ r.failedKey = (IF failed THEN key ELSE NoKey)
      /\ r.failedCount = IF ~failed THEN 0
                         ELSE IF m.failedKey = key
                         THEN m.failedCount + 1 ELSE 1
      /\ r.why = "semantic_loop" =>
           \/ m.why = "semantic_loop"
           \/ r.failedCount >= MaxConsecutiveFailedCalls
  <2>1. CASE LoopDetected(d)
    BY <1>1, <1>2, <1>3, <1>4, <1>5, <1>6, <1>7, <2>1 DEF SameSums
  <2>2. CASE ~LoopDetected(d)
    BY <1>1, <1>2, <1>3, <1>4, <1>5, <1>6, <2>2 DEF SameSums
  <2> QED BY <2>1, <2>2
<1> QED BY <1>8 DEF r

(* Without an incoming result, a turn's end leaves the streak alone.       *)
(* In any case it adds the turn's usage to the sum, and a meter that is    *)
(* not paused then has a sum within the limit, or unknown where that is    *)
(* allowed.                                                                *)
LEMMA Ending ==
  ASSUME NEW m, IsMeter(m), NEW tokens \in Tokens, NEW keys, NEW incoming,
         NEW slow \in BOOLEAN
  PROVE  LET r == RecordOperationEnd(m, tokens, keys, incoming, slow)
             sum == addMeasurement(m.tokens, tokens)
         IN  /\ IsMeter(r) /\ r.tokens = sum
             /\ ~r.paused =>
                  IF sum = UnknownTokens THEN terms.allowUnknown
                  ELSE sum <= MaxTotalTokens
             /\ incoming = << >> =>
                  /\ r.failedKey = m.failedKey
                  /\ r.failedCount = m.failedCount
                  /\ r.why = "semantic_loop" => m.why = "semantic_loop"
<1> DEFINE sum == addMeasurement(m.tokens, tokens)
           s == [m EXCEPT !.tokens = sum]
           counted == CountCalls(s, DOMAIN keys)
           seen == ResultsSeen(counted, incoming)
           detected == [counted EXCEPT !.failedKey = seen.meter.failedKey,
                                       !.failedCount = seen.meter.failedCount]
           noted == [detected EXCEPT !.recent = [i \in CallIds |->
                       IF i \in DOMAIN keys THEN keys[i] ELSE @[i]]]
           over == sum # UnknownTokens /\ sum > MaxTotalTokens
           r == RecordOperationEnd(m, tokens, keys, incoming, slow)
<1>1. sum \in Tokens
  BY SumTyped DEF IsMeter, Tokens
<1>2. /\ IsMeter(s) /\ s.tokens = sum /\ s.why = m.why
      /\ s.failedKey = m.failedKey /\ s.failedCount = m.failedCount
  <2> HIDE DEF sum
  <2> QED BY <1>1 DEF IsMeter, MeterFields, Tokens
<1>3. SameSums(s, counted) /\ counted.why = s.why
  <2> HIDE DEF s
  <2> QED BY <1>2, Counting
<1>4. /\ IsMeter(detected) /\ detected.tokens = counted.tokens
      /\ detected.why = counted.why
      /\ detected.failedKey = seen.meter.failedKey
      /\ detected.failedCount = seen.meter.failedCount
  <2> HIDE DEF counted, seen
  <2> QED BY <1>3 DEF SameSums, IsMeter, MeterFields
<1>5. SameSums(detected, noted) /\ noted.why = detected.why
  <2> HIDE DEF detected
  <2> QED BY <1>4 DEF SameSums, IsMeter, MeterFields
<1>6. incoming = << >> => ~seen.loop /\ seen.meter = counted
  <2> HIDE DEF counted
  <2> QED BY NoResults
<1>7. r = CASE seen.loop -> tripPause(detected, "semantic_loop")
            [] ~seen.loop /\ slow -> tripPause(noted, "max_duration")
            [] ~seen.loop /\ ~slow /\ sum = UnknownTokens
                 /\ ~terms.allowUnknown -> tripPause(noted, "usage_unknown")
            [] ~seen.loop /\ ~slow /\ over ->
                 tripPause(noted, "max_total_tokens")
            [] OTHER -> TooManyCalls(noted)
  BY DEF RecordOperationEnd, OverTokens
<1> HIDE DEF sum, s, counted, seen, detected, noted, r
<1>8. \A w : /\ SameSums(noted, tripPause(noted, w))
             /\ tripPause(noted, w).paused /\ tripPause(noted, w).why = w
  BY <1>5, TripPause DEF SameSums
<1>9. /\ SameSums(detected, tripPause(detected, "semantic_loop"))
      /\ tripPause(detected, "semantic_loop").paused
  BY <1>4, TripPause
<1>10. /\ SameSums(noted, TooManyCalls(noted))
       /\ \/ TooManyCalls(noted).why = noted.why
          \/ TooManyCalls(noted).why = "max_tool_calls"
  BY <1>5, CallLimit DEF SameSums
<1>11. /\ IsMeter(r) /\ r.tokens = sum
       /\ r.failedKey = detected.failedKey
       /\ r.failedCount = detected.failedCount
       /\ seen.loop => r.paused
       /\ ~seen.loop /\ r.why = "semantic_loop" => m.why = "semantic_loop"
  <2>1. CASE seen.loop
    BY <1>2, <1>3, <1>4, <1>7, <1>9, <2>1 DEF SameSums
  <2>2. CASE ~seen.loop
    <3>1. \/ \E w \in {"max_duration", "usage_unknown", "max_total_tokens"} :
               r = tripPause(noted, w)
          \/ r = TooManyCalls(noted)
      BY <1>7, <2>2
    <3>2. CASE r = TooManyCalls(noted)
      BY <1>2, <1>3, <1>4, <1>5, <1>10, <2>2, <3>2 DEF SameSums
    <3>3. ASSUME NEW w \in {"max_duration", "usage_unknown",
                            "max_total_tokens"},
                 r = tripPause(noted, w)
          PROVE  r.why # "semantic_loop" /\ SameSums(noted, r)
      BY <1>8, <3>3
    <3>4. SameSums(noted, r)
      BY <1>10, <3>1, <3>3
    <3>5. r.why = "semantic_loop" => m.why = "semantic_loop"
      BY <1>2, <1>3, <1>4, <1>5, <1>10, <3>1, <3>3
    <3> QED BY <1>2, <1>3, <1>4, <1>5, <2>2, <3>4, <3>5 DEF SameSums
  <2> QED BY <2>1, <2>2
<1>12. ~r.paused => IF sum = UnknownTokens THEN terms.allowUnknown
                    ELSE sum <= MaxTotalTokens
  <2>1. SUFFICES ASSUME ~r.paused
                 PROVE  IF sum = UnknownTokens THEN terms.allowUnknown
                        ELSE sum <= MaxTotalTokens
    OBVIOUS
  <2>2. ~seen.loop
    BY <1>11, <2>1
  <2>3. ~slow
    BY <1>7, <1>8, <2>1, <2>2
  <2>4. ~(sum = UnknownTokens /\ ~terms.allowUnknown)
    BY <1>7, <1>8, <2>1, <2>2, <2>3
  <2>5. ~over
    <3> HIDE DEF over
    <3> QED BY <1>7, <1>8, <2>1, <2>2, <2>3, <2>4
  <2>6. sum # UnknownTokens => sum \in Nat
    BY <1>1 DEF Tokens
  <2> QED BY <2>4, <2>5, <2>6, SessionAssumption
<1>13. incoming = << >> =>
         /\ r.failedKey = m.failedKey
         /\ r.failedCount = m.failedCount
         /\ r.why = "semantic_loop" => m.why = "semantic_loop"
  BY <1>2, <1>3, <1>4, <1>6, <1>11 DEF SameSums
<1> QED BY <1>11, <1>12, <1>13 DEF r, sum

(* The calls of an answer have the ids from one on.                        *)
LEMMA AnswerIds ==
  ASSUME NEW keys \in AnswerLists
  PROVE  /\ keys \in Seq(ToolKeys) /\ Len(keys) \in Nat
         /\ Len(keys) <= MaxCallsPerTurn
         /\ 1 .. Len(keys) \subseteq CallIds
         /\ keys = << >> <=> Len(keys) = 0
<1>1. PICK n \in 0 .. MaxCallsPerTurn : keys \in [1 .. n -> ToolKeys]
  BY DEF AnswerLists
<1>2. n \in Nat /\ n <= MaxCallsPerTurn
  BY SessionAssumption
<1>3. keys \in Seq(ToolKeys) /\ Len(keys) = n
  BY <1>1, <1>2
<1> QED BY <1>2, <1>3, SessionAssumption DEF CallIds

(* Counters by id stay counters when one of them is raised or lowered.     *)
LEMMA CounterStep ==
  ASSUME NEW f, NEW i \in CallIds
  PROVE  /\ f \in [CallIds -> Nat] =>
              /\ [f EXCEPT ![i] = @ + 1] \in [CallIds -> Nat]
              /\ f \in [CallIds -> Int]
         /\ f \in [CallIds -> Int] =>
              [f EXCEPT ![i] = @ - 1] \in [CallIds -> Int]
OBVIOUS

(* A new session owes nothing and has run nothing.                         *)
LEMMA SessionInit == InitSessions => SessionInv
<1> SUFFICES ASSUME InitSessions PROVE SessionInv
  OBVIOUS
<1> USE DEF InitSessions
<1>1. << >> \in AnswerLists
  <2>1. << >> \in [1 .. 0 -> ToolKeys]
    OBVIOUS
  <2>2. 0 \in 0 .. MaxCallsPerTurn
    BY SessionAssumption
  <2> QED BY <2>1, <2>2 DEF AnswerLists
<1>2. NoRuns \in [CallIds -> Nat] /\ \A i \in CallIds : NoRuns[i] = 0
  BY DEF NoRuns
<1>3. IsMeter(meter)
  BY DEF NewSilentMeter, IsMeter, MeterFields
<1>4. SessionTyped
  BY <1>1, <1>2, <1>3
  DEF SessionTyped, LoopTyped, UsedTyped, Steps, LoopFields, UsedFields
<1>5. Accounted /\ Solvent
  BY DEF Accounted, Solvent, NewSilentMeter
<1>6. Worked
  <2>1. /\ meter.failedKey = NoKey /\ meter.failedCount = 0
        /\ meter.why # "semantic_loop"
    BY DEF NewSilentMeter
  <2>2. turnLoop.pc = "new" /\ turnLoop.driverExecuted = NoRuns
    OBVIOUS
  <2>3. turnLoop.input = << >> /\ turnLoop.results = << >>
    OBVIOUS
  <2> QED BY <1>2, <2>1, <2>2, <2>3 DEF Worked
<1> QED BY <1>4, <1>5, <1>6 DEF SessionInv

(* Steps at which a session goes on or has its result.                     *)
Solid == {"turn", "model", "driver", "check", "loop", "stopped"}

(* A step that only moves the program counter keeps the invariant if the   *)
(* new place asks for no more than the old one gave.                       *)
LEMMA MoveStep ==
  ASSUME SessionInv, NEW how \in Steps \ {"new", "driver", "loop"},
         Ends(how), UNCHANGED <<terms, meter, used>>,
         turnLoop.pc \notin {"new", "driver"},
         how \in Solid => turnLoop.pc \in Solid,
         how \in {"model", "check", "stopped"} => ~meter.paused,
         how \in {"model", "check", "stopped"} => turnLoop.turn <= MaxTurns,
         how \in {"turn", "model", "check"} =>
           turnLoop.pc \in {"turn", "model", "check", "loop"}
  PROVE  SessionInv'
<1> USE DEF Ends
<1>1. /\ turnLoop'.pc = how
      /\ turnLoop'.turn = turnLoop.turn /\ turnLoop'.input = turnLoop.input
      /\ turnLoop'.answer = turnLoop.answer
      /\ turnLoop'.usage = turnLoop.usage /\ turnLoop'.next = turnLoop.next
      /\ turnLoop'.driverExecuted = turnLoop.driverExecuted
      /\ turnLoop'.already = turnLoop.already
      /\ turnLoop'.results = turnLoop.results
      /\ turnLoop' = [x \in LoopFields |-> turnLoop'[x]]
  BY DEF SessionInv, SessionTyped, LoopTyped, UsedTyped, LoopFields
<1>2. SessionTyped'
  BY <1>1
  DEF SessionInv, SessionTyped, LoopTyped, UsedTyped, LoopFields, IsMeter
<1>3. Accounted'
  BY <1>1 DEF SessionInv, Accounted
<1>4. Solvent'
  BY <1>1 DEF SessionInv, Solvent, Solid, LoopFields, Allowed, Steps
<1>5. Worked => Worked'
  BY <1>1 DEF SessionInv, Worked, LoopFields, Steps
<1> QED BY <1>1, <1>2, <1>3, <1>4, <1>5 DEF SessionInv

(* Opening a session, or failing to.                                       *)
LEMMA OpenStep ==
  ASSUME SessionInv, NEW t \in Terms, OpenSession(t)
  PROVE  SessionInv'
<1> USE DEF OpenSession, Ends
<1>1. /\ turnLoop'.pc \in {"turn", "driver_error"}
      /\ turnLoop'.turn = turnLoop.turn /\ turnLoop'.input = turnLoop.input
      /\ turnLoop'.answer = turnLoop.answer
      /\ turnLoop'.usage = turnLoop.usage /\ turnLoop'.next = turnLoop.next
      /\ turnLoop'.driverExecuted = turnLoop.driverExecuted
      /\ turnLoop'.already = turnLoop.already
      /\ turnLoop'.results = turnLoop.results
      /\ turnLoop' = [x \in LoopFields |-> turnLoop'[x]]
  BY DEF SessionInv, SessionTyped, LoopTyped, UsedTyped, LoopFields
<1>2. SessionTyped'
  BY <1>1
  DEF SessionInv, SessionTyped, LoopTyped, UsedTyped, LoopFields, IsMeter,
      Steps
<1>3. Accounted'
  BY <1>1 DEF SessionInv, Accounted
<1>4. Solvent'
  BY <1>1, SessionAssumption DEF SessionInv, Solvent, LoopFields, Allowed
<1>5. Worked => Worked'
  BY <1>1 DEF SessionInv, Worked, LoopFields
<1>6. Worked
  BY DEF SessionInv, Solvent, NoTerms
<1> QED BY <1>1, <1>2, <1>3, <1>4, <1>5, <1>6 DEF SessionInv

(* A turn begins only with turns left and a meter that is not paused.      *)
LEMMA BeginStep ==
  ASSUME SessionInv, BeginTurn
  PROVE  SessionInv'
<1>1. PICK how \in {"limit", "model"} :
        /\ Ends(how)
        /\ how = "model" => turnLoop.turn <= MaxTurns /\ ~meter.paused
  BY DEF BeginTurn
<1> QED BY <1>1, MoveStep DEF BeginTurn, Steps, Solid

(* The answer's usage is used, and not yet metered.                        *)
LEMMA AnswerStep ==
  ASSUME SessionInv, NEW keys \in AnswerLists,
         NEW tokens \in TurnTokens \cup {UnknownTokens},
         ModelAnswers(keys, tokens)
  PROVE  SessionInv'
<1>0. turnLoop.pc = "model" /\ UNCHANGED <<terms, meter>>
  BY DEF ModelAnswers
<1>1. /\ turnLoop'.pc = "driver" /\ turnLoop'.answer = keys
      /\ turnLoop'.usage = tokens /\ turnLoop'.next = 1
      /\ turnLoop'.turn = turnLoop.turn
      /\ turnLoop'.input = turnLoop.input
      /\ turnLoop'.results = turnLoop.results
      /\ turnLoop'.already = turnLoop.already
      /\ turnLoop'.driverExecuted = turnLoop.driverExecuted
      /\ turnLoop' = [x \in LoopFields |-> turnLoop'[x]]
  BY DEF ModelAnswers, SessionInv, SessionTyped, LoopTyped, UsedTyped,
      LoopFields
<1>2. /\ used'.tokens = addMeasurement(used.tokens, tokens)
      /\ used'.runs = NoRuns
      /\ used'.key = used.key /\ used'.streak = used.streak
      /\ used'.longest = used.longest
      /\ used' = [x \in UsedFields |-> used'[x]]
  BY DEF ModelAnswers, SessionInv, SessionTyped, LoopTyped, UsedTyped,
      UsedFields
<1>3. tokens \in Tokens /\ used'.tokens \in Tokens
  BY <1>2, SumTyped, SessionAssumption
  DEF SessionInv, SessionTyped, LoopTyped, UsedTyped, Tokens
<1>4. NoRuns \in [CallIds -> Nat] /\ \A i \in CallIds : NoRuns[i] = 0
  BY DEF NoRuns
<1>5. SessionTyped'
  BY <1>0, <1>1, <1>2, <1>3, <1>4
  DEF SessionInv, SessionTyped, LoopTyped, UsedTyped, IsMeter, Steps, Tokens
<1>6. Accounted'
  BY <1>0, <1>1, <1>2 DEF SessionInv, Accounted, addMeasurement
<1>7. Solvent'
  BY <1>0, <1>1 DEF SessionInv, Solvent, Allowed
<1>8. Worked => Worked'
  <2>1. \A i \in CallIds : ~(i < turnLoop'.next) /\ used'.runs[i] = 0
    BY <1>1, <1>2, <1>4, SessionAssumption DEF CallIds
  <2>2. Worked => turnLoop'.driverExecuted = NoRuns
    BY <1>0, <1>1 DEF Worked
  <2>3. turnLoop'.pc = "driver" /\ meter' = meter
    BY <1>0, <1>1
  <2>4. Worked => \A i \in CallIds :
          /\ used'.runs[i] = IF i < turnLoop'.next THEN 1 ELSE 0
          /\ turnLoop'.driverExecuted[i] = used'.runs[i]
    BY <1>4, <2>1, <2>2
  <2> QED BY <1>1, <1>2, <2>1, <2>3, <2>4 DEF Worked
<1>9. turnLoop'.next <= Len(turnLoop'.answer) + 1
  BY <1>1, AnswerIds
<1> QED BY <1>0, <1>1, <1>5, <1>6, <1>7, <1>8, <1>9 DEF SessionInv

(* A model that fails leaves a sum that is unknown on both sides.          *)
LEMMA FailStep ==
  ASSUME SessionInv, NEW how \in {"driver_error", "cancelled"},
         NEW slow \in BOOLEAN, ModelFails(how, slow)
  PROVE  SessionInv'
<1> USE DEF ModelFails, Ends
<1>1. /\ turnLoop'.pc = how
      /\ turnLoop'.turn = turnLoop.turn /\ turnLoop'.input = turnLoop.input
      /\ turnLoop'.answer = turnLoop.answer
      /\ turnLoop'.usage = turnLoop.usage /\ turnLoop'.next = turnLoop.next
      /\ turnLoop'.driverExecuted = turnLoop.driverExecuted
      /\ turnLoop'.already = turnLoop.already
      /\ turnLoop'.results = turnLoop.results
      /\ turnLoop' = [x \in LoopFields |-> turnLoop'[x]]
  BY DEF SessionInv, SessionTyped, LoopTyped, UsedTyped, LoopFields
<1>2. /\ used'.tokens = UnknownTokens
      /\ used'.runs = used.runs /\ used'.key = used.key
      /\ used'.streak = used.streak /\ used'.longest = used.longest
      /\ used' = [x \in UsedFields |-> used'[x]]
  BY DEF SessionInv, SessionTyped, LoopTyped, UsedTyped, UsedFields
<1>3. /\ IsMeter(meter')
      /\ meter'.tokens = addMeasurement(meter.tokens, UnknownTokens)
      /\ turnLoop.input = << >> =>
           /\ meter'.failedKey = meter.failedKey
           /\ meter'.failedCount = meter.failedCount
           /\ meter'.why = "semantic_loop" => meter.why = "semantic_loop"
  <2>1. IsMeter(meter) /\ UnknownTokens \in Tokens
    BY DEF SessionInv, SessionTyped, LoopTyped, UsedTyped, Tokens
  <2>2. meter' = RecordOperationEnd(meter, UnknownTokens, << >>,
                                    turnLoop.input, slow)
    OBVIOUS
  <2> QED BY <2>1, <2>2, Ending
<1>4. SessionTyped'
  BY <1>1, <1>2, <1>3
  DEF SessionInv, SessionTyped, LoopTyped, UsedTyped, LoopFields, UsedFields,
      IsMeter, Steps
<1>5. Accounted'
  BY <1>1, <1>2, <1>3 DEF Accounted, addMeasurement
<1>6. Solvent'
  BY <1>1 DEF SessionInv, Solvent
<1>7. Worked => Worked'
  BY <1>1, <1>2, <1>3 DEF SessionInv, Worked, LoopFields, UsedFields
<1> QED BY <1>1, <1>4, <1>5, <1>6, <1>7 DEF SessionInv

(* An execution by the driver: the listeners tell the meter, and a worker  *)
(* remembers the id.                                                       *)
LEMMA DriveStep ==
  ASSUME SessionInv, NEW failed \in BOOLEAN, NEW edit,
         DriverRunsCall(failed, edit)
  PROVE  SessionInv'
<1> DEFINE i == turnLoop.next
           key == turnLoop.answer[i]
           n == IF ~failed THEN 0
                ELSE IF used.key = key THEN used.streak + 1 ELSE 1
<1>0. /\ turnLoop.pc = "driver" /\ i <= Len(turnLoop.answer)
      /\ UNCHANGED terms
  BY DEF DriverRunsCall
<1>1. i \in CallIds /\ i \in Nat /\ Len(turnLoop.answer) \in Nat
  <2>1. /\ turnLoop.answer \in AnswerLists /\ i \in Nat \ {0}
    BY DEF SessionInv, SessionTyped, LoopTyped, UsedTyped
  <2> HIDE DEF i
  <2> QED BY <1>0, <2>1, AnswerIds
<1>2. /\ turnLoop'.pc = "driver" /\ turnLoop'.answer = turnLoop.answer
      /\ turnLoop'.usage = turnLoop.usage /\ turnLoop'.next = i + 1
      /\ turnLoop'.turn = turnLoop.turn
      /\ turnLoop'.input = turnLoop.input
      /\ turnLoop'.results = turnLoop.results
      /\ turnLoop'.already = turnLoop.already
      /\ turnLoop'.driverExecuted = Listened(turnLoop.driverExecuted, i)
      /\ turnLoop' = [x \in LoopFields |-> turnLoop'[x]]
  BY <1>0
  DEF DriverRunsCall, SessionInv, SessionTyped, LoopTyped, UsedTyped,
      LoopFields
<1>3. /\ used'.tokens = used.tokens
      /\ used'.runs = [used.runs EXCEPT ![i] = @ + 1]
      /\ used'.key = (IF failed THEN key ELSE NoKey)
      /\ used'.streak = n
      /\ used'.longest = IF n > used.longest THEN n ELSE used.longest
      /\ used' = [x \in UsedFields |-> used'[x]]
  <2>1. CountRun(failed, key)
    BY DEF DriverRunsCall
  <2> HIDE DEF key
  <2> QED BY <2>1
  DEF CountRun, SessionInv, SessionTyped, LoopTyped, UsedTyped, UsedFields
<1>4. /\ IsMeter(meter') /\ meter'.tokens = meter.tokens
      /\ meter'.failedKey = (IF failed THEN key ELSE NoKey)
      /\ meter'.failedCount = IF ~failed THEN 0
                              ELSE IF meter.failedKey = key
                              THEN meter.failedCount + 1 ELSE 1
      /\ meter'.why = "semantic_loop" =>
           \/ meter.why = "semantic_loop"
           \/ meter'.failedCount >= MaxConsecutiveFailedCalls
  <2>1. meter' = Mediated(meter, i, key, failed, edit) /\ IsMeter(meter)
    BY DEF DriverRunsCall, SessionInv, SessionTyped, LoopTyped, UsedTyped
  <2> HIDE DEF i, key
  <2> QED BY <2>1, Mediating
<1>5. n \in Nat /\ used'.longest \in Nat /\ n <= used'.longest
      /\ used.longest <= used'.longest
  BY <1>3 DEF SessionInv, SessionTyped, LoopTyped, UsedTyped
<1>6. /\ used'.runs \in [CallIds -> Nat]
      /\ turnLoop'.driverExecuted \in [CallIds -> Nat]
  <2>1. /\ used.runs \in [CallIds -> Nat]
        /\ turnLoop.driverExecuted \in [CallIds -> Nat]
    BY DEF SessionInv, SessionTyped, LoopTyped, UsedTyped
  <2>2. /\ used'.runs = [used.runs EXCEPT ![i] = @ + 1]
        /\ \/ turnLoop'.driverExecuted = turnLoop.driverExecuted
           \/ turnLoop'.driverExecuted =
                [turnLoop.driverExecuted EXCEPT ![i] = @ + 1]
    BY <1>2, <1>3 DEF Listened
  <2> HIDE DEF i
  <2>3. /\ [used.runs EXCEPT ![i] = @ + 1] \in [CallIds -> Nat]
        /\ [turnLoop.driverExecuted EXCEPT ![i] = @ + 1]
             \in [CallIds -> Nat]
    BY <1>1, <2>1, CounterStep
  <2> QED BY <2>1, <2>2, <2>3
<1> HIDE DEF key, n
<1>7. SessionTyped'
  <2>1. UsedTyped'
    BY <1>3, <1>5, <1>6 DEF SessionInv, SessionTyped, UsedTyped
  <2>2. LoopTyped'
    BY <1>0, <1>1, <1>2, <1>6 DEF SessionInv, SessionTyped, LoopTyped, Steps
  <2> QED BY <1>0, <1>4, <2>1, <2>2 DEF SessionInv, SessionTyped
<1>8. Accounted'
  BY <1>0, <1>2, <1>3, <1>4 DEF SessionInv, Accounted, addMeasurement
<1>9. Solvent'
  BY <1>0, <1>2, <1>4 DEF SessionInv, Solvent, Allowed
<1>10. ASSUME terms.host # "reviewer", Worked
       PROVE  Worked'
  <2>1. terms.host = "worker"
    BY <1>0, <1>10 DEF SessionInv, Solvent, Terms
  <2>2. turnLoop'.driverExecuted =
          [turnLoop.driverExecuted EXCEPT ![i] = @ + 1]
    BY <1>2, <2>1 DEF Listened
  <2>3. ASSUME NEW k \in CallIds
        PROVE  /\ used'.runs[k] = IF k < turnLoop'.next THEN 1 ELSE 0
               /\ turnLoop'.driverExecuted[k] = used'.runs[k]
    <3>1. /\ used.runs[k] = IF k < i THEN 1 ELSE 0
          /\ turnLoop.driverExecuted[k] = used.runs[k]
      BY <1>0, <1>10 DEF Worked
    <3>2. k \in Int
      BY SessionAssumption DEF CallIds
    <3>3. /\ used'.runs[k] = used.runs[k] + IF k = i THEN 1 ELSE 0
          /\ turnLoop'.driverExecuted[k] =
               turnLoop.driverExecuted[k] + IF k = i THEN 1 ELSE 0
      <4>1. /\ used.runs \in [CallIds -> Nat]
            /\ turnLoop.driverExecuted \in [CallIds -> Nat]
        BY DEF SessionInv, SessionTyped, LoopTyped, UsedTyped
      <4> HIDE DEF i
      <4> QED BY <1>1, <1>3, <2>2, <4>1
    <3> QED BY <1>1, <1>2, <3>1, <3>2, <3>3
  <2>4. meter'.failedKey = used'.key /\ meter'.failedCount = used'.streak
    BY <1>3, <1>4, <1>10 DEF Worked, n
  <2>5. meter'.why = "semantic_loop" =>
          used'.longest >= MaxConsecutiveFailedCalls
    <3>1. used.longest \in Nat /\ MaxConsecutiveFailedCalls \in Nat
      BY SessionAssumption DEF SessionInv, SessionTyped, LoopTyped, UsedTyped
    <3>2. CASE meter.why = "semantic_loop"
      BY <1>5, <1>10, <3>1, <3>2 DEF Worked
    <3>3. CASE meter'.failedCount >= MaxConsecutiveFailedCalls
      BY <1>3, <1>5, <2>4, <3>1, <3>3
    <3> QED BY <1>4, <3>2, <3>3
  <2>6. \A k \in CallIds : used'.runs[k] <= 1
    BY <2>3
  <2>7. /\ turnLoop'.input = << >> /\ turnLoop'.results = << >>
        /\ used'.streak <= used'.longest
    BY <1>2, <1>3, <1>5, <1>10 DEF Worked
  <2> QED BY <1>2, <2>3, <2>4, <2>5, <2>6, <2>7 DEF Worked
<1>11. turnLoop'.next <= Len(turnLoop'.answer) + 1
  BY <1>0, <1>1, <1>2
<1> QED BY <1>0, <1>7, <1>8, <1>9, <1>10, <1>11 DEF SessionInv

(* The end of a turn: the session goes on only with a meter that is not    *)
(* paused and a sum that is allowed.                                       *)
LEMMA EndStep ==
  ASSUME SessionInv, NEW slow \in BOOLEAN, EndTurn(slow)
  PROVE  SessionInv'
<1> DEFINE unknown == turnLoop.usage = UnknownTokens
           stop == meter'.paused
                     \/ (unknown /\ ~(terms.allowUnknown /\ terms.local))
<1>0. /\ turnLoop.pc = "driver" /\ turnLoop.next > Len(turnLoop.answer)
      /\ UNCHANGED <<terms, used>>
  BY DEF EndTurn
<1>1. /\ IsMeter(meter')
      /\ meter'.tokens = addMeasurement(meter.tokens, turnLoop.usage)
      /\ ~meter'.paused =>
           IF meter'.tokens = UnknownTokens THEN terms.allowUnknown
           ELSE meter'.tokens <= MaxTotalTokens
      /\ turnLoop.input = << >> =>
           /\ meter'.failedKey = meter.failedKey
           /\ meter'.failedCount = meter.failedCount
           /\ meter'.why = "semantic_loop" => meter.why = "semantic_loop"
  <2>1. IsMeter(meter) /\ turnLoop.usage \in Tokens
    BY DEF SessionInv, SessionTyped, LoopTyped, UsedTyped, Tokens
  <2>2. meter' = RecordOperationEnd(meter, turnLoop.usage, turnLoop.answer,
                                    turnLoop.input, slow)
    BY DEF EndTurn
  <2> QED BY <2>1, <2>2, Ending
<1>2. meter'.tokens = used.tokens /\ meter'.tokens \in Tokens
  BY <1>0, <1>1 DEF SessionInv, Accounted, IsMeter, Tokens
<1>3. ~stop => Allowed(meter'.tokens)
  <2>1. meter'.tokens = UnknownTokens =>
          meter.tokens = UnknownTokens \/ unknown
    BY <1>1, SumTyped
    DEF SessionInv, SessionTyped, LoopTyped, UsedTyped, IsMeter, Tokens
  <2>2. meter.tokens = UnknownTokens => terms.allowUnknown /\ terms.local
    BY <1>0 DEF SessionInv, Solvent, Allowed
  <2> QED BY <1>1, <2>1, <2>2 DEF Allowed
<1>4. Worked => /\ turnLoop.input = << >>
                /\ meter'.failedKey = used.key
                /\ meter'.failedCount = used.streak
                /\ meter'.why = "semantic_loop" =>
                     used.longest >= MaxConsecutiveFailedCalls
  BY <1>1 DEF Worked
<1>5. /\ turnLoop.turn <= MaxTurns /\ terms \in Terms
      /\ turnLoop.answer \in AnswerLists
  BY <1>0 DEF SessionInv, Solvent, SessionTyped, LoopTyped, UsedTyped
<1>6. NoRuns \in [CallIds -> Nat] /\ \A k \in CallIds : NoRuns[k] = 0
  BY DEF NoRuns
<1>7. CASE stop \/ turnLoop.answer = << >>
  <2>1. PICK how \in {"limit", "check", "stopped"} :
          /\ turnLoop' = [turnLoop EXCEPT !.pc = how]
          /\ how # "limit" => ~stop /\ turnLoop.answer = << >>
    BY <1>5, <1>7 DEF EndTurn, Ends, Terms
  <2>2. /\ turnLoop'.pc = how
        /\ turnLoop'.turn = turnLoop.turn
        /\ turnLoop'.input = turnLoop.input
        /\ turnLoop'.answer = turnLoop.answer
        /\ turnLoop'.usage = turnLoop.usage
        /\ turnLoop'.next = turnLoop.next
        /\ turnLoop'.driverExecuted = turnLoop.driverExecuted
        /\ turnLoop'.already = turnLoop.already
        /\ turnLoop'.results = turnLoop.results
        /\ turnLoop' = [x \in LoopFields |-> turnLoop'[x]]
    BY <2>1 DEF SessionInv, SessionTyped, LoopTyped, UsedTyped, LoopFields
  <2>3. SessionTyped'
    BY <1>0, <1>1, <2>2
    DEF SessionInv, SessionTyped, LoopTyped, UsedTyped, LoopFields, Steps
  <2>4. Accounted'
    BY <1>0, <1>2, <2>2 DEF Accounted
  <2>5. Solvent'
    BY <1>0, <1>3, <1>5, <2>1, <2>2
    DEF SessionInv, Solvent, LoopFields, Allowed
  <2>6. how = "check" /\ Worked => turnLoop.driverExecuted = NoRuns
    <3> SUFFICES ASSUME how = "check", Worked
                 PROVE  turnLoop.driverExecuted = NoRuns
      OBVIOUS
    <3>1. turnLoop.next = 1
      BY <1>0, <1>5, <2>1, AnswerIds
      DEF SessionInv, SessionTyped, LoopTyped, UsedTyped
    <3>2. \A k \in CallIds : turnLoop.driverExecuted[k] = 0
      <4>1. \A k \in CallIds : ~(k < 1)
        BY SessionAssumption DEF CallIds
      <4> QED BY <1>0, <3>1, <4>1 DEF Worked
    <3>3. turnLoop.driverExecuted \in [CallIds -> Nat]
      BY DEF SessionInv, SessionTyped, LoopTyped
    <3> QED BY <1>6, <3>2, <3>3
  <2>7. Worked => Worked'
    BY <1>0, <1>4, <2>2, <2>6 DEF Worked, LoopFields
  <2> QED BY <1>0, <2>2, <2>3, <2>4, <2>5, <2>7 DEF SessionInv
<1>8. CASE ~stop /\ turnLoop.answer # << >>
  <2>1. turnLoop' = [turnLoop EXCEPT
          !.pc = "loop", !.next = 1, !.results = << >>,
          !.already = turnLoop.driverExecuted, !.driverExecuted = NoRuns]
    BY <1>8 DEF EndTurn
  <2>2. /\ turnLoop'.pc = "loop" /\ turnLoop'.answer = turnLoop.answer
        /\ turnLoop'.usage = turnLoop.usage /\ turnLoop'.next = 1
        /\ turnLoop'.turn = turnLoop.turn
        /\ turnLoop'.input = turnLoop.input
        /\ turnLoop'.results = << >>
        /\ turnLoop'.already = turnLoop.driverExecuted
        /\ turnLoop'.driverExecuted = NoRuns
        /\ turnLoop' = [x \in LoopFields |-> turnLoop'[x]]
    BY <2>1 DEF SessionInv, SessionTyped, LoopTyped, UsedTyped, LoopFields
  <2>3. turnLoop'.already \in [CallIds -> Int]
    BY <2>2 DEF SessionInv, SessionTyped, LoopTyped, UsedTyped
  <2>4. SessionTyped'
    BY <1>0, <1>1, <1>6, <2>2, <2>3
    DEF SessionInv, SessionTyped, LoopTyped, UsedTyped, Steps
  <2>5. Accounted'
    BY <1>0, <1>2, <2>2 DEF Accounted
  <2>6. Solvent'
    BY <1>0, <1>3, <1>5, <1>8, <2>2 DEF Solvent, Allowed
  <2>7. Worked => \A k \in CallIds :
          k <= Len(turnLoop.answer) => turnLoop.driverExecuted[k] > 0
    <3>1. \A k \in CallIds : k \in Int
      BY SessionAssumption DEF CallIds
    <3>2. turnLoop.next \in Nat /\ Len(turnLoop.answer) \in Nat
      BY <1>5, AnswerIds DEF SessionInv, SessionTyped, LoopTyped, UsedTyped
    <3>3. \A k \in CallIds : k <= Len(turnLoop.answer) => k < turnLoop.next
      BY <1>0, <3>1, <3>2
    <3> QED BY <1>0, <3>3 DEF Worked
  <2>8. Worked => Worked'
    BY <1>0, <1>4, <2>2, <2>7 DEF Worked
  <2> QED BY <1>0, <2>2, <2>4, <2>5, <2>6, <2>8 DEF SessionInv
<1> QED BY <1>7, <1>8

(* The post-check ends the session, or gives it another turn.              *)
LEMMA CheckStep ==
  ASSUME SessionInv, PostCheckPasses \/ PostCheckFails \/ PostCheckErrs
  PROVE  SessionInv'
<1>0. /\ turnLoop.pc = "check" /\ UNCHANGED <<terms, meter, used>>
      /\ ~meter.paused /\ turnLoop.turn <= MaxTurns
  BY DEF PostCheckPasses, PostCheckFails, PostCheckErrs, SessionInv, Solvent
<1>1. CASE \E how \in {"stopped", "validation_failed", "validation_error"} :
             Ends(how)
  BY <1>0, <1>1, MoveStep DEF Steps, Solid
<1>2. CASE turnLoop' = [turnLoop EXCEPT !.pc = "turn", !.turn = @ + 1,
                               !.input = << >>, !.rounds = @ + 1]
  <2>1. /\ turnLoop'.pc = "turn" /\ turnLoop'.turn = turnLoop.turn + 1
        /\ turnLoop'.input = << >>
        /\ turnLoop'.answer = turnLoop.answer
        /\ turnLoop'.usage = turnLoop.usage
        /\ turnLoop'.next = turnLoop.next
        /\ turnLoop'.driverExecuted = turnLoop.driverExecuted
        /\ turnLoop'.already = turnLoop.already
        /\ turnLoop'.results = turnLoop.results
        /\ turnLoop' = [x \in LoopFields |-> turnLoop'[x]]
    BY <1>2 DEF SessionInv, SessionTyped, LoopTyped, UsedTyped, LoopFields
  <2>2. SessionTyped'
    <3>1. LoopTyped'
      BY <2>1 DEF SessionInv, SessionTyped, LoopTyped, Steps
    <3> QED BY <1>0, <3>1 DEF SessionInv, SessionTyped, UsedTyped
  <2>3. Accounted' /\ Solvent'
    BY <1>0, <2>1 DEF SessionInv, Accounted, Solvent, Allowed
  <2>4. Worked => Worked'
    BY <1>0, <2>1 DEF Worked, LoopFields
  <2> QED BY <1>0, <2>1, <2>2, <2>3, <2>4 DEF SessionInv
<1>3. \/ \E how \in {"stopped", "validation_failed", "validation_error"} :
           Ends(how)
      \/ turnLoop' = [turnLoop EXCEPT !.pc = "turn", !.turn = @ + 1,
                             !.input = << >>, !.rounds = @ + 1]
  BY DEF PostCheckPasses, PostCheckFails, PostCheckErrs, Ends
<1> QED BY <1>1, <1>2, <1>3

(* Leaving a call out uses up what the driver noted for its id.            *)
LEMMA SkipStep ==
  ASSUME SessionInv, LoopSkipsCall
  PROVE  SessionInv'
<1> DEFINE i == turnLoop.next
<1>0. /\ turnLoop.pc = "loop" /\ UNCHANGED <<terms, meter, used>>
      /\ i <= Len(turnLoop.answer)
  BY DEF LoopSkipsCall
<1>1. i \in CallIds /\ i \in Nat
  <2>1. turnLoop.answer \in AnswerLists /\ i \in Nat \ {0}
    BY DEF SessionInv, SessionTyped, LoopTyped, UsedTyped
  <2> HIDE DEF i
  <2> QED BY <1>0, <2>1, AnswerIds
<1>2. /\ turnLoop'.pc = "loop" /\ turnLoop'.next = i + 1
      /\ turnLoop'.already = [turnLoop.already EXCEPT ![i] = @ - 1]
      /\ turnLoop'.turn = turnLoop.turn /\ turnLoop'.input = turnLoop.input
      /\ turnLoop'.answer = turnLoop.answer
      /\ turnLoop'.usage = turnLoop.usage
      /\ turnLoop'.driverExecuted = turnLoop.driverExecuted
      /\ turnLoop'.results = turnLoop.results
      /\ turnLoop' = [x \in LoopFields |-> turnLoop'[x]]
  BY DEF LoopSkipsCall, SessionInv, SessionTyped, LoopTyped, UsedTyped,
      LoopFields
<1>3. turnLoop'.already \in [CallIds -> Int]
  <2>1. turnLoop.already \in [CallIds -> Int]
    BY DEF SessionInv, SessionTyped, LoopTyped
  <2> HIDE DEF i
  <2> QED BY <1>1, <1>2, <2>1, CounterStep
<1>4. SessionTyped'
  <2>1. LoopTyped'
    BY <1>1, <1>2, <1>3 DEF SessionInv, SessionTyped, LoopTyped, Steps
  <2> QED BY <1>0, <2>1 DEF SessionInv, SessionTyped, UsedTyped
<1>5. Accounted' /\ Solvent'
  BY <1>0, <1>2 DEF SessionInv, Accounted, Solvent, Allowed, LoopFields
<1>6. ASSUME Worked, NEW k \in CallIds, k >= turnLoop'.next,
             k <= Len(turnLoop'.answer)
      PROVE  turnLoop'.already[k] > 0
  <2>1. k \in Int /\ turnLoop'.answer = turnLoop.answer
    BY <1>2, SessionAssumption DEF CallIds, LoopFields
  <2>2. k # i /\ k >= i
    BY <1>1, <1>2, <1>6, <2>1
  <2>3. turnLoop'.already[k] = turnLoop.already[k]
    BY <1>1, <1>2, <2>2 DEF SessionInv, SessionTyped, LoopTyped, UsedTyped
  <2> QED BY <1>0, <1>6, <2>1, <2>2, <2>3 DEF Worked
<1>7. Worked => Worked'
  BY <1>0, <1>2, <1>6 DEF Worked, LoopFields
<1> QED BY <1>0, <1>2, <1>4, <1>5, <1>7 DEF SessionInv

(* Only a reviewer's loop ever runs a call itself.                         *)
LEMMA RunStep ==
  ASSUME SessionInv, NEW failed \in BOOLEAN, LoopRunsCall(failed)
  PROVE  SessionInv'
<1> DEFINE i == turnLoop.next
<1>0. /\ turnLoop.pc = "loop" /\ UNCHANGED terms
      /\ i <= Len(turnLoop.answer) /\ ~(turnLoop.already[i] > 0)
  BY DEF LoopRunsCall, AlreadyRun
<1>1. i \in CallIds /\ i \in Nat
  <2>1. turnLoop.answer \in AnswerLists /\ i \in Nat \ {0}
    BY DEF SessionInv, SessionTyped, LoopTyped, UsedTyped
  <2> HIDE DEF i
  <2> QED BY <1>0, <2>1, AnswerIds
<1>2. terms.host = "reviewer"
  BY <1>0, <1>1 DEF SessionInv, Worked
<1>3. /\ turnLoop'.pc = "loop" /\ turnLoop'.next = i + 1
      /\ turnLoop'.driverExecuted = turnLoop.driverExecuted
      /\ turnLoop'.turn = turnLoop.turn /\ turnLoop'.input = turnLoop.input
      /\ turnLoop'.answer = turnLoop.answer
      /\ turnLoop'.usage = turnLoop.usage
      /\ turnLoop'.already = turnLoop.already
      /\ turnLoop' = [x \in LoopFields |-> turnLoop'[x]]
  BY <1>0, <1>2
  DEF LoopRunsCall, SessionInv, SessionTyped, LoopTyped, UsedTyped,
      LoopFields, Listened
<1>4. /\ used'.runs = [used.runs EXCEPT ![i] = @ + 1]
      /\ used'.tokens = used.tokens /\ used'.key = used.key
      /\ used'.streak = used.streak /\ used'.longest = used.longest
      /\ used' = [x \in UsedFields |-> used'[x]]
  BY DEF LoopRunsCall, SessionInv, SessionTyped, LoopTyped, UsedTyped,
      UsedFields
<1>5. IsMeter(meter') /\ meter'.tokens = meter.tokens
  <2>1. /\ meter' = Mediated(meter, i, turnLoop.answer[i], failed, << >>)
        /\ IsMeter(meter)
    BY DEF LoopRunsCall, SessionInv, SessionTyped, LoopTyped, UsedTyped
  <2> HIDE DEF i
  <2> QED BY <2>1, Mediating
<1>6. used'.runs \in [CallIds -> Nat]
  BY <1>1, <1>4 DEF SessionInv, SessionTyped, LoopTyped, UsedTyped
<1>7. SessionTyped'
  <2>1. LoopTyped'
    BY <1>1, <1>3 DEF SessionInv, SessionTyped, LoopTyped, Steps
  <2>2. UsedTyped'
    BY <1>4, <1>6 DEF SessionInv, SessionTyped, UsedTyped
  <2> QED BY <1>0, <1>5, <2>1, <2>2 DEF SessionInv, SessionTyped
<1>8. Accounted' /\ Solvent'
  BY <1>0, <1>3, <1>4, <1>5
  DEF SessionInv, Accounted, Solvent, Allowed, LoopFields, UsedFields
<1> QED BY <1>0, <1>2, <1>3, <1>7, <1>8 DEF SessionInv

(* The results of a reviewer's loop go into the next turn.                 *)
LEMMA TurnStep ==
  ASSUME SessionInv, NextTurn
  PROVE  SessionInv'
<1>0. turnLoop.pc = "loop" /\ UNCHANGED <<terms, meter, used>>
  BY DEF NextTurn
<1>1. /\ turnLoop'.pc = "turn" /\ turnLoop'.turn = turnLoop.turn + 1
      /\ turnLoop'.input = turnLoop.results
      /\ turnLoop'.answer = turnLoop.answer
      /\ turnLoop'.usage = turnLoop.usage /\ turnLoop'.next = turnLoop.next
      /\ turnLoop'.driverExecuted = turnLoop.driverExecuted
      /\ turnLoop'.already = turnLoop.already
      /\ turnLoop'.results = turnLoop.results
      /\ turnLoop' = [x \in LoopFields |-> turnLoop'[x]]
  BY DEF NextTurn, SessionInv, SessionTyped, LoopTyped, UsedTyped, LoopFields
<1>2. SessionTyped'
  <2>1. LoopTyped'
    BY <1>1 DEF SessionInv, SessionTyped, LoopTyped, Steps
  <2> QED BY <1>0, <2>1 DEF SessionInv, SessionTyped, UsedTyped
<1>3. Accounted' /\ Solvent'
  BY <1>0, <1>1 DEF SessionInv, Accounted, Solvent, Allowed
<1>4. Worked => Worked'
  BY <1>0, <1>1 DEF Worked, LoopFields
<1> QED BY <1>0, <1>1, <1>2, <1>3, <1>4 DEF SessionInv

(* A cancelled session has no result to answer for.                        *)
LEMMA CancelStep ==
  ASSUME SessionInv, CancelSession
  PROVE  SessionInv'
BY MoveStep DEF CancelSession, Steps, Solid

(* Every session step keeps the invariant.                                 *)
LEMMA SessionStep ==
  ASSUME SessionInv, [NextSessions]_sessionVars
  PROVE  SessionInv'
<1>1. CASE UNCHANGED sessionVars
  BY <1>1
  DEF sessionVars, SessionInv, SessionTyped, LoopTyped, UsedTyped, Accounted,
      Solvent,
     Allowed, Worked, IsMeter
<1>2. CASE NextSessions
  BY <1>2, OpenStep, BeginStep, AnswerStep, FailStep, DriveStep, EndStep,
     CheckStep, SkipStep, RunStep, TurnStep, CancelStep DEF NextSessions
<1> QED BY <1>1, <1>2

(* Theorem: in every state the meter's sum is what the model used, and a   *)
(* worker's driver has run each call once (metering.go, delegate.go).      *)
THEOREM SessionInvariant == SpecSessions => []SessionInv
<1>1. InitSessions => SessionInv
  BY SessionInit
<1>2. SessionInv /\ [NextSessions]_sessionVars => SessionInv'
  BY SessionStep
<1> QED BY <1>1, <1>2, PTL DEF SpecSessions

(* Theorem: a session's result was reached within its limits, whatever     *)
(* its answers cost and whichever of its calls failed.                     *)
THEOREM LimitsHold == SpecSessions => []ResultWithinLimits
<1>1. SessionInv => ResultWithinLimits
  BY DEF SessionInv, Solvent, Accounted, Allowed, ResultWithinLimits
<1> QED BY <1>1, SessionInvariant, PTL

(* Theorem: no call of a worker runs twice, and no worker is stopped as a  *)
(* loop before it failed as often in a row as the detector must see.       *)
THEOREM CountedOnce == SpecSessions => []WorkIsCountedOnce
<1>1. SessionInv => WorkIsCountedOnce
  BY DEF SessionInv, Worked, WorkIsCountedOnce
<1> QED BY <1>1, SessionInvariant, PTL

-----------------------------------------------------------------------------
(* Planning with a model's advice.                                         *)

(* In a finite set something has the highest rank.                         *)
LEMMA Topmost ==
  ASSUME NEW S, IsFiniteSet(S), S # {}, NEW f, \A x \in S : f[x] \in Int
  PROVE  \E m \in S : \A y \in S : f[y] <= f[m]
<1> DEFINE Above(x) == {y \in S : f[x] < f[y]}
           Q == {Above(x) : x \in S}
<1>1. Q \subseteq FiniteSubsetsOf(S) /\ Q # {}
  <2>1. FiniteSubsetsOf(S) = SUBSET S
    BY FS_FiniteSubsetsOfFinite
  <2>2. \A x \in S : Above(x) \in SUBSET S
    OBVIOUS
  <2>3. PICK x \in S : TRUE
    OBVIOUS
  <2>4. Q # {}
    BY <2>3
  <2>5. Q \subseteq SUBSET S
    BY <2>2
  <2> QED BY <2>1, <2>4, <2>5
<1>2. PICK A \in Q : \A B \in Q : ~(<<B, A>> \in StrictSubsetOrdering(S))
  <2> HIDE DEF Q
  <2> QED BY <1>1, WFMin, FS_StrictSubsetOrderingWellFounded
<1>3. PICK m \in S : A = Above(m)
  BY <1>2
<1>4. \A y \in S : ~(f[m] < f[y])
  <2> SUFFICES ASSUME NEW y \in S, f[m] < f[y] PROVE FALSE
    OBVIOUS
  <2>1. f[m] \in Int /\ f[y] \in Int
    OBVIOUS
  <2>2. \A z \in S : f[y] < f[z] => f[m] < f[z]
    BY <2>1
  <2>3. Above(y) \subseteq Above(m)
    BY <2>2
  <2>4. y \in Above(m) /\ y \notin Above(y)
    BY <2>1
  <2>5. <<Above(y), A>> \in StrictSubsetOrdering(S)
    BY <1>3, <2>3, <2>4 DEF StrictSubsetOrdering
  <2> QED BY <1>2, <2>5
<1> QED BY <1>4

(* A plan whose stages are ordered by integers.                            *)
PlanTyped(plan) ==
  /\ IsFiniteSet(Range(plan.stages))
  /\ \A s \in Range(plan.stages) : s.order \in Int

(* A stage is known by its identifier.                                     *)
LEMMA StageKnown ==
  ASSUME NEW plan, ValidWorkflowPlan(plan), NEW s \in Range(plan.stages)
  PROVE  StageOf(plan, s.id) = s
<1>1. \A t \in Range(plan.stages) : t.id = s.id => t = s
  BY DEF ValidWorkflowPlan, Range
<1> QED BY <1>1 DEF StageOf

(* Following dependencies ends: of any stages the first depends on none.   *)
LEMMA DependenciesEnd ==
  ASSUME NEW plan, PlanTyped(plan), ValidWorkflowPlan(plan),
         NEW S \in SUBSET Range(plan.stages), S # {}
  PROVE  \E s \in S : s.deps \cap {t.id : t \in S} = {}
<1>1. IsFiniteSet(S) /\ \A s \in S : s.order \in Int
  BY FS_Subset DEF PlanTyped
<1>2. PICK f : f = [s \in S |-> -s.order]
  OBVIOUS
<1>3. \A s \in S : f[s] = -s.order /\ f[s] \in Int
  BY <1>1, <1>2
<1>4. PICK m \in S : \A y \in S : f[y] <= f[m]
  BY <1>1, <1>3, Topmost
<1>5. \A y \in S : m.order <= y.order
  BY <1>1, <1>3, <1>4
<1>6. ASSUME NEW t \in S, t.id \in m.deps
      PROVE  FALSE
  <2>1. StageOf(plan, t.id).order < m.order
    BY <1>6 DEF ValidWorkflowPlan
  <2>2. StageOf(plan, t.id) = t
    BY StageKnown
  <2> QED BY <1>1, <1>5, <2>1, <2>2
<1> QED BY <1>6

(* So does following escalations: the last escalates to none.              *)
LEMMA EscalationsEnd ==
  ASSUME NEW plan, PlanTyped(plan), ValidWorkflowPlan(plan),
         NEW p, NEW policy,
         \A s \in Range(plan.stages) : StageAllowed(p, policy, plan, s),
         NEW S \in SUBSET Range(plan.stages), S # {}
  PROVE  \E s \in S : ({s.escalation} \ {""}) \cap {t.id : t \in S} = {}
<1>1. IsFiniteSet(S) /\ \A s \in S : s.order \in Int
  BY FS_Subset DEF PlanTyped
<1>2. PICK f : f = [s \in S |-> s.order]
  OBVIOUS
<1>3. \A s \in S : f[s] = s.order /\ f[s] \in Int
  BY <1>1, <1>2
<1>4. PICK m \in S : \A y \in S : f[y] <= f[m]
  BY <1>1, <1>3, Topmost
<1>5. ASSUME NEW t \in S, t.id = m.escalation, m.escalation # ""
      PROVE  FALSE
  <2>1. StageOf(plan, m.escalation).order > m.order
    BY <1>5 DEF StageAllowed
  <2>2. StageOf(plan, m.escalation) = t
    BY <1>5, StageKnown
  <2>3. t.order <= m.order
    BY <1>3, <1>4
  <2> QED BY <1>1, <2>1, <2>2, <2>3
<1> QED BY <1>5

(* Two reviews that a valid plan of that topology has.                     *)
LEMMA TwoReviews ==
  ASSUME NEW plan, ValidWorkflowPlan(plan), NEW p, NEW policy,
         \A s \in Range(plan.stages) : StageAllowed(p, policy, plan, s),
         plan.topology = "dual_independent_review"
  PROVE  \E s, t \in Range(plan.stages) :
            /\ s # t /\ s.review /\ t.review
            /\ s.kind = "cognition" /\ t.kind = "cognition"
            /\ s.endpoint # t.endpoint \/ s.role # t.role
<1>1. /\ Cardinality(ReviewStages(plan)) >= 2
      /\ \A s, t \in ReviewStages(plan) : s # t => ~Dependent(s, t)
  BY DEF ValidWorkflowPlan
<1>2. ReviewStages(plan) # {}
  <2>1. Cardinality({}) = 0
    BY FS_EmptySet
  <2> QED BY <1>1, <2>1
<1>3. PICK s \in ReviewStages(plan) : TRUE
  BY <1>2
<1>4. ReviewStages(plan) # {s}
  <2>1. Cardinality({s}) = 1
    BY FS_Singleton
  <2> QED BY <1>1, <2>1
<1>5. PICK t \in ReviewStages(plan) : t # s
  BY <1>3, <1>4
<1>6. ~Dependent(s, t)
  BY <1>1, <1>5
<1>7. /\ s \in Range(plan.stages) /\ t \in Range(plan.stages)
      /\ s.review /\ t.review
  BY DEF ReviewStages
<1>8. s.kind = "cognition" /\ t.kind = "cognition"
  BY <1>7 DEF StageAllowed
<1>9. s.endpoint # t.endpoint \/ s.role # t.role
  BY <1>6 DEF Dependent
<1> QED BY <1>5, <1>7, <1>8, <1>9

(* What a plan has to be before it is looked at by both validators.        *)
Planned(plan, call) ==
  /\ PlanTyped(plan)
  /\ NeedsDualReview(call.task) /\ ~call.task.deterministic =>
       plan.topology = "dual_independent_review"

(* A plan that passes the validator and the authorizer is sound.           *)
LEMMA PlanSound ==
  ASSUME NEW plan, NEW call, Planned(plan, call),
         ValidateWorkflow(plan, call.portfolio, call.policy),
         Affordable(plan, call)
  PROVE  SoundPlan(plan, call)
<1>1. PICK p, policy, budgets :
        /\ p = call.portfolio /\ policy = call.policy
        /\ budgets = call.budgets
  OBVIOUS
<1>2. /\ ValidWorkflowPlan(plan) /\ PlanTyped(plan)
      /\ \A s \in Range(plan.stages) : StageAllowed(p, policy, plan, s)
      /\ \A s \in Range(plan.stages) :
           StageAffordable(p, budgets, call.allowUnknown, s)
  BY <1>1 DEF ValidateWorkflow, Affordable, AuthorizeWorkflowBudget, Planned
<1>3. NeedsDualReview(call.task) /\ ~call.task.deterministic =>
       \E s, t \in Range(plan.stages) :
          /\ s # t /\ s.review /\ t.review
          /\ s.kind = "cognition" /\ t.kind = "cognition"
          /\ s.endpoint # t.endpoint \/ s.role # t.role
  BY <1>2, TwoReviews DEF Planned
<1>4. \A S \in SUBSET Range(plan.stages) :
        S # {} => \E s \in S : s.deps \cap {t.id : t \in S} = {}
  BY <1>2, DependenciesEnd
<1>5. \A S \in SUBSET Range(plan.stages) :
        S # {} => \E s \in S :
                    ({s.escalation} \ {""}) \cap {t.id : t \in S} = {}
  BY <1>2, EscalationsEnd
<1>6. ASSUME NEW s \in Range(plan.stages)
      PROVE  /\ s.kind = "cognition" =>
                  \E b \in Range(p.bindings) :
                     b.role = s.role /\ \E r \in Range(RoutesOf(b)) :
                        r.pool = s.pool /\ s.endpoint \in {"", r.endpoint}
             /\ s.pool \in DOMAIN budgets
                  \/ PoolOf(p, s.pool).regime = "local_compute"
             /\ s.pool \in DOMAIN budgets /\ Drained(budgets[s.pool])
                  => PoolOf(p, s.pool).overage
  <2>1. ASSUME s.kind = "cognition"
        PROVE  \E b \in Range(p.bindings) :
                  b.role = s.role /\ \E r \in Range(RoutesOf(b)) :
                     r.pool = s.pool /\ s.endpoint \in {"", r.endpoint}
    <3>1. PICK r \in RoleTuples(p, s.role) : Matches(r, s)
      BY <1>2, <2>1 DEF StageAllowed
    <3>2. PICK b \in Range(p.bindings) :
            b.role = s.role /\ r \in Range(RoutesOf(b))
      BY <3>1 DEF RoleTuples
    <3> QED BY <3>1, <3>2 DEF Matches
  <2>2. StageAffordable(p, budgets, call.allowUnknown, s)
    BY <1>2
  <2>3. /\ s.pool \in DOMAIN budgets
             \/ PoolOf(p, s.pool).regime = "local_compute"
        /\ s.pool \in DOMAIN budgets /\ Drained(budgets[s.pool])
             => PoolOf(p, s.pool).overage
    BY <2>2 DEF StageAffordable
  <2> QED BY <2>1, <2>3
<1> QED BY <1>1, <1>3, <1>4, <1>5, <1>6 DEF SoundPlan, WellFounded

(* A stage of a given order.                                               *)
StageTyped(s, order) == DOMAIN s = StageFields /\ s.order = order

(* A stage begins with the order it was given.                             *)
LEMMA NewStageTyped ==
  ASSUME NEW p, NEW policy, NEW role, NEW order
  PROVE  StageTyped(NewStage(p, policy, role, order), order)
BY DEF NewStage, StageFields, StageTyped

(* Setting what a review has keeps it.                                     *)
LEMMA ReviewTyped ==
  ASSUME NEW s, NEW order, StageTyped(s, order), NEW review, NEW deps
  PROVE  StageTyped([s EXCEPT !.review = review, !.deps = deps], order)
BY DEF StageFields, StageTyped

(* So does making the stage a deterministic one.                           *)
LEMMA CheckTyped ==
  ASSUME NEW s, NEW order, StageTyped(s, order), NEW kind, NEW gate, NEW pool
  PROVE  StageTyped([s EXCEPT !.kind = kind, !.gate = gate, !.pool = pool],
                    order)
BY DEF StageFields, StageTyped

(* So does changing its role.                                              *)
LEMMA RoleTyped ==
  ASSUME NEW s, NEW order, StageTyped(s, order), NEW role
  PROVE  StageTyped([s EXCEPT !.role = role], order)
BY DEF StageFields, StageTyped

(* What binds a stage to a route keeps its order.                          *)
LEMMA BoundKeepsOrder ==
  ASSUME NEW s, NEW order, StageTyped(s, order), NEW r
  PROVE  BoundTo(s, r).order = order
BY DEF BoundTo, StageFields, StageTyped

(* So does binding it to the first route of its role, or to none.          *)
LEMMA BindKeepsOrder ==
  ASSUME NEW p, NEW s, NEW order, StageTyped(s, order)
  PROVE  BindRole(p, s).order = order
<1>1. [s EXCEPT !.pool = FirstPool(p)].order = order
  BY DEF StageFields, StageTyped
<1> QED BY <1>1, BoundKeepsOrder DEF BindRole

(* The second review comes third.                                          *)
LEMMA SecondReviewThird ==
  ASSUME NEW p, NEW policy, NEW first
  PROVE  SecondReview(p, policy, first).order = 3
<1> DEFINE review == [NewStage(p, policy, "verifier", 3) EXCEPT
                        !.review = TRUE, !.deps = {"stage-1"}]
           other == [review EXCEPT !.role = "reviewer"]
<1>1. StageTyped(review, 3)
  BY NewStageTyped, ReviewTyped
<1>2. BindRole(p, review).order = 3
  <2> HIDE DEF review
  <2> QED BY <1>1, BindKeepsOrder
<1>3. StageTyped(other, 3)
  <2> HIDE DEF review
  <2> QED BY <1>1, RoleTyped
<1>4. \A r : BoundTo(other, r).order = 3
  <2> HIDE DEF other
  <2> QED BY <1>3, BoundKeepsOrder
<1>5. \/ SecondReview(p, policy, first) = BindRole(p, review)
      \/ \E r : SecondReview(p, policy, first) = BoundTo(other, r)
  BY DEF SecondReview
<1> QED BY <1>2, <1>4, <1>5

(* The baseline's stages are few and ordered.                              *)
LEMMA BaselineTyped ==
  ASSUME NEW task, NEW p, NEW policy
  PROVE  /\ IsFiniteSet(Range(SynthesizeStages(task, p, policy)))
         /\ \A s \in Range(SynthesizeStages(task, p, policy)) :
              s.order \in Int
<1> DEFINE first == NewStage(p, policy, "implementer", 1)
           build == BindRole(p, first)
           draft == [NewStage(p, policy, "reviewer", 2) EXCEPT
                       !.review = TRUE, !.deps = {"stage-1"}]
           review == BindRole(p, draft)
           check == [NewStage(p, policy, "verifier", 1) EXCEPT
                       !.kind = "deterministic", !.gate = TRUE,
                       !.pool = FindDeterministicPool(p)]
           second == SecondReview(p, policy, review)
<1>1. build.order \in Int
  <2>1. StageTyped(first, 1)
    BY NewStageTyped
  <2> HIDE DEF first
  <2>2. build.order = 1
    BY <2>1, BindKeepsOrder
  <2> QED BY <2>2
<1>2. review.order \in Int
  <2>1. StageTyped(draft, 2)
    BY NewStageTyped, ReviewTyped
  <2> HIDE DEF draft
  <2>2. review.order = 2
    BY <2>1, BindKeepsOrder
  <2> QED BY <2>2
<1>3. check.order \in Int
  <2>1. StageTyped(check, 1)
    BY NewStageTyped, CheckTyped
  <2> HIDE DEF check
  <2> QED BY <2>1 DEF StageTyped
<1>4. second.order \in Int
  <2> HIDE DEF review
  <2> QED BY SecondReviewThird
<1>5. SynthesizeStages(task, p, policy)
        \in {<<check>>, <<build, review, second>>, <<build>>}
  BY DEF SynthesizeStages
<1> HIDE DEF build, review, check, second
<1>6. \A x : IsFiniteSet(Range(<<x>>)) /\ Range(<<x>>) = {x}
  <2> SUFFICES ASSUME NEW x
               PROVE  IsFiniteSet(Range(<<x>>)) /\ Range(<<x>>) = {x}
    OBVIOUS
  <2>1. Range(<<x>>) = {x}
    BY DEF Range
  <2> QED BY <2>1, FS_Singleton
<1>7. IsFiniteSet(Range(<<build, review, second>>))
      /\ Range(<<build, review, second>>) = {build, review, second}
  <2>1. Range(<<build, review, second>>) = {build, review, second}
    BY DEF Range
  <2>2. IsFiniteSet({build})
    BY FS_Singleton
  <2>3. IsFiniteSet({build} \cup {review})
    BY <2>2, FS_AddElement
  <2>4. IsFiniteSet(({build} \cup {review}) \cup {second})
    BY <2>3, FS_AddElement
  <2>5. ({build} \cup {review}) \cup {second} = {build, review, second}
    OBVIOUS
  <2> QED BY <2>1, <2>4, <2>5
<1> QED BY <1>1, <1>2, <1>3, <1>4, <1>5, <1>6, <1>7

(* The baseline is planned: its topology is the task's.                    *)
LEMMA BaselinePlanned ==
  ASSUME NEW call, NEW plan,
         plan \in PlanWorkflow(call.task, call.portfolio, call.policy)
  PROVE  /\ Planned(plan, call)
         /\ ValidateWorkflow(plan, call.portfolio, call.policy)
<1>1. PICK task, p, policy : /\ task = call.task /\ p = call.portfolio
                             /\ policy = call.policy
  OBVIOUS
<1>2. PICK stages : stages = SynthesizeStages(task, p, policy)
  OBVIOUS
<1>3. plan = [topology |-> SelectTopology(task), stages |-> stages]
      /\ ValidateWorkflow(plan, p, policy)
  BY <1>1, <1>2 DEF PlanWorkflow
<1>4. IsFiniteSet(Range(plan.stages))
      /\ \A s \in Range(plan.stages) : s.order \in Int
  BY <1>2, <1>3, BaselineTyped
<1>5. NeedsDualReview(task) /\ ~task.deterministic =>
        plan.topology = "dual_independent_review"
  BY <1>3 DEF SelectTopology
<1> QED BY <1>1, <1>3, <1>4, <1>5 DEF Planned, PlanTyped

(* So is what is made of a model's proposal, whatever it proposed.         *)
LEMMA AssembledPlanned ==
  ASSUME NEW call, NEW content \in ModelPlans
  PROVE  Planned(AssemblePlan(call.task, content, call.portfolio,
                              call.policy), call)
<1>1. PICK task, p, policy : /\ task = call.task /\ p = call.portfolio
                             /\ policy = call.policy
  OBVIOUS
<1>2. PICK ps : ps = content.stages
  OBVIOUS
<1>3. /\ Len(ps) \in Nat /\ DOMAIN ps = 1 .. Len(ps)
      /\ \A i \in DOMAIN ps :
           DOMAIN ps[i] = StageFields /\ ps[i].order \in Int
  BY <1>2, ModelPlansAssumption
<1>4. PICK f : f = [i \in DOMAIN ps |-> Sanitize(ps, i, p, policy)]
  OBVIOUS
<1>5. \A i \in DOMAIN ps : f[i].order \in Int
  <2> SUFFICES ASSUME NEW i \in DOMAIN ps PROVE f[i].order \in Int
    OBVIOUS
  <2>1. i \in Int
    BY <1>3
  <2>2. OrderOf(ps, i) \in Int
    BY <1>3, <2>1 DEF OrderOf
  <2>3. Sanitize(ps, i, p, policy).order = OrderOf(ps, i)
    BY <1>3 DEF Sanitize, StageFields
  <2> QED BY <1>4, <2>2, <2>3
<1>6. IsFiniteSet(Range(f))
  <2>1. IsFiniteSet(1 .. Len(ps))
    <3>1. 1 \in Int /\ Len(ps) \in Int
      BY <1>3
    <3> QED BY <3>1, FS_Interval, Zenon
  <2>2. f \in Surjection(1 .. Len(ps), Range(f))
    BY <1>3, <1>4 DEF Range, Surjection
  <2> QED BY <2>1, <2>2, FS_Surjection
<1>7. \A s \in Range(f) : s.order \in Int
  BY <1>4, <1>5 DEF Range
<1>8. PICK plan : plan = AssemblePlan(task, content, p, policy)
  OBVIOUS
<1>9. plan.topology = ModelTopology(task, content.topology)
      /\ plan.stages = f
  BY <1>2, <1>4, <1>8 DEF AssemblePlan
<1>10. NeedsDualReview(task) /\ ~task.deterministic =>
         plan.topology = "dual_independent_review"
  BY <1>9 DEF ModelTopology, SelectTopology
<1> QED BY <1>1, <1>6, <1>7, <1>8, <1>9, <1>10 DEF Planned, PlanTyped

(* What a call may return: sound plans and sound recommendations.          *)
SoundResult(result, call, answer) ==
  /\ \A plan \in result.plans : SoundPlan(plan, call)
  /\ \A rec \in result.accepted : SoundRecommendation(rec, call, answer)

(* The baseline that a call falls back to is sound, if there is one.       *)
LEMMA FallbackSound ==
  ASSUME NEW call, NEW answer
  PROVE  SoundResult(FallbackToBaseline(call), call, answer)
<1> SUFFICES ASSUME NEW result, result = FallbackToBaseline(call)
             PROVE  SoundResult(result, call, answer)
  OBVIOUS
<1>1. /\ result.accepted = {}
      /\ \A plan \in result.plans :
           /\ plan \in PlanWorkflow(call.task, call.portfolio, call.policy)
           /\ Affordable(plan, call)
  BY DEF FallbackToBaseline, NoResult
<1>2. \A plan \in result.plans : SoundPlan(plan, call)
  <2> SUFFICES ASSUME NEW plan \in result.plans PROVE SoundPlan(plan, call)
    OBVIOUS
  <2>1. /\ Planned(plan, call)
        /\ ValidateWorkflow(plan, call.portfolio, call.policy)
    BY <1>1, BaselinePlanned
  <2> QED BY <1>1, <2>1, PlanSound
<1> QED BY <1>1, <1>2 DEF SoundResult

(* What is returned for a workflow is sound: the assembled proposal or the
   baseline, and neither without passing both validators.                  *)
LEMMA WorkflowSound ==
  ASSUME NEW call, NEW answer,
         answer.said = "plan" => answer.content \in ModelPlans
  PROVE  SoundResult(PlanWorkflowWithModel(call, answer), call, answer)
<1> DEFINE plan == AssemblePlan(call.task, answer.content, call.portfolio,
                                call.policy)
           result == [NoResult EXCEPT !.plans = {plan}, !.usedModel = TRUE]
<1>1. CASE PlanWorkflowWithModel(call, answer) = FallbackToBaseline(call)
  BY <1>1, FallbackSound
<1>2. ASSUME DecodeModelStages(answer, call.policy),
             ValidateWorkflow(plan, call.portfolio, call.policy),
             Affordable(plan, call)
      PROVE  SoundResult(result, call, answer)
  <2>1. answer.content \in ModelPlans
    BY <1>2 DEF DecodeModelStages
  <2>2. Planned(plan, call)
    BY <2>1, AssembledPlanned
  <2>3. SoundPlan(plan, call)
    <3> HIDE DEF plan
    <3> QED BY <1>2, <2>2, PlanSound
  <2>4. result.plans = {plan} /\ result.accepted = {}
    BY DEF NoResult
  <2> HIDE DEF result
  <2> QED BY <2>3, <2>4 DEF SoundResult
<1>3. \/ PlanWorkflowWithModel(call, answer) = FallbackToBaseline(call)
      \/ /\ DecodeModelStages(answer, call.policy)
         /\ ValidateWorkflow(plan, call.portfolio, call.policy)
         /\ Affordable(plan, call)
         /\ PlanWorkflowWithModel(call, answer) = result
  BY DEF PlanWorkflowWithModel
<1> HIDE DEF plan, result
<1> QED BY <1>1, <1>2, <1>3

(* A route that the portfolio validator accepts runs where it may.         *)
LEMMA RouteSound ==
  ASSUME NEW p, NEW f, Validate(p, f), NEW b \in Range(p.bindings),
         NEW r \in Range(RoutesOf(b))
  PROVE  LET e == FactsOf(f, r.endpoint)
         IN  EndpointViable(e) /\ ExposureRank(e.exposure)
                                    <= ExposureRank(f.policy.exposure)
<1>1. RouteCapable(f, b.role, r) /\ RouteAllowed(p, f, r)
  BY DEF Validate, ValidateBindings
<1> QED BY <1>1 DEF RouteCapable, RouteAllowed, EndpointViable, IsLocal

(* An alternative is recommended for the intent it was proposed for.       *)
LEMMA BuiltIntent ==
  ASSUME NEW alt, {"intent", "portfolio"} \subseteq DOMAIN alt
  PROVE  BuildRecommendation(alt).intent = alt.intent
BY DEF BuildRecommendation

(* What comes of asking for portfolios is sound when an eligible endpoint
   answered.                                                               *)
LEMMA PortfolioSound ==
  ASSUME NEW call, NEW answer,
         answer.said = "alternatives" =>
           /\ answer.content \in ModelPortfolios
           /\ answer.endpoint \in Eligible(call.facts, call.drivers)
  PROVE  SoundResult(PlanPortfolio(call, answer), call, answer)
<1> DEFINE Accepted == {rec \in {BuildRecommendation(a) :
                                   a \in Range(answer.content)} :
                          ValidRecommendation(rec)
                            /\ Validate(rec.portfolio, call.facts)}
           result == [NoResult EXCEPT !.accepted = Accepted]
<1>1. SoundResult(NoResult, call, answer)
  BY DEF SoundResult, NoResult
<1>2. ASSUME DecodeOutput(answer, call.intents)
      PROVE  SoundResult(result, call, answer)
  <2>1. /\ answer.content \in ModelPortfolios
        /\ answer.endpoint \in Eligible(call.facts, call.drivers)
        /\ \A a \in Range(answer.content) : a.intent \in call.intents
    BY <1>2 DEF DecodeOutput
  <2>2. \A a \in Range(answer.content) :
          {"intent", "portfolio"} \subseteq DOMAIN a
    BY <2>1, ModelPortfoliosAssumption
  <2>3. /\ \E e \in call.facts.inventory :
             e.id = answer.endpoint /\ EndpointViable(e)
        /\ call.drivers[answer.endpoint] = "plain"
    BY <2>1 DEF Eligible
  <2>4. ASSUME NEW rec \in Accepted
        PROVE  SoundRecommendation(rec, call, answer)
    <3>1. PICK a \in Range(answer.content) : rec = BuildRecommendation(a)
      OBVIOUS
    <3>2. rec.intent \in call.intents
      BY <2>1, <2>2, <3>1, BuiltIntent
    <3>3. Validate(rec.portfolio, call.facts)
      OBVIOUS
    <3>4. \A b \in Range(rec.portfolio.bindings) :
            \A r \in Range(RoutesOf(b)) :
              LET e == FactsOf(call.facts, r.endpoint)
              IN  EndpointViable(e)
                    /\ ExposureRank(e.exposure)
                         <= ExposureRank(call.facts.policy.exposure)
      BY <3>3, RouteSound
    <3> QED BY <2>3, <3>2, <3>4 DEF SoundRecommendation
  <2>5. result.plans = {} /\ result.accepted = Accepted
    BY DEF NoResult
  <2> HIDE DEF result, Accepted
  <2> QED BY <2>4, <2>5 DEF SoundResult
<1>3. PlanPortfolio(call, answer)
        = IF ~DecodeOutput(answer, call.intents) THEN NoResult ELSE result
  BY DEF PlanPortfolio
<1> HIDE DEF result
<1> QED BY <1>1, <1>2, <1>3

(* The answer is a record, and of an idle call there is none.              *)
AnswerTyped(step, answer) ==
  /\ answer = [endpoint |-> answer.endpoint, said |-> answer.said,
               content |-> answer.content]
  /\ step = "idle" => answer = NoAnswer

(* What was said belongs to what was asked for, and a portfolio's author is
   an endpoint that works and touches no worktree.                         *)
AnswerFits(step, call, answer) ==
  /\ answer.said = "plan" =>
       call.kind = "workflow" /\ answer.content \in ModelPlans
  /\ answer.said = "alternatives" =>
       call.kind = "portfolio" /\ answer.content \in ModelPortfolios
  /\ /\ call.kind = "portfolio"
     /\ step \in {"asked", "turn"} \/ answer.said = "alternatives"
     => answer.endpoint \in Eligible(call.facts, call.drivers)

(* A planning call holds one session while its turn is taken, has a result
   only when it is done, and then a sound one.                             *)
PlannersInv ==
  /\ planSessions = IF planStep = "turn" THEN 1 ELSE 0
  /\ planStep # "done" => planResult = NoResult
  /\ AnswerTyped(planStep, planAnswer)
  /\ AnswerFits(planStep, planCall, planAnswer)
  /\ SoundResult(planResult, planCall, planAnswer)

(* Nothing is sound.                                                       *)
LEMMA NothingSound ==
  ASSUME NEW call, NEW answer
  PROVE  SoundResult(NoResult, call, answer)
BY DEF SoundResult, NoResult

(* The invariant holds before the first call.                              *)
LEMMA InitPlannersInv == InitPlanners => PlannersInv
<1> SUFFICES ASSUME InitPlanners PROVE PlannersInv
  OBVIOUS
<1>1. planSessions = IF planStep = "turn" THEN 1 ELSE 0
  BY DEF InitPlanners
<1>2. planResult = NoResult
  BY DEF InitPlanners
<1>3. AnswerTyped(planStep, planAnswer)
  BY DEF InitPlanners, AnswerTyped, NoAnswer
<1>4. AnswerFits(planStep, planCall, planAnswer)
  BY DEF InitPlanners, AnswerFits, NoAnswer, NoCall
<1>5. SoundResult(planResult, planCall, planAnswer)
  BY <1>2, NothingSound
<1> QED BY <1>1, <1>2, <1>3, <1>4, <1>5 DEF PlannersInv

(* Asking for a workflow keeps it: nothing has been said yet.              *)
LEMMA AskWorkflowStep ==
  ASSUME NEW task, NEW p, NEW policy, NEW budgets, NEW allowUnknown,
         NEW invoker, PlannersInv,
         AskWorkflow(task, p, policy, budgets, allowUnknown, invoker)
  PROVE  PlannersInv'
<1>1. /\ planStep = "idle" /\ planStep' \in {"asked", "answered"}
      /\ planCall'.kind = "workflow"
      /\ planAnswer' = planAnswer /\ planSessions' = planSessions
      /\ planResult' = planResult
  BY DEF AskWorkflow
<1>2. planAnswer = NoAnswer /\ planSessions = 0 /\ planResult = NoResult
  BY <1>1 DEF PlannersInv, AnswerTyped
<1>3. AnswerTyped(planStep', planAnswer')
  BY <1>1, <1>2 DEF AnswerTyped, NoAnswer
<1>4. AnswerFits(planStep', planCall', planAnswer')
  BY <1>1, <1>2 DEF AnswerFits, NoAnswer
<1>5. SoundResult(planResult', planCall', planAnswer')
  BY <1>1, <1>2, NothingSound
<1> QED BY <1>1, <1>2, <1>3, <1>4, <1>5 DEF PlannersInv

(* Asking for portfolios keeps it: who is asked is eligible.               *)
LEMMA AskPortfolioStep ==
  ASSUME NEW facts, NEW drivers, NEW intents, PlannersInv,
         AskPortfolio(facts, drivers, intents)
  PROVE  PlannersInv'
<1>1. /\ planStep = "idle" /\ planStep' \in {"asked", "answered"}
      /\ planCall'.kind = "portfolio" /\ planCall'.facts = facts
      /\ planCall'.drivers = drivers
      /\ planSessions' = planSessions /\ planResult' = planResult
  BY DEF AskPortfolio
<1>2. planAnswer = NoAnswer /\ planSessions = 0 /\ planResult = NoResult
  BY <1>1 DEF PlannersInv, AnswerTyped
<1>3. \/ planStep' = "answered" /\ planAnswer' = planAnswer
      \/ /\ planStep' = "asked"
         /\ \E e \in Eligible(facts, drivers) :
              planAnswer' = [NoAnswer EXCEPT !.endpoint = e]
  BY DEF AskPortfolio
<1>4. /\ AnswerTyped(planStep', planAnswer')
      /\ planAnswer'.said = "nothing"
      /\ planStep' = "asked" =>
           planAnswer'.endpoint \in Eligible(facts, drivers)
  <2>1. CASE planStep' = "answered" /\ planAnswer' = planAnswer
    BY <1>2, <2>1 DEF AnswerTyped, NoAnswer
  <2>2. CASE /\ planStep' = "asked"
             /\ \E e \in Eligible(facts, drivers) :
                  planAnswer' = [NoAnswer EXCEPT !.endpoint = e]
    BY <2>2 DEF AnswerTyped, NoAnswer
  <2> QED BY <1>3, <2>1, <2>2
<1>5. AnswerFits(planStep', planCall', planAnswer')
  BY <1>1, <1>4 DEF AnswerFits
<1>6. SoundResult(planResult', planCall', planAnswer')
  BY <1>1, <1>2, NothingSound
<1> QED BY <1>1, <1>2, <1>4, <1>5, <1>6 DEF PlannersInv

(* Starting a session keeps it: it is the only one.                        *)
LEMMA StartSessionStep ==
  ASSUME NEW started \in BOOLEAN, PlannersInv, StartSession(started)
  PROVE  PlannersInv'
<1>1. /\ planStep = "asked"
      /\ planStep' = IF started THEN "turn" ELSE "answered"
      /\ planSessions' = planSessions + IF started THEN 1 ELSE 0
      /\ planCall' = planCall /\ planAnswer' = planAnswer
      /\ planResult' = planResult
  BY DEF StartSession
<1>2. planSessions' = IF planStep' = "turn" THEN 1 ELSE 0
  BY <1>1 DEF PlannersInv
<1>3. AnswerTyped(planStep', planAnswer')
  BY <1>1 DEF PlannersInv, AnswerTyped
<1>4. AnswerFits(planStep', planCall', planAnswer')
  BY <1>1 DEF PlannersInv, AnswerFits
<1> QED BY <1>1, <1>2, <1>3, <1>4 DEF PlannersInv

(* A turn keeps it: it closes its session, and answers what was asked.     *)
LEMMA ExecuteTurnStep ==
  ASSUME NEW said, NEW content, PlannersInv, ExecuteTurn(said, content),
         said = "plan" => planCall.kind = "workflow" /\ content \in ModelPlans,
         said = "alternatives" =>
           planCall.kind = "portfolio" /\ content \in ModelPortfolios
  PROVE  PlannersInv'
<1>1. /\ planStep = "turn" /\ planStep' = "answered"
      /\ planAnswer' = [planAnswer EXCEPT !.said = said, !.content = content]
      /\ planSessions' = planSessions - 1
      /\ planCall' = planCall /\ planResult' = planResult
  BY DEF ExecuteTurn
<1>2. planAnswer' = [endpoint |-> planAnswer.endpoint, said |-> said,
                     content |-> content]
  BY <1>1 DEF PlannersInv, AnswerTyped
<1>3. planSessions' = IF planStep' = "turn" THEN 1 ELSE 0
  BY <1>1 DEF PlannersInv
<1>4. AnswerTyped(planStep', planAnswer')
  BY <1>1, <1>2 DEF AnswerTyped
<1>5. AnswerFits(planStep', planCall', planAnswer')
  BY <1>1, <1>2 DEF PlannersInv, AnswerFits
<1>6. planResult = NoResult
  BY <1>1 DEF PlannersInv
<1>7. SoundResult(planResult', planCall', planAnswer')
  BY <1>1, <1>6, NothingSound
<1> QED BY <1>1, <1>3, <1>4, <1>5, <1>6, <1>7 DEF PlannersInv

(* Cancelling keeps it: the session is closed, and there is no result.     *)
LEMMA CancelPlanningStep ==
  ASSUME PlannersInv, CancelPlanning
  PROVE  PlannersInv'
<1>1. /\ planStep \in {"asked", "turn"} /\ planStep' = "done"
      /\ planSessions' = 0 /\ planCall' = planCall
      /\ planAnswer' = planAnswer /\ planResult' = planResult
  BY DEF CancelPlanning
<1>2. AnswerTyped(planStep', planAnswer')
  BY <1>1 DEF PlannersInv, AnswerTyped
<1>3. AnswerFits(planStep', planCall', planAnswer')
  BY <1>1 DEF PlannersInv, AnswerFits
<1> QED BY <1>1, <1>2, <1>3 DEF PlannersInv

(* A sound decision ends the call.                                         *)
LEMMA DecidedInv ==
  ASSUME PlannersInv, planStep = "answered", planStep' = "done",
         planCall' = planCall, planAnswer' = planAnswer,
         planSessions' = planSessions,
         SoundResult(planResult', planCall, planAnswer)
  PROVE  PlannersInv'
<1>1. AnswerTyped(planStep', planAnswer')
  BY DEF PlannersInv, AnswerTyped
<1>2. AnswerFits(planStep', planCall', planAnswer')
  BY DEF PlannersInv, AnswerFits
<1>3. planSessions' = IF planStep' = "turn" THEN 1 ELSE 0
  BY DEF PlannersInv
<1> QED BY <1>1, <1>2, <1>3 DEF PlannersInv

(* Deciding keeps it, whatever was said.                                   *)
LEMMA DecidePlanStep ==
  ASSUME PlannersInv, DecidePlan
  PROVE  PlannersInv'
<1>1. /\ planStep = "answered" /\ planStep' = "done"
      /\ planCall' = planCall /\ planAnswer' = planAnswer
      /\ planSessions' = planSessions
      /\ planResult' = IF planCall.kind = "workflow"
                       THEN PlanWorkflowWithModel(planCall, planAnswer)
                       ELSE PlanPortfolio(planCall, planAnswer)
  BY DEF DecidePlan
<1>2. AnswerFits(planStep, planCall, planAnswer)
  BY DEF PlannersInv
<1>3. CASE planCall.kind = "workflow"
  <2>1. planAnswer.said = "plan" => planAnswer.content \in ModelPlans
    BY <1>2 DEF AnswerFits
  <2>2. SoundResult(PlanWorkflowWithModel(planCall, planAnswer), planCall,
                    planAnswer)
    BY <2>1, WorkflowSound
  <2> QED BY <1>1, <1>3, <2>2, DecidedInv
<1>4. CASE planCall.kind # "workflow"
  <2>1. planAnswer.said = "alternatives" =>
          /\ planAnswer.content \in ModelPortfolios
          /\ planAnswer.endpoint \in Eligible(planCall.facts,
                                              planCall.drivers)
    BY <1>2, <1>4 DEF AnswerFits
  <2>2. SoundResult(PlanPortfolio(planCall, planAnswer), planCall,
                    planAnswer)
    BY <2>1, PortfolioSound
  <2> QED BY <1>1, <1>4, <2>2, DecidedInv
<1> QED BY <1>3, <1>4

(* Returning keeps it.                                                     *)
LEMMA ReturnPlanStep ==
  ASSUME PlannersInv, ReturnPlan
  PROVE  PlannersInv'
<1>1. /\ planStep = "done" /\ planStep' = "idle" /\ planCall' = NoCall
      /\ planAnswer' = NoAnswer /\ planResult' = NoResult
      /\ planSessions' = planSessions
  BY DEF ReturnPlan
<1>2. planSessions' = IF planStep' = "turn" THEN 1 ELSE 0
  BY <1>1 DEF PlannersInv
<1>3. AnswerTyped(planStep', planAnswer')
  BY <1>1 DEF AnswerTyped, NoAnswer
<1>4. AnswerFits(planStep', planCall', planAnswer')
  BY <1>1 DEF AnswerFits, NoAnswer, NoCall
<1>5. SoundResult(planResult', planCall', planAnswer')
  BY <1>1, NothingSound
<1> QED BY <1>1, <1>2, <1>3, <1>4, <1>5 DEF PlannersInv

(* Every step keeps it.                                                    *)
LEMMA PlannersInvStep ==
  ASSUME PlannersInv, [NextPlanners]_plannersVars
  PROVE  PlannersInv'
<1>1. CASE UNCHANGED plannersVars
  BY <1>1 DEF plannersVars, PlannersInv
<1>2. CASE NextPlanners
  <2>1. ASSUME NEW task \in Tasks, NEW p \in PlanPortfolios,
               NEW policy \in PlanPolicies, NEW budgets \in PlanBudgets,
               NEW allowUnknown \in BOOLEAN, NEW invoker \in BOOLEAN,
               AskWorkflow(task, p, policy, budgets, allowUnknown, invoker)
        PROVE  PlannersInv'
    BY <2>1, AskWorkflowStep
  <2>2. ASSUME NEW f \in PlanFacts, NEW d \in DriverSets,
               NEW intents \in IntentSets, AskPortfolio(f, d, intents)
        PROVE  PlannersInv'
    BY <2>2, AskPortfolioStep
  <2>3. ASSUME NEW started \in BOOLEAN, StartSession(started)
        PROVE  PlannersInv'
    BY <2>3, StartSessionStep
  <2>4. ASSUME NEW said \in {"nothing", "malformed"}, ExecuteTurn(said, <<>>)
        PROVE  PlannersInv'
    <3>1. said # "plan" /\ said # "alternatives"
      OBVIOUS
    <3> QED BY <2>4, <3>1, ExecuteTurnStep
  <2>5. ASSUME planCall.kind = "workflow", NEW c \in ModelPlans,
               ExecuteTurn("plan", c)
        PROVE  PlannersInv'
    BY <2>5, ExecuteTurnStep
  <2>6. ASSUME planCall.kind = "portfolio", NEW c \in ModelPortfolios,
               ExecuteTurn("alternatives", c)
        PROVE  PlannersInv'
    BY <2>6, ExecuteTurnStep
  <2>7. CASE CancelPlanning
    BY <2>7, CancelPlanningStep
  <2>8. CASE DecidePlan
    BY <2>8, DecidePlanStep
  <2>9. CASE ReturnPlan
    BY <2>9, ReturnPlanStep
  <2> QED
    BY <1>2, <2>1, <2>2, <2>3, <2>4, <2>5, <2>6, <2>7, <2>8, <2>9
       DEF NextPlanners
<1> QED BY <1>1, <1>2

(* Theorem: every planning call keeps to its invariant (the invoker, the   *)
(* planners and the driver).                                               *)
THEOREM PlannersInvariant == SpecPlanners => []PlannersInv
BY InitPlannersInv, PlannersInvStep, PTL DEF SpecPlanners

(* Theorem: whatever a model proposed, what a planning call returns is     *)
(* sound and no session of it stays open.                                  *)
THEOREM AdviceAlwaysOnlyAdvice == SpecPlanners => []AdviceIsOnlyAdvice
<1>1. PlannersInv => AdviceIsOnlyAdvice
  BY DEF PlannersInv, AdviceIsOnlyAdvice, SoundResult
<1> QED BY <1>1, PlannersInvariant, PTL

=============================================================================
