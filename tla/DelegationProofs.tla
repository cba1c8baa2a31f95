-------------------------- MODULE DelegationProofs --------------------------
(***************************************************************************)
(* Proofs about the task executor, for any number of tasks, attempts and   *)
(* calls and any attempt budget.                                           *)
(*                                                                         *)
(* The checks of Delegate are made long before the batch they justify.     *)
(* The inductive invariant says what keeps them true: a call whose         *)
(* revision is still current may rely on what it read (ReadsHold).         *)
(***************************************************************************)
EXTENDS Delegation, ReducerProofs, FiniteSetTheorems

(* An attempt has a task exactly from its start on, and is never blocked:  *)
(* the executor only fails, cancels or completes it.                       *)
Owned ==
  \A a \in AttemptIds :
    /\ attempts[a].status = "absent" <=> attempts[a].task = None
    /\ attempts[a].status # "blocked"

OneRunning ==
  \A a, b \in AttemptIds :
    /\ attempts[a].status = "running" /\ attempts[b].status = "running"
    /\ attempts[a].task = attempts[b].task
    => a = b

Finite == \A t \in TaskIds : IsFiniteSet(AttemptsOf(t))

(* What a call with a current revision read of the attempts still holds.   *)
ReadHolds(d) ==
  requests[d].pc \in {"read", "checked"} /\ d \in fresh =>
    Delegable(requests[d].task, requests[d].state)

ReadsHold == \A d \in Requests : ReadHolds(d)

(* A call under way names its task.                                        *)
Underway(d) == requests[d].pc \notin {"new", "returned"}

(* A started attempt waits for its operation, and for one call only.       *)
StartedShape ==
  /\ \A d \in Requests : Underway(d) => requests[d].task \in TaskIds
  /\ \A d \in Requests : requests[d].pc = "started" =>
       /\ requests[d].attempt \in AttemptIds
       /\ attempts[requests[d].attempt].status = "running"
       /\ run[requests[d].attempt] = "none"
  /\ \A d, e \in Requests :
       /\ requests[d].pc = "started" /\ requests[e].pc = "started"
       /\ requests[d].attempt = requests[e].attempt
       => d = e

(* Calls and runs live only while the executor is up.                      *)
OnlyWhileUp ==
  /\ \A a \in AttemptIds : Live(a) => executor = "up"
  /\ \A d \in Requests : Underway(d) => executor = "up"

WorkersRunning ==
  \A a \in AttemptIds : Live(a) => attempts[a].status = "running"

DelegationInv ==
  /\ TypeDelegation
  /\ Owned
  /\ OneRunning
  /\ Finite
  /\ BudgetKept
  /\ ReadsHold
  /\ StartedShape
  /\ OnlyWhileUp
  /\ WorkersRunning

-----------------------------------------------------------------------------
(* Facts used throughout.                                                  *)

(* While no attempt changes, neither do the facts about attempts.          *)
LEMMA AttemptsQuiet ==
  ASSUME DelegationInv, UNCHANGED attempts
  PROVE  Owned' /\ OneRunning' /\ Finite' /\ BudgetKept'
<1>1. \A t : AttemptsOf(t)' = AttemptsOf(t)
  BY DEF AttemptsOf
<1> QED
  BY <1>1 DEF DelegationInv, Owned, OneRunning, Finite, BudgetKept

(* ... nor what Delegate checks of them (ReadDetail).                      *)
LEMMA DelegableQuiet ==
  ASSUME UNCHANGED <<attempts, effects>>, NEW d \in Requests, NEW t, NEW x,
         requests'[d].task = t, requests'[d].state = x, Delegable(t, x)
  PROVE  ReadHolds(d)'
<1>1. {a \in AttemptIds : attempts'[a].task = requests'[d].task} = AttemptsOf(t)
  BY DEF AttemptsOf
<1>2. (\E b \in AttemptIds : /\ attempts'[b].task = requests'[d].task
                             /\ attempts'[b].status = "running")
        => HasRunningAttempt(t)
  BY DEF HasRunningAttempt
<1>3. /\ requests'[d].state = "running" =>
           ~(\E b \in AttemptIds : /\ attempts'[b].task = requests'[d].task
                                   /\ attempts'[b].status = "running")
      /\ \A a \in {a \in AttemptIds : attempts'[a].task = requests'[d].task} :
           effects'[a] # "uncertain"
      /\ Cardinality({a \in AttemptIds : attempts'[a].task = requests'[d].task})
           < MaxAttemptsPerTask
  BY <1>1, <1>2 DEF Delegable, WithinBudget
<1> QED
  BY <1>3 DEF ReadHolds, Delegable, WithinBudget, AttemptsOf, HasRunningAttempt

(* Records of calls.                                                       *)
LEMMA RequestRecords ==
  /\ NoRequest \in RequestType /\ Returned \in RequestType
  /\ NoRequest.pc = "new" /\ Returned.pc = "returned"
<1>1. 0 \in 0 .. MaxVersion
  BY MaxVersionAssumption
<1> QED
  BY <1>1 DEF NoRequest, Returned, RequestType

(* One call's record is replaced.                                          *)
LEMMA OneCall ==
  ASSUME TypeDelegation, NEW d \in Requests, NEW r \in RequestType,
         requests' = [requests EXCEPT ![d] = r]
  PROVE  /\ requests' \in [Requests -> RequestType] /\ requests'[d] = r
         /\ \A e \in Requests \ {d} : requests'[e] = requests[e]
  BY DEF TypeDelegation

(* A step of one call that leaves the projection and the runs alone.       *)
LEMMA CallStep ==
  ASSUME DelegationInv, NEW d \in Requests, NEW r \in RequestType,
         requests' = [requests EXCEPT ![d] = r],
         UNCHANGED <<vars, effects, clean, run, acted, executor, orphans>>,
         executor = "up", fresh' \in SUBSET Observers,
         \A e \in Requests \ {d} : e \in fresh' => e \in fresh,
         r.pc \in {"admitted", "listed", "read", "checked", "returned"},
         r.pc # "returned" => r.task \in TaskIds,
         r.pc \in {"read", "checked"} /\ d \in fresh' => Delegable(r.task, r.state)
  PROVE  DelegationInv'
<1>1. /\ TypeDelegation /\ StartedShape /\ OnlyWhileUp /\ WorkersRunning
      /\ ReadsHold /\ TypeOK
  BY DEF DelegationInv, TypeDelegation
<1>2. /\ requests' \in [Requests -> RequestType] /\ requests'[d] = r
      /\ \A e \in Requests \ {d} : requests'[e] = requests[e]
  BY <1>1, OneCall
<1>3. UNCHANGED attempts
  BY DEF vars
<1>4. TypeDelegation'
  <2>1. TypeOK'
    BY <1>1 DEF vars, TypeOK
  <2> QED BY <1>1, <1>2, <2>1 DEF TypeDelegation
<1>5. Owned' /\ OneRunning' /\ Finite' /\ BudgetKept'
  BY <1>3, AttemptsQuiet
<1>6. ReadsHold'
  <2>1. ASSUME NEW e \in Requests PROVE ReadHolds(e)'
    <3>1. CASE ~(requests'[e].pc \in {"read", "checked"} /\ e \in fresh')
      BY <3>1 DEF ReadHolds
    <3>2. CASE /\ requests'[e].pc \in {"read", "checked"} /\ e \in fresh'
               /\ e = d
      <4>1. Delegable(r.task, r.state)
        BY <1>2, <3>2
      <4> QED BY <1>2, <1>3, <3>2, <4>1, DelegableQuiet
    <3>3. CASE /\ requests'[e].pc \in {"read", "checked"} /\ e \in fresh'
               /\ e # d
      <4>1. Delegable(requests[e].task, requests[e].state)
        BY <1>1, <1>2, <3>3 DEF ReadsHold, ReadHolds
      <4> QED BY <1>2, <1>3, <3>3, <4>1, DelegableQuiet
    <3> QED BY <3>1, <3>2, <3>3
  <2> QED BY <2>1 DEF ReadsHold
<1>7. StartedShape' /\ OnlyWhileUp' /\ WorkersRunning'
  BY <1>1, <1>2, <1>3 DEF StartedShape, OnlyWhileUp, WorkersRunning, Underway,
     Live
<1> QED
  BY <1>4, <1>5, <1>6, <1>7 DEF DelegationInv

-----------------------------------------------------------------------------
(* Delegate's reads and checks.                                            *)

(* A call that returns keeps nothing.                                      *)
LEMMA ReturnStep ==
  ASSUME DelegationInv, NEW d \in Requests, Return(d), executor = "up",
         UNCHANGED <<vars, effects, clean, run, acted, executor, orphans>>
  PROVE  DelegationInv'
<1>1. Returned \in RequestType /\ Returned.pc = "returned"
  BY RequestRecords
<1>2. fresh' \in SUBSET Observers /\ \A e \in Requests : e \in fresh' => e \in fresh
  BY DEF Return, DelegationInv, TypeDelegation
<1>3. requests' = [requests EXCEPT ![d] = Returned]
  BY DEF Return
<1> QED
  BY <1>1, <1>2, <1>3, CallStep

(* A call that goes on, with what justifies it.                            *)
LEMMA AdvanceStep ==
  ASSUME DelegationInv, NEW d \in Requests, NEW pc \in {"read", "checked"},
         Advance(d, pc), executor = "up", Underway(d),
         d \in fresh => Delegable(requests[d].task, requests[d].state),
         UNCHANGED <<vars, effects, clean, run, acted, executor, orphans>>
  PROVE  DelegationInv'
<1> DEFINE r == [requests[d] EXCEPT !.pc = pc]
<1>1. TypeDelegation /\ requests[d] \in RequestType /\ requests[d].task \in TaskIds
  BY DEF DelegationInv, TypeDelegation, StartedShape
<1>2. requests' = [requests EXCEPT ![d] = r]
  BY <1>1 DEF Advance, TypeDelegation
<1>3. /\ r \in RequestType /\ r.pc = pc /\ r.task = requests[d].task
      /\ r.state = requests[d].state
  BY <1>1 DEF RequestType
<1>4. fresh' \in SUBSET Observers /\ fresh' = fresh
  BY <1>1 DEF Advance, TypeDelegation
<1> HIDE DEF r
<1>5. /\ r.pc \in {"admitted", "listed", "read", "checked", "returned"}
      /\ r.task \in TaskIds
      /\ d \in fresh' => Delegable(r.task, r.state)
  BY <1>1, <1>3, <1>4
<1> QED
  BY <1>2, <1>3, <1>4, <1>5, CallStep

(* The facade admits a call.                                               *)
LEMMA RequestDelegateStep ==
  ASSUME DelegationInv, NEW d \in Requests, NEW t \in TaskIds,
         RequestDelegate(d, t)
  PROVE  DelegationInv'
<1> DEFINE r == [NoRequest EXCEPT !.pc = "admitted", !.task = t,
                   !.wp = tasks[t].wp, !.version = tasks[t].version]
<1>1. TypeDelegation /\ tasks[t] \in Task
  BY DEF DelegationInv, TypeDelegation, TypeOK
<1>2. r \in RequestType /\ r.pc = "admitted" /\ r.task = t
  BY <1>1 DEF NoRequest, RequestType, Task
<1>3. /\ requests' = [requests EXCEPT ![d] = r] /\ executor = "up"
      /\ UNCHANGED <<vars, effects, clean, run, acted, executor, orphans>>
  BY DEF RequestDelegate, At
<1>4. /\ fresh' \in SUBSET Observers
      /\ \A e \in Requests \ {d} : e \in fresh' => e \in fresh
  BY <1>1 DEF RequestDelegate, TypeDelegation, Observers
<1> HIDE DEF r
<1> QED
  BY <1>2, <1>3, <1>4, CallStep

(* The task list is read.                                                  *)
LEMMA ReadTaskStep ==
  ASSUME DelegationInv, NEW d \in Requests, ReadTask(d)
  PROVE  DelegationInv'
<1> DEFINE task == tasks[requests[d].task]
           r == [requests[d] EXCEPT !.pc = "listed", !.state = task.state]
<1>1. /\ TypeDelegation /\ requests[d] \in RequestType /\ executor = "up"
      /\ requests[d].task \in TaskIds
      /\ UNCHANGED <<vars, effects, clean, run, acted, executor, orphans>>
  BY DEF DelegationInv, TypeDelegation, StartedShape, Underway, ReadTask, At
<1>2. CASE Return(d)
  BY <1>1, <1>2, ReturnStep
<1>3. CASE /\ task.state \in {"ready", "running"}
           /\ requests' = [requests EXCEPT ![d].pc = "listed",
                                           ![d].state = task.state]
           /\ UNCHANGED fresh
  <2>1. requests' = [requests EXCEPT ![d] = r]
    BY <1>1, <1>3 DEF TypeDelegation
  <2>2. r \in RequestType /\ r.pc = "listed" /\ r.task = requests[d].task
    BY <1>1, <1>3 DEF RequestType, States
  <2>3. fresh' \in SUBSET Observers
    BY <1>1, <1>3 DEF TypeDelegation
  <2> HIDE DEF r
  <2> QED BY <1>1, <1>3, <2>1, <2>2, <2>3, CallStep
<1> QED
  BY <1>2, <1>3 DEF ReadTask

(* The attempts are read and checked.                                      *)
LEMMA ReadDetailStep ==
  ASSUME DelegationInv, NEW d \in Requests, ReadDetail(d)
  PROVE  DelegationInv'
<1>1. /\ executor = "up" /\ Underway(d)
      /\ UNCHANGED <<vars, effects, clean, run, acted, executor, orphans>>
      /\ \/ /\ Delegable(requests[d].task, requests[d].state)
            /\ Advance(d, "read")
         \/ Return(d)
  BY DEF ReadDetail, At, Underway, Check
<1> QED
  BY <1>1, AdvanceStep, ReturnStep

(* The revision is read again.                                             *)
LEMMA ReadRevisionStep ==
  ASSUME DelegationInv, NEW d \in Requests, ReadRevision(d)
  PROVE  DelegationInv'
<1>1. /\ executor = "up" /\ Underway(d) /\ requests[d].pc = "read"
      /\ UNCHANGED <<vars, effects, clean, run, acted, executor, orphans>>
      /\ (d \in fresh /\ Advance(d, "checked")) \/ Return(d)
  BY DEF ReadRevision, At, Underway, Check
<1>2. d \in fresh => Delegable(requests[d].task, requests[d].state)
  BY <1>1 DEF DelegationInv, ReadsHold, ReadHolds
<1> QED
  BY <1>1, <1>2, AdvanceStep, ReturnStep

(* Delegate gives up.                                                      *)
LEMMA DelegateFailsStep ==
  ASSUME DelegationInv, NEW d \in Requests, DelegateFails(d)
  PROVE  DelegationInv'
  BY ReturnStep DEF DelegateFails

-----------------------------------------------------------------------------
(* Events of other clients.                                                *)

(* An event of a client is an event of the reducer; none of them touches   *)
(* an attempt.                                                             *)
LEMMA ClientIsReducer ==
  ASSUME (\E t \in TaskIds : ClientEvent(t)) \/ OtherEvent
  PROVE  /\ Next /\ UNCHANGED attempts
         /\ UNCHANGED <<effects, requests, run, acted, executor, orphans>>
         /\ fresh' = {}
<1>1. ASSUME OtherEvent
      PROVE  /\ Next /\ UNCHANGED attempts
             /\ UNCHANGED <<effects, requests, run, acted, executor, orphans>>
             /\ fresh' = {}
  <2>1. \/ ProjectInitialized(None)
        \/ \E c \in Commits : ValidationCompletedBaseline(c, "fail")
    BY <1>1 DEF OtherEvent
  <2>2. UNCHANGED attempts
    BY <2>1 DEF ProjectInitialized, ValidationCompletedBaseline
  <2>3. Next
    BY <2>1 DEF Next, Outcomes
  <2> QED BY <1>1, <2>2, <2>3 DEF OtherEvent, Moved
<1>2. ASSUME NEW t \in TaskIds, ClientEvent(t)
      PROVE  /\ Next /\ UNCHANGED attempts
             /\ UNCHANGED <<effects, requests, run, acted, executor, orphans>>
             /\ fresh' = {}
  <2>1. \/ TaskCreated(t) \/ TaskDesignStarted(t)
        \/ \E w \in WorkPackageIds, v \in Versions : WorkPackageApproved(t, w, v)
        \/ \E w \in WorkPackageIds : TaskDelegated(t, w)
        \/ EscalationRaised(t, None)
        \/ \E a \in AttemptIds, c \in Commits, id \in ValidationIds,
              o \in {"pass", "fail"} : ValidationCompletedAttempt(t, a, c, id, o)
        \/ \E a \in AttemptIds : ChangeRejected(t, a)
    BY <1>2 DEF ClientEvent
  <2>2. UNCHANGED attempts
    BY <2>1 DEF TaskCreated, TaskDesignStarted, WorkPackageApproved,
       TaskDelegated, EscalationRaised, ValidationCompletedAttempt,
       ChangeRejected
  <2>3. PlanningNext(t) \/ DecisionNext(t)
    BY <2>1 DEF PlanningNext, DecisionNext, Outcomes
  <2>4. Next
    BY <2>3 DEF Next
  <2> QED BY <1>2, <2>2, <2>4 DEF ClientEvent, Moved
<1> QED
  BY <1>1, <1>2

(* Events of clients make every earlier read worthless, and no more.       *)
LEMMA ClientStep ==
  ASSUME DelegationInv, (\E t \in TaskIds : ClientEvent(t)) \/ OtherEvent
  PROVE  DelegationInv'
<1>1. /\ Next /\ UNCHANGED attempts
      /\ UNCHANGED <<effects, requests, run, acted, executor, orphans>>
      /\ fresh' = {}
  BY ClientIsReducer
<1>2. /\ TypeDelegation /\ TypeOK /\ StartedShape /\ OnlyWhileUp
      /\ WorkersRunning
  BY DEF DelegationInv, TypeDelegation
<1>3. TypeOK'
  BY <1>1, <1>2, TypeStep
<1>4. clean' \subseteq TaskIds
  BY <1>2 DEF ClientEvent, OtherEvent, TypeDelegation
<1>5. TypeDelegation'
  BY <1>1, <1>2, <1>3, <1>4 DEF TypeDelegation
<1>6. Owned' /\ OneRunning' /\ Finite' /\ BudgetKept'
  BY <1>1, AttemptsQuiet
<1>7. ReadsHold'
  BY <1>1 DEF ReadsHold, ReadHolds
<1>8. StartedShape' /\ OnlyWhileUp' /\ WorkersRunning'
  BY <1>1, <1>2 DEF StartedShape, OnlyWhileUp, WorkersRunning, Underway, Live
<1> QED
  BY <1>5, <1>6, <1>7, <1>8 DEF DelegationInv

-----------------------------------------------------------------------------
(* The operation's goroutine.                                              *)

(* A call that is where it was, or nowhere, relies on no more than before. *)
LEMMA ReadStays ==
  ASSUME DelegationInv, UNCHANGED <<attempts, effects>>, NEW e \in Requests,
         \/ requests'[e] = requests[e]
         \/ requests'[e].pc \notin {"read", "checked"},
         e \in fresh' => e \in fresh
  PROVE  ReadHolds(e)'
<1>1. CASE ~(requests'[e].pc \in {"read", "checked"} /\ e \in fresh')
  BY <1>1 DEF ReadHolds
<1>2. CASE requests'[e].pc \in {"read", "checked"} /\ e \in fresh'
  <2>1. requests'[e] = requests[e]
    BY <1>2
  <2>2. Delegable(requests[e].task, requests[e].state)
    BY <1>2, <2>1 DEF DelegationInv, ReadsHold, ReadHolds
  <2> QED BY <2>1, <2>2, DelegableQuiet
<1> QED
  BY <1>1, <1>2

(* A live attempt's goroutine takes a step, or ends, unrecorded.           *)
LEMMA RunStepInv ==
  ASSUME DelegationInv, NEW a \in AttemptIds, NEW from, NEW to,
         RunStep(a, from, to), from # "none",
         to \in {"none", "worktree", "session"} \cup RunOutcomes,
         acted' \subseteq AttemptIds, fresh' \subseteq fresh \cup {a}
  PROVE  DelegationInv'
<1>1. /\ TypeDelegation /\ TypeOK /\ StartedShape /\ OnlyWhileUp
      /\ WorkersRunning
  BY DEF DelegationInv, TypeDelegation
<1>2. /\ executor = "up" /\ run[a] # "none" /\ run' = [run EXCEPT ![a] = to]
      /\ UNCHANGED <<vars, attempts, effects, clean, requests, executor, orphans>>
  BY DEF RunStep, vars
<1>3. TypeDelegation'
  <2>1. TypeOK'
    BY <1>1, <1>2 DEF vars, TypeOK
  <2>2. fresh' \subseteq Observers
    BY <1>1 DEF TypeDelegation, Observers
  <2> QED BY <1>1, <1>2, <2>1, <2>2 DEF TypeDelegation
<1>4. Owned' /\ OneRunning' /\ Finite' /\ BudgetKept'
  BY <1>2, AttemptsQuiet
<1>5. ReadsHold'
  <2>1. ASSUME NEW e \in Requests PROVE ReadHolds(e)'
    <3>1. e \in fresh' => e \in fresh
      BY ObserverAssumption
    <3> QED BY <1>2, <3>1, ReadStays
  <2> QED BY <2>1 DEF ReadsHold
<1>6. \A b \in AttemptIds \ {a} : run'[b] = run[b]
  BY <1>1, <1>2 DEF TypeDelegation
<1>7. StartedShape' /\ OnlyWhileUp' /\ WorkersRunning'
  BY <1>1, <1>2, <1>6 DEF StartedShape, OnlyWhileUp, WorkersRunning, Underway,
     Live
<1> QED
  BY <1>3, <1>4, <1>5, <1>7 DEF DelegationInv

(* Every step of runDelegate that journals nothing.                        *)
LEMMA RunSteps ==
  ASSUME DelegationInv, NEW a \in AttemptIds,
         \/ WorktreeFails(a) \/ StartSession(a) \/ SessionEnds(a)
         \/ OutcomeUnrecorded(a)
  PROVE  DelegationInv'
<1>1. acted \subseteq AttemptIds
  BY DEF DelegationInv, TypeDelegation
<1>2. \E from, to \in {"none", "worktree", "session"} \cup RunOutcomes :
        /\ RunStep(a, from, to) /\ from # "none"
        /\ acted' \subseteq AttemptIds /\ fresh' \subseteq fresh \cup {a}
  BY <1>1 DEF WorktreeFails, StartSession, SessionEnds, OutcomeUnrecorded,
     Outcome, RunOutcomes
<1> QED
  BY <1>2, RunStepInv

(* The started call hands its attempt to the background, or marks it to be *)
(* failed.                                                                 *)
LEMMA HandOver ==
  ASSUME DelegationInv, NEW d \in Requests, At(d, "started"),
         NEW to \in {"worktree", "fail_none"},
         run' = [run EXCEPT ![requests[d].attempt] = to],
         requests' = [requests EXCEPT ![d] = Returned],
         fresh' \subseteq (fresh \ {d}) \cup {requests[d].attempt},
         UNCHANGED <<vars, effects, clean, acted, executor, orphans>>
  PROVE  DelegationInv'
<1> DEFINE a == requests[d].attempt
<1>1. /\ TypeDelegation /\ TypeOK /\ StartedShape /\ OnlyWhileUp
      /\ WorkersRunning
  BY DEF DelegationInv, TypeDelegation
<1>2. /\ executor = "up" /\ a \in AttemptIds /\ attempts[a].status = "running"
      /\ UNCHANGED attempts
  BY <1>1 DEF At, StartedShape, vars
<1>3. /\ requests' \in [Requests -> RequestType] /\ requests'[d] = Returned
      /\ \A e \in Requests \ {d} : requests'[e] = requests[e]
      /\ Returned.pc = "returned"
  BY <1>1, RequestRecords, OneCall
<1>4. /\ run'[a] = to /\ \A b \in AttemptIds \ {a} : run'[b] = run[b]
      /\ run' \in [AttemptIds -> {"none", "worktree", "session"} \cup RunOutcomes]
  BY <1>1, <1>2 DEF TypeDelegation, RunOutcomes
<1>5. \A e \in Requests \ {d} : requests[e].pc = "started" => requests[e].attempt # a
  BY <1>1 DEF StartedShape, At
<1>6. TypeDelegation'
  <2>1. TypeOK'
    BY <1>1 DEF vars, TypeOK
  <2>2. fresh' \subseteq Observers
    BY <1>1, <1>2 DEF TypeDelegation, Observers
  <2> QED BY <1>1, <1>3, <1>4, <2>1, <2>2 DEF TypeDelegation
<1>7. Owned' /\ OneRunning' /\ Finite' /\ BudgetKept'
  BY <1>2, AttemptsQuiet
<1>8. ReadsHold'
  <2>1. ASSUME NEW e \in Requests PROVE ReadHolds(e)'
    <3>1. e \in fresh' => e \in fresh
      BY <1>2, ObserverAssumption
    <3> QED BY <1>2, <1>3, <3>1, ReadStays
  <2> QED BY <2>1 DEF ReadsHold
<1> HIDE DEF a
<1>9. StartedShape'
  BY <1>1, <1>2, <1>3, <1>4, <1>5 DEF StartedShape, Underway
<1>10. OnlyWhileUp' /\ WorkersRunning'
  BY <1>1, <1>2, <1>3, <1>4 DEF OnlyWhileUp, WorkersRunning, Underway, Live
<1> QED
  BY <1>6, <1>7, <1>8, <1>9, <1>10 DEF DelegationInv

(* OperationRegistry.Start accepts the operation or refuses it.            *)
LEMMA RegistrySteps ==
  ASSUME DelegationInv, NEW d \in Requests, StartOperation(d) \/ RegistryFull(d)
  PROVE  DelegationInv'
<1>1. CASE StartOperation(d)
  BY <1>1, HandOver DEF StartOperation, Return
<1>2. CASE RegistryFull(d)
  BY <1>2, HandOver DEF RegistryFull
<1> QED
  BY <1>1, <1>2

-----------------------------------------------------------------------------
(* The batch that starts an attempt.                                       *)

(* What the batch relies on: every earlier attempt of the task has ended   *)
(* with known effects, and the budget has room.                            *)
LEMMA BatchIsJustified ==
  ASSUME DelegationInv, NEW d \in Requests, NEW a \in AttemptIds,
         At(d, "checked"), BatchApplies(d, a)
  PROVE  /\ requests[d].task \in TaskIds
         /\ Delegable(requests[d].task, requests[d].state)
         /\ attempts[a].status = "absent" /\ attempts[a].task = None
         /\ ~HasRunningAttempt(requests[d].task)
<1>1. requests[d].task \in TaskIds
  BY DEF DelegationInv, StartedShape, Underway, At
<1>2. Delegable(requests[d].task, requests[d].state)
  BY DEF DelegationInv, ReadsHold, ReadHolds, At, BatchApplies,
     ExpectedRevision
<1>3. attempts[a].status = "absent" /\ ~HasRunningAttempt(requests[d].task)
  BY DEF BatchApplies
<1>4. attempts[a].task = None
  BY <1>3 DEF DelegationInv, Owned
<1> QED
  BY <1>1, <1>2, <1>3, <1>4

(* The batch that starts an attempt keeps the types.                       *)
LEMMA StartBatchTyped ==
  ASSUME TypeDelegation, NEW d \in Requests, NEW a \in AttemptIds,
         NEW known \in BOOLEAN, StartBatch(d, a, known),
         requests[d].task \in TaskIds
  PROVE  /\ TypeDelegation'
         /\ attempts'[a].status = "running"
         /\ attempts'[a].task = requests[d].task
         /\ \A b \in AttemptIds \ {a} : attempts'[b] = attempts[b]
         /\ \A e \in Requests \ {d} : requests'[e] = requests[e]
         /\ \/ requests'[d].pc = "returned"
            \/ /\ requests'[d].pc = "started" /\ requests'[d].attempt = a
               /\ requests'[d].task = requests[d].task
<1> DEFINE q == requests[d]
           task == [tasks[q.task] EXCEPT !.state = "running", !.current = a]
           att == [status |-> "running", task |-> q.task, wp |-> q.wp,
                   version |-> q.version, commit |-> None]
           go == [q EXCEPT !.pc = "started", !.attempt = a]
<1>1. q \in RequestType /\ tasks[q.task] \in Task
  BY DEF TypeDelegation, TypeOK
<1>2. task \in Task
  BY <1>1 DEF Task, States
<1>3. att \in Attempt /\ att.status = "running" /\ att.task = q.task
  BY <1>1 DEF Attempt, AttemptStatuses, RequestType
<1>4. /\ go \in RequestType /\ go.pc = "started" /\ go.attempt = a
      /\ go.task = q.task
  BY <1>1 DEF RequestType
<1>5. /\ tasks' = [tasks EXCEPT ![q.task] = task]
      /\ attempts' = [attempts EXCEPT ![a] = att]
      /\ requests' = [requests EXCEPT ![d] = IF known THEN go ELSE Returned]
      /\ clean' = clean \ {q.task} /\ fresh' = {}
      /\ UNCHANGED <<initialised, proposals, validations, reviews, baseline,
                     passing, effects, run, acted, executor, orphans>>
  BY DEF StartBatch, Moved, journalFacts
<1> HIDE DEF q, task, att, go
<1>6. /\ tasks' \in [TaskIds -> Task] /\ attempts' \in [AttemptIds -> Attempt]
      /\ attempts'[a] = att
      /\ \A b \in AttemptIds \ {a} : attempts'[b] = attempts[b]
  BY <1>2, <1>3, <1>5 DEF TypeDelegation, TypeOK, q
<1>7. (IF known THEN go ELSE Returned) \in RequestType
  BY <1>4, RequestRecords
<1>8. /\ requests' \in [Requests -> RequestType]
      /\ requests'[d] = IF known THEN go ELSE Returned
      /\ \A e \in Requests \ {d} : requests'[e] = requests[e]
  BY <1>5, <1>7, OneCall
<1>9. TypeOK'
  BY <1>5, <1>6 DEF TypeDelegation, TypeOK
<1>10. TypeDelegation'
  BY <1>5, <1>8, <1>9 DEF TypeDelegation
<1> QED
  BY <1>3, <1>4, <1>6, <1>8, <1>10, RequestRecords DEF q

(* The batch starts an attempt: one more for its task, within the budget.  *)
LEMMA StartBatchStep ==
  ASSUME DelegationInv, NEW d \in Requests, NEW a \in AttemptIds,
         NEW known \in BOOLEAN, StartBatch(d, a, known)
  PROVE  DelegationInv'
<1> DEFINE t == requests[d].task
<1>1. /\ TypeDelegation /\ StartedShape /\ OnlyWhileUp /\ WorkersRunning
      /\ Owned /\ OneRunning /\ Finite /\ BudgetKept
  BY DEF DelegationInv
<1>2. At(d, "checked") /\ BatchApplies(d, a)
  BY DEF StartBatch
<1>3. /\ t \in TaskIds /\ Delegable(t, requests[d].state)
      /\ attempts[a].status = "absent" /\ attempts[a].task = None
      /\ ~HasRunningAttempt(t)
  BY <1>2, BatchIsJustified
<1>4. /\ TypeDelegation'
      /\ attempts'[a].status = "running" /\ attempts'[a].task = t
      /\ \A b \in AttemptIds \ {a} : attempts'[b] = attempts[b]
      /\ \A e \in Requests \ {d} : requests'[e] = requests[e]
      /\ \/ requests'[d].pc = "returned"
         \/ /\ requests'[d].pc = "started" /\ requests'[d].attempt = a
            /\ requests'[d].task = t
  BY <1>1, <1>3, StartBatchTyped
<1>5. /\ fresh' = {} /\ UNCHANGED <<run, executor>> /\ executor = "up"
      /\ t # None
  BY <1>2, <1>3, NoneAssumption DEF StartBatch, Moved, At
<1> HIDE DEF t
<1>6. Owned'
  BY <1>1, <1>4, <1>5 DEF Owned
<1>7. OneRunning'
  BY <1>1, <1>3, <1>4 DEF OneRunning, HasRunningAttempt
<1>8. Finite' /\ BudgetKept'
  <2>1. ASSUME NEW u \in TaskIds
        PROVE  IsFiniteSet(AttemptsOf(u)') /\
               Cardinality(AttemptsOf(u)') <= MaxAttemptsPerTask
    <3>1. IsFiniteSet(AttemptsOf(u)) /\
          Cardinality(AttemptsOf(u)) <= MaxAttemptsPerTask
      BY <1>1 DEF Finite, BudgetKept
    <3>2. CASE u # t
      <4>1. AttemptsOf(u)' = AttemptsOf(u)
        BY <1>3, <1>4, <3>2, NoneAssumption DEF AttemptsOf
      <4> QED BY <3>1, <4>1
    <3>3. CASE u = t
      <4>1. AttemptsOf(u)' = AttemptsOf(u) \cup {a}
        BY <1>4, <3>3 DEF AttemptsOf
      <4>2. Cardinality(AttemptsOf(u)) < MaxAttemptsPerTask
        BY <1>3, <3>3 DEF Delegable, WithinBudget
      <4>3. a \notin AttemptsOf(u)
        BY <1>3, NoneAssumption DEF AttemptsOf
      <4>4. /\ IsFiniteSet(AttemptsOf(u) \cup {a})
            /\ Cardinality(AttemptsOf(u) \cup {a})
                 = Cardinality(AttemptsOf(u)) + 1
            /\ Cardinality(AttemptsOf(u)) \in Nat
        BY <3>1, <4>3, FS_AddElement, FS_CardinalityType
      <4> QED BY <4>1, <4>2, <4>4, BudgetAssumption
    <3> QED BY <3>2, <3>3
  <2> QED BY <2>1 DEF Finite, BudgetKept
<1>9. ReadsHold'
  BY <1>5 DEF ReadsHold, ReadHolds
<1>10. StartedShape'
  <2>1. run[a] = "none"
    BY <1>1, <1>3 DEF WorkersRunning, Live
  <2>2. \A e \in Requests : requests[e].pc = "started" => requests[e].attempt # a
    BY <1>1, <1>3 DEF StartedShape
  <2> QED BY <1>1, <1>3, <1>4, <1>5, <2>1, <2>2 DEF StartedShape, Underway
<1>11. OnlyWhileUp' /\ WorkersRunning'
  BY <1>1, <1>3, <1>4, <1>5 DEF OnlyWhileUp, WorkersRunning, Underway, Live
<1> QED
  BY <1>4, <1>6, <1>7, <1>8, <1>9, <1>10, <1>11 DEF DelegationInv

-----------------------------------------------------------------------------
(* The events that end an attempt.                                         *)

(* A running attempt ends, and its goroutine with it.                      *)
LEMMA FinishStep ==
  ASSUME DelegationInv, NEW a \in AttemptIds, TypeDelegation',
         attempts[a].status = "running",
         attempts'[a].task = attempts[a].task,
         attempts'[a].status \in {"candidate_produced", "failed", "cancelled"},
         \A b \in AttemptIds \ {a} : attempts'[b] = attempts[b],
         run'[a] = "none", \A b \in AttemptIds \ {a} : run'[b] = run[b],
         UNCHANGED requests, fresh' = {},
         \/ /\ \A b \in AttemptIds : ~Live(b)
            /\ \A d \in Requests : ~Underway(d)
         \/ UNCHANGED executor,
         \A d \in Requests : requests[d].pc = "started" =>
           requests[d].attempt # a
  PROVE  DelegationInv'
<1>1. /\ TypeDelegation /\ StartedShape /\ OnlyWhileUp /\ WorkersRunning
      /\ Owned /\ OneRunning /\ Finite /\ BudgetKept
  BY DEF DelegationInv
<1>2. Owned' /\ OneRunning'
  BY <1>1 DEF Owned, OneRunning
<1>3. Finite' /\ BudgetKept'
  <2>1. \A t : AttemptsOf(t)' = AttemptsOf(t)
    BY DEF AttemptsOf
  <2> QED BY <1>1, <2>1 DEF Finite, BudgetKept
<1>4. ReadsHold'
  BY DEF ReadsHold, ReadHolds
<1>5. StartedShape'
  BY <1>1 DEF StartedShape, Underway
<1>6. OnlyWhileUp' /\ WorkersRunning'
  BY <1>1 DEF OnlyWhileUp, WorkersRunning, Underway, Live
<1> QED
  BY <1>1, <1>2, <1>3, <1>4, <1>5, <1>6 DEF DelegationInv

(* What an ending does to the projection.                                  *)
LEMMA EndingTyped ==
  ASSUME TypeOK, NEW a \in AttemptIds, attempts[a].task \in TaskIds,
         \/ \E c \in Commits : CandidateProduced(attempts[a].task, a, c)
         \/ \E x \in BOOLEAN : AttemptFailed(attempts[a].task, a, x)
  PROVE  /\ TypeOK' /\ attempts[a].status = "running"
         /\ attempts'[a].task = attempts[a].task
         /\ attempts'[a].status \in {"candidate_produced", "failed", "cancelled"}
         /\ \A b \in AttemptIds \ {a} : attempts'[b] = attempts[b]
<1>1. AttemptNext(attempts[a].task)
  BY DEF AttemptNext
<1>2. Next
  BY <1>1 DEF Next
<1>3. TypeOK'
  BY <1>2, TypeStep
<1>4. attempts \in [AttemptIds -> Attempt]
  BY DEF TypeOK
<1>5. CASE \E c \in Commits : CandidateProduced(attempts[a].task, a, c)
  <2>1. PICK c \in Commits : CandidateProduced(attempts[a].task, a, c)
    BY <1>5
  <2>2. /\ attempts[a].status = "running"
        /\ attempts' = [attempts EXCEPT ![a].status = "candidate_produced",
                                        ![a].commit = c]
    BY <2>1 DEF CandidateProduced, CanFinish, CanFinishAttempt
  <2> QED BY <1>3, <1>4, <2>2 DEF Attempt
<1>6. CASE \E x \in BOOLEAN : AttemptFailed(attempts[a].task, a, x)
  <2>1. PICK x \in BOOLEAN : AttemptFailed(attempts[a].task, a, x)
    BY <1>6
  <2>2. /\ attempts[a].status = "running"
        /\ attempts' = [attempts EXCEPT ![a].status =
                          IF x THEN "cancelled" ELSE "failed"]
    BY <2>1 DEF AttemptFailed, AttemptEnds, CanFinish, CanFinishAttempt
  <2> QED BY <1>3, <1>4, <2>2 DEF Attempt
<1> QED
  BY <1>5, <1>6

(* The task of a running attempt.                                          *)
LEMMA RunningTask ==
  ASSUME DelegationInv, NEW a \in AttemptIds, attempts[a].status = "running"
  PROVE  attempts[a].task \in TaskIds
  BY DEF DelegationInv, TypeDelegation, TypeOK, Attempt, Owned

(* The outcome of a run is recorded.                                       *)
LEMMA RecordStep ==
  ASSUME DelegationInv, NEW a \in AttemptIds,
         (\E c \in Commits : RecordCandidate(a, c)) \/ RecordFailure(a)
  PROVE  DelegationInv'
<1>1. /\ TypeDelegation /\ TypeOK /\ StartedShape /\ WorkersRunning
  BY DEF DelegationInv, TypeDelegation
<1>2. Recorded(a) /\ run[a] # "none"
  BY DEF RecordCandidate, RecordFailure, RunOutcomes
<1>3. attempts[a].status = "running" /\ attempts[a].task \in TaskIds
  BY <1>1, <1>2, RunningTask DEF WorkersRunning, Live
<1>4. \/ \E c \in Commits : CandidateProduced(attempts[a].task, a, c)
      \/ \E x \in BOOLEAN : AttemptFailed(attempts[a].task, a, x)
  <2>1. (run[a] = "cancel") \in BOOLEAN
    OBVIOUS
  <2> QED BY <2>1, Zenon DEF RecordCandidate, RecordFailure
<1>5. /\ TypeOK'
      /\ attempts'[a].task = attempts[a].task
      /\ attempts'[a].status \in {"candidate_produced", "failed", "cancelled"}
      /\ \A b \in AttemptIds \ {a} : attempts'[b] = attempts[b]
  BY <1>1, <1>3, <1>4, EndingTyped
<1>6. /\ run' = [run EXCEPT ![a] = "none"] /\ fresh' = {}
      /\ clean' = clean \ {attempts[a].task}
      /\ UNCHANGED <<requests, acted, executor, orphans>>
  BY <1>2 DEF Recorded, Moved
<1>7. effects' \in [AttemptIds -> {"none", "uncertain"}]
  BY <1>1 DEF RecordCandidate, RecordFailure, TypeDelegation
<1>8. TypeDelegation'
  BY <1>1, <1>5, <1>6, <1>7 DEF TypeDelegation
<1>9. run'[a] = "none" /\ \A b \in AttemptIds \ {a} : run'[b] = run[b]
  BY <1>1, <1>6 DEF TypeDelegation
<1>10. \A d \in Requests : requests[d].pc = "started" => requests[d].attempt # a
  BY <1>1, <1>2 DEF StartedShape
<1> QED
  BY <1>3, <1>5, <1>6, <1>8, <1>9, <1>10, FinishStep

-----------------------------------------------------------------------------
(* Crash and recovery.                                                     *)

(* While the executor is not up nobody works.                              *)
LEMMA NobodyWorks ==
  ASSUME DelegationInv, executor # "up"
  PROVE  /\ \A b \in AttemptIds : ~Live(b) /\ run[b] = "none"
         /\ \A d \in Requests : ~Underway(d) /\ requests[d].pc # "started"
         /\ \A d \in Requests : requests[d].pc \notin {"read", "checked"}
  BY DEF DelegationInv, OnlyWhileUp, Live, Underway

(* The process dies.                                                       *)
LEMMA CrashInv ==
  ASSUME DelegationInv, Crash
  PROVE  DelegationInv'
<1>1. TypeDelegation /\ TypeOK
  BY DEF DelegationInv, TypeDelegation
<1>2. /\ executor' = "down" /\ run' = [b \in AttemptIds |-> "none"]
      /\ orphans' = {} /\ fresh' = {} /\ UNCHANGED <<vars, effects, clean, acted>>
      /\ UNCHANGED attempts
  BY DEF Crash, vars
<1>3. /\ requests' \in [Requests -> RequestType]
      /\ \A d \in Requests : requests'[d].pc \in {"new", "returned"}
  BY <1>1, RequestRecords DEF Crash, TypeDelegation
<1>4. TypeOK'
  BY <1>1, <1>2 DEF vars, TypeOK
<1>5. TypeDelegation'
  BY <1>1, <1>2, <1>3, <1>4 DEF TypeDelegation
<1>6. Owned' /\ OneRunning' /\ Finite' /\ BudgetKept'
  BY <1>2, AttemptsQuiet
<1>7. ReadsHold' /\ StartedShape' /\ OnlyWhileUp' /\ WorkersRunning'
  BY <1>2, <1>3 DEF ReadsHold, ReadHolds, StartedShape, OnlyWhileUp,
     WorkersRunning, Underway, Live
<1> QED
  BY <1>5, <1>6, <1>7 DEF DelegationInv

(* The steps of Recover that journal nothing.                              *)
LEMMA RecoverQuietStep ==
  ASSUME DelegationInv,
         RecoverScan \/ RecoverReadRevision \/ RecoverFails \/ ExecutorUp
  PROVE  DelegationInv'
<1>1. TypeDelegation /\ TypeOK
  BY DEF DelegationInv, TypeDelegation
<1>2. /\ executor # "up" /\ UNCHANGED <<vars, effects, clean, requests, run, acted>>
      /\ UNCHANGED attempts /\ orphans' \subseteq AttemptIds
      /\ executor' \in {"up", "down", "recovering", "closing"}
      /\ fresh' \subseteq Observers
  BY <1>1 DEF RecoverScan, LockFree, RecoverReadRevision, RecoverFails,
     ExecutorUp, vars, TypeDelegation, Observers
<1>3. /\ \A b \in AttemptIds : ~Live(b) /\ run[b] = "none"
      /\ \A d \in Requests : ~Underway(d) /\ requests[d].pc # "started"
      /\ \A d \in Requests : requests[d].pc \notin {"read", "checked"}
  BY <1>2, NobodyWorks
<1>4. TypeOK'
  BY <1>1, <1>2 DEF vars, TypeOK
<1>5. TypeDelegation'
  BY <1>1, <1>2, <1>4 DEF TypeDelegation
<1>6. Owned' /\ OneRunning' /\ Finite' /\ BudgetKept'
  BY <1>2, AttemptsQuiet
<1>7. ReadsHold' /\ StartedShape' /\ OnlyWhileUp' /\ WorkersRunning'
  BY <1>2, <1>3 DEF ReadsHold, ReadHolds, StartedShape, OnlyWhileUp,
     WorkersRunning, Underway, Live
<1> QED
  BY <1>5, <1>6, <1>7 DEF DelegationInv

(* Recover fails an orphan.                                                *)
LEMMA RecoverAttemptStep ==
  ASSUME DelegationInv, NEW a \in AttemptIds, RecoverAttempt(a)
  PROVE  DelegationInv'
<1>1. TypeDelegation /\ TypeOK
  BY DEF DelegationInv, TypeDelegation
<1>2. /\ executor = "closing" /\ AttemptFailed(attempts[a].task, a, FALSE)
      /\ effects' = [effects EXCEPT ![a] = "uncertain"]
      /\ clean' = clean \ {attempts[a].task} /\ orphans' = orphans \ {a}
      /\ executor' = "recovering" /\ fresh' = {}
      /\ UNCHANGED <<requests, run, acted>>
  BY DEF RecoverAttempt, Moved
<1>3. /\ \A b \in AttemptIds : ~Live(b) /\ run[b] = "none"
      /\ \A d \in Requests : ~Underway(d) /\ requests[d].pc # "started"
  BY <1>2, NobodyWorks
<1>4. attempts[a].status = "running"
  BY <1>2 DEF AttemptFailed, AttemptEnds, CanFinish, CanFinishAttempt
<1>5. attempts[a].task \in TaskIds
  BY <1>4, RunningTask
<1>6. \E x \in BOOLEAN : AttemptFailed(attempts[a].task, a, x)
  BY <1>2, Zenon
<1>7. /\ TypeOK' /\ attempts[a].status = "running"
      /\ attempts'[a].task = attempts[a].task
      /\ attempts'[a].status \in {"candidate_produced", "failed", "cancelled"}
      /\ \A b \in AttemptIds \ {a} : attempts'[b] = attempts[b]
  BY <1>1, <1>5, <1>6, EndingTyped
<1>8. TypeDelegation'
  BY <1>1, <1>2, <1>7 DEF TypeDelegation
<1> QED
  BY <1>2, <1>3, <1>7, <1>8, FinishStep

-----------------------------------------------------------------------------
(* The theorems.                                                           *)

(* The first start of the executor satisfies the invariant.                *)
LEMMA DelegationInit == InitDelegation => DelegationInv
<1> SUFFICES ASSUME InitDelegation PROVE DelegationInv
  OBVIOUS
<1>1. TypeOK
  BY TypeInit DEF InitDelegation
<1>2. /\ effects = [a \in AttemptIds |-> "none"] /\ clean = {} /\ acted = {}
      /\ requests = [d \in Requests |-> NoRequest] /\ executor = "up"
      /\ run = [a \in AttemptIds |-> "none"] /\ orphans = {} /\ fresh = {}
  BY DEF InitDelegation
<1>3. \A d \in Requests : requests[d] = NoRequest /\ requests[d].pc = "new"
  BY <1>2, RequestRecords
<1>4. TypeDelegation
  BY <1>1, <1>2, RequestRecords DEF TypeDelegation
<1>5. \A a \in AttemptIds : attempts[a].status = "absent" /\ attempts[a].task = None
  BY DEF InitDelegation, Init, NoAttempt
<1>6. Owned /\ OneRunning
  BY <1>5 DEF Owned, OneRunning
<1>7. Finite /\ BudgetKept
  <2>1. \A t \in TaskIds : AttemptsOf(t) = {}
    BY <1>5, NoneAssumption DEF AttemptsOf
  <2>2. IsFiniteSet({}) /\ Cardinality({}) = 0
    BY FS_EmptySet
  <2>3. Finite
    BY <2>1, <2>2 DEF Finite
  <2>4. 0 <= MaxAttemptsPerTask
    BY BudgetAssumption
  <2>5. BudgetKept
    BY <2>1, <2>2, <2>4, Zenon DEF BudgetKept
  <2> QED BY <2>3, <2>5
<1>8. ReadsHold /\ StartedShape /\ OnlyWhileUp /\ WorkersRunning
  BY <1>2, <1>3 DEF ReadsHold, ReadHolds, StartedShape, OnlyWhileUp,
     WorkersRunning, Underway, Live
<1> QED
  BY <1>4, <1>6, <1>7, <1>8 DEF DelegationInv

(* Every step keeps the invariant.                                         *)
LEMMA DelegationNext ==
  DelegationInv /\ [NextDelegation]_allVars => DelegationInv'
<1> SUFFICES ASSUME DelegationInv, [NextDelegation]_allVars
             PROVE  DelegationInv'
  OBVIOUS
<1>1. CASE (\E t \in TaskIds : ClientEvent(t)) \/ OtherEvent
  BY <1>1, ClientStep
<1>2. ASSUME NEW d \in Requests, DelegateNext(d) PROVE DelegationInv'
  BY <1>2, RequestDelegateStep, ReadTaskStep, ReadDetailStep, ReadRevisionStep,
     DelegateFailsStep, StartBatchStep, RegistrySteps DEF DelegateNext
<1>3. ASSUME NEW a \in AttemptIds, RunNext(a) PROVE DelegationInv'
  BY <1>3, RunSteps, RecordStep DEF RunNext
<1>4. CASE Crash
  BY <1>4, CrashInv
<1>5. CASE RecoverNext
  BY <1>5, RecoverQuietStep, RecoverAttemptStep DEF RecoverNext
<1>6. CASE UNCHANGED allVars
  <2>1. /\ UNCHANGED <<vars, effects, clean, requests, run, acted, executor,
                       orphans, fresh>>
        /\ UNCHANGED attempts
    BY <1>6 DEF allVars, execVars, vars
  <2>2. TypeDelegation /\ TypeOK
    BY DEF DelegationInv, TypeDelegation
  <2>3. TypeOK'
    BY <2>1, <2>2 DEF vars, TypeOK
  <2>4. TypeDelegation'
    BY <2>1, <2>2, <2>3 DEF TypeDelegation
  <2>5. Owned' /\ OneRunning' /\ Finite' /\ BudgetKept'
    BY <2>1, AttemptsQuiet
  <2>6. ReadsHold'
    BY <2>1, ReadStays DEF ReadsHold
  <2>7. StartedShape' /\ OnlyWhileUp' /\ WorkersRunning'
    BY <2>1 DEF DelegationInv, StartedShape, OnlyWhileUp, WorkersRunning,
       Underway, Live
  <2> QED BY <2>4, <2>5, <2>6, <2>7 DEF DelegationInv
<1> QED
  BY <1>1, <1>2, <1>3, <1>4, <1>5, <1>6 DEF NextDelegation

(* In every reachable state a call with a current revision may rely on     *)
(* what it read, and calls and runs belong to journalled attempts.         *)
THEOREM DelegationInvariant == SpecDelegation => []DelegationInv
  BY DelegationInit, DelegationNext, PTL DEF SpecDelegation

(* The attempt budget holds for a task over its whole life, however many   *)
(* calls of Delegate check it at once.                                     *)
THEOREM BudgetTheorem == SpecDelegation => []BudgetKept
<1>1. DelegationInv => BudgetKept
  BY DEF DelegationInv
<1> QED
  BY <1>1, DelegationInvariant, PTL

(* A worker acts only for an attempt the journal shows as running, and a   *)
(* task has one worker (Delegate, Recover, the project lock).              *)
THEOREM WorkersTheorem == SpecDelegation => []WorkersAreJournalled
<1>1. DelegationInv => WorkersAreJournalled
  BY DEF DelegationInv, WorkersRunning, OneRunning, WorkersAreJournalled
<1> QED
  BY <1>1, DelegationInvariant, PTL

(* Only the batch of Delegate starts an attempt.                           *)
LEMMA StartsInBatch ==
  ASSUME DelegationInv, [NextDelegation]_allVars, NEW b \in AttemptIds,
         attempts[b].status = "absent", attempts'[b].status = "running"
  PROVE  \E d \in Requests, known \in BOOLEAN : StartBatch(d, b, known)
<1>1. TypeDelegation /\ TypeOK
  BY DEF DelegationInv, TypeDelegation
<1>2. ~ UNCHANGED attempts
  OBVIOUS
<1>3. CASE (\E t \in TaskIds : ClientEvent(t)) \/ OtherEvent
  BY <1>2, <1>3, ClientIsReducer
<1>4. ASSUME NEW d \in Requests, DelegateNext(d)
      PROVE  \E known \in BOOLEAN : StartBatch(d, b, known)
  <2>1. ASSUME NEW a \in AttemptIds, NEW known \in BOOLEAN,
               StartBatch(d, a, known)
        PROVE  a = b
    BY <1>1, <2>1 DEF StartBatch, TypeOK
  <2>2. \E a \in AttemptIds, known \in BOOLEAN : StartBatch(d, a, known)
    BY <1>2, <1>4 DEF DelegateNext, RequestDelegate, ReadTask, ReadDetail,
       ReadRevision, DelegateFails, StartOperation, RegistryFull, vars
  <2> QED BY <2>1, <2>2
<1>5. ASSUME NEW a \in AttemptIds, RunNext(a) \/ RecoverAttempt(a)
      PROVE  FALSE
  <2>1. \/ UNCHANGED attempts
        \/ \E c \in Commits : CandidateProduced(attempts[a].task, a, c)
        \/ \E x \in BOOLEAN : AttemptFailed(attempts[a].task, a, x)
    <3>1. CASE RecoverAttempt(a)
      BY <3>1, Zenon DEF RecoverAttempt
    <3>2. CASE RecordFailure(a)
      <4>1. (run[a] = "cancel") \in BOOLEAN
        OBVIOUS
      <4> QED BY <3>2, <4>1, Zenon DEF RecordFailure
    <3>3. CASE \E c \in Commits : RecordCandidate(a, c)
      BY <3>3, Zenon DEF RecordCandidate
    <3>4. CASE WorktreeFails(a) \/ StartSession(a) \/ SessionEnds(a)
               \/ OutcomeUnrecorded(a)
      BY <3>4 DEF WorktreeFails, StartSession, SessionEnds, OutcomeUnrecorded,
         Outcome, RunStep, vars
    <3> QED BY <1>5, <3>1, <3>2, <3>3, <3>4 DEF RunNext
  <2>2. attempts[a].status = "running" \/ UNCHANGED attempts
    BY <2>1 DEF CandidateProduced, AttemptFailed, AttemptEnds, CanFinish,
       CanFinishAttempt
  <2>3. attempts[a].status = "running"
    BY <1>2, <2>2
  <2>4. \A x \in AttemptIds \ {a} : attempts'[x] = attempts[x]
    BY <1>1, <1>2, <2>1, <2>3, RunningTask, EndingTyped
  <2> QED BY <2>3, <2>4
<1>6. CASE Crash
  BY <1>2, <1>6 DEF Crash, vars
<1>7. CASE RecoverScan \/ RecoverReadRevision \/ RecoverFails \/ ExecutorUp
  BY <1>2, <1>7 DEF RecoverScan, RecoverReadRevision, RecoverFails, ExecutorUp,
     vars
<1>8. CASE UNCHANGED allVars
  BY <1>2, <1>8 DEF allVars, vars
<1> QED
  BY <1>3, <1>4, <1>5, <1>6, <1>7, <1>8 DEF NextDelegation, RecoverNext

(* When an attempt starts, the effects of every earlier attempt of its     *)
(* task are known, whatever crashed or recovered since the call read them  *)
(* (Delegate: "must not be silently retried with a second model call").    *)
THEOREM RetryTheorem == SpecDelegation => NoSilentRetry
<1>1. DelegationInv /\ [NextDelegation]_allVars =>
        [ \A b \in AttemptIds :
            attempts[b].status = "absent" /\ attempts'[b].status = "running" =>
              \A a \in AttemptsOf(attempts'[b].task) : EffectsKnown(a) ]_allVars
  <2> SUFFICES ASSUME DelegationInv, [NextDelegation]_allVars,
                      NEW b \in AttemptIds,
                      attempts[b].status = "absent",
                      attempts'[b].status = "running"
               PROVE  \A a \in AttemptsOf(attempts'[b].task) : EffectsKnown(a)
    OBVIOUS
  <2>1. PICK d \in Requests, known \in BOOLEAN : StartBatch(d, b, known)
    BY StartsInBatch
  <2>2. /\ TypeDelegation /\ TypeOK /\ Owned
        /\ At(d, "checked") /\ BatchApplies(d, b)
    BY <2>1 DEF DelegationInv, TypeDelegation, StartBatch
  <2>3. /\ requests[d].task \in TaskIds
        /\ Delegable(requests[d].task, requests[d].state)
        /\ ~HasRunningAttempt(requests[d].task)
    BY <2>2, BatchIsJustified
  <2>4. attempts'[b].task = requests[d].task
    BY <2>1, <2>2, <2>3, StartBatchTyped
  <2>5. ASSUME NEW a \in AttemptIds, attempts[a].task = requests[d].task
        PROVE  EffectsKnown(a)
    <3>1. attempts[a].status \notin {"absent", "running", "blocked"}
      BY <2>2, <2>3, <2>5, NoneAssumption DEF Owned, HasRunningAttempt
    <3>2. attempts[a].status \in {"candidate_produced", "failed", "cancelled"}
      BY <2>2, <3>1 DEF TypeOK, Attempt, AttemptStatuses, AttemptTerminal
    <3>3. effects[a] = "none"
      BY <2>2, <2>3, <2>5 DEF Delegable, AttemptsOf, TypeDelegation
    <3> QED BY <3>2, <3>3 DEF EffectsKnown
  <2> QED BY <2>4, <2>5 DEF AttemptsOf
<1> QED
  BY <1>1, DelegationInvariant, PTL DEF SpecDelegation, NoSilentRetry

=============================================================================
