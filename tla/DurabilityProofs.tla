-------------------------- MODULE DurabilityProofs --------------------------
(***************************************************************************)
(* Theorems about the components whose state outlives a process: the       *)
(* setup ledger (Setup), the activation of portfolios (Activation) and the *)
(* doctor's profile cache (Doctor).  They hold for all bounds on calls,    *)
(* failing file operations, stops and clocks.                              *)
(***************************************************************************)
EXTENDS Setup, Activation, Doctor, SetupPlanner, SequenceTheorems,
        WellFoundedInduction, TLAPS

-----------------------------------------------------------------------------
(* The setup ledger.                                                       *)

LedgerTypes ==
  {"created", "approved", "starting", "process", "postcondition",
   "terminated", "finished"}
LedgerStatuses ==
  {"", "succeeded", "failed", "blocked", "manual_required"}

LedgerLine ==
  [seq : Nat, type : LedgerTypes, plan : SetupPlanIds, exec : Nat,
   act : Nat, status : LedgerStatuses]

CallSteps ==
  {"idle", "created", "approved", "pre", "starting", "manual", "op",
   "process", "post", "terminate", "finish", "reconcile", "resolve"}

CallRecord ==
  [pc : CallSteps, plan : SetupPlanIds, exec : Nat, at : Nat, tip : Nat,
   passed : BOOLEAN, halt : BOOLEAN, todo : SUBSET Nat]

SetupTyped ==
  /\ ledgerLines \in Seq(LedgerLine)
  /\ durableLines \in 0 .. Len(ledgerLines)
  /\ run \in CallRecord
  /\ run.todo \subseteq DOMAIN ledgerLines
  /\ run.pc = "resolve" => run.at \in DOMAIN ledgerLines
  /\ touched \subseteq Nat \X Nat
  /\ executions \in Nat

(* The line that starts action t = <<execution, position>> is synced.      *)
StartSynced(t) ==
  \E n \in 1 .. durableLines :
    /\ ledgerLines[n].type = "starting"
    /\ ledgerLines[n].exec = t[1] /\ ledgerLines[n].act = t[2]

Terminated(t) == Has(ledgerLines, "terminated", t[1], t[2])

CurrentAction == <<run.exec, run.at>>

(* Where the call that holds the lock knows every effect to be settled,    *)
(* and where every one but that of the current action.                     *)
BeforeEffect == {"created", "approved", "pre", "starting", "manual", "op"}
AfterEffect == {"process", "post", "terminate"}

SetupInv ==
  /\ SetupTyped
  /\ \A t \in touched : StartSynced(t)
  /\ run.pc = "op" => StartSynced(CurrentAction)
  /\ run.pc \in BeforeEffect => \A t \in touched : Terminated(t)
  /\ run.pc \in AfterEffect =>
       \A t \in touched : t # CurrentAction => Terminated(t)

(* The ledger keeps what it has.                                           *)
LedgerGrows ==
  /\ ledgerLines' \in Seq(LedgerLine)
  /\ Len(ledgerLines') >= Len(ledgerLines)
  /\ \A n \in DOMAIN ledgerLines : ledgerLines'[n] = ledgerLines[n]
  /\ durableLines' \in durableLines .. Len(ledgerLines')

(* What a line says is not lost when the ledger grows.                     *)
LEMMA GrownLedger ==
  ASSUME SetupTyped, LedgerGrows, NEW t
  PROVE  /\ StartSynced(t) => StartSynced(t)'
         /\ Terminated(t) => Terminated(t)'
         /\ DOMAIN ledgerLines \subseteq DOMAIN ledgerLines'
<1>1. DOMAIN ledgerLines \subseteq DOMAIN ledgerLines'
  BY DEF SetupTyped, LedgerGrows
<1>2. 1 .. durableLines \subseteq 1 .. durableLines'
  BY DEF SetupTyped, LedgerGrows
<1>3. 1 .. durableLines \subseteq DOMAIN ledgerLines
  BY DEF SetupTyped
<1> QED
  BY <1>1, <1>2, <1>3 DEF LedgerGrows, StartSynced, Terminated, Has

(* An append adds at most one line, with what it was given; when it        *)
(* succeeds that line is synced, and when it fails the call goes on as the *)
(* code says for a failed append.                                          *)
LEMMA LoggedLine ==
  ASSUME SetupTyped, NEW event \in LedgerLine, NEW next, NEW failed,
         Log(event, next, failed)
  PROVE  /\ LedgerGrows
         /\ \/ run' = failed
            \/ /\ run' = [next EXCEPT !.tip = run.tip + 1]
               /\ durableLines' = Len(ledgerLines')
               /\ Len(ledgerLines') \in DOMAIN ledgerLines'
               /\ ledgerLines'[Len(ledgerLines')].type = event.type
               /\ ledgerLines'[Len(ledgerLines')].exec = event.exec
               /\ ledgerLines'[Len(ledgerLines')].act = event.act
<1> DEFINE line == IF ledgerTail THEN [event EXCEPT !.seq = 0] ELSE event
<1>1. /\ line \in LedgerLine /\ line.type = event.type
      /\ line.exec = event.exec /\ line.act = event.act
  BY DEF LedgerLine
<1>2. Written(event) = Append(ledgerLines, line)
  BY DEF Written
<1> HIDE DEF line
<1>3. /\ Written(event) \in Seq(LedgerLine)
      /\ Len(Written(event)) = Len(ledgerLines) + 1
      /\ Written(event)[Len(ledgerLines) + 1] = line
      /\ \A n \in DOMAIN ledgerLines : Written(event)[n] = ledgerLines[n]
      /\ Len(ledgerLines) \in Nat
      /\ DOMAIN Written(event) = 1 .. Len(Written(event))
  BY <1>1, <1>2 DEF SetupTyped
<1>4. CASE AppendSynced(event, next)
  BY <1>1, <1>3, <1>4 DEF AppendSynced, SetupTyped, LedgerGrows
<1>5. CASE AppendFails(event, failed)
  BY <1>3, <1>5 DEF AppendFails, SetupTyped, LedgerGrows
<1> QED BY <1>4, <1>5 DEF Log

(* A step of the call that only appends keeps the invariant, if the call   *)
(* goes on where its effects are as settled as it then takes them to be.   *)
LEMMA LogStep ==
  ASSUME SetupInv, KeepsMachine,
         NEW event \in LedgerLine, NEW next \in CallRecord,
         NEW failed \in CallRecord, Log(event, next, failed),
         next.todo \subseteq DOMAIN ledgerLines,
         failed.todo \subseteq DOMAIN ledgerLines,
         next.pc = "resolve" => next.at \in DOMAIN ledgerLines,
         failed.pc \in {"idle", "finish"},
         next.pc = "op" =>
           /\ event.type = "starting"
           /\ event.exec = next.exec /\ event.act = next.at,
         next.pc \in BeforeEffect =>
           \A t \in touched :
             \/ Terminated(t)
             \/ /\ event.type = "terminated"
                /\ event.exec = t[1] /\ event.act = t[2],
         next.pc \in AfterEffect =>
           \A t \in touched : t # <<next.exec, next.at>> => Terminated(t)
  PROVE  SetupInv'
<1> DEFINE new == [next EXCEPT !.tip = run.tip + 1]
<1>1. SetupTyped
  BY DEF SetupInv
<1>2. /\ LedgerGrows
      /\ \/ run' = failed
         \/ /\ run' = new
            /\ durableLines' = Len(ledgerLines')
            /\ Len(ledgerLines') \in DOMAIN ledgerLines'
            /\ ledgerLines'[Len(ledgerLines')].type = event.type
            /\ ledgerLines'[Len(ledgerLines')].exec = event.exec
            /\ ledgerLines'[Len(ledgerLines')].act = event.act
  BY <1>1, LoggedLine
<1>3. /\ new \in CallRecord /\ new.pc = next.pc /\ new.at = next.at
      /\ new.exec = next.exec /\ new.todo = next.todo
  <2>1. run.tip + 1 \in Nat
    BY <1>1 DEF SetupTyped, CallRecord
  <2> QED BY <2>1 DEF CallRecord
<1> HIDE DEF new
<1>4. UNCHANGED <<touched, executions>>
  BY DEF KeepsMachine
<1>5. DOMAIN ledgerLines \subseteq DOMAIN ledgerLines'
  BY <1>1, <1>2, GrownLedger
<1>6. SetupTyped'
  BY <1>1, <1>2, <1>3, <1>4, <1>5 DEF SetupTyped, LedgerGrows
<1>7. \A t \in touched' : StartSynced(t)'
  BY <1>1, <1>2, <1>4, GrownLedger DEF SetupInv
<1>8. \A t \in touched : Terminated(t) => Terminated(t)'
  BY <1>1, <1>2, GrownLedger
<1>9. CASE run' = failed
  BY <1>6, <1>7, <1>9 DEF SetupInv, BeforeEffect, AfterEffect
<1>10. CASE run' # failed
  <2>1. /\ run' = new /\ durableLines' \in 1 .. durableLines'
        /\ durableLines' \in DOMAIN ledgerLines'
        /\ ledgerLines'[durableLines'].type = event.type
        /\ ledgerLines'[durableLines'].exec = event.exec
        /\ ledgerLines'[durableLines'].act = event.act
    BY <1>1, <1>2, <1>6, <1>10 DEF SetupTyped
  <2>2. run'.pc = "op" => StartSynced(CurrentAction)'
    BY <1>3, <2>1 DEF StartSynced, CurrentAction
  <2>3. run'.pc \in BeforeEffect => \A t \in touched' : Terminated(t)'
    <3>1. ASSUME NEW t \in touched, event.type = "terminated",
                 event.exec = t[1], event.act = t[2]
          PROVE  Terminated(t)'
      BY <2>1, <3>1 DEF Terminated, Has
    <3> QED BY <1>3, <1>4, <1>8, <2>1, <3>1
  <2>4. run'.pc \in AfterEffect =>
          \A t \in touched' : t # CurrentAction' => Terminated(t)'
    BY <1>3, <1>4, <1>8, <2>1 DEF CurrentAction
  <2> QED BY <1>6, <1>7, <2>2, <2>3, <2>4 DEF SetupInv
<1> QED BY <1>9, <1>10

(* The lines and the calls that Apply and Recover make have their type.    *)
LEMMA SetupRecords ==
  ASSUME SetupTyped
  PROVE  /\ IdleRun \in CallRecord /\ IdleRun.pc = "idle"
         /\ IdleRun.todo = {}
         /\ WalkFails \in CallRecord /\ WalkFails.pc = "finish"
         /\ WalkFails.todo = run.todo
         /\ \A type \in LedgerTypes, p \in SetupPlanIds, x, i \in Nat,
               status \in LedgerStatuses :
              /\ Event(type, p, x, i, status) \in LedgerLine
              /\ Event(type, p, x, i, status).type = type
              /\ Event(type, p, x, i, status).exec = x
              /\ Event(type, p, x, i, status).act = i
         /\ \A type \in LedgerTypes, status \in LedgerStatuses :
              /\ ActionEvent(type, status) \in LedgerLine
              /\ ActionEvent(type, status).type = type
              /\ ActionEvent(type, status).exec = run.exec
              /\ ActionEvent(type, status).act = run.at
              /\ RunEvent(type, status) \in LedgerLine
         /\ run.plan \in SetupPlanIds /\ run.exec \in Nat /\ run.at \in Nat
<1>1. "p1" \in SetupPlanIds
  BY DEF SetupPlanIds, SetupActions
<1>2. run.tip + 1 \in Nat /\ run \in CallRecord
  BY DEF SetupTyped, CallRecord
<1>3. /\ IdleRun \in CallRecord /\ IdleRun.pc = "idle"
      /\ IdleRun.todo = {}
  BY <1>1 DEF IdleRun, CallRecord, CallSteps
<1>4. /\ WalkFails \in CallRecord /\ WalkFails.pc = "finish"
      /\ WalkFails.todo = run.todo
  BY <1>2 DEF WalkFails, CallRecord, CallSteps
<1>5. \A type \in LedgerTypes, p \in SetupPlanIds, x, i \in Nat,
         status \in LedgerStatuses :
              /\ Event(type, p, x, i, status) \in LedgerLine
              /\ Event(type, p, x, i, status).type = type
              /\ Event(type, p, x, i, status).exec = x
              /\ Event(type, p, x, i, status).act = i
  BY <1>2 DEF Event, LedgerLine
<1>6. run.plan \in SetupPlanIds /\ run.exec \in Nat /\ run.at \in Nat
  BY <1>2 DEF CallRecord
<1>7. ASSUME NEW type \in LedgerTypes, NEW status \in LedgerStatuses
      PROVE  /\ ActionEvent(type, status) \in LedgerLine
             /\ ActionEvent(type, status).type = type
             /\ ActionEvent(type, status).exec = run.exec
             /\ ActionEvent(type, status).act = run.at
             /\ RunEvent(type, status) \in LedgerLine
  BY <1>5, <1>6 DEF ActionEvent, RunEvent
<1> QED
  BY <1>3, <1>4, <1>5, <1>6, <1>7

(* ExecutionCreated and PlanApproved.                                      *)
LEMMA ApplyBegins ==
  ASSUME SetupInv, ApplyCreated \/ ApplyApproved
  PROVE  SetupInv'
<1>1. /\ SetupTyped /\ run \in CallRecord
      /\ run.pc \in {"created", "approved"}
  BY DEF SetupInv, SetupTyped, ApplyCreated, ApplyApproved
<1>2. PICK type \in {"created", "approved"},
           next \in {[run EXCEPT !.pc = "approved"],
                    [run EXCEPT !.pc = "pre", !.at = 1]} :
        Log(RunEvent(type, ""), next, IdleRun) /\ KeepsMachine
  BY DEF ApplyCreated, ApplyApproved
<1>3. /\ next \in CallRecord /\ next.pc \in {"approved", "pre"}
      /\ next.todo = run.todo
  <2>1. CASE next = [run EXCEPT !.pc = "approved"]
    BY <1>1, <2>1 DEF CallRecord, CallSteps
  <2>2. CASE next = [run EXCEPT !.pc = "pre", !.at = 1]
    BY <1>1, <2>2 DEF CallRecord, CallSteps
  <2> QED BY <2>1, <2>2
<1>4. RunEvent(type, "") \in LedgerLine
  <2>1. type \in LedgerTypes /\ "" \in LedgerStatuses
    BY DEF LedgerTypes, LedgerStatuses
  <2> QED BY <1>1, <2>1, SetupRecords
<1>5. \A t \in touched : Terminated(t)
  BY <1>1 DEF SetupInv, BeforeEffect
<1> QED
  BY <1>1, <1>2, <1>3, <1>4, <1>5, SetupRecords, LogStep
     DEF SetupTyped, AfterEffect

(* Apply opens the ledger, and finds nothing interrupted in it.            *)
LEMMA ApplyStep ==
  ASSUME SetupInv, NEW p \in SetupPlanIds, Apply(p)
  PROVE  SetupInv'
<1>1. /\ SetupTyped /\ executions + 1 \in Nat /\ Len(ledgerLines) \in Nat
      /\ 1 .. durableLines \subseteq DOMAIN ledgerLines
  BY DEF SetupInv, SetupTyped
<1>2. /\ UNCHANGED <<ledgerLines, durableLines, touched>>
      /\ executions' = executions + 1 /\ FindInterrupted(ledgerLines) = {}
  BY DEF Apply, OpenLedger
<1>3. /\ run' \in CallRecord /\ run'.pc = "created" /\ run'.todo = {}
  BY <1>1, SetupRecords DEF Apply, CallRecord, CallSteps
<1>4. SetupTyped'
  BY <1>1, <1>2, <1>3 DEF SetupTyped
<1>5. ASSUME NEW t \in touched
      PROVE  StartSynced(t)' /\ Terminated(t)'
  <2>1. StartSynced(t)
    BY DEF SetupInv
  <2>2. PICK n \in DOMAIN ledgerLines :
          /\ ledgerLines[n].type = "starting"
          /\ ledgerLines[n].exec = t[1] /\ ledgerLines[n].act = t[2]
    BY <1>1, <2>1 DEF StartSynced
  <2>3. Terminated(t)
    BY <1>2, <2>2 DEF FindInterrupted, Terminated
  <2> QED BY <1>2, <2>1, <2>3 DEF StartSynced, Terminated
<1> QED
  BY <1>2, <1>3, <1>4, <1>5 DEF SetupInv, AfterEffect

(* The preconditions of the next action hold, or the walk fails.           *)
LEMMA PreconditionStep ==
  ASSUME SetupInv, WalkPreconditions
  PROVE  SetupInv'
<1>1. /\ SetupTyped /\ run \in CallRecord /\ run.pc = "pre"
      /\ run.todo \subseteq DOMAIN ledgerLines
  BY DEF SetupInv, SetupTyped, WalkPreconditions
<1>2. UNCHANGED <<ledgerLines, durableLines, touched, executions>>
  BY DEF WalkPreconditions, KeepsMachine
<1>3. run' = [run EXCEPT !.pc = "starting"] \/ run' = WalkFails
  BY DEF WalkPreconditions
<1>4. /\ run' \in CallRecord /\ run'.pc \in {"starting", "finish"}
      /\ run'.todo = run.todo
  <2>1. CASE run' = [run EXCEPT !.pc = "starting"]
    BY <1>1, <2>1 DEF CallRecord, CallSteps
  <2>2. CASE run' = WalkFails
    BY <1>1, <2>2, SetupRecords
  <2> QED BY <1>3, <2>1, <2>2
<1>5. SetupTyped'
  BY <1>1, <1>2, <1>4 DEF SetupTyped
<1>6. \A t \in touched : StartSynced(t)' /\ Terminated(t)'
  BY <1>1, <1>2 DEF SetupInv, BeforeEffect, StartSynced, Terminated
<1> QED
  BY <1>2, <1>4, <1>5, <1>6 DEF SetupInv, AfterEffect

(* ActionStarting is appended before the operation.                        *)
LEMMA StartingStep ==
  ASSUME SetupInv, WalkStarting
  PROVE  SetupInv'
<1>1. /\ SetupTyped /\ run \in CallRecord /\ run.pc = "starting"
      /\ run.todo \subseteq DOMAIN ledgerLines
  BY DEF SetupInv, SetupTyped, WalkStarting
<1> DEFINE next ==
      [run EXCEPT !.pc = IF Current = "manual" THEN "manual" ELSE "op"]
<1>2. Log(ActionEvent("starting", ""), next, WalkFails) /\ KeepsMachine
  BY DEF WalkStarting
<1>3. /\ next \in CallRecord /\ next.pc \in {"manual", "op"}
      /\ next.todo = run.todo /\ next.exec = run.exec /\ next.at = run.at
  BY <1>1 DEF CallRecord, CallSteps
<1>4. /\ ActionEvent("starting", "") \in LedgerLine
      /\ ActionEvent("starting", "").type = "starting"
      /\ ActionEvent("starting", "").exec = run.exec
      /\ ActionEvent("starting", "").act = run.at
  <2>1. "starting" \in LedgerTypes /\ "" \in LedgerStatuses
    BY DEF LedgerTypes, LedgerStatuses
  <2> QED BY <1>1, <2>1, SetupRecords
<1>5. \A t \in touched : Terminated(t)
  BY <1>1 DEF SetupInv, BeforeEffect
<1>6. next.pc # "resolve" /\ next.pc \notin AfterEffect
  BY <1>3 DEF AfterEffect
<1>7. /\ WalkFails \in CallRecord /\ WalkFails.pc = "finish"
      /\ WalkFails.todo = run.todo
  BY <1>1, SetupRecords
<1> HIDE DEF next
<1> QED
  BY <1>1, <1>2, <1>3, <1>4, <1>5, <1>6, <1>7, LogStep

(* The operation may do anything; its start is in the ledger.              *)
LEMMA OperationStep ==
  ASSUME SetupInv, WalkOperation
  PROVE  SetupInv'
<1>1. /\ SetupTyped /\ run \in CallRecord /\ run.pc = "op"
      /\ run.todo \subseteq DOMAIN ledgerLines
      /\ run.exec \in Nat /\ run.at \in Nat
  BY SetupRecords DEF SetupInv, SetupTyped, WalkOperation
<1>2. /\ UNCHANGED <<ledgerLines, durableLines, executions>>
      /\ touched' = touched \cup {CurrentAction}
  BY DEF WalkOperation, CurrentAction
<1>3. PICK o \in applyOperation(Current) :
        run' = [run EXCEPT !.pc = IF o.proc THEN "process" ELSE "post",
                           !.passed = o.ok, !.halt = FALSE]
  BY DEF WalkOperation
<1>4. o.ok \in BOOLEAN
  <2>1. o \in OperationOutcomes \/ o \in LocalOutcomes(Current)
    BY DEF applyOperation, MlxEnsureModel, OllamaEnsureModel,
           DiagnosticOutcomes
  <2>2. CASE o \in OperationOutcomes
    BY <2>2 DEF OperationOutcomes
  <2>3. CASE o \in LocalOutcomes(Current)
    <3>1. \/ o = [effect |-> "yes", ok |-> TRUE, proc |-> FALSE]
          \/ o = [effect |-> machine[Current], ok |-> FALSE, proc |-> FALSE]
      BY <2>3 DEF LocalOutcomes
    <3>2. o.ok = TRUE \/ o.ok = FALSE
      BY <3>1
    <3> QED BY <3>2
  <2> QED BY <2>1, <2>2, <2>3
<1>5. /\ run' \in CallRecord /\ run'.pc \in {"process", "post"}
      /\ run'.todo = run.todo /\ run'.exec = run.exec /\ run'.at = run.at
  BY <1>1, <1>3, <1>4 DEF CallRecord, CallSteps
<1>6. SetupTyped'
  BY <1>1, <1>2, <1>5 DEF SetupTyped, CurrentAction
<1>7. /\ \A t \in touched : StartSynced(t)' /\ Terminated(t)'
      /\ StartSynced(CurrentAction)
  BY <1>1, <1>2 DEF SetupInv, BeforeEffect, StartSynced, Terminated
<1>8. StartSynced(CurrentAction)' /\ CurrentAction' = CurrentAction
  BY <1>2, <1>5, <1>7 DEF StartSynced, CurrentAction
<1>9. \A t \in touched' : StartSynced(t)'
  BY <1>2, <1>7, <1>8
<1>10. \A t \in touched' : t # CurrentAction' => Terminated(t)'
  BY <1>2, <1>7, <1>8
<1> QED
  BY <1>5, <1>6, <1>9, <1>10 DEF SetupInv, BeforeEffect

(* Within an action the call stays after the effect.                       *)
LEMMA StayStep ==
  ASSUME SetupInv, KeepsMachine, run.pc \in AfterEffect,
         NEW event \in LedgerLine, NEW next \in CallRecord,
         next.pc \in AfterEffect, next.todo = run.todo,
         next.exec = run.exec, next.at = run.at,
         Log(event, next, WalkFails)
  PROVE  SetupInv'
<1>1. SetupTyped /\ run.todo \subseteq DOMAIN ledgerLines
  BY DEF SetupInv, SetupTyped
<1>2. \A t \in touched : t # <<next.exec, next.at>> => Terminated(t)
  BY DEF SetupInv, CurrentAction
<1>3. /\ next.pc \notin BeforeEffect /\ next.pc # "op"
      /\ next.pc # "resolve"
  BY DEF AfterEffect, BeforeEffect
<1>4. /\ WalkFails \in CallRecord /\ WalkFails.pc = "finish"
      /\ WalkFails.todo = run.todo
  BY <1>1, SetupRecords
<1> QED BY <1>1, <1>2, <1>3, <1>4, LogStep

(* Outside of an action, or giving it up, the call claims nothing.         *)
LEMMA LeaveStep ==
  ASSUME SetupInv, KeepsMachine,
         NEW event \in LedgerLine, NEW next \in CallRecord,
         NEW failed \in {IdleRun, WalkFails}, Log(event, next, failed),
         next.pc \in {"idle", "finish", "reconcile", "resolve"},
         next.todo \subseteq run.todo,
         next.pc = "resolve" => next.at \in DOMAIN ledgerLines
  PROVE  SetupInv'
<1>1. SetupTyped /\ run.todo \subseteq DOMAIN ledgerLines
  BY DEF SetupInv, SetupTyped
<1>2. /\ next.pc \notin BeforeEffect /\ next.pc # "op"
      /\ next.pc \notin AfterEffect
  BY DEF AfterEffect, BeforeEffect
<1>3. /\ failed \in CallRecord /\ failed.pc \in {"idle", "finish"}
      /\ failed.todo \subseteq run.todo
  BY <1>1, SetupRecords
<1> QED BY <1>1, <1>2, <1>3, LogStep

(* ActionProcessCompleted, and the evidence of the postconditions.         *)
LEMMA EvidenceSteps ==
  ASSUME SetupInv, WalkProcessCompleted \/ WalkPostcondition
  PROVE  SetupInv'
<1>1. /\ SetupTyped /\ run \in CallRecord /\ run.pc \in AfterEffect
      /\ run.todo \subseteq DOMAIN ledgerLines
  BY DEF SetupInv, SetupTyped, WalkProcessCompleted, WalkPostcondition,
         AfterEffect
<1>2. /\ ActionEvent("process", "") \in LedgerLine
      /\ ActionEvent("postcondition", "") \in LedgerLine
  <2>1. /\ "process" \in LedgerTypes /\ "postcondition" \in LedgerTypes
        /\ "" \in LedgerStatuses
    BY DEF LedgerTypes, LedgerStatuses
  <2> QED BY <1>1, <2>1, SetupRecords
<1>3. CASE WalkProcessCompleted
  <2> DEFINE next == [run EXCEPT !.pc = "post"]
  <2>1. Log(ActionEvent("process", ""), next, WalkFails) /\ KeepsMachine
    BY <1>3 DEF WalkProcessCompleted
  <2>2. /\ next \in CallRecord /\ next.pc \in AfterEffect
        /\ next.todo = run.todo /\ next.exec = run.exec /\ next.at = run.at
    BY <1>1 DEF CallRecord, CallSteps, AfterEffect
  <2> HIDE DEF next
  <2> QED BY <1>1, <1>2, <2>1, <2>2, StayStep
<1>4. ASSUME KeepsMachine, NEW holds,
             Log(ActionEvent("postcondition", ""),
                 [run EXCEPT !.pc = "terminate",
                             !.passed = @ /\ holds = "holds",
                             !.halt = holds = "error"],
                 WalkFails)
      PROVE  SetupInv'
  <2> DEFINE b == run.passed /\ holds = "holds"
             next == [run EXCEPT !.pc = "terminate", !.passed = b,
                                 !.halt = holds = "error"]
  <2>1. b \in BOOLEAN /\ (holds = "error") \in BOOLEAN
    OBVIOUS
  <2>2. /\ next \in CallRecord /\ next.pc \in AfterEffect
        /\ next.todo = run.todo /\ next.exec = run.exec /\ next.at = run.at
    <3> HIDE DEF b
    <3> QED BY <1>1, <2>1 DEF CallRecord, CallSteps, AfterEffect
  <2>3. Log(ActionEvent("postcondition", ""), next, WalkFails)
    BY <1>4
  <2> HIDE DEF next
  <2> QED BY <1>1, <1>2, <1>4, <2>2, <2>3, StayStep
<1>5. ASSUME KeepsMachine, run' = [run EXCEPT !.pc = "terminate"],
             UNCHANGED <<ledgerLines, ledgerTail, durableLines,
                         appendFaults>>
      PROVE  SetupInv'
  <2>1. UNCHANGED <<ledgerLines, durableLines, touched, executions>>
    BY <1>5 DEF KeepsMachine
  <2>2. /\ run' \in CallRecord /\ run'.pc = "terminate"
        /\ run'.todo = run.todo /\ CurrentAction' = CurrentAction
    BY <1>1, <1>5 DEF CallRecord, CallSteps, CurrentAction
  <2>3. SetupTyped'
    BY <1>1, <2>1, <2>2 DEF SetupTyped
  <2>4. \A t \in touched' : StartSynced(t)'
    BY <2>1 DEF SetupInv, StartSynced
  <2>5. \A t \in touched' : t # CurrentAction' => Terminated(t)'
    BY <1>1, <2>1, <2>2 DEF SetupInv, Terminated
  <2> QED
    BY <2>2, <2>3, <2>4, <2>5 DEF SetupInv, BeforeEffect
<1> QED
  BY <1>3, <1>4, <1>5 DEF WalkPostcondition

(* The outcome of the action settles it; then the next action, or the end. *)
LEMMA TerminatedStep ==
  ASSUME SetupInv, WalkTerminated
  PROVE  SetupInv'
<1> DEFINE status == IF run.passed THEN "succeeded" ELSE "failed"
           event == ActionEvent("terminated", status)
           following == [run EXCEPT !.pc = "pre", !.at = @ + 1]
<1>1. /\ SetupTyped /\ run \in CallRecord /\ run.pc = "terminate"
      /\ run.todo \subseteq DOMAIN ledgerLines
      /\ run.at \in Nat /\ run.exec \in Nat
      /\ touched \subseteq Nat \X Nat
  BY SetupRecords DEF SetupInv, SetupTyped, WalkTerminated
<1>2. /\ event \in LedgerLine /\ event.type = "terminated"
      /\ event.exec = run.exec /\ event.act = run.at
  <2>1. "terminated" \in LedgerTypes /\ status \in LedgerStatuses
    BY DEF LedgerTypes, LedgerStatuses
  <2> HIDE DEF status
  <2> QED BY <1>1, <2>1, SetupRecords
<1>3. PICK next \in {WalkFails, [run EXCEPT !.pc = "finish"], following} :
        Log(event, next, WalkFails) /\ KeepsMachine
  BY DEF WalkTerminated
<1>4. \A t \in touched :
        \/ Terminated(t)
        \/ /\ event.type = "terminated"
           /\ event.exec = t[1] /\ event.act = t[2]
  BY <1>1, <1>2 DEF SetupInv, AfterEffect, CurrentAction
<1> HIDE DEF event, status
<1>5. CASE next = following
  <2>1. /\ next \in CallRecord /\ next.pc = "pre" /\ next.todo = run.todo
    <3>1. run.at + 1 \in Nat
      BY <1>1
    <3> QED BY <1>1, <1>5, <3>1 DEF CallRecord, CallSteps
  <2>2. /\ next.pc # "op" /\ next.pc # "resolve"
        /\ next.pc \notin AfterEffect
    BY <2>1 DEF AfterEffect
  <2>3. /\ WalkFails \in CallRecord /\ WalkFails.pc = "finish"
        /\ WalkFails.todo = run.todo
    BY <1>1, SetupRecords
  <2> QED BY <1>1, <1>2, <1>3, <1>4, <2>1, <2>2, <2>3, LogStep
<1>6. CASE next # following
  <2>1. next \in CallRecord /\ next.pc = "finish" /\ next.todo = run.todo
    BY <1>1, <1>3, <1>6, SetupRecords DEF CallRecord, CallSteps
  <2> QED BY <1>1, <1>2, <1>3, <2>1, LeaveStep
<1> QED BY <1>5, <1>6

(* A manual action ends the walk, and ExecutionFinished ends Apply.        *)
LEMMA ApplyEnds ==
  ASSUME SetupInv, WalkManual \/ ApplyFinished
  PROVE  SetupInv'
<1>1. SetupTyped
  BY DEF SetupInv
<1>2. CASE WalkManual
  <2>1. ActionEvent("terminated", "manual_required") \in LedgerLine
    <3>1. /\ "terminated" \in LedgerTypes
          /\ "manual_required" \in LedgerStatuses
      BY DEF LedgerTypes, LedgerStatuses
    <3> QED BY <1>1, <3>1, SetupRecords
  <2>2. /\ Log(ActionEvent("terminated", "manual_required"), WalkFails,
               WalkFails)
        /\ KeepsMachine
    BY <1>2 DEF WalkManual
  <2> QED BY <1>1, <2>1, <2>2, SetupRecords, LeaveStep
<1>3. CASE ApplyFinished
  <2> DEFINE status == IF run.passed THEN "succeeded" ELSE "failed"
  <2>1. RunEvent("finished", status) \in LedgerLine
    <3>1. "finished" \in LedgerTypes /\ status \in LedgerStatuses
      BY DEF LedgerTypes, LedgerStatuses
    <3> HIDE DEF status
    <3> QED BY <1>1, <3>1, SetupRecords
  <2>2. Log(RunEvent("finished", status), IdleRun, IdleRun) /\ KeepsMachine
    BY <1>3 DEF ApplyFinished
  <2> HIDE DEF status
  <2> QED BY <1>1, <2>1, <2>2, SetupRecords, LeaveStep
<1> QED BY <1>2, <1>3

(* A call that takes the lock, or lets it go, and claims nothing.          *)
LEMMA QuietCall ==
  ASSUME SetupInv, run' \in CallRecord,
         UNCHANGED <<ledgerLines, durableLines, touched, executions>>,
         run'.pc \in {"idle", "reconcile"},
         run'.todo \subseteq DOMAIN ledgerLines
  PROVE  SetupInv'
<1>1. SetupTyped'
  BY DEF SetupInv, SetupTyped
<1>2. \A t \in touched' : StartSynced(t)'
  BY DEF SetupInv, StartSynced
<1> QED BY <1>1, <1>2 DEF SetupInv, BeforeEffect, AfterEffect

(* Recover opens the ledger.                                               *)
LEMMA RecoverStep ==
  ASSUME SetupInv, NEW p \in SetupPlanIds, Recover(p)
  PROVE  SetupInv'
<1>1. SetupTyped /\ ledgerLines \in Seq(LedgerLine)
  BY DEF SetupInv, SetupTyped
<1>2. UNCHANGED <<ledgerLines, durableLines, touched, executions>>
  BY DEF Recover, OpenLedger
<1>3. PICK todo \in SUBSET DOMAIN ledgerLines :
        run' = [IdleRun EXCEPT !.pc = "reconcile", !.plan = p,
                               !.tip = Len(ledgerLines), !.todo = todo]
  BY DEF Recover, FindInterrupted
<1>4. todo \in SUBSET Nat /\ Len(ledgerLines) \in Nat
  BY <1>1
<1>5. run' \in CallRecord /\ run'.pc = "reconcile" /\ run'.todo = todo
  BY <1>1, <1>3, <1>4, SetupRecords DEF CallRecord, CallSteps
<1> QED BY <1>2, <1>5, QuietCall

(* The evidence of Recover for an open action; an error ends it.           *)
LEMMA ReconcileStep ==
  ASSUME SetupInv, NEW n \in run.todo, ReconcileInterrupted(n)
  PROVE  SetupInv'
<1> DEFINE open == ledgerLines[n]
           event == Event("postcondition", open.plan, open.exec, open.act, "")
<1>1. /\ SetupTyped /\ run \in CallRecord /\ n \in DOMAIN ledgerLines
      /\ open \in LedgerLine /\ n \in Nat /\ KeepsMachine
  <2>1. /\ SetupTyped /\ run \in CallRecord /\ n \in DOMAIN ledgerLines
        /\ ledgerLines \in Seq(LedgerLine)
    BY DEF SetupInv, SetupTyped
  <2>2. KeepsMachine
    BY Zenon DEF ReconcileInterrupted
  <2> QED BY <2>1, <2>2
<1>2. event \in LedgerLine
  <2>1. /\ "postcondition" \in LedgerTypes /\ "" \in LedgerStatuses
        /\ open.plan \in SetupPlanIds /\ open.exec \in Nat
        /\ open.act \in Nat
    BY <1>1 DEF LedgerTypes, LedgerStatuses, LedgerLine
  <2> HIDE DEF open
  <2> QED BY <1>1, <2>1, SetupRecords
<1>3. CASE /\ run' = IdleRun
           /\ UNCHANGED <<ledgerLines, ledgerTail, durableLines,
                          appendFaults>>
  <2>1. UNCHANGED <<ledgerLines, durableLines, touched, executions>>
    BY <1>1, <1>3 DEF KeepsMachine
  <2> QED BY <1>1, <1>3, <2>1, SetupRecords, QuietCall
<1>4. ASSUME NEW holds,
             Log(event, [run EXCEPT !.pc = "resolve", !.at = n,
                                    !.passed = holds = "holds"], IdleRun)
      PROVE  SetupInv'
  <2> DEFINE next == [run EXCEPT !.pc = "resolve", !.at = n,
                                 !.passed = holds = "holds"]
  <2>1. /\ next \in CallRecord /\ next.pc = "resolve" /\ next.at = n
        /\ next.todo = run.todo
    <3>1. (holds = "holds") \in BOOLEAN
      OBVIOUS
    <3> QED BY <1>1, <3>1 DEF CallRecord, CallSteps
  <2>2. Log(event, next, IdleRun)
    BY <1>4
  <2> HIDE DEF next, event
  <2> QED BY <1>1, <1>2, <2>1, <2>2, LeaveStep
<1> QED
  BY <1>3, <1>4 DEF ReconcileInterrupted

(* The outcome that Recover gives an open action.                          *)
LEMMA ResolveStep ==
  ASSUME SetupInv, ResolveInterrupted
  PROVE  SetupInv'
<1> DEFINE open == ledgerLines[run.at]
           left == run.todo \ {run.at}
           status == IF run.passed THEN "succeeded" ELSE "blocked"
           event == Event("terminated", open.plan, open.exec, open.act,
                          status)
           next == IF left = {} THEN IdleRun
                   ELSE [run EXCEPT !.pc = "reconcile", !.todo = left]
<1>1. /\ SetupTyped /\ run \in CallRecord /\ open \in LedgerLine
      /\ KeepsMachine /\ left \in SUBSET Nat
  BY DEF SetupInv, SetupTyped, ResolveInterrupted, CallRecord
<1>2. event \in LedgerLine
  <2>1. /\ "terminated" \in LedgerTypes /\ status \in LedgerStatuses
        /\ open.plan \in SetupPlanIds /\ open.exec \in Nat
        /\ open.act \in Nat
    BY <1>1 DEF LedgerTypes, LedgerStatuses, LedgerLine
  <2> HIDE DEF open, status
  <2> QED BY <1>1, <2>1, SetupRecords
<1>3. /\ next \in CallRecord /\ next.pc \in {"idle", "reconcile"}
      /\ next.todo \subseteq run.todo
  <2>1. CASE left = {}
    BY <1>1, <2>1, SetupRecords
  <2>2. CASE left # {}
    <3>1. next = [run EXCEPT !.pc = "reconcile", !.todo = left]
      BY <2>2
    <3>2. left \subseteq run.todo
      OBVIOUS
    <3> HIDE DEF left, next
    <3> QED BY <1>1, <3>1, <3>2 DEF CallRecord, CallSteps
  <2> QED BY <2>1, <2>2
<1>4. Log(event, next, IdleRun)
  BY DEF ResolveInterrupted
<1> HIDE DEF next, event
<1> QED BY <1>1, <1>2, <1>3, <1>4, LeaveStep

(* A stop keeps the synced lines, and an operation cut short was started.  *)
LEMMA StopsStep ==
  ASSUME SetupInv, SetupStops
  PROVE  SetupInv'
<1>1. /\ SetupTyped /\ ledgerLines \in Seq(LedgerLine)
      /\ durableLines \in 0 .. Len(ledgerLines) /\ run \in CallRecord
  BY DEF SetupInv, SetupTyped
<1>2. PICK n \in durableLines .. Len(ledgerLines) :
        ledgerLines' = SubSeq(ledgerLines, 1, n)
  BY DEF SetupStops
<1>3. /\ ledgerLines' \in Seq(LedgerLine) /\ Len(ledgerLines') = n
      /\ \A m \in 1 .. n : ledgerLines'[m] = ledgerLines[m]
  BY <1>1, <1>2
<1>4. /\ run' = IdleRun /\ UNCHANGED <<durableLines, executions>>
      /\ \/ touched' = touched
         \/ run.pc = "op" /\ touched' = touched \cup {CurrentAction}
  BY DEF SetupStops, CurrentAction
<1>5. run' \in CallRecord /\ run'.pc = "idle" /\ run'.todo = {}
  BY <1>1, <1>4, SetupRecords
<1>6. touched' \subseteq Nat \X Nat
  BY <1>1, <1>4 DEF SetupTyped, CurrentAction, CallRecord
<1>7. SetupTyped'
  BY <1>1, <1>3, <1>4, <1>5, <1>6 DEF SetupTyped
<1>8. ASSUME NEW t \in touched'
      PROVE  StartSynced(t)'
  <2>1. StartSynced(t)
    BY <1>4 DEF SetupInv
  <2> QED BY <1>1, <1>3, <1>4, <2>1 DEF StartSynced
<1> QED
  BY <1>5, <1>7, <1>8 DEF SetupInv, BeforeEffect, AfterEffect

(* The ledger starts empty, and nobody holds the lock.                     *)
LEMMA SetupInit == InitSetup => SetupInv
<1> SUFFICES ASSUME InitSetup PROVE SetupInv
  OBVIOUS
<1>1. IdleRun \in CallRecord /\ IdleRun.pc = "idle" /\ IdleRun.todo = {}
  BY DEF IdleRun, CallRecord, CallSteps, SetupPlanIds, SetupActions
<1>2. /\ ledgerLines \in Seq(LedgerLine) /\ durableLines = 0
      /\ Len(ledgerLines) = 0 /\ run = IdleRun /\ touched = {}
      /\ executions = 0
  BY DEF InitSetup
<1> QED
  BY <1>1, <1>2 DEF SetupInv, SetupTyped, BeforeEffect, AfterEffect

(* Whatever appends fail and whenever the process or the machine stops:    *)
(* every operation that touched the machine keeps its synced start, and    *)
(* where the walk is before the next effect every earlier one is settled.  *)
THEOREM SetupInvariant == SpecSetup => []SetupInv
<1>1. SetupInv /\ [NextSetup]_setupVars => SetupInv'
  <2> SUFFICES ASSUME SetupInv, [NextSetup]_setupVars PROVE SetupInv'
    OBVIOUS
  <2>1. CASE UNCHANGED setupVars
    BY <2>1 DEF setupVars, SetupInv, SetupTyped, StartSynced, Terminated,
                CurrentAction
  <2>2. CASE NextSetup
    BY <2>2, ApplyStep, RecoverStep, ApplyBegins, PreconditionStep,
       StartingStep, ApplyEnds, OperationStep, EvidenceSteps,
       TerminatedStep, ReconcileStep, ResolveStep, StopsStep
       DEF NextSetup
  <2> QED BY <2>1, <2>2
<1> QED BY <1>1, SetupInit, PTL DEF SpecSetup

(* For every plan execution, failing append and stop: an operation keeps   *)
(* its ActionStarting line, and none begins before the outcome of every    *)
(* earlier one is in the ledger (Apply, walk, FindInterrupted).            *)
THEOREM EffectsSettled == SpecSetup => []EffectsAreSettled
<1>1. SetupInv => EffectsAreSettled
  <2> SUFFICES ASSUME SetupInv PROVE EffectsAreSettled
    OBVIOUS
  <2>1. 1 .. durableLines \subseteq DOMAIN ledgerLines
    BY DEF SetupInv, SetupTyped
  <2>2. \A t \in touched : Has(ledgerLines, "starting", t[1], t[2])
    BY <2>1 DEF SetupInv, StartSynced, Has
  <2> QED BY <2>2 DEF SetupInv, EffectsAreSettled, BeforeEffect, Terminated
<1> QED BY <1>1, SetupInvariant, PTL

-----------------------------------------------------------------------------
(* What the ledger reports.                                                *)

OnceTypes == {"starting", "terminated", "finished"}

LinesNumbered == \A n \in DOMAIN ledgerLines :
                   ledgerLines[n].exec \in 1 .. executions

(* An action is started and terminated once, an execution ends once.       *)
LoggedOnce ==
  \A m, n \in DOMAIN ledgerLines :
    /\ ledgerLines[m].type \in OnceTypes
    /\ ledgerLines[m].type = ledgerLines[n].type
    /\ ledgerLines[m].exec = ledgerLines[n].exec
    /\ ledgerLines[m].act = ledgerLines[n].act
    => m = n

(* The actions of execution x that the ledger knows are the first k of its *)
(* plan at most, all that ended succeeded, and all of them before line n.  *)
StartedWithin(x, k) ==
  \A m \in DOMAIN ledgerLines :
    ledgerLines[m].exec = x /\ ledgerLines[m].type = "starting"
      => ledgerLines[m].act \in 1 .. k
SucceededWithin(x, k) ==
  \A m \in DOMAIN ledgerLines :
    ledgerLines[m].exec = x /\ ledgerLines[m].type = "terminated"
      => ledgerLines[m].act \in 1 .. k /\ ledgerLines[m].status = "succeeded"
TerminatedBefore(x, k, n) ==
  \A i \in 1 .. k : \E m \in DOMAIN ledgerLines :
    /\ m < n
    /\ ledgerLines[m].type = "terminated"
    /\ ledgerLines[m].exec = x /\ ledgerLines[m].act = i
Completed(x, p, n) ==
  /\ StartedWithin(x, Len(SetupActions[p]))
  /\ SucceededWithin(x, Len(SetupActions[p]))
  /\ TerminatedBefore(x, Len(SetupActions[p]), n)

Finished(n, x) ==
  ledgerLines[n].type = "finished" /\ ledgerLines[n].exec = x

EndsComplete ==
  \A n \in DOMAIN ledgerLines : ledgerLines[n].type = "finished" =>
    /\ ledgerLines[n].act = 0
    /\ ledgerLines[n].status = "succeeded" =>
         \E p \in SetupPlanIds : Completed(ledgerLines[n].exec, p, n)

(* The lines that may be the last one after a crash say the truth.         *)
TrueLine(n) ==
  /\ ledgerLines[n].type = "terminated"
  /\ ledgerLines[n].status = "succeeded"
  /\ Action(ledgerLines[n].plan, ledgerLines[n].act) \in ModelKinds
  => machine[Action(ledgerLines[n].plan, ledgerLines[n].act)] = "yes"
LastLinesTrue ==
  \A n \in DOMAIN ledgerLines : n >= durableLines => TrueLine(n)

LinesInv == LinesNumbered /\ LoggedOnce /\ EndsComplete /\ LastLinesTrue

InAction == {"pre", "starting", "manual", "op", "process", "post", "terminate"}
Walking == {"created", "approved", "finish"} \cup InAction

Length == Len(ledgerLines)

(* The walk over the actions of a plan.                                    *)
WalkInv ==
  run.pc \in Walking =>
    /\ run.exec \in 1 .. executions
    /\ \A n \in DOMAIN ledgerLines : ~Finished(n, run.exec)
    /\ run.pc \in {"created", "approved"} =>
         StartedWithin(run.exec, 0) /\ SucceededWithin(run.exec, 0)
    /\ run.pc \in InAction =>
         /\ run.at \in 1 .. Len(SetupActions[run.plan])
         /\ SucceededWithin(run.exec, run.at - 1)
         /\ TerminatedBefore(run.exec, run.at - 1, Length + 1)
         /\ StartedWithin(run.exec, IF run.pc \in {"pre", "starting"}
                                    THEN run.at - 1 ELSE run.at)
    /\ run.pc = "finish" /\ run.passed =>
         Completed(run.exec, run.plan, Length + 1)
    /\ run.pc = "terminate" /\ run.passed /\ Current \in ModelKinds =>
         machine[Current] = "yes"
    /\ run.pc = "op" =>
         /\ durableLines = Length /\ Length \in DOMAIN ledgerLines
         /\ ledgerLines[Length].type = "starting"

(* Recover: what is left to do is open.                                    *)
OpenLine(n) ==
  /\ n \in DOMAIN ledgerLines /\ ledgerLines[n].type = "starting"
  /\ ~Has(ledgerLines, "terminated", ledgerLines[n].exec, ledgerLines[n].act)
RecoverInv ==
  /\ run.pc \in {"reconcile", "resolve"} => \A n \in run.todo : OpenLine(n)
  /\ run.pc = "resolve" =>
       LET open == ledgerLines[run.at] IN
       /\ run.at \in run.todo
       /\ run.passed /\ Action(open.plan, open.act) \in ModelKinds
            => machine[Action(open.plan, open.act)] = "yes"

Reported == LinesInv /\ WalkInv /\ RecoverInv
ReportInv == SetupInv /\ Reported

-----------------------------------------------------------------------------
(* One appended line.                                                      *)

SameLine(line, event) ==
  /\ line.type = event.type /\ line.plan = event.plan
  /\ line.exec = event.exec /\ line.act = event.act
  /\ line.status = event.status

KeepsLines == ledgerLines' = ledgerLines /\ durableLines' = durableLines

Adds(event) ==
  /\ ledgerLines' \in Seq(LedgerLine)
  /\ Length' = Length + 1
  /\ DOMAIN ledgerLines' = DOMAIN ledgerLines \cup {Length + 1}
  /\ \A n \in DOMAIN ledgerLines : ledgerLines'[n] = ledgerLines[n]
  /\ SameLine(ledgerLines'[Length + 1], event)
  /\ durableLines' \in Nat /\ durableLines' >= durableLines

(* The line is synced, and the call goes on as c, but for the chain's tip. *)
GoesOn(c) ==
  /\ durableLines' = Length'
  /\ run'.pc = c.pc /\ run'.plan = c.plan /\ run'.exec = c.exec
  /\ run'.at = c.at /\ run'.passed = c.passed /\ run'.todo = c.todo

(* An append adds its one line or none, and goes on or fails.              *)
LEMMA LoggedOne ==
  ASSUME SetupTyped, NEW event \in LedgerLine, NEW next \in CallRecord,
         NEW failed, Log(event, next, failed)
  PROVE  \/ run' = failed /\ (KeepsLines \/ Adds(event))
         \/ GoesOn(next) /\ Adds(event)
<1> DEFINE line == IF ledgerTail THEN [event EXCEPT !.seq = 0] ELSE event
<1>1. line \in LedgerLine /\ SameLine(line, event)
  BY DEF LedgerLine, SameLine
<1>2. Written(event) = Append(ledgerLines, line)
  BY DEF Written
<1> HIDE DEF line
<1>3. ledgerLines \in Seq(LedgerLine) /\ durableLines \in 0 .. Length
  BY DEF SetupTyped, Length
<1>4. ASSUME ledgerLines' = Written(event), durableLines' \in Nat,
             durableLines' >= durableLines
      PROVE  Adds(event)
  <2>1. /\ ledgerLines' \in Seq(LedgerLine)
        /\ Len(ledgerLines') = Len(ledgerLines) + 1
        /\ ledgerLines'[Len(ledgerLines) + 1] = line
        /\ \A n \in DOMAIN ledgerLines : ledgerLines'[n] = ledgerLines[n]
    BY <1>1, <1>2, <1>3, <1>4
  <2>2. DOMAIN ledgerLines' = DOMAIN ledgerLines \cup {Len(ledgerLines) + 1}
    BY <1>3, <2>1
  <2> QED BY <1>1, <1>4, <2>1, <2>2 DEF Adds, Length
<1>5. CASE AppendSynced(event, next)
  <2>1. /\ ledgerLines' = Written(event)
        /\ durableLines' \in Nat /\ durableLines' >= durableLines
    BY <1>1, <1>2, <1>3, <1>5 DEF AppendSynced, Length
  <2>2. GoesOn(next)
    BY <1>5 DEF AppendSynced, GoesOn, CallRecord, Length
  <2> QED BY <1>4, <2>1, <2>2
<1>6. CASE AppendFails(event, failed)
  <2>1. run' = failed /\ durableLines' = durableLines
        /\ (ledgerLines' = ledgerLines \/ ledgerLines' = Written(event))
    BY <1>6 DEF AppendFails
  <2> QED BY <1>3, <1>4, <2>1 DEF KeepsLines
<1> QED BY <1>5, <1>6 DEF Log

(* A line that the ledger may take.                                        *)
NewLine(line) ==
  /\ line \in LedgerLine /\ line.exec \in 1 .. executions
  /\ line.type \in OnceTypes =>
       ~Has(ledgerLines, line.type, line.exec, line.act)
  /\ line.type \in {"starting", "terminated"} =>
       \A n \in DOMAIN ledgerLines :
         Finished(n, line.exec) => ledgerLines[n].status # "succeeded"
  /\ line.type = "finished" =>
       /\ line.act = 0
       /\ line.status = "succeeded" =>
            \E p \in SetupPlanIds : Completed(line.exec, p, Length + 1)
  /\ line.type = "terminated" /\ line.status = "succeeded"
     /\ Action(line.plan, line.act) \in ModelKinds
       => machine[Action(line.plan, line.act)] = "yes"

(* What is known of an execution when a line is added.                     *)
LEMMA AddedLine ==
  ASSUME SetupTyped, NEW event \in LedgerLine, Adds(event),
         NEW x, NEW k \in Nat, NEW n \in Nat
  PROVE  /\ StartedWithin(x, k)
              /\ (event.type = "starting" /\ event.exec = x
                   => event.act \in 1 .. k)
            => StartedWithin(x, k)'
         /\ SucceededWithin(x, k)
              /\ (event.type = "terminated" /\ event.exec = x
                   => event.act \in 1 .. k /\ event.status = "succeeded")
            => SucceededWithin(x, k)'
         /\ TerminatedBefore(x, k, n) => TerminatedBefore(x, k, n)'
         /\ TerminatedBefore(x, k, Length + 1)
            => TerminatedBefore(x, k, Length + 1)'
         /\ TerminatedBefore(x, k, Length + 1) /\ event.type = "terminated"
              /\ event.exec = x /\ event.act = k + 1
            => TerminatedBefore(x, k + 1, Length + 1)'
         /\ (\A m \in DOMAIN ledgerLines : ~Finished(m, x))
              /\ ~(event.type = "finished" /\ event.exec = x)
            => (\A m \in DOMAIN ledgerLines : ~Finished(m, x))'
<1>1. /\ Length \in Nat /\ Length' = Length + 1
      /\ DOMAIN ledgerLines = 1 .. Length
      /\ DOMAIN ledgerLines' = DOMAIN ledgerLines \cup {Length + 1}
      /\ \A m \in DOMAIN ledgerLines : ledgerLines'[m] = ledgerLines[m]
      /\ Length + 1 \in DOMAIN ledgerLines'
  BY DEF SetupTyped, Adds, Length
<1>2. /\ ledgerLines'[Length + 1].type = event.type
      /\ ledgerLines'[Length + 1].exec = event.exec
      /\ ledgerLines'[Length + 1].act = event.act
      /\ ledgerLines'[Length + 1].status = event.status
  BY DEF Adds, SameLine
<1>3. StartedWithin(x, k)
        /\ (event.type = "starting" /\ event.exec = x => event.act \in 1 .. k)
      => StartedWithin(x, k)'
  BY <1>1, <1>2 DEF StartedWithin
<1>4. SucceededWithin(x, k)
        /\ (event.type = "terminated" /\ event.exec = x
             => event.act \in 1 .. k /\ event.status = "succeeded")
      => SucceededWithin(x, k)'
  BY <1>1, <1>2 DEF SucceededWithin
<1>5. TerminatedBefore(x, k, n) => TerminatedBefore(x, k, n)'
  BY <1>1 DEF TerminatedBefore
<1>6. ASSUME TerminatedBefore(x, k, Length + 1)
      PROVE  TerminatedBefore(x, k, Length + 1)'
  <2>1. \A m \in DOMAIN ledgerLines : m < Length' + 1
    BY <1>1
  <2> QED BY <1>1, <1>6, <2>1 DEF TerminatedBefore
<1>7. ASSUME TerminatedBefore(x, k, Length + 1), event.type = "terminated",
             event.exec = x, event.act = k + 1
      PROVE  TerminatedBefore(x, k + 1, Length + 1)'
  <2>1. ASSUME NEW i \in 1 .. k + 1
        PROVE  \E m \in DOMAIN ledgerLines' :
                 /\ m < Length' + 1
                 /\ ledgerLines'[m].type = "terminated"
                 /\ ledgerLines'[m].exec = x /\ ledgerLines'[m].act = i
    <3>1. CASE i = k + 1
      BY <1>1, <1>2, <1>7, <3>1
    <3>2. CASE i # k + 1
      <4>1. i \in 1 .. k
        BY <3>2
      <4> QED BY <1>6, <1>7, <4>1 DEF TerminatedBefore
    <3> QED BY <3>1, <3>2
  <2> QED BY <2>1 DEF TerminatedBefore
<1>8. (\A m \in DOMAIN ledgerLines : ~Finished(m, x))
        /\ ~(event.type = "finished" /\ event.exec = x)
      => (\A m \in DOMAIN ledgerLines : ~Finished(m, x))'
  BY <1>1, <1>2 DEF Finished
<1> QED BY <1>3, <1>4, <1>5, <1>6, <1>7, <1>8

(* Every plan has an action.                                               *)
LEMMA PlanLength ==
  ASSUME NEW p \in SetupPlanIds
  PROVE  Len(SetupActions[p]) \in Nat \ {0}
<1>1. CASE p = "p1"
  BY <1>1 DEF SetupActions
<1>2. CASE p = "p2"
  BY <1>2 DEF SetupActions
<1>3. CASE p = "p3"
  BY <1>3 DEF SetupActions
<1>4. SetupPlanIds = {"p1", "p2", "p3"}
  BY DEF SetupPlanIds, SetupActions
<1> QED BY <1>1, <1>2, <1>3, <1>4

(* The ledger stays true to the executions when it takes such a line.      *)
LEMMA LinesAdded ==
  ASSUME SetupTyped, LinesInv, NEW event, NewLine(event), Adds(event),
         UNCHANGED <<machine, executions>>
  PROVE  LinesInv'
<1>1. /\ Length \in Nat /\ DOMAIN ledgerLines = 1 .. Length
      /\ DOMAIN ledgerLines' = DOMAIN ledgerLines \cup {Length + 1}
      /\ \A m \in DOMAIN ledgerLines : ledgerLines'[m] = ledgerLines[m]
      /\ durableLines \in Nat /\ durableLines' >= durableLines
      /\ durableLines' \in Nat
  BY DEF SetupTyped, Adds, Length
<1>2. /\ ledgerLines'[Length + 1].type = event.type
      /\ ledgerLines'[Length + 1].plan = event.plan
      /\ ledgerLines'[Length + 1].exec = event.exec
      /\ ledgerLines'[Length + 1].act = event.act
      /\ ledgerLines'[Length + 1].status = event.status
  BY DEF Adds, SameLine
<1>3. LinesNumbered'
  BY <1>1, <1>2 DEF LinesInv, LinesNumbered, NewLine
<1>4. LoggedOnce'
  <2>1. event.type \in OnceTypes =>
          \A n \in DOMAIN ledgerLines :
            ~(/\ ledgerLines[n].type = event.type
              /\ ledgerLines[n].exec = event.exec
              /\ ledgerLines[n].act = event.act)
    BY DEF NewLine, Has
  <2>2. LoggedOnce
    BY DEF LinesInv
  <2> QED BY <1>1, <1>2, <2>1, <2>2 DEF LoggedOnce
<1>5. EndsComplete'
  <2> SUFFICES ASSUME NEW n \in DOMAIN ledgerLines',
                      ledgerLines'[n].type = "finished"
               PROVE  /\ ledgerLines'[n].act = 0
                      /\ ledgerLines'[n].status = "succeeded" =>
                           \E p \in SetupPlanIds :
                             Completed(ledgerLines[n].exec, p, n)'
    BY DEF EndsComplete
  <2>1. ASSUME NEW p \in SetupPlanIds, NEW x, NEW i \in Nat,
               Completed(x, p, i),
               event.exec = x => event.type \notin {"starting", "terminated"}
        PROVE  Completed(x, p, i)'
    <3>1. PICK k \in Nat : k = Len(SetupActions[p])
      BY PlanLength
    <3>2. event \in LedgerLine
      BY DEF NewLine
    <3> QED BY <2>1, <3>1, <3>2, AddedLine DEF Completed
  <2>2. CASE n \in DOMAIN ledgerLines
    <3>1. PICK x : x = ledgerLines[n].exec
      OBVIOUS
    <3>2. /\ ledgerLines'[n] = ledgerLines[n] /\ ledgerLines'[n].exec = x
          /\ ledgerLines[n].act = 0 /\ n \in Nat
      BY <1>1, <2>2, <3>1 DEF LinesInv, EndsComplete
    <3>3. ASSUME ledgerLines[n].status = "succeeded"
          PROVE  \E p \in SetupPlanIds : Completed(x, p, n)'
      <4>1. PICK p \in SetupPlanIds : Completed(x, p, n)
        BY <2>2, <3>1, <3>2, <3>3 DEF LinesInv, EndsComplete
      <4>2. event.exec = x => event.type \notin {"starting", "terminated"}
        BY <2>2, <3>1, <3>2, <3>3 DEF NewLine, Finished
      <4> QED BY <2>1, <3>2, <4>1, <4>2
    <3> QED BY <3>2, <3>3
  <2>3. CASE n = Length + 1
    <3>1. PICK x : x = event.exec
      OBVIOUS
    <3>2. event.type = "finished" /\ event.act = 0 /\ n \in Nat
      BY <1>1, <1>2, <2>3 DEF NewLine
    <3>3. ASSUME event.status = "succeeded"
          PROVE  \E p \in SetupPlanIds : Completed(x, p, n)'
      <4>1. PICK p \in SetupPlanIds : Completed(x, p, n)
        BY <2>3, <3>1, <3>2, <3>3 DEF NewLine
      <4> QED BY <2>1, <3>2, <4>1
    <3> QED BY <1>2, <2>3, <3>1, <3>2, <3>3
  <2> QED BY <1>1, <2>2, <2>3
<1>6. LastLinesTrue'
  <2>1. ASSUME NEW n \in DOMAIN ledgerLines, n >= durableLines
        PROVE  TrueLine(n)'
    <3>1. TrueLine(n)
      BY <2>1 DEF LinesInv, LastLinesTrue
    <3> QED BY <1>1, <3>1 DEF TrueLine
  <2>2. \A n \in DOMAIN ledgerLines : n >= durableLines' => n >= durableLines
    BY <1>1
  <2>3. ASSUME NEW n, n = Length + 1
        PROVE  TrueLine(n)'
    BY <1>2, <2>3 DEF TrueLine, NewLine
  <2> QED BY <1>1, <2>1, <2>2, <2>3 DEF LastLinesTrue
<1> QED BY <1>3, <1>4, <1>5, <1>6 DEF LinesInv

(* A step that leaves ledger and machine alone leaves the report alone.    *)
LEMMA LinesKept ==
  ASSUME LinesInv, KeepsLines, UNCHANGED <<machine, executions>>
  PROVE  LinesInv'
<1>1. LinesNumbered' /\ LoggedOnce'
  BY DEF LinesInv, KeepsLines, LinesNumbered, LoggedOnce
<1>2. EndsComplete'
  BY DEF LinesInv, KeepsLines, EndsComplete, Completed, StartedWithin,
         SucceededWithin, TerminatedBefore
<1>3. LastLinesTrue'
  BY DEF LinesInv, KeepsLines, LastLinesTrue, TrueLine
<1> QED BY <1>1, <1>2, <1>3 DEF LinesInv

(* A walk that failed claims only that its end is not recorded.            *)
LEMMA WalkFailed ==
  ASSUME SetupTyped, WalkInv, run.pc \in Walking, run' = WalkFails,
         UNCHANGED executions, NEW event \in LedgerLine,
         event.type # "finished", KeepsLines \/ Adds(event)
  PROVE  WalkInv'
<1>1. PICK x : x = run.exec
  OBVIOUS
<1>2. /\ run'.pc = "finish" /\ run'.exec = x /\ run'.passed = FALSE
  BY <1>1 DEF WalkFails, SetupTyped, CallRecord
<1>3. /\ x \in 1 .. executions'
      /\ \A n \in DOMAIN ledgerLines : ~Finished(n, x)
  BY <1>1 DEF WalkInv
<1>4. (\A n \in DOMAIN ledgerLines : ~Finished(n, x))'
  <2>1. CASE KeepsLines
    BY <1>3, <2>1 DEF KeepsLines, Finished
  <2>2. CASE Adds(event)
    <3>1. PICK k \in Nat : k = 0
      OBVIOUS
    <3> QED BY <1>3, <2>2, <3>1, AddedLine
  <2> QED BY <2>1, <2>2
<1> QED BY <1>2, <1>3, <1>4 DEF WalkInv, InAction

(* The same for a walk that fails after its line was appended.            *)
LEMMA FailedGoesOn ==
  ASSUME SetupTyped, WalkInv, run.pc \in Walking, UNCHANGED executions,
         NEW next, GoesOn(next), next.pc = "finish", next.exec = run.exec,
         next.passed = FALSE, NEW event \in LedgerLine,
         event.type # "finished", Adds(event)
  PROVE  WalkInv'
<1>1. PICK x, k \in Nat : x = run.exec /\ k = 0
  BY SetupRecords
<1>2. /\ run'.pc = "finish" /\ run'.exec = x /\ run'.passed = FALSE
  BY <1>1 DEF GoesOn
<1>3. /\ x \in 1 .. executions'
      /\ \A n \in DOMAIN ledgerLines : ~Finished(n, x)
  BY <1>1 DEF WalkInv
<1>4. (\A n \in DOMAIN ledgerLines : ~Finished(n, x))'
  BY <1>1, <1>3, AddedLine
<1> QED BY <1>2, <1>3, <1>4 DEF WalkInv, InAction

(* A walk step that appends, given what it claims where it goes on.        *)
LEMMA WalkLog ==
  ASSUME SetupInv, Reported, run.pc \in Walking, KeepsMachine,
         NEW event, NewLine(event), NEW next \in CallRecord,
         NEW failed \in {IdleRun, WalkFails}, Log(event, next, failed),
         event.type = "finished" => failed = IdleRun,
         next.pc \notin {"reconcile", "resolve"},
         GoesOn(next) /\ Adds(event) => WalkInv'
  PROVE  Reported'
<1>1. /\ SetupTyped /\ LinesInv /\ WalkInv /\ event \in LedgerLine
      /\ UNCHANGED <<machine, executions>>
  BY DEF SetupInv, Reported, NewLine, KeepsMachine
<1>2. \/ run' = failed /\ (KeepsLines \/ Adds(event))
      \/ GoesOn(next) /\ Adds(event)
  BY <1>1, LoggedOne
<1>3. LinesInv'
  BY <1>1, <1>2, LinesAdded, LinesKept
<1>4. CASE run' = IdleRun
  <2>1. run'.pc = "idle"
    BY <1>4 DEF IdleRun
  <2> QED BY <1>3, <2>1 DEF Reported, WalkInv, RecoverInv, Walking, InAction
<1>5. CASE run' = WalkFails /\ event.type # "finished"
           /\ (KeepsLines \/ Adds(event))
  <2>1. run'.pc = "finish"
    BY <1>1, <1>5, SetupRecords
  <2>2. WalkInv'
    BY <1>1, <1>5, WalkFailed
  <2> QED BY <1>3, <2>1, <2>2 DEF Reported, RecoverInv
<1>6. CASE GoesOn(next) /\ Adds(event)
  <2>1. run'.pc \notin {"reconcile", "resolve"}
    BY <1>6 DEF GoesOn
  <2> QED BY <1>3, <1>6, <2>1 DEF Reported, RecoverInv
<1> QED BY <1>2, <1>4, <1>5, <1>6

(* A line that is no start, no outcome and no end.                         *)
LEMMA PlainLine ==
  ASSUME NEW event \in LedgerLine, event.exec \in 1 .. executions,
         event.type \in {"created", "approved", "process", "postcondition"}
  PROVE  NewLine(event)
BY DEF NewLine, OnceTypes

(* A start or an outcome of the action that the walk is at.                *)
LEMMA WalkLine ==
  ASSUME SetupTyped, WalkInv, run.pc \in InAction,
         NEW event \in LedgerLine, event.exec = run.exec,
         event.act = run.at, event.plan = run.plan,
         \/ event.type = "starting" /\ run.pc = "starting"
         \/ event.type = "terminated",
         event.status = "succeeded" /\ Current \in ModelKinds =>
           machine[Current] = "yes"
  PROVE  NewLine(event)
<1>1. PICK x, k, l \in Nat : x = run.exec /\ k = run.at /\ l = k - 1
  BY SetupRecords, PlanLength DEF WalkInv, Walking
<1>2. /\ x \in 1 .. executions /\ k \in Nat
      /\ \A n \in DOMAIN ledgerLines : ~Finished(n, x)
      /\ SucceededWithin(x, l)
      /\ run.pc = "starting" => StartedWithin(x, l)
  BY <1>1, SetupRecords DEF WalkInv, Walking
<1>3. ~Has(ledgerLines, event.type, x, k)
  <2>1. k \notin 1 .. l
    BY <1>1, <1>2
  <2>2. CASE event.type = "starting"
    BY <1>1, <1>2, <2>1, <2>2 DEF Has, StartedWithin
  <2>3. CASE event.type = "terminated"
    BY <1>1, <1>2, <2>1, <2>3 DEF Has, SucceededWithin
  <2> QED BY <2>2, <2>3
<1> QED BY <1>1, <1>2, <1>3 DEF NewLine, Current

(* What the lines of the walk say.                                         *)
LEMMA EventFields ==
  ASSUME SetupTyped, NEW type \in LedgerTypes,
         NEW status \in LedgerStatuses,
         NEW event \in {ActionEvent(type, status), RunEvent(type, status)}
  PROVE  /\ event \in LedgerLine /\ event.type = type
         /\ event.exec = run.exec /\ event.plan = run.plan
         /\ event.status = status
         /\ event = ActionEvent(type, status) => event.act = run.at
         /\ event = RunEvent(type, status) => event.act = 0
<1>1. event \in LedgerLine
  BY SetupRecords
<1>2. event.type = type /\ event.exec = run.exec /\ event.plan = run.plan
      /\ event.status = status
  BY DEF ActionEvent, RunEvent, Event
<1> QED BY <1>1, <1>2 DEF ActionEvent, RunEvent, Event

(* ExecutionCreated and PlanApproved.                                      *)
LEMMA BeginsReported ==
  ASSUME SetupInv, Reported, ApplyCreated \/ ApplyApproved
  PROVE  Reported'
<1>1. /\ SetupTyped /\ WalkInv /\ run \in CallRecord
      /\ run.pc \in {"created", "approved"} /\ run.pc \in Walking
  BY DEF SetupInv, SetupTyped, Reported, ApplyCreated, ApplyApproved, Walking
<1>2. PICK type \in {"created", "approved"},
           next \in {[run EXCEPT !.pc = "approved"],
                    [run EXCEPT !.pc = "pre", !.at = 1]} :
        Log(RunEvent(type, ""), next, IdleRun) /\ KeepsMachine
  BY DEF ApplyCreated, ApplyApproved
<1>3. PICK event : event = RunEvent(type, "")
  OBVIOUS
<1>4. /\ event \in LedgerLine /\ event.type = type
      /\ event.exec = run.exec
  <2>1. type \in LedgerTypes /\ "" \in LedgerStatuses
    BY DEF LedgerTypes, LedgerStatuses
  <2> QED BY <1>1, <1>3, <2>1, EventFields
<1>5. /\ next \in CallRecord /\ next.plan = run.plan
      /\ next.exec = run.exec
      /\ (next.pc = "approved" \/ (next.pc = "pre" /\ next.at = 1))
  <2>1. CASE next = [run EXCEPT !.pc = "approved"]
    BY <1>1, <2>1 DEF CallRecord, CallSteps
  <2>2. CASE next = [run EXCEPT !.pc = "pre", !.at = 1]
    BY <1>1, <2>2 DEF CallRecord, CallSteps
  <2> QED BY <1>2, <2>1, <2>2
<1>6. NewLine(event)
  BY <1>1, <1>4, PlainLine DEF WalkInv
<1>7. ASSUME GoesOn(next), Adds(event)
      PROVE  WalkInv'
  <2>1. PICK x, zero \in Nat : x = run.exec /\ zero = 0
    BY <1>1, SetupRecords
  <2>2. /\ x \in 1 .. executions /\ executions' = executions
        /\ \A n \in DOMAIN ledgerLines : ~Finished(n, x)
        /\ StartedWithin(x, zero) /\ SucceededWithin(x, zero)
    BY <1>1, <1>2, <2>1 DEF WalkInv, KeepsMachine
  <2>3. /\ (\A n \in DOMAIN ledgerLines : ~Finished(n, x))'
        /\ StartedWithin(x, zero)' /\ SucceededWithin(x, zero)'
    BY <1>1, <1>4, <1>7, <2>2, AddedLine
  <2>4. TerminatedBefore(x, zero, Length + 1)'
    BY <2>1 DEF TerminatedBefore
  <2>5. run'.exec = x /\ run'.plan \in SetupPlanIds
        /\ (run'.pc = "approved" \/ (run'.pc = "pre" /\ run'.at = 1))
    BY <1>1, <1>5, <1>7, <2>1 DEF GoesOn, CallRecord
  <2>6. 1 \in 1 .. Len(SetupActions[run'.plan])
    BY <2>5, PlanLength
  <2>7. 1 - 1 = zero
    BY <2>1
  <2> QED BY <2>1, <2>2, <2>3, <2>4, <2>5, <2>6, <2>7 DEF WalkInv, InAction
<1> QED BY <1>1, <1>2, <1>3, <1>4, <1>5, <1>6, <1>7, WalkLog

(* Apply opens an execution that the ledger does not know.                 *)
LEMMA ApplyReported ==
  ASSUME SetupInv, Reported, NEW p \in SetupPlanIds, Apply(p)
  PROVE  Reported'
<1>1. /\ SetupTyped /\ executions \in Nat
      /\ KeepsLines /\ machine' = machine /\ executions' = executions + 1
      /\ LinesInv
  BY DEF SetupInv, SetupTyped, Apply, OpenLedger, KeepsLines, Reported
<1>2. run'.pc = "created" /\ run'.exec = executions + 1
  BY DEF Apply, IdleRun
<1>3. \A n \in DOMAIN ledgerLines : ledgerLines[n].exec # executions + 1
  BY <1>1 DEF LinesInv, LinesNumbered
<1>4. LinesInv'
  <2>1. LinesNumbered'
    BY <1>1 DEF LinesInv, LinesNumbered, KeepsLines
  <2> QED
    BY <1>1, <2>1
       DEF LinesInv, KeepsLines, LoggedOnce, EndsComplete,
           Completed, StartedWithin, SucceededWithin, TerminatedBefore,
           LastLinesTrue, TrueLine
<1>5. WalkInv'
  BY <1>1, <1>2, <1>3
     DEF WalkInv, InAction, KeepsLines, Finished, StartedWithin,
         SucceededWithin
<1> QED BY <1>2, <1>4, <1>5 DEF Reported, RecoverInv

(* The preconditions of the next action hold, or the walk fails.           *)
LEMMA PreconditionReported ==
  ASSUME SetupInv, Reported, WalkPreconditions
  PROVE  Reported'
<1>1. /\ SetupTyped /\ WalkInv /\ LinesInv /\ run \in CallRecord
      /\ run.pc = "pre" /\ KeepsLines
      /\ UNCHANGED <<machine, executions>>
  BY DEF SetupInv, SetupTyped, Reported, WalkPreconditions, KeepsLines,
         KeepsMachine
<1>2. LinesInv'
  BY <1>1, LinesKept
<1>3. CASE run' = [run EXCEPT !.pc = "starting"]
  <2>1. /\ run'.pc = "starting" /\ run'.exec = run.exec
        /\ run'.at = run.at /\ run'.plan = run.plan
    BY <1>1, <1>3 DEF CallRecord
  <2>2. WalkInv'
    BY <1>1, <2>1
       DEF WalkInv, Walking, InAction, KeepsLines, Finished, StartedWithin,
           SucceededWithin, TerminatedBefore, Length
  <2> QED BY <1>2, <2>1, <2>2 DEF Reported, RecoverInv
<1>4. CASE run' = WalkFails
  <2>1. PICK event \in LedgerLine : event.type # "finished"
    <3>1. /\ ActionEvent("starting", "") \in LedgerLine
          /\ ActionEvent("starting", "").type = "starting"
      <4>1. "starting" \in LedgerTypes /\ "" \in LedgerStatuses
        BY DEF LedgerTypes, LedgerStatuses
      <4> QED BY <1>1, <4>1, SetupRecords
    <3> QED BY <3>1
  <2>2. WalkInv' /\ run'.pc = "finish"
    BY <1>1, <1>4, <2>1, WalkFailed, SetupRecords DEF Walking, InAction
  <2> QED BY <1>2, <2>2 DEF Reported, RecoverInv
<1> QED BY <1>3, <1>4 DEF WalkPreconditions

(* Within an action: what is known of it stays known when a line is added  *)
(* that starts it, or that is neither a start nor an outcome.              *)
LEMMA ActionStays ==
  ASSUME SetupTyped, WalkInv, run.pc \in InAction, NEW event \in LedgerLine,
         Adds(event), UNCHANGED executions,
         NEW next, GoesOn(next),
         next.exec = run.exec, next.at = run.at, next.plan = run.plan,
         next.pc \in InAction \ {"pre", "starting"},
         \/ event.type = "starting" /\ event.act = run.at
         \/ /\ event.type \in {"process", "postcondition"}
            /\ run.pc \notin {"pre", "starting"},
         next.pc = "op" => event.type = "starting",
         next.pc = "terminate" /\ next.passed /\ Current \in ModelKinds
           => machine'[Current] = "yes"
  PROVE  WalkInv'
<1>1. PICK x, k, l \in Nat : x = run.exec /\ k = run.at /\ l = k - 1
  BY SetupRecords, PlanLength DEF WalkInv, Walking
<1>2. /\ x \in 1 .. executions
      /\ \A n \in DOMAIN ledgerLines : ~Finished(n, x)
      /\ k \in 1 .. Len(SetupActions[run.plan])
      /\ SucceededWithin(x, l)
      /\ TerminatedBefore(x, l, Length + 1)
      /\ StartedWithin(x, IF run.pc \in {"pre", "starting"} THEN l ELSE k)
  BY <1>1 DEF WalkInv, Walking
<1>3. StartedWithin(x, k)
  <2>1. 1 .. l \subseteq 1 .. k
    BY <1>1
  <2> QED BY <1>2, <2>1 DEF StartedWithin
<1>4. /\ (\A n \in DOMAIN ledgerLines : ~Finished(n, x))'
      /\ SucceededWithin(x, l)' /\ StartedWithin(x, k)'
      /\ TerminatedBefore(x, l, Length + 1)'
  <2>1. event.type = "starting" => event.act \in 1 .. k
    BY <1>1, <1>2
  <2>2. event.type \notin {"terminated", "finished"}
    OBVIOUS
  <2> QED BY <1>1, <1>2, <1>3, <2>1, <2>2, AddedLine
<1>5. /\ run'.exec = x /\ run'.at = k /\ run'.plan = run.plan
      /\ run'.pc = next.pc /\ run'.passed = next.passed
      /\ Current' = Current
  BY <1>1 DEF GoesOn, Current
<1>6. run'.pc = "op" =>
        /\ durableLines' = Length' /\ Length' \in DOMAIN ledgerLines'
        /\ ledgerLines'[Length'].type = "starting"
  BY <1>5 DEF Adds, SameLine, GoesOn
<1> QED
  BY <1>1, <1>2, <1>4, <1>5, <1>6 DEF WalkInv, Walking, InAction

(* ActionStarting is appended before the operation.                        *)
LEMMA StartingReported ==
  ASSUME SetupInv, Reported, WalkStarting
  PROVE  Reported'
<1> DEFINE after ==
      [run EXCEPT !.pc = IF Current = "manual" THEN "manual" ELSE "op"]
<1>1. /\ SetupTyped /\ WalkInv /\ run \in CallRecord
      /\ run.pc = "starting" /\ run.pc \in InAction /\ run.pc \in Walking
      /\ KeepsMachine /\ UNCHANGED executions
  BY DEF SetupInv, SetupTyped, Reported, WalkStarting, InAction, Walking,
         KeepsMachine
<1>2. PICK next : next = after
  OBVIOUS
<1>3. /\ next \in CallRecord /\ next.exec = run.exec /\ next.at = run.at
      /\ next.plan = run.plan /\ next.pc \in {"manual", "op"}
  BY <1>1, <1>2 DEF CallRecord, CallSteps
<1>4. PICK event : event = ActionEvent("starting", "")
  OBVIOUS
<1>5. Log(event, next, WalkFails)
  BY <1>2, <1>4 DEF WalkStarting
<1>6. /\ event \in LedgerLine /\ event.type = "starting"
      /\ event.exec = run.exec /\ event.act = run.at
      /\ event.plan = run.plan /\ event.status = ""
  <2>1. "starting" \in LedgerTypes /\ "" \in LedgerStatuses
    BY DEF LedgerTypes, LedgerStatuses
  <2> QED BY <1>1, <1>4, <2>1, EventFields
<1>7. NewLine(event)
  BY <1>1, <1>6, WalkLine
<1>8. ASSUME GoesOn(next), Adds(event)
      PROVE  WalkInv'
  BY <1>1, <1>3, <1>6, <1>8, ActionStays DEF InAction
<1> QED BY <1>1, <1>3, <1>5, <1>6, <1>7, <1>8, WalkLog

(* A manual action ends the walk.                                          *)
LEMMA ManualReported ==
  ASSUME SetupInv, Reported, WalkManual
  PROVE  Reported'
<1>1. /\ SetupTyped /\ WalkInv /\ run \in CallRecord
      /\ run.pc \in InAction /\ run.pc \in Walking
      /\ KeepsMachine /\ UNCHANGED executions
  BY DEF SetupInv, SetupTyped, Reported, WalkManual, InAction, Walking,
         KeepsMachine
<1>2. PICK event : event = ActionEvent("terminated", "manual_required")
  OBVIOUS
<1>3. PICK next : next = WalkFails
  OBVIOUS
<1>4. /\ next \in CallRecord /\ next.pc = "finish" /\ next.exec = run.exec
      /\ next.passed = FALSE
  BY <1>1, <1>3, SetupRecords DEF WalkFails, CallRecord
<1>5. Log(event, next, WalkFails)
  BY <1>2, <1>3 DEF WalkManual
<1>6. /\ event \in LedgerLine /\ event.type = "terminated"
      /\ event.exec = run.exec /\ event.act = run.at
      /\ event.plan = run.plan /\ event.status = "manual_required"
  <2>1. /\ "terminated" \in LedgerTypes
        /\ "manual_required" \in LedgerStatuses
    BY DEF LedgerTypes, LedgerStatuses
  <2> QED BY <1>1, <1>2, <2>1, EventFields
<1>7. NewLine(event)
  BY <1>1, <1>6, WalkLine
<1>8. ASSUME GoesOn(next), Adds(event)
      PROVE  WalkInv'
  BY <1>1, <1>4, <1>6, <1>8, FailedGoesOn
<1> QED BY <1>1, <1>4, <1>5, <1>6, <1>7, <1>8, WalkLog

(* ActionProcessCompleted keeps to the action.                             *)
LEMMA ProcessReported ==
  ASSUME SetupInv, Reported, WalkProcessCompleted
  PROVE  Reported'
<1>1. /\ SetupTyped /\ WalkInv /\ run \in CallRecord
      /\ run.pc = "process" /\ run.pc \in InAction /\ run.pc \in Walking
      /\ KeepsMachine /\ UNCHANGED executions
  BY DEF SetupInv, SetupTyped, Reported, WalkProcessCompleted, InAction,
         Walking, KeepsMachine
<1>2. PICK event : event = ActionEvent("process", "")
  OBVIOUS
<1>3. PICK next : next = [run EXCEPT !.pc = "post"]
  OBVIOUS
<1>4. /\ next \in CallRecord /\ next.pc = "post" /\ next.exec = run.exec
      /\ next.at = run.at /\ next.plan = run.plan
  BY <1>1, <1>3 DEF CallRecord, CallSteps
<1>5. Log(event, next, WalkFails)
  BY <1>2, <1>3 DEF WalkProcessCompleted
<1>6. /\ event \in LedgerLine /\ event.type = "process"
      /\ event.exec = run.exec
  <2>1. "process" \in LedgerTypes /\ "" \in LedgerStatuses
    BY DEF LedgerTypes, LedgerStatuses
  <2> QED BY <1>1, <1>2, <2>1, EventFields
<1>7. NewLine(event)
  BY <1>1, <1>6, PlainLine DEF WalkInv
<1>8. ASSUME GoesOn(next), Adds(event)
      PROVE  WalkInv'
  BY <1>1, <1>4, <1>6, <1>8, ActionStays DEF InAction
<1> QED BY <1>1, <1>4, <1>5, <1>6, <1>7, <1>8, WalkLog

(* The postcondition of a model action sees the machine.                   *)
LEMMA ModelEvidence ==
  ASSUME NEW kind \in ModelKinds
  PROVE  /\ Postconditions(kind) # {}
         /\ "holds" \in Postconditions(kind) => machine[kind] = "yes"
<1>1. CASE kind = "mlx_model"
  BY <1>1 DEF Postconditions, MlxModelPresent, Answer
<1>2. CASE kind = "ollama_model"
  BY <1>2 DEF Postconditions, OllamaModelPresent, Answer
<1> QED BY <1>1, <1>2 DEF ModelKinds

(* A model action that passed its postcondition has its model.             *)
LEMMA PostconditionReported ==
  ASSUME SetupInv, Reported, WalkPostcondition
  PROVE  Reported'
<1>1. /\ SetupTyped /\ WalkInv /\ LinesInv /\ run \in CallRecord
      /\ run.pc = "post" /\ run.pc \in InAction /\ run.pc \in Walking
      /\ KeepsMachine /\ UNCHANGED <<machine, executions>>
  BY DEF SetupInv, SetupTyped, Reported, WalkPostcondition, InAction,
         Walking, KeepsMachine
<1>2. ASSUME NEW holds \in Postconditions(Current),
             Log(ActionEvent("postcondition", ""),
                 [run EXCEPT !.pc = "terminate",
                             !.passed = @ /\ holds = "holds",
                             !.halt = holds = "error"],
                 WalkFails)
      PROVE  Reported'
  <2> DEFINE b == run.passed /\ holds = "holds"
  <2>1. b \in BOOLEAN /\ (holds = "error") \in BOOLEAN
    OBVIOUS
  <2>2. PICK next : next = [run EXCEPT !.pc = "terminate", !.passed = b,
                                       !.halt = holds = "error"]
    OBVIOUS
  <2>3. /\ next \in CallRecord /\ next.pc = "terminate"
        /\ next.exec = run.exec /\ next.at = run.at
        /\ next.plan = run.plan /\ next.passed = b
    <3> HIDE DEF b
    <3> QED BY <1>1, <2>1, <2>2 DEF CallRecord, CallSteps
  <2>4. PICK event : event = ActionEvent("postcondition", "")
    OBVIOUS
  <2>5. Log(event, next, WalkFails)
    BY <1>2, <2>2, <2>4
  <2>6. /\ event \in LedgerLine /\ event.type = "postcondition"
        /\ event.exec = run.exec
    <3>1. "postcondition" \in LedgerTypes /\ "" \in LedgerStatuses
      BY DEF LedgerTypes, LedgerStatuses
    <3> QED BY <1>1, <2>4, <3>1, EventFields
  <2>7. NewLine(event)
    BY <1>1, <2>6, PlainLine DEF WalkInv
  <2>8. next.passed /\ Current \in ModelKinds => machine'[Current] = "yes"
    BY <1>1, <1>2, <2>3, ModelEvidence
  <2>9. ASSUME GoesOn(next), Adds(event)
        PROVE  WalkInv'
    BY <1>1, <2>3, <2>6, <2>8, <2>9, ActionStays DEF InAction
  <2> QED BY <1>1, <2>3, <2>5, <2>6, <2>7, <2>9, WalkLog
<1>3. ASSUME Postconditions(Current) = {},
             run' = [run EXCEPT !.pc = "terminate"], KeepsLines
      PROVE  Reported'
  <2>1. /\ run'.pc = "terminate" /\ run'.exec = run.exec
        /\ run'.at = run.at /\ run'.plan = run.plan /\ Current' = Current
    BY <1>1, <1>3 DEF CallRecord, Current
  <2>2. Current \notin ModelKinds
    BY <1>3, ModelEvidence
  <2>3. WalkInv'
    BY <1>1, <1>3, <2>1, <2>2
       DEF WalkInv, Walking, InAction, KeepsLines, Finished, StartedWithin,
           SucceededWithin, TerminatedBefore, Length
  <2> QED BY <1>1, <1>3, <2>1, <2>3, LinesKept DEF Reported, RecoverInv
<1> QED BY <1>2, <1>3 DEF WalkPostcondition, KeepsLines

(* The operation changes the machine when the last line is its start: no   *)
(* outcome that a crash could make the last line speaks of the machine.    *)
LEMMA LinesUnderOperation ==
  ASSUME SetupTyped, LinesInv, WalkInv, run.pc = "op", KeepsLines,
         UNCHANGED executions
  PROVE  LinesInv'
<1>1. /\ durableLines = Length /\ Length \in DOMAIN ledgerLines
      /\ ledgerLines[Length].type = "starting"
  BY DEF WalkInv, Walking, InAction
<1>2. \A n \in DOMAIN ledgerLines : n >= durableLines => n = Length
  BY <1>1 DEF SetupTyped, Length
<1>3. LastLinesTrue'
  BY <1>1, <1>2 DEF KeepsLines, LastLinesTrue, TrueLine
<1>4. LinesNumbered' /\ LoggedOnce'
  BY DEF LinesInv, KeepsLines, LinesNumbered, LoggedOnce
<1>5. EndsComplete'
  BY DEF LinesInv, KeepsLines, EndsComplete, Completed, StartedWithin,
         SucceededWithin, TerminatedBefore
<1> QED BY <1>3, <1>4, <1>5 DEF LinesInv

(* The operation of an action.                                             *)
LEMMA OperationReported ==
  ASSUME SetupInv, Reported, WalkOperation
  PROVE  Reported'
<1>1. /\ SetupTyped /\ WalkInv /\ LinesInv /\ run \in CallRecord
      /\ run.pc = "op" /\ KeepsLines /\ UNCHANGED executions
  BY DEF SetupInv, SetupTyped, Reported, WalkOperation, KeepsLines
<1>2. LinesInv'
  BY <1>1, LinesUnderOperation
<1>3. /\ run'.pc \in {"process", "post"} /\ run'.exec = run.exec
      /\ run'.at = run.at /\ run'.plan = run.plan
  BY <1>1 DEF WalkOperation, CallRecord
<1>4. WalkInv'
  BY <1>1, <1>3
     DEF WalkInv, Walking, InAction, KeepsLines, Finished, StartedWithin,
         SucceededWithin, TerminatedBefore, Length
<1> QED BY <1>2, <1>3, <1>4 DEF Reported, RecoverInv

(* The outcome of the action: the walk stops at a failure, goes on with    *)
(* the next action of the plan, or has them all.                           *)
LEMMA TerminatedReported ==
  ASSUME SetupInv, Reported, WalkTerminated
  PROVE  Reported'
<1> DEFINE status == IF run.passed THEN "succeeded" ELSE "failed"
<1>1. /\ SetupTyped /\ WalkInv /\ run \in CallRecord
      /\ run.pc = "terminate" /\ run.pc \in InAction /\ run.pc \in Walking
      /\ KeepsMachine /\ UNCHANGED executions
  BY DEF SetupInv, SetupTyped, Reported, WalkTerminated, InAction, Walking,
         KeepsMachine
<1>2. PICK event : event = ActionEvent("terminated", status)
  OBVIOUS
<1>3. /\ event \in LedgerLine /\ event.type = "terminated"
      /\ event.exec = run.exec /\ event.act = run.at
      /\ event.plan = run.plan /\ event.status = status
  <2>1. "terminated" \in LedgerTypes /\ status \in LedgerStatuses
    BY DEF LedgerTypes, LedgerStatuses
  <2> HIDE DEF status
  <2> QED BY <1>1, <1>2, <2>1, EventFields
<1>4. NewLine(event)
  <2>1. event.status = "succeeded" => run.passed
    BY <1>3
  <2>2. event.status = "succeeded" /\ Current \in ModelKinds =>
          machine[Current] = "yes"
    BY <1>1, <2>1 DEF WalkInv
  <2> QED BY <1>1, <1>3, <2>2, WalkLine
<1>5. PICK x, k, l, size \in Nat :
        /\ x = run.exec /\ k = run.at /\ l = k - 1
        /\ size = Len(SetupActions[run.plan])
  BY <1>1, SetupRecords, PlanLength DEF WalkInv
<1>6. /\ x \in 1 .. executions /\ k \in 1 .. size /\ l + 1 = k
      /\ \A n \in DOMAIN ledgerLines : ~Finished(n, x)
      /\ SucceededWithin(x, l) /\ TerminatedBefore(x, l, Length + 1)
      /\ StartedWithin(x, k)
  BY <1>1, <1>5 DEF WalkInv
<1>7. SucceededWithin(x, k)
  <2>1. 1 .. l \subseteq 1 .. k
    BY <1>5
  <2> QED BY <1>6, <2>1 DEF SucceededWithin
<1>8. ASSUME run.passed, Adds(event)
      PROVE  /\ (\A n \in DOMAIN ledgerLines : ~Finished(n, x))'
             /\ SucceededWithin(x, k)' /\ StartedWithin(x, k)'
             /\ TerminatedBefore(x, k, Length + 1)'
  <2>1. event.status = "succeeded" /\ k \in 1 .. k
    BY <1>3, <1>5, <1>6, <1>8
  <2>2. /\ (\A n \in DOMAIN ledgerLines : ~Finished(n, x))'
        /\ SucceededWithin(x, k)' /\ StartedWithin(x, k)'
    BY <1>1, <1>3, <1>5, <1>6, <1>7, <1>8, <2>1, AddedLine
  <2>3. TerminatedBefore(x, l + 1, Length + 1)'
    BY <1>1, <1>3, <1>5, <1>6, <1>8, AddedLine
  <2> QED BY <1>6, <2>2, <2>3
<1>9. PICK next : next = IF run.halt \/ ~run.passed THEN WalkFails
                         ELSE IF run.at = Len(SetupActions[run.plan])
                              THEN [run EXCEPT !.pc = "finish"]
                              ELSE [run EXCEPT !.pc = "pre", !.at = @ + 1]
  OBVIOUS
<1>10. Log(event, next, WalkFails)
  BY <1>2, <1>9 DEF WalkTerminated
<1>11. CASE next = WalkFails
  <2>1. /\ next \in CallRecord /\ next.pc = "finish"
        /\ next.exec = run.exec /\ next.passed = FALSE
    BY <1>1, <1>11, SetupRecords DEF WalkFails, CallRecord
  <2>2. ASSUME GoesOn(next), Adds(event)
        PROVE  WalkInv'
    BY <1>1, <1>3, <2>1, <2>2, FailedGoesOn
  <2> QED BY <1>1, <1>3, <1>4, <1>10, <2>1, <2>2, WalkLog
<1>12. CASE run.passed /\ run.at = size /\ next = [run EXCEPT !.pc = "finish"]
  <2>1. /\ next \in CallRecord /\ next.pc = "finish"
        /\ next.exec = run.exec /\ next.plan = run.plan
    BY <1>1, <1>12 DEF CallRecord, CallSteps
  <2>2. ASSUME GoesOn(next), Adds(event)
        PROVE  WalkInv'
    <3>1. run'.pc = "finish" /\ run'.exec = x /\ run'.plan = run.plan
      BY <1>5, <2>1, <2>2 DEF GoesOn
    <3>2. Len(SetupActions[run'.plan]) = k
      BY <1>5, <1>12, <3>1
    <3>3. /\ (\A n \in DOMAIN ledgerLines : ~Finished(n, x))'
          /\ SucceededWithin(x, k)' /\ StartedWithin(x, k)'
          /\ TerminatedBefore(x, k, Length + 1)'
      BY <1>8, <1>12, <2>2
    <3> QED BY <1>1, <1>6, <3>1, <3>2, <3>3 DEF WalkInv, InAction, Completed
  <2> QED BY <1>1, <1>3, <1>4, <1>10, <2>1, <2>2, WalkLog
<1>13. CASE /\ run.passed /\ run.at # size
            /\ next = [run EXCEPT !.pc = "pre", !.at = @ + 1]
  <2>1. /\ next \in CallRecord /\ next.pc = "pre" /\ next.at = k + 1
        /\ next.exec = run.exec /\ next.plan = run.plan
    <3>1. run.at + 1 \in Nat
      BY <1>5
    <3> QED BY <1>1, <1>5, <1>13, <3>1 DEF CallRecord, CallSteps
  <2>2. ASSUME GoesOn(next), Adds(event)
        PROVE  WalkInv'
    <3>1. /\ run'.pc = "pre" /\ run'.exec = x /\ run'.plan = run.plan
          /\ run'.at = k + 1
      BY <1>5, <2>1, <2>2 DEF GoesOn
    <3>2. /\ run'.at \in 1 .. Len(SetupActions[run'.plan])
          /\ run'.at - 1 = k
      BY <1>5, <1>6, <1>13, <3>1
    <3>3. /\ (\A n \in DOMAIN ledgerLines : ~Finished(n, x))'
          /\ SucceededWithin(x, k)' /\ StartedWithin(x, k)'
          /\ TerminatedBefore(x, k, Length + 1)'
      BY <1>8, <1>13, <2>2
    <3> QED BY <1>1, <1>6, <3>1, <3>2, <3>3 DEF WalkInv, InAction
  <2> QED BY <1>1, <1>3, <1>4, <1>10, <2>1, <2>2, WalkLog
<1> QED BY <1>5, <1>9, <1>11, <1>12, <1>13

(* ExecutionFinished says succeeded when every action of the plan did.     *)
LEMMA FinishedReported ==
  ASSUME SetupInv, Reported, ApplyFinished
  PROVE  Reported'
<1> DEFINE status == IF run.passed THEN "succeeded" ELSE "failed"
<1>1. /\ SetupTyped /\ WalkInv /\ run \in CallRecord
      /\ run.pc = "finish" /\ run.pc \in Walking
      /\ KeepsMachine /\ UNCHANGED executions
  BY DEF SetupInv, SetupTyped, Reported, ApplyFinished, Walking,
         KeepsMachine
<1>2. PICK event : event = RunEvent("finished", status)
  OBVIOUS
<1>3. /\ event \in LedgerLine /\ event.type = "finished"
      /\ event.exec = run.exec /\ event.act = 0 /\ event.status = status
  <2>1. "finished" \in LedgerTypes /\ status \in LedgerStatuses
    BY DEF LedgerTypes, LedgerStatuses
  <2> HIDE DEF status
  <2> QED BY <1>1, <1>2, <2>1, EventFields
<1>4. NewLine(event)
  <2>1. ~Has(ledgerLines, "finished", run.exec, 0)
    BY <1>1 DEF WalkInv, Finished, Has
  <2>2. event.status = "succeeded" =>
          Completed(run.exec, run.plan, Length + 1)
    BY <1>1, <1>3 DEF WalkInv
  <2>3. run.plan \in SetupPlanIds /\ run.exec \in 1 .. executions
    BY <1>1 DEF CallRecord, WalkInv
  <2> QED BY <1>3, <2>1, <2>2, <2>3 DEF NewLine
<1>5. PICK next : next = IdleRun
  OBVIOUS
<1>6. next \in CallRecord /\ next.pc = "idle"
  BY <1>1, <1>5, SetupRecords
<1>7. Log(event, next, IdleRun)
  BY <1>2, <1>5 DEF ApplyFinished
<1>8. ASSUME GoesOn(next)
      PROVE  WalkInv'
  BY <1>6, <1>8 DEF GoesOn, WalkInv, Walking, InAction
<1> QED BY <1>1, <1>4, <1>6, <1>7, <1>8, WalkLog

(* Recover finds its open actions in the ledger it was given.              *)
LEMMA RecoverReported ==
  ASSUME SetupInv, Reported, NEW p \in SetupPlanIds, Recover(p)
  PROVE  Reported'
<1>1. /\ SetupTyped /\ LinesInv /\ KeepsLines
      /\ UNCHANGED <<machine, executions>>
  BY DEF SetupInv, Reported, Recover, OpenLedger, KeepsLines
<1>2. /\ run'.pc = "reconcile"
      /\ run'.todo \subseteq FindInterrupted(ledgerLines)
  BY DEF Recover, IdleRun
<1>3. \A n \in run'.todo : OpenLine(n)'
  BY <1>1, <1>2 DEF FindInterrupted, OpenLine, KeepsLines
<1>4. LinesInv'
  BY <1>1, LinesKept
<1> QED
  BY <1>2, <1>3, <1>4 DEF Reported, WalkInv, Walking, InAction, RecoverInv

(* A line that is not the outcome of an open action leaves it open.        *)
LEMMA StaysOpen ==
  ASSUME SetupTyped, NEW n, OpenLine(n), NEW event, Adds(event),
         ~(/\ event.type = "terminated"
           /\ event.exec = ledgerLines[n].exec
           /\ event.act = ledgerLines[n].act)
  PROVE  OpenLine(n)' /\ ledgerLines'[n] = ledgerLines[n]
BY DEF OpenLine, Has, Adds, SameLine

(* A call of Recover that appends, given what it claims where it goes on.  *)
LEMMA RecoverLog ==
  ASSUME SetupInv, Reported, KeepsMachine,
         NEW event, NewLine(event), NEW next \in CallRecord,
         Log(event, next, IdleRun), next.pc \notin Walking,
         GoesOn(next) /\ Adds(event) => RecoverInv'
  PROVE  Reported'
<1>1. /\ SetupTyped /\ LinesInv /\ event \in LedgerLine
      /\ UNCHANGED <<machine, executions>>
  BY DEF SetupInv, Reported, NewLine, KeepsMachine
<1>2. \/ run' = IdleRun /\ (KeepsLines \/ Adds(event))
      \/ GoesOn(next) /\ Adds(event)
  BY <1>1, LoggedOne
<1>3. LinesInv'
  BY <1>1, <1>2, LinesAdded, LinesKept
<1>4. CASE run' = IdleRun
  <2>1. run'.pc = "idle"
    BY <1>4 DEF IdleRun
  <2> QED BY <1>3, <2>1 DEF Reported, WalkInv, RecoverInv, Walking, InAction
<1>5. CASE GoesOn(next) /\ Adds(event)
  <2>1. run'.pc \notin Walking
    BY <1>5 DEF GoesOn
  <2> QED BY <1>3, <1>5, <2>1 DEF Reported, WalkInv
<1> QED BY <1>2, <1>4, <1>5

(* What the lines of Recover say.                                          *)
LEMMA RecoveredFields ==
  ASSUME SetupTyped, NEW type \in LedgerTypes, NEW p \in SetupPlanIds,
         NEW x \in Nat, NEW i \in Nat, NEW status \in LedgerStatuses,
         NEW event, event = Event(type, p, x, i, status)
  PROVE  /\ event \in LedgerLine /\ event.type = type /\ event.plan = p
         /\ event.exec = x /\ event.act = i /\ event.status = status
BY SetupRecords DEF Event

(* The evidence of Recover is of the machine as it is.                     *)
LEMMA ReconcileReported ==
  ASSUME SetupInv, Reported, NEW n \in run.todo, ReconcileInterrupted(n)
  PROVE  Reported'
<1>1. /\ SetupTyped /\ LinesInv /\ RecoverInv /\ run \in CallRecord
      /\ n \in DOMAIN ledgerLines /\ ledgerLines[n] \in LedgerLine
      /\ ledgerLines \in Seq(LedgerLine) /\ n \in Nat
  BY DEF SetupInv, SetupTyped, Reported
<1>2. /\ run.pc = "reconcile" /\ KeepsMachine
      /\ UNCHANGED <<machine, executions>>
  BY Zenon DEF ReconcileInterrupted, KeepsMachine
<1>3. PICK open : open = ledgerLines[n]
  OBVIOUS
<1>4. /\ open.plan \in SetupPlanIds /\ open.exec \in 1 .. executions
      /\ open.act \in Nat /\ open.exec \in Nat
      /\ \A m \in run.todo : OpenLine(m)
  BY <1>1, <1>2, <1>3
     DEF LinesInv, LinesNumbered, LedgerLine, RecoverInv
<1>5. CASE run' = IdleRun /\ KeepsLines
  <2>1. LinesInv' /\ run'.pc = "idle"
    BY <1>1, <1>2, <1>5, LinesKept DEF IdleRun
  <2> QED BY <2>1 DEF Reported, WalkInv, RecoverInv, Walking, InAction
<1>6. ASSUME NEW holds,
             holds \in IF Postconditions(Action(open.plan, open.act)) = {}
                       THEN {"holds"}
                       ELSE Postconditions(Action(open.plan, open.act)),
             Log(Event("postcondition", open.plan, open.exec, open.act, ""),
                 [run EXCEPT !.pc = "resolve", !.at = n,
                             !.passed = holds = "holds"],
                 IdleRun)
      PROVE  Reported'
  <2>1. (holds = "holds") \in BOOLEAN
    OBVIOUS
  <2>2. PICK next : next = [run EXCEPT !.pc = "resolve", !.at = n,
                                       !.passed = holds = "holds"]
    OBVIOUS
  <2>3. /\ next \in CallRecord /\ next.pc = "resolve" /\ next.at = n
        /\ next.todo = run.todo /\ next.passed = (holds = "holds")
    BY <1>1, <2>1, <2>2 DEF CallRecord, CallSteps
  <2>4. PICK event : event = Event("postcondition", open.plan, open.exec,
                                   open.act, "")
    OBVIOUS
  <2>5. Log(event, next, IdleRun)
    BY <1>6, <2>2, <2>4
  <2>6. /\ event \in LedgerLine /\ event.type = "postcondition"
        /\ event.exec = open.exec
    <3>1. "postcondition" \in LedgerTypes /\ "" \in LedgerStatuses
      BY DEF LedgerTypes, LedgerStatuses
    <3>2. event.type = "postcondition" /\ event.exec = open.exec
      BY <2>4 DEF Event
    <3>3. event \in LedgerLine
      BY <1>1, <1>4, <2>4, <3>1, SetupRecords
    <3> QED BY <3>2, <3>3
  <2>7. NewLine(event)
    BY <1>4, <2>6, PlainLine
  <2>8. next.passed /\ Action(open.plan, open.act) \in ModelKinds =>
          machine[Action(open.plan, open.act)] = "yes"
    BY <1>6, <2>3, ModelEvidence
  <2>9. ASSUME GoesOn(next), Adds(event)
        PROVE  RecoverInv'
    <3>1. /\ run'.pc = "resolve" /\ run'.at = n /\ run'.todo = run.todo
          /\ run'.passed = next.passed
      BY <2>3, <2>9 DEF GoesOn
    <3>2. \A m \in run.todo : OpenLine(m)' /\ ledgerLines'[m] = ledgerLines[m]
      BY <1>1, <1>4, <2>6, <2>9, StaysOpen
    <3>3. ledgerLines'[n] = open
      BY <1>3, <3>2
    <3> QED BY <1>2, <2>8, <3>1, <3>2, <3>3 DEF RecoverInv
  <2>10. next.pc \notin Walking
    BY <2>3 DEF Walking, InAction
  <2> QED BY <1>2, <2>3, <2>5, <2>7, <2>9, <2>10, RecoverLog
<1> QED
  BY <1>3, <1>5, <1>6, Zenon DEF ReconcileInterrupted, KeepsLines

(* The outcome that Recover gives: the action was open, so its execution   *)
(* has not ended as succeeded, and the other open ones stay open.          *)
LEMMA ResolveReported ==
  ASSUME SetupInv, Reported, ResolveInterrupted
  PROVE  Reported'
<1> DEFINE status == IF run.passed THEN "succeeded" ELSE "blocked"
<1>1. /\ SetupTyped /\ LinesInv /\ RecoverInv /\ run \in CallRecord
      /\ run.pc = "resolve" /\ KeepsMachine
      /\ UNCHANGED <<machine, executions>>
  BY DEF SetupInv, SetupTyped, Reported, ResolveInterrupted, KeepsMachine
<1>2. PICK a, open, left : /\ a = run.at /\ open = ledgerLines[a]
                           /\ left = run.todo \ {a}
  OBVIOUS
<1>3. /\ a \in run.todo /\ a \in DOMAIN ledgerLines /\ open \in LedgerLine
      /\ \A m \in run.todo : OpenLine(m)
      /\ run.passed /\ Action(open.plan, open.act) \in ModelKinds =>
           machine[Action(open.plan, open.act)] = "yes"
      /\ left \subseteq run.todo /\ left \in SUBSET Nat
  <2>1. ledgerLines \in Seq(LedgerLine)
    BY <1>1 DEF SetupTyped
  <2> QED BY <1>1, <1>2, <2>1 DEF RecoverInv, SetupTyped, CallRecord
<1>4. /\ open.plan \in SetupPlanIds /\ open.exec \in 1 .. executions
      /\ open.act \in Nat /\ open.exec \in Nat
      /\ open.type = "starting"
      /\ ~Has(ledgerLines, "terminated", open.exec, open.act)
  BY <1>1, <1>2, <1>3 DEF LinesInv, LinesNumbered, LedgerLine, OpenLine
<1>5. PICK event : event = Event("terminated", open.plan, open.exec,
                                 open.act, status)
  OBVIOUS
<1>6. /\ event \in LedgerLine /\ event.type = "terminated"
      /\ event.plan = open.plan /\ event.exec = open.exec
      /\ event.act = open.act /\ event.status = status
  <2>1. "terminated" \in LedgerTypes /\ status \in LedgerStatuses
    BY DEF LedgerTypes, LedgerStatuses
  <2> HIDE DEF status
  <2> QED BY <1>1, <1>4, <1>5, <2>1, RecoveredFields
<1>7. NewLine(event)
  <2>1. ASSUME NEW n \in DOMAIN ledgerLines, Finished(n, open.exec),
               ledgerLines[n].status = "succeeded"
        PROVE  FALSE
    <3>1. PICK p \in SetupPlanIds : Completed(open.exec, p, n)
      BY <1>1, <2>1 DEF LinesInv, EndsComplete, Finished
    <3>2. open.act \in 1 .. Len(SetupActions[p])
      BY <1>2, <1>3, <1>4, <3>1 DEF Completed, StartedWithin
    <3> QED BY <1>4, <3>1, <3>2 DEF Completed, TerminatedBefore, Has
  <2>2. event.status = "succeeded" => run.passed
    BY <1>6
  <2> QED BY <1>3, <1>4, <1>6, <2>1, <2>2 DEF NewLine
<1>8. PICK next : next = IF left = {} THEN IdleRun
                         ELSE [run EXCEPT !.pc = "reconcile", !.todo = left]
  OBVIOUS
<1>9. /\ next \in CallRecord
      /\ next.pc = "idle" \/ (next.pc = "reconcile" /\ next.todo = left)
  <2>1. CASE left = {}
    BY <1>1, <1>8, <2>1, SetupRecords
  <2>2. CASE left # {}
    BY <1>1, <1>3, <1>8, <2>2 DEF CallRecord, CallSteps
  <2> QED BY <2>1, <2>2
<1>10. Log(event, next, IdleRun)
  BY <1>2, <1>5, <1>8 DEF ResolveInterrupted
<1>11. ASSUME GoesOn(next), Adds(event)
       PROVE  RecoverInv'
  <2>1. CASE next.pc = "idle"
    <3>1. run'.pc = "idle"
      BY <1>11, <2>1 DEF GoesOn
    <3> QED BY <3>1 DEF RecoverInv
  <2>2. CASE next.pc = "reconcile" /\ next.todo = left
    <3>1. run'.pc = "reconcile" /\ run'.todo = left
      BY <1>11, <2>2 DEF GoesOn
    <3>2. ASSUME NEW m \in left
          PROVE  OpenLine(m)'
      <4>1. m # a /\ OpenLine(m) /\ OpenLine(a)
        BY <1>2, <1>3
      <4>2. ~(/\ open.exec = ledgerLines[m].exec
              /\ open.act = ledgerLines[m].act)
        BY <1>1, <1>2, <4>1
           DEF LinesInv, LoggedOnce, OnceTypes, OpenLine
      <4> QED BY <1>1, <1>6, <1>11, <4>1, <4>2, StaysOpen
    <3> QED BY <3>1, <3>2 DEF RecoverInv
  <2> QED BY <1>9, <2>1, <2>2
<1>12. next.pc \notin Walking
  BY <1>9 DEF Walking, InAction
<1> QED BY <1>1, <1>7, <1>9, <1>10, <1>11, <1>12, RecoverLog

(* A stop keeps a prefix, which is as true as the whole.                   *)
LEMMA StopsReported ==
  ASSUME SetupInv, Reported, SetupStops
  PROVE  Reported'
<1>1. /\ SetupTyped /\ LinesInv /\ WalkInv /\ ledgerLines \in Seq(LedgerLine)
      /\ durableLines \in 0 .. Length /\ Length \in Nat
      /\ DOMAIN ledgerLines = 1 .. Length
  BY DEF SetupInv, SetupTyped, Reported, Length
<1>2. PICK n \in durableLines .. Length :
        ledgerLines' = SubSeq(ledgerLines, 1, n)
  BY DEF SetupStops, Length
<1>3. /\ DOMAIN ledgerLines' = 1 .. n
      /\ \A m \in 1 .. n : ledgerLines'[m] = ledgerLines[m]
      /\ 1 .. n \subseteq DOMAIN ledgerLines
      /\ n \in Nat
  BY <1>1, <1>2 DEF Length
<1>4. UNCHANGED <<durableLines, executions>> /\ run' = IdleRun
  BY DEF SetupStops
<1>5. run'.pc = "idle"
  BY <1>4 DEF IdleRun
<1>6. LinesNumbered' /\ LoggedOnce'
  BY <1>1, <1>3, <1>4 DEF LinesInv, LinesNumbered, LoggedOnce
<1>7. EndsComplete'
  <2>1. ASSUME NEW x, NEW p \in SetupPlanIds, NEW m \in 1 .. n,
               Completed(x, p, m)
        PROVE  Completed(x, p, m)'
    <3>1. /\ StartedWithin(x, Len(SetupActions[p]))'
          /\ SucceededWithin(x, Len(SetupActions[p]))'
      BY <1>3, <2>1 DEF Completed, StartedWithin, SucceededWithin
    <3>2. TerminatedBefore(x, Len(SetupActions[p]), m)'
      <4>1. \A k \in DOMAIN ledgerLines : k < m => k \in 1 .. n
        BY <1>1, <1>3
      <4> QED BY <1>3, <2>1, <4>1 DEF Completed, TerminatedBefore
    <3> QED BY <3>1, <3>2 DEF Completed
  <2> QED BY <1>1, <1>3, <2>1 DEF LinesInv, EndsComplete
<1>8. LastLinesTrue'
  <2>1. CASE machine' = machine
    BY <1>1, <1>3, <1>4, <2>1 DEF LinesInv, LastLinesTrue, TrueLine
  <2>2. CASE run.pc = "op"
    <3>1. durableLines = Length /\ ledgerLines[Length].type = "starting"
      BY <1>1, <2>2 DEF WalkInv, Walking, InAction
    <3>2. \A m \in 1 .. n : m >= durableLines => m = Length
      BY <1>1, <1>3, <3>1
    <3> QED BY <1>3, <1>4, <3>1, <3>2 DEF LastLinesTrue, TrueLine
  <2> QED BY <2>1, <2>2 DEF SetupStops
<1> QED
  BY <1>5, <1>6, <1>7, <1>8
     DEF Reported, LinesInv, WalkInv, Walking, InAction, RecoverInv

(* An empty ledger reports nothing.                                        *)
LEMMA ReportInit == InitSetup => Reported
<1> SUFFICES ASSUME InitSetup PROVE Reported
  OBVIOUS
<1>1. DOMAIN ledgerLines = {} /\ run.pc = "idle"
  BY DEF InitSetup, IdleRun
<1> QED
  BY <1>1 DEF Reported, LinesInv, LinesNumbered, LoggedOnce, EndsComplete,
              LastLinesTrue, WalkInv, Walking, InAction, RecoverInv

(* Whatever appends fail and whenever the process or the machine stops:    *)
(* each start, outcome and end is in the ledger once, an execution that    *)
(* ended as succeeded has the success of its whole plan before its end,    *)
(* and no model outcome that a crash can make the last line is false.      *)
THEOREM ReportInvariant == SpecSetup => []ReportInv
<1>1. SetupInv /\ Reported /\ [NextSetup]_setupVars => Reported'
  <2> SUFFICES ASSUME SetupInv, Reported, [NextSetup]_setupVars
               PROVE  Reported'
    OBVIOUS
  <2>1. CASE UNCHANGED setupVars
    <3>1. KeepsLines /\ UNCHANGED <<machine, executions, run>>
      BY <2>1 DEF setupVars, KeepsLines
    <3>2. LinesInv'
      BY <3>1, LinesKept DEF Reported
    <3>3. WalkInv'
      BY <3>1
         DEF Reported, WalkInv, KeepsLines, Completed, StartedWithin,
             SucceededWithin, TerminatedBefore, Finished, Length, Current
    <3>4. RecoverInv'
      BY <3>1 DEF Reported, RecoverInv, OpenLine, KeepsLines
    <3> QED BY <3>2, <3>3, <3>4 DEF Reported
  <2>2. CASE NextSetup
    BY <2>2, ApplyReported, RecoverReported, BeginsReported,
       PreconditionReported, StartingReported, ManualReported,
       OperationReported, ProcessReported, PostconditionReported,
       TerminatedReported, FinishedReported, ReconcileReported,
       ResolveReported, StopsReported
       DEF NextSetup
  <2> QED BY <2>1, <2>2
<1> QED BY <1>1, ReportInit, SetupInvariant, PTL DEF SpecSetup, ReportInv

(* An execution that reports success reports all of its plan.              *)
LEMMA ReportedSuccess ==
  ASSUME SetupTyped, LinesInv, NEW x,
         ProjectExecutionReport(ledgerLines, x).status = "succeeded"
  PROVE  \E p \in SetupPlanIds :
           ProjectExecutionReport(ledgerLines, x).results
             = [i \in DOMAIN SetupActions[p] |-> "succeeded"]
<1> DEFINE mine == {n \in DOMAIN ledgerLines : ledgerLines[n].exec = x}
           acts(type) == {ledgerLines[n].act :
                            n \in {m \in mine : ledgerLines[m].type = type}}
           interrupted == acts("starting") \ acts("terminated")
           ends == {n \in mine : ledgerLines[n].type = "finished"}
           end == CHOOSE n \in ends : \A m \in ends : m <= n
           outcome(i) == CHOOSE n \in mine :
                           /\ ledgerLines[n].type = "terminated"
                           /\ ledgerLines[n].act = i
                           /\ \A m \in mine : m > n =>
                                ~(ledgerLines[m].type = "terminated"
                                    /\ ledgerLines[m].act = i)
           reported == acts("starting") \cup acts("terminated")
<1>1. /\ ProjectExecutionReport(ledgerLines, x).results =
           [i \in reported |-> IF i \in interrupted THEN "interrupted"
                               ELSE ledgerLines[outcome(i)].status]
      /\ ProjectExecutionReport(ledgerLines, x).status =
           IF ends # {} THEN ledgerLines[end].status
           ELSE IF interrupted # {} THEN "interrupted" ELSE "running"
  BY DEF ProjectExecutionReport
<1>2. ends # {} /\ ledgerLines[end].status = "succeeded"
  BY <1>1
<1>3. end \in ends
  <2>1. PICK n \in ends : TRUE
    BY <1>2
  <2>2. \A m \in ends : m = n
    BY DEF LinesInv, LoggedOnce, EndsComplete, OnceTypes
  <2>3. n \in Nat
    BY DEF SetupTyped
  <2>4. \A m \in ends : m <= n
    BY <2>2, <2>3
  <2> QED BY <2>1, <2>4
<1>4. PICK p \in SetupPlanIds : Completed(x, p, end)
  <2> HIDE DEF end
  <2> QED BY <1>2, <1>3 DEF LinesInv, EndsComplete
<1>5. PICK size \in Nat : size = Len(SetupActions[p])
  BY PlanLength
<1>6. DOMAIN SetupActions[p] = 1 .. size
  <2>1. CASE p = "p1"
    BY <1>5, <2>1 DEF SetupActions
  <2>2. CASE p = "p2"
    BY <1>5, <2>2 DEF SetupActions
  <2>3. CASE p = "p3"
    BY <1>5, <2>3 DEF SetupActions
  <2>4. SetupPlanIds = {"p1", "p2", "p3"}
    BY DEF SetupPlanIds, SetupActions
  <2> QED BY <2>1, <2>2, <2>3, <2>4
<1>7. /\ acts("starting") \subseteq 1 .. size
      /\ acts("terminated") \subseteq 1 .. size
      /\ 1 .. size \subseteq acts("terminated")
      /\ \A m \in mine : ledgerLines[m].type = "terminated" =>
                          ledgerLines[m].status = "succeeded"
  <2> HIDE DEF end
  <2> QED
    BY <1>4, <1>5
       DEF Completed, StartedWithin, SucceededWithin, TerminatedBefore
<1>8. reported = 1 .. size /\ interrupted = {}
  <2> HIDE DEF acts
  <2> QED BY <1>7
<1>9. ASSUME NEW i \in 1 .. size
      PROVE  ledgerLines[outcome(i)].status = "succeeded"
  <2>1. PICK n \in mine : ledgerLines[n].type = "terminated"
                          /\ ledgerLines[n].act = i
    BY <1>7
  <2>2. \A m \in mine : ledgerLines[m].type = "terminated"
                           /\ ledgerLines[m].act = i => m = n
    BY <2>1 DEF LinesInv, LoggedOnce, OnceTypes
  <2>3. n \in Nat
    BY DEF SetupTyped
  <2>4. \A m \in mine : m > n => ~(ledgerLines[m].type = "terminated"
                                     /\ ledgerLines[m].act = i)
    BY <2>2, <2>3
  <2>5. outcome(i) \in mine /\ ledgerLines[outcome(i)].type = "terminated"
    BY <2>1, <2>4
  <2> HIDE DEF outcome
  <2> QED BY <1>7, <2>5
<1> HIDE DEF outcome, reported, interrupted
<1> QED BY <1>1, <1>6, <1>8, <1>9

(* For every plan execution, failing append and stop: success that the     *)
(* ledger reports is the success of every action of the plan, and the      *)
(* outcome of a model action recorded last is what the machine has         *)
(* (walk, Recover, ProjectExecutionReport).                                *)
THEOREM ModelSuccessAlwaysReal == SpecSetup => []ModelSuccessIsReal
<1>1. ReportInv => ModelSuccessIsReal
  <2> SUFFICES ASSUME ReportInv PROVE ModelSuccessIsReal
    OBVIOUS
  <2>1. /\ SetupTyped /\ LinesInv /\ ledgerLines \in Seq(LedgerLine)
        /\ durableLines \in 0 .. Len(ledgerLines)
    BY DEF ReportInv, SetupInv, SetupTyped, Reported
  <2>2. ASSUME ledgerLines # <<>>
        PROVE  TrueLine(Len(ledgerLines))
    <3>1. /\ Len(ledgerLines) \in DOMAIN ledgerLines
          /\ Len(ledgerLines) >= durableLines
      BY <2>1, <2>2
    <3> QED BY <2>1, <3>1 DEF LinesInv, LastLinesTrue
  <2>3. \A x \in 1 .. executions :
          ProjectExecutionReport(ledgerLines, x).status = "succeeded" =>
            \E p \in SetupPlanIds :
              ProjectExecutionReport(ledgerLines, x).results
                = [i \in DOMAIN SetupActions[p] |-> "succeeded"]
    BY <2>1, ReportedSuccess
  <2> QED BY <2>2, <2>3, Zenon DEF ModelSuccessIsReal, TrueLine
<1> QED BY <1>1, ReportInvariant, PTL

-----------------------------------------------------------------------------
(* The activation of portfolios.                                           *)

Files == {"pending", "history", "active", "lineage"}
IsFolder(d) == d = [x \in Files |-> d[x]]

(* Numbered from 1, and each record names the one before it.               *)
Chain(L) ==
  /\ L \in Seq(Range(L))
  /\ \A i \in DOMAIN L : L[i].seq = i /\ L[i].prev = i - 1

ActiveOf(L) == IF L = <<>> THEN <<>> ELSE <<Last(L).portfolio>>

(* The folder tells the story of lineage L, and a loss of power keeps it.  *)
Settled(L) ==
  /\ \A d \in {folder, durable} :
       /\ d.lineage = L /\ d.active = ActiveOf(L) /\ d.history = Range(L)
  /\ Chain(L) /\ acknowledged \subseteq Range(L)

(* Rolling intent i forward, from whichever history survives, ends in a    *)
(* whole story that has every acknowledged activation.                     *)
Restores(i) ==
  /\ Chain(i.lineage) /\ i.lineage # <<>> /\ Last(i.lineage) = i.rec
  /\ acknowledged \subseteq Range(i.lineage)
  /\ folder.history \cup {i.rec} = Range(i.lineage)
  /\ durable.history \cup {i.rec} = Range(i.lineage)

(* A restart finds an intent it can roll forward, or needs none.           *)
CrashSafe ==
  /\ IsFolder(folder) /\ IsFolder(durable)
  /\ folder.pending = <<>> \/ Restores(folder.pending[1])
  /\ durable.pending = <<>> \/ Restores(durable.pending[1])
  /\ folder.pending = <<>> \/ durable.pending = <<>> =>
       Settled(folder.lineage)

(* The activation being written continues the lineage it started from.     *)
JobContinues ==
  /\ Chain(job.prev) /\ acknowledged \subseteq Range(job.prev)
  /\ Rec.seq = Len(job.prev) + 1 /\ Rec.prev = Len(job.prev)

Intent == [rec |-> Rec, lineage |-> NewLineage]

Histories(h) == folder.history = h /\ durable.history = h

(* Its intent is durable; its snapshot may be anywhere.                    *)
Underway ==
  /\ JobContinues
  /\ folder.pending = <<Intent>> /\ durable.pending = <<Intent>>
  /\ folder.history \in {Range(job.prev), Range(NewLineage)}
  /\ durable.history \in {Range(job.prev), Range(NewLineage)}

(* An intent is being rolled forward at startup.                           *)
Recovering ==
  folder.pending # <<>> /\ durable.pending = folder.pending

(* What is known at each step of the protocol.                             *)
StepInv ==
  /\ step = "idle" /\ ~recoveryRequired => Settled(folder.lineage)
  /\ step = "pending" => JobContinues /\ Settled(job.prev)
  /\ step \in {"history", "active", "lineage", "commit", "undoHistory",
               "undoActive", "undoLineage", "undoSync", "undoPending"} =>
       Underway
  /\ step = "active" => Histories(Range(NewLineage))
  /\ step = "lineage" =>
       /\ Histories(Range(NewLineage))
       /\ folder.active = <<Rec.portfolio>>
  /\ step = "commit" => Settled(NewLineage)
  /\ step \in {"undoActive", "undoLineage", "undoSync"} =>
       Histories(Range(job.prev))
  /\ step \in {"undoLineage", "undoSync"} =>
       folder.active = ActiveOf(job.prev)
  /\ step = "undoSync" => folder.lineage = job.prev
  /\ step = "undoPending" => Settled(job.prev)
  /\ step = "down" => durable.pending = folder.pending
  /\ step \in {"recoverHistory", "recoverActive", "recoverLineage",
               "recoverCommit"} => Recovering
  /\ step \in {"recoverActive", "recoverLineage"} =>
       Histories(Range(Pending.lineage))
  /\ step = "recoverLineage" => folder.active = <<Pending.rec.portfolio>>
  /\ step = "recoverCommit" => Settled(Pending.lineage)

ActivationInv == CrashSafe /\ StepInv

(* A lineage is continued by a record with the next number: it is a chain  *)
(* again, with exactly that record more.                                   *)
LEMMA ChainAppend ==
  ASSUME NEW L, NEW r, Chain(L), r.seq = Len(L) + 1, r.prev = Len(L)
  PROVE  /\ Chain(Append(L, r)) /\ Range(Append(L, r)) = Range(L) \cup {r}
         /\ Append(L, r) # <<>> /\ Last(Append(L, r)) = r
         /\ r \notin Range(L)
<1> DEFINE S == Range(L) \cup {r}
<1>1. L \in Seq(S) /\ r \in S /\ Len(L) \in Nat /\ DOMAIN L = 1 .. Len(L)
  BY DEF Chain
<1> HIDE DEF S
<1>2. /\ Append(L, r) \in Seq(S) /\ Len(Append(L, r)) = Len(L) + 1
      /\ \A i \in 1 .. Len(L) : Append(L, r)[i] = L[i]
      /\ Append(L, r)[Len(L) + 1] = r
      /\ DOMAIN Append(L, r) = 1 .. (Len(L) + 1)
  BY <1>1
<1>3. Range(Append(L, r)) = S
  BY <1>1, <1>2 DEF Range, S
<1>4. \A i \in DOMAIN Append(L, r) :
        Append(L, r)[i].seq = i /\ Append(L, r)[i].prev = i - 1
  BY <1>1, <1>2 DEF Chain
<1>5. r \notin Range(L)
  BY <1>1 DEF Chain, Range
<1>6. Append(L, r) # <<>> /\ Last(Append(L, r)) = r
  BY <1>1, <1>2 DEF Last
<1> QED BY <1>2, <1>3, <1>4, <1>5, <1>6 DEF Chain, S

(* Writing or removing a file of the main directory with its sync: on      *)
(* success the whole directory is durable, on failure nothing more is.     *)
LEMMA PutMain ==
  ASSUME IsFolder(folder), IsFolder(durable), NEW file \in Main, NEW value,
         NEW next, NEW failed, Put(file, value, next, failed)
  PROVE  /\ IsFolder(folder') /\ IsFolder(durable')
         /\ folder'.history = folder.history
         /\ durable'.history = durable.history
         /\ \A x \in Main \ {file} : folder'[x] = folder[x]
         /\ \/ /\ GoTo(next) /\ folder'[file] = value
               /\ \A x \in Main : durable'[x] = folder'[x]
            \/ /\ GoTo(failed) /\ folder'[file] \in {folder[file], value}
               /\ durable' = durable
<1> DEFINE new == [folder EXCEPT ![file] = value]
<1>1. /\ IsFolder(new) /\ new.history = folder.history /\ new[file] = value
      /\ \A x \in Main \ {file} : new[x] = folder[x]
  BY DEF IsFolder, Files, Main
<1>2. CASE /\ folder' = new /\ durable' = Synced(file, folder')
           /\ GoTo(next)
  <2>1. durable' = [x \in Files |-> IF x \in Main THEN new[x]
                                   ELSE durable[x]]
    BY <1>1, <1>2 DEF Synced, SameDirectory, Main, IsFolder, Files
  <2>2. /\ IsFolder(durable') /\ durable'.history = durable.history
        /\ \A x \in Main : durable'[x] = new[x]
    BY <2>1 DEF IsFolder, Files, Main
  <2> QED BY <1>1, <1>2, <2>2
<1>3. CASE folder' \in {folder, new} /\ GoTo(failed) /\ durable' = durable
  BY <1>1, <1>3
<1> QED BY <1>2, <1>3 DEF Put

(* Likewise for a snapshot and the history directory.                      *)
LEMMA PutHistory ==
  ASSUME IsFolder(folder), IsFolder(durable), NEW value,
         NEW next, NEW failed, Put("history", value, next, failed)
  PROVE  /\ IsFolder(folder') /\ IsFolder(durable')
         /\ \A x \in Main : folder'[x] = folder[x] /\ durable'[x] = durable[x]
         /\ \/ /\ GoTo(next) /\ folder'.history = value
               /\ durable'.history = value
            \/ /\ GoTo(failed)
               /\ folder'.history \in {folder.history, value}
               /\ durable'.history = durable.history
<1> DEFINE new == [folder EXCEPT !["history"] = value]
<1>1. /\ IsFolder(new) /\ new.history = value
      /\ \A x \in Main : new[x] = folder[x]
  BY DEF IsFolder, Files, Main
<1>2. CASE /\ folder' = new /\ durable' = Synced("history", folder')
           /\ GoTo(next)
  <2>1. durable' = [x \in Files |-> IF x = "history" THEN new[x]
                                   ELSE durable[x]]
    BY <1>1, <1>2 DEF Synced, SameDirectory, IsFolder, Files
  <2>2. /\ IsFolder(durable') /\ durable'.history = value
        /\ \A x \in Main : durable'[x] = durable[x]
    BY <1>1, <2>1 DEF IsFolder, Files, Main
  <2> QED BY <1>1, <1>2, <2>2
<1>3. CASE folder' \in {folder, new} /\ GoTo(failed) /\ durable' = durable
  BY <1>1, <1>3
<1> QED BY <1>2, <1>3 DEF Put

(* A removal without its sync.                                             *)
LEMMA UnlinkMain ==
  ASSUME IsFolder(folder), IsFolder(durable), NEW file \in Main,
         NEW next, NEW failed, Unlink(file, next, failed)
  PROVE  /\ IsFolder(folder') /\ durable' = durable
         /\ folder'.history = folder.history
         /\ \A x \in Main \ {file} : folder'[x] = folder[x]
         /\ \/ GoTo(next) /\ folder'[file] = <<>>
            \/ GoTo(failed) /\ folder'[file] = folder[file]
<1> DEFINE new == [folder EXCEPT ![file] = <<>>]
<1>1. /\ IsFolder(new) /\ new.history = folder.history /\ new[file] = <<>>
      /\ \A x \in Main \ {file} : new[x] = folder[x]
  BY DEF IsFolder, Files, Main
<1> QED BY <1>1 DEF Unlink

(* An intent that is under way can be rolled forward.                      *)
LEMMA UnderwayIsSafe ==
  IsFolder(folder) /\ IsFolder(durable) /\ Underway =>
    /\ CrashSafe
    /\ Chain(NewLineage) /\ NewLineage # <<>> /\ Last(NewLineage) = Rec
    /\ Range(NewLineage) = Range(job.prev) \cup {Rec}
    /\ Rec \notin Range(job.prev)
<1> SUFFICES ASSUME IsFolder(folder), IsFolder(durable), Underway
             PROVE  /\ CrashSafe
                    /\ Chain(NewLineage) /\ NewLineage # <<>>
                    /\ Last(NewLineage) = Rec
                    /\ Range(NewLineage) = Range(job.prev) \cup {Rec}
                    /\ Rec \notin Range(job.prev)
  OBVIOUS
<1>1. /\ Chain(NewLineage) /\ NewLineage # <<>> /\ Last(NewLineage) = Rec
      /\ Range(NewLineage) = Range(job.prev) \cup {Rec}
      /\ Rec \notin Range(job.prev)
  BY ChainAppend DEF Underway, JobContinues, NewLineage
<1>2. Intent.rec = Rec /\ Intent.lineage = NewLineage
  BY DEF Intent
<1>3. Restores(Intent)
  BY <1>1, <1>2 DEF Restores, Underway, JobContinues
<1>4. <<Intent>> # <<>> /\ <<Intent>>[1] = Intent
  OBVIOUS
<1> HIDE DEF Intent
<1>5. CrashSafe
  BY <1>3, <1>4 DEF CrashSafe, Underway
<1> QED BY <1>1, <1>5

(* The same of the state after a step.                                     *)
LEMMA StillSafe ==
  IsFolder(folder)' /\ IsFolder(durable)' /\ Underway' => CrashSafe'
BY UnderwayIsSafe, PTL

(* A step that leaves the job and what was acknowledged alone.             *)
LEMMA JobKept ==
  ASSUME UNCHANGED <<job, acknowledged>>
  PROVE  /\ Rec' = Rec /\ NewLineage' = NewLineage /\ Intent' = Intent
         /\ JobContinues' <=> JobContinues
BY DEF Rec, NewLineage, Intent, JobContinues

(* The snapshot of the new activation.                                     *)
LEMMA WriteHistoryStep ==
  ASSUME ActivationInv, WriteHistory
  PROVE  ActivationInv'
<1>1. /\ IsFolder(folder) /\ IsFolder(durable) /\ Underway
  BY DEF ActivationInv, CrashSafe, StepInv, WriteHistory
<1>2. UNCHANGED <<job, acknowledged>>
  BY DEF WriteHistory, KeepOthers
<1>3. Snapshot(Rec) = Range(NewLineage)
  BY <1>1, UnderwayIsSafe DEF Snapshot, Underway
<1>4. /\ IsFolder(folder') /\ IsFolder(durable')
      /\ \A x \in Main : folder'[x] = folder[x] /\ durable'[x] = durable[x]
      /\ \/ /\ GoTo("active") /\ folder'.history = Range(NewLineage)
            /\ durable'.history = Range(NewLineage)
         \/ /\ GoTo("undoHistory")
            /\ folder'.history \in {folder.history, Range(NewLineage)}
            /\ durable'.history = durable.history
  BY <1>1, <1>3, PutHistory DEF WriteHistory
<1>5. Underway'
  BY <1>1, <1>2, <1>4, JobKept DEF Underway, Main
<1>6. CrashSafe'
  BY <1>4, <1>5, StillSafe
<1>7. \/ step' = "undoHistory"
      \/ step' = "active" /\ Histories(Range(NewLineage))'
  BY <1>2, <1>4, JobKept DEF GoTo, Histories
<1> QED BY <1>5, <1>6, <1>7 DEF ActivationInv, StepInv

(* The active portfolio of the new activation.                             *)
LEMMA WriteActiveStep ==
  ASSUME ActivationInv, WriteActive
  PROVE  ActivationInv'
<1>1. /\ IsFolder(folder) /\ IsFolder(durable) /\ Underway
      /\ Histories(Range(NewLineage))
  BY DEF ActivationInv, CrashSafe, StepInv, WriteActive
<1>2. UNCHANGED <<job, acknowledged>>
  BY DEF WriteActive, KeepOthers
<1>3. /\ IsFolder(folder') /\ IsFolder(durable')
      /\ folder'.history = folder.history
      /\ durable'.history = durable.history
      /\ \A x \in Main \ {"active"} : folder'[x] = folder[x]
      /\ \/ /\ GoTo("lineage") /\ folder'["active"] = <<Rec.portfolio>>
            /\ \A x \in Main : durable'[x] = folder'[x]
         \/ GoTo("undoHistory") /\ durable' = durable
  BY <1>1, PutMain DEF WriteActive, Main
<1>4. folder'.pending = folder.pending /\ durable'.pending = durable.pending
  BY <1>1, <1>3 DEF Main, Underway
<1>5. Underway' /\ Histories(Range(NewLineage))'
  BY <1>1, <1>2, <1>3, <1>4, JobKept DEF Underway, Histories
<1>6. CrashSafe'
  BY <1>3, <1>5, StillSafe
<1>7. \/ step' = "undoHistory"
      \/ step' = "lineage" /\ folder'.active = <<Rec'.portfolio>>
  BY <1>2, <1>3, JobKept DEF GoTo
<1> QED BY <1>5, <1>6, <1>7 DEF ActivationInv, StepInv

(* The lineage with the new activation.                                    *)
LEMMA WriteLineageStep ==
  ASSUME ActivationInv, WriteLineage
  PROVE  ActivationInv'
<1>1. /\ IsFolder(folder) /\ IsFolder(durable) /\ Underway
      /\ Histories(Range(NewLineage)) /\ folder.active = <<Rec.portfolio>>
  BY DEF ActivationInv, CrashSafe, StepInv, WriteLineage
<1>2. UNCHANGED <<job, acknowledged>>
  BY DEF WriteLineage, KeepOthers
<1>3. /\ IsFolder(folder') /\ IsFolder(durable')
      /\ folder'.history = folder.history
      /\ durable'.history = durable.history
      /\ \A x \in Main \ {"lineage"} : folder'[x] = folder[x]
      /\ \/ /\ GoTo("commit") /\ folder'["lineage"] = NewLineage
            /\ \A x \in Main : durable'[x] = folder'[x]
         \/ GoTo("undoHistory") /\ durable' = durable
  BY <1>1, PutMain DEF WriteLineage, Main
<1>4. folder'.pending = folder.pending /\ durable'.pending = durable.pending
  BY <1>1, <1>3 DEF Main, Underway
<1>5. Underway'
  BY <1>1, <1>2, <1>3, <1>4, JobKept DEF Underway
<1>6. CrashSafe'
  BY <1>3, <1>5, StillSafe
<1>7. step' = "undoHistory" \/ step' = "commit"
  BY <1>3 DEF GoTo
<1>8. ASSUME step' = "commit"
      PROVE  Settled(NewLineage)'
  <2>1. /\ Chain(NewLineage) /\ acknowledged \subseteq Range(NewLineage)
        /\ ActiveOf(NewLineage) = <<Rec.portfolio>>
    BY <1>1, UnderwayIsSafe DEF ActiveOf, Underway, JobContinues
  <2>2. /\ folder'.lineage = NewLineage
        /\ durable'.lineage = NewLineage
        /\ folder'.active = <<Rec.portfolio>>
        /\ durable'.active = <<Rec.portfolio>>
    BY <1>1, <1>3, <1>8 DEF GoTo, Main
  <2>3. /\ folder'.history = Range(NewLineage)
        /\ durable'.history = Range(NewLineage)
    BY <1>1, <1>3 DEF Histories
  <2> QED BY <1>2, <2>1, <2>2, <2>3, JobKept DEF Settled
<1> QED BY <1>5, <1>6, <1>7, <1>8 DEF ActivationInv, StepInv

(* The intent.  If its write fails the call is refused, and what is left   *)
(* of the intent can be rolled forward all the same.                       *)
LEMMA WritePendingStep ==
  ASSUME ActivationInv, WritePending
  PROVE  ActivationInv'
<1>1. /\ IsFolder(folder) /\ IsFolder(durable) /\ JobContinues
      /\ Settled(job.prev) /\ CrashSafe
  BY DEF ActivationInv, CrashSafe, StepInv, WritePending
<1>2. UNCHANGED <<job, acknowledged>>
  BY DEF WritePending, KeepOthers
<1>3. /\ IsFolder(folder') /\ IsFolder(durable')
      /\ folder'.history = folder.history
      /\ durable'.history = durable.history
      /\ \A x \in Main \ {"pending"} : folder'[x] = folder[x]
      /\ \/ /\ GoTo("history") /\ folder'["pending"] = <<Intent>>
            /\ \A x \in Main : durable'[x] = folder'[x]
         \/ /\ GoTo("idle")
            /\ folder'["pending"] \in {folder["pending"], <<Intent>>}
            /\ durable' = durable
  BY <1>1, PutMain DEF WritePending, Main, Intent
<1>4. /\ folder.history = Range(job.prev) /\ durable.history = Range(job.prev)
      /\ folder.lineage = job.prev /\ durable.lineage = job.prev
      /\ folder.active = ActiveOf(job.prev)
      /\ durable.active = ActiveOf(job.prev)
      /\ Chain(job.prev) /\ acknowledged \subseteq Range(job.prev)
  BY <1>1 DEF Settled
<1>5. CASE step' = "history"
  <2>1. Underway'
    BY <1>1, <1>2, <1>3, <1>4, <1>5, JobKept DEF Underway, Main, GoTo
  <2>2. CrashSafe'
    BY <1>3, <2>1, StillSafe
  <2> QED BY <1>5, <2>1, <2>2 DEF ActivationInv, StepInv
<1>6. CASE step' # "history"
  <2>1. /\ step' = "idle" /\ durable' = durable
        /\ folder'.pending \in {folder.pending, <<Intent>>}
        /\ folder'.lineage = folder.lineage /\ folder'.active = folder.active
    BY <1>3, <1>6 DEF GoTo, Main
  <2>2. Settled(folder.lineage)'
    BY <1>2, <1>3, <1>4, <2>1 DEF Settled
  <2>3. Restores(Intent)
    <3>1. /\ Chain(NewLineage) /\ NewLineage # <<>>
          /\ Last(NewLineage) = Rec
          /\ Range(NewLineage) = Range(job.prev) \cup {Rec}
      BY <1>1, ChainAppend DEF JobContinues, NewLineage
    <3>2. Intent.rec = Rec /\ Intent.lineage = NewLineage
      BY DEF Intent
    <3> QED BY <1>4, <3>1, <3>2 DEF Restores
  <2>4. \A i : Restores(i) => Restores(i)'
    BY <1>2, <1>3, <2>1 DEF Restores
  <2>5. <<Intent>>[1] = Intent
    OBVIOUS
  <2>6. folder'.pending = <<>> \/ Restores(folder.pending[1])'
    <3>1. CASE folder'.pending = folder.pending
      BY <1>1, <2>4, <3>1 DEF CrashSafe
    <3>2. CASE folder'.pending = <<Intent>>
      <4>1. folder'.pending[1] = Intent
        BY <2>5, <3>2
      <4> HIDE DEF Intent
      <4> QED BY <1>2, <1>3, <2>1, <2>3, <4>1 DEF Restores
    <3> QED BY <2>1, <3>1, <3>2
  <2>7. durable'.pending = <<>> \/ Restores(durable.pending[1])'
    BY <1>1, <2>1, <2>4 DEF CrashSafe
  <2>8. CrashSafe'
    BY <1>3, <2>2, <2>6, <2>7 DEF CrashSafe
  <2> QED BY <2>1, <2>2, <2>8 DEF ActivationInv, StepInv
<1> QED BY <1>5, <1>6

(* The intent is removed, or stays: the other files are as they were.      *)
LEMMA PendingRemoved ==
  ASSUME IsFolder(folder), IsFolder(durable), RemovePending
  PROVE  /\ IsFolder(folder') /\ IsFolder(durable') /\ step' = "idle"
         /\ folder'.pending \in {folder.pending, <<>>}
         /\ durable'.pending \in {folder.pending, durable.pending, <<>>}
         /\ folder'.history = folder.history
         /\ durable'.history = durable.history
         /\ folder'.active = folder.active /\ folder'.lineage = folder.lineage
         /\ durable'.active \in {folder.active, durable.active}
         /\ durable'.lineage \in {folder.lineage, durable.lineage}
<1> DEFINE new == [folder EXCEPT !.pending = <<>>]
<1>1. /\ IsFolder(new) /\ new.pending = <<>>
      /\ new.history = folder.history /\ new.active = folder.active
      /\ new.lineage = folder.lineage
  BY DEF IsFolder, Files
<1>2. PICK d \in {folder, new}, synced \in BOOLEAN :
        /\ folder' = d
        /\ durable' = IF synced THEN Synced("pending", d) ELSE durable
        /\ GoTo("idle")
  BY DEF RemovePending
<1> HIDE DEF new
<1>3. IsFolder(d)
  BY <1>1
<1>4. /\ IsFolder(Synced("pending", d))
      /\ Synced("pending", d).pending = d.pending
      /\ Synced("pending", d).history = durable.history
      /\ Synced("pending", d).active = d.active
      /\ Synced("pending", d).lineage = d.lineage
  BY <1>3 DEF Synced, SameDirectory, Main, IsFolder, Files
<1>5. step' = "idle"
  BY <1>2 DEF GoTo
<1> QED BY <1>1, <1>2, <1>3, <1>4, <1>5

(* The end of a story that is settled as an intent says.                   *)
LEMMA CommittedStep ==
  ASSUME CrashSafe, RemovePending, NEW i, folder.pending[1] = i,
         durable.pending = folder.pending, Settled(i.lineage), Restores(i),
         acknowledged' \subseteq Range(i.lineage)
  PROVE  ActivationInv'
<1>1. /\ IsFolder(folder') /\ IsFolder(durable') /\ step' = "idle"
      /\ folder'.pending \in {folder.pending, <<>>}
      /\ durable'.pending \in {folder.pending, <<>>}
      /\ folder'.history = folder.history
      /\ durable'.history = durable.history
      /\ folder'.active = folder.active /\ folder'.lineage = folder.lineage
      /\ durable'.active \in {folder.active, durable.active}
      /\ durable'.lineage \in {folder.lineage, durable.lineage}
  BY PendingRemoved DEF CrashSafe
<1>2. Settled(folder.lineage)'
  BY <1>1 DEF Settled
<1>3. /\ folder'.pending = <<>> \/ Restores(folder.pending[1])'
      /\ durable'.pending = <<>> \/ Restores(durable.pending[1])'
  BY <1>1 DEF Restores
<1>4. CrashSafe'
  BY <1>1, <1>2, <1>3 DEF CrashSafe
<1> QED BY <1>1, <1>2, <1>4 DEF ActivationInv, StepInv

(* persistActivationLocked returns: the activation is acknowledged.        *)
LEMMA CommitStep ==
  ASSUME ActivationInv, Commit
  PROVE  ActivationInv'
<1>1. CrashSafe /\ Underway /\ Settled(NewLineage) /\ RemovePending
  BY DEF ActivationInv, StepInv, Commit
<1>2. /\ Intent.lineage = NewLineage /\ folder.pending = <<Intent>>
      /\ durable.pending = <<Intent>> /\ <<Intent>>[1] = Intent
      /\ <<Intent>> # <<>>
  BY <1>1 DEF Intent, Underway
<1> HIDE DEF Intent
<1>3. Restores(Intent)
  BY <1>1, <1>2 DEF CrashSafe
<1>4. acknowledged' \subseteq Range(NewLineage)
  BY <1>1, UnderwayIsSafe DEF Commit, CrashSafe, Settled
<1> QED BY <1>1, <1>2, <1>3, <1>4, CommittedStep

(* recoverStartupLocked returns: the intent was rolled forward.            *)
LEMMA RecoverCommitStep ==
  ASSUME ActivationInv, RecoverCommit
  PROVE  ActivationInv'
<1>1. CrashSafe /\ Recovering /\ Settled(Pending.lineage) /\ RemovePending
  BY DEF ActivationInv, StepInv, RecoverCommit
<1>2. acknowledged' = acknowledged
  BY DEF RecoverCommit, KeepOthers
<1>3. Restores(Pending)
  BY <1>1 DEF CrashSafe, Recovering, Pending
<1>4. /\ folder.pending[1] = Pending /\ durable.pending = folder.pending
      /\ acknowledged' \subseteq Range(Pending.lineage)
  BY <1>1, <1>2, <1>3 DEF Recovering, Pending, Restores
<1> QED BY <1>1, <1>3, <1>4, CommittedStep

(* rollbackOnFailure takes the snapshot back.                              *)
LEMMA UndoHistoryStep ==
  ASSUME ActivationInv, UndoHistory
  PROVE  ActivationInv'
<1>1. /\ IsFolder(folder) /\ IsFolder(durable) /\ Underway
  BY DEF ActivationInv, CrashSafe, StepInv, UndoHistory
<1>2. UNCHANGED <<job, acknowledged>>
  BY DEF UndoHistory, KeepOthers
<1>3. folder.history \ {Rec} = Range(job.prev)
  BY <1>1, UnderwayIsSafe DEF Underway
<1>4. /\ IsFolder(folder') /\ IsFolder(durable')
      /\ \A x \in Main : folder'[x] = folder[x] /\ durable'[x] = durable[x]
      /\ \/ /\ GoTo("undoActive") /\ folder'.history = Range(job.prev)
            /\ durable'.history = Range(job.prev)
         \/ /\ GoTo("poison")
            /\ folder'.history \in {folder.history, Range(job.prev)}
            /\ durable'.history = durable.history
  BY <1>1, <1>3, PutHistory DEF UndoHistory
<1>5. Underway'
  BY <1>1, <1>2, <1>4, JobKept DEF Underway, Main
<1>6. CrashSafe'
  BY <1>4, <1>5, StillSafe
<1>7. \/ step' = "idle" /\ recoveryRequired'
      \/ step' = "undoActive" /\ Histories(Range(job.prev))'
  BY <1>2, <1>4 DEF GoTo, Histories
<1> QED BY <1>5, <1>6, <1>7 DEF ActivationInv, StepInv

(* A step of the rollback on a file of the main directory other than the   *)
(* intent.                                                                 *)
LEMMA UndoMain ==
  ASSUME IsFolder(folder), IsFolder(durable), Underway,
         Histories(Range(job.prev)), UNCHANGED <<job, acknowledged>>,
         NEW file \in {"active", "lineage"}, NEW value, NEW next,
         \/ Put(file, value, next, "poison")
         \/ value = <<>> /\ Unlink(file, next, "poison")
  PROVE  /\ CrashSafe' /\ Underway' /\ Histories(Range(job.prev))'
         /\ \A x \in {"active", "lineage"} \ {file} : folder'[x] = folder[x]
         /\ \/ GoTo("poison")
            \/ GoTo(next) /\ folder'[file] = value
<1>1. /\ IsFolder(folder') /\ IsFolder(durable')
      /\ folder'.history = folder.history
      /\ durable'.history = durable.history
      /\ \A x \in Main \ {file} : folder'[x] = folder[x]
      /\ \/ /\ GoTo(next) /\ folder'[file] = value
            /\ durable' = durable \/ \A x \in Main : durable'[x] = folder'[x]
         \/ GoTo("poison") /\ durable' = durable
  <2>1. file \in Main
    BY DEF Main
  <2>2. CASE Put(file, value, next, "poison")
    BY <2>1, <2>2, PutMain
  <2>3. CASE value = <<>> /\ Unlink(file, next, "poison")
    BY <2>1, <2>3, UnlinkMain
  <2> QED BY <2>2, <2>3
<1>2. folder'.pending = folder.pending /\ durable'.pending = durable.pending
  BY <1>1 DEF Main, Underway
<1>3. Underway' /\ Histories(Range(job.prev))'
  BY <1>1, <1>2, JobKept DEF Underway, Histories
<1>4. CrashSafe'
  BY <1>1, <1>3, StillSafe
<1> QED BY <1>1, <1>3, <1>4 DEF Main

(* It puts the active portfolio back, or removes it if there was none.     *)
LEMMA UndoActiveStep ==
  ASSUME ActivationInv, UndoActive
  PROVE  ActivationInv'
<1>1. /\ IsFolder(folder) /\ IsFolder(durable) /\ Underway
      /\ Histories(Range(job.prev))
  BY DEF ActivationInv, CrashSafe, StepInv, UndoActive
<1>2. UNCHANGED <<job, acknowledged>>
  BY DEF UndoActive, KeepOthers
<1>3. /\ CrashSafe' /\ Underway' /\ Histories(Range(job.prev))'
      /\ \/ GoTo("poison")
         \/ GoTo("undoLineage") /\ folder'["active"] = ActiveOf(job.prev)
  <2>1. \/ Put("active", ActiveOf(job.prev), "undoLineage", "poison")
        \/ /\ ActiveOf(job.prev) = <<>>
           /\ Unlink("active", "undoLineage", "poison")
    BY DEF UndoActive, ActiveOf
  <2> QED BY <1>1, <1>2, <2>1, UndoMain
<1>4. \/ step' = "idle" /\ recoveryRequired'
      \/ step' = "undoLineage" /\ folder'.active = ActiveOf(job'.prev)
  BY <1>2, <1>3 DEF GoTo
<1> QED BY <1>3, <1>4 DEF ActivationInv, StepInv

(* ... and so for the lineage.                                             *)
LEMMA UndoLineageStep ==
  ASSUME ActivationInv, UndoLineage
  PROVE  ActivationInv'
<1>1. /\ IsFolder(folder) /\ IsFolder(durable) /\ Underway
      /\ Histories(Range(job.prev)) /\ folder.active = ActiveOf(job.prev)
  BY DEF ActivationInv, CrashSafe, StepInv, UndoLineage
<1>2. UNCHANGED <<job, acknowledged>>
  BY DEF UndoLineage, KeepOthers
<1>3. /\ CrashSafe' /\ Underway' /\ Histories(Range(job.prev))'
      /\ folder'["active"] = folder["active"]
      /\ \/ GoTo("poison")
         \/ GoTo("undoSync") /\ folder'["lineage"] = job.prev
  <2>1. \/ Put("lineage", job.prev, "undoSync", "poison")
        \/ job.prev = <<>> /\ Unlink("lineage", "undoSync", "poison")
    BY DEF UndoLineage
  <2> QED BY <1>1, <1>2, <2>1, UndoMain
<1>4. \/ step' = "idle" /\ recoveryRequired'
      \/ /\ step' = "undoSync" /\ folder'.lineage = job'.prev
         /\ folder'.active = ActiveOf(job'.prev)
  BY <1>1, <1>2, <1>3 DEF GoTo
<1> QED BY <1>3, <1>4 DEF ActivationInv, StepInv

(* The sync makes the removals durable too.                                *)
LEMMA UndoSyncStep ==
  ASSUME ActivationInv, UndoSync
  PROVE  ActivationInv'
<1>1. /\ IsFolder(folder) /\ IsFolder(durable) /\ Underway
      /\ Histories(Range(job.prev)) /\ folder.active = ActiveOf(job.prev)
      /\ folder.lineage = job.prev
  BY DEF ActivationInv, CrashSafe, StepInv, UndoSync
<1>2. UNCHANGED <<job, acknowledged>>
  BY DEF UndoSync, KeepOthers
<1>3. /\ folder' = folder
      /\ \/ durable' = Synced("lineage", folder) /\ GoTo("undoPending")
         \/ durable' = durable /\ GoTo("poison")
  BY DEF UndoSync, Sync
<1>4. /\ IsFolder(Synced("lineage", folder))
      /\ Synced("lineage", folder).pending = folder.pending
      /\ Synced("lineage", folder).history = durable.history
      /\ Synced("lineage", folder).active = folder.active
      /\ Synced("lineage", folder).lineage = folder.lineage
  BY <1>1 DEF Synced, SameDirectory, Main, IsFolder, Files
<1>5. Underway'
  BY <1>1, <1>2, <1>3, <1>4, JobKept DEF Underway
<1>6. CrashSafe'
  BY <1>1, <1>3, <1>4, <1>5, StillSafe
<1>7. CASE GoTo("undoPending") /\ durable' = Synced("lineage", folder)
  <2>1. Settled(job.prev)'
    BY <1>1, <1>2, <1>3, <1>4, <1>7
       DEF Settled, Histories, Underway, JobContinues
  <2> QED BY <1>5, <1>6, <1>7, <2>1 DEF ActivationInv, StepInv, GoTo
<1>8. CASE GoTo("poison")
  BY <1>6, <1>8 DEF ActivationInv, StepInv, GoTo
<1> QED BY <1>3, <1>7, <1>8

(* At last it removes the intent.                                          *)
LEMMA UndoPendingStep ==
  ASSUME ActivationInv, UndoPending
  PROVE  ActivationInv'
<1>1. CrashSafe /\ Underway /\ Settled(job.prev)
  BY DEF ActivationInv, StepInv, UndoPending
<1>2. UNCHANGED <<job, acknowledged>>
  BY DEF UndoPending, KeepOthers
<1>3. /\ IsFolder(folder') /\ IsFolder(durable')
      /\ folder'.history = folder.history
      /\ durable'.history = durable.history
      /\ \A x \in Main \ {"pending"} : folder'[x] = folder[x]
      /\ folder'["pending"] \in {folder["pending"], <<>>}
      /\ \/ \A x \in Main : durable'[x] = folder'[x]
         \/ durable' = durable
      /\ GoTo("idle") \/ GoTo("poison")
  BY <1>1, PutMain DEF UndoPending, Main, CrashSafe
<1>4. /\ folder'.pending \in {folder.pending, <<>>}
      /\ durable'.pending \in {folder.pending, <<>>}
      /\ folder'.lineage = folder.lineage
      /\ folder'.active = folder.active
      /\ durable'.lineage = durable.lineage
      /\ durable'.active = durable.active
  BY <1>1, <1>3 DEF Main, Underway, Settled
<1>5. Settled(folder.lineage)'
  BY <1>1, <1>2, <1>3, <1>4 DEF Settled
<1>6. /\ folder'.pending = <<>> \/ Restores(folder.pending[1])'
      /\ durable'.pending = <<>> \/ Restores(durable.pending[1])'
  BY <1>1, <1>2, <1>3, <1>4 DEF Restores, CrashSafe
<1>7. CrashSafe'
  BY <1>3, <1>5, <1>6 DEF CrashSafe
<1> QED BY <1>3, <1>5, <1>7 DEF ActivationInv, StepInv, GoTo

(* The process ends or power is lost: each file is in either version.      *)
LEMMA RebootStep ==
  ASSUME ActivationInv, Reboot
  PROVE  ActivationInv'
<1>1. CrashSafe /\ IsFolder(folder) /\ IsFolder(durable)
  BY DEF ActivationInv, CrashSafe
<1>2. PICK lost \in SUBSET DOMAIN folder :
        folder' = [x \in DOMAIN folder |-> IF x \in lost THEN durable[x]
                                           ELSE folder[x]]
  BY DEF Reboot
<1>3. durable' = folder' /\ step' = "down" /\ UNCHANGED acknowledged
  BY DEF Reboot
<1>4. /\ IsFolder(folder')
      /\ \A x \in Files : folder'[x] \in {folder[x], durable[x]}
  BY <1>1, <1>2 DEF IsFolder, Files
<1>5. /\ folder'.pending \in {folder.pending, durable.pending}
      /\ folder'.history \in {folder.history, durable.history}
      /\ folder'.active \in {folder.active, durable.active}
      /\ folder'.lineage \in {folder.lineage, durable.lineage}
  BY <1>4 DEF Files
<1>6. folder'.pending = <<>> => Settled(folder.lineage)'
  BY <1>1, <1>3, <1>5 DEF CrashSafe, Settled
<1>7. folder'.pending = <<>> \/ Restores(folder.pending[1])'
  BY <1>1, <1>3, <1>5 DEF CrashSafe, Restores
<1>8. CrashSafe'
  BY <1>3, <1>4, <1>6, <1>7 DEF CrashSafe
<1> QED BY <1>3, <1>8 DEF ActivationInv, StepInv

(* A start finds no intent, or begins to roll it forward.                  *)
LEMMA StartupStep ==
  ASSUME ActivationInv, RecoverStartup
  PROVE  ActivationInv'
<1>1. CrashSafe /\ durable.pending = folder.pending
  BY DEF ActivationInv, StepInv, RecoverStartup
<1>2. /\ UNCHANGED <<folder, durable, job, acknowledged>>
      /\ step' = IF folder.pending = <<>> THEN "idle" ELSE "recoverHistory"
  BY DEF RecoverStartup, KeepOthers, GoTo
<1>3. CrashSafe'
  BY <1>1, <1>2 DEF CrashSafe, Settled, Restores
<1>4. CASE folder.pending = <<>>
  <2>1. Settled(folder.lineage)'
    BY <1>1, <1>2, <1>4 DEF CrashSafe, Settled
  <2> QED BY <1>2, <1>3, <1>4, <2>1 DEF ActivationInv, StepInv
<1>5. CASE folder.pending # <<>>
  <2>1. Recovering'
    BY <1>1, <1>2, <1>5 DEF Recovering
  <2> QED BY <1>2, <1>3, <1>5, <2>1 DEF ActivationInv, StepInv
<1> QED BY <1>4, <1>5

(* While an intent is rolled forward it stays, and it can be rolled        *)
(* forward again.                                                          *)
LEMMA StillRecovering ==
  ASSUME CrashSafe, Recovering, UNCHANGED acknowledged,
         IsFolder(folder'), IsFolder(durable'),
         folder'.pending = folder.pending,
         durable'.pending = durable.pending,
         \A d \in {folder', durable'} :
           d.history \in {folder.history, durable.history,
                         Range(Pending.lineage)}
  PROVE  CrashSafe' /\ Recovering' /\ Pending' = Pending
<1>1. Restores(Pending) /\ Pending' = Pending
  BY DEF CrashSafe, Recovering, Pending
<1>2. Pending.rec \in Range(Pending.lineage)
  BY <1>1 DEF Restores
<1>3. Restores(Pending)'
  BY <1>1, <1>2 DEF Restores
<1>4. Recovering'
  BY DEF Recovering
<1> QED BY <1>1, <1>3, <1>4 DEF CrashSafe, Recovering, Pending

(* The snapshot of the intent.                                             *)
LEMMA RecoverHistoryStep ==
  ASSUME ActivationInv, RecoverHistory
  PROVE  ActivationInv'
<1>1. /\ CrashSafe /\ Recovering /\ IsFolder(folder) /\ IsFolder(durable)
  BY DEF ActivationInv, CrashSafe, StepInv, RecoverHistory
<1>2. UNCHANGED acknowledged
  BY DEF RecoverHistory, KeepOthers
<1>3. Snapshot(Pending.rec) = Range(Pending.lineage)
  BY <1>1 DEF Snapshot, CrashSafe, Recovering, Restores, Pending
<1>4. /\ IsFolder(folder') /\ IsFolder(durable')
      /\ \A x \in Main : folder'[x] = folder[x] /\ durable'[x] = durable[x]
      /\ \/ /\ GoTo("recoverActive")
            /\ folder'.history = Range(Pending.lineage)
            /\ durable'.history = Range(Pending.lineage)
         \/ /\ GoTo("down")
            /\ folder'.history \in {folder.history, Range(Pending.lineage)}
            /\ durable'.history = durable.history
  BY <1>1, <1>3, PutHistory DEF RecoverHistory
<1>5. CrashSafe' /\ Recovering' /\ Pending' = Pending
  BY <1>1, <1>2, <1>4, StillRecovering DEF Main
<1>6. \/ step' = "down"
      \/ step' = "recoverActive" /\ Histories(Range(Pending.lineage))'
  BY <1>4, <1>5 DEF GoTo, Histories
<1> QED BY <1>5, <1>6 DEF ActivationInv, StepInv, Recovering

(* Its active portfolio.                                                   *)
LEMMA RecoverActiveStep ==
  ASSUME ActivationInv, RecoverActive
  PROVE  ActivationInv'
<1>1. /\ CrashSafe /\ Recovering /\ IsFolder(folder) /\ IsFolder(durable)
      /\ Histories(Range(Pending.lineage))
  BY DEF ActivationInv, CrashSafe, StepInv, RecoverActive
<1>2. UNCHANGED acknowledged
  BY DEF RecoverActive, KeepOthers
<1>3. /\ IsFolder(folder') /\ IsFolder(durable')
      /\ folder'.history = folder.history
      /\ durable'.history = durable.history
      /\ \A x \in Main \ {"active"} : folder'[x] = folder[x]
      /\ \/ /\ GoTo("recoverLineage")
            /\ folder'["active"] = <<Pending.rec.portfolio>>
            /\ \A x \in Main : durable'[x] = folder'[x]
         \/ GoTo("down") /\ durable' = durable
  BY <1>1, PutMain DEF RecoverActive, Main
<1>4. folder'.pending = folder.pending /\ durable'.pending = durable.pending
  BY <1>1, <1>3 DEF Main, Recovering
<1>5. CrashSafe' /\ Recovering' /\ Pending' = Pending
  BY <1>1, <1>2, <1>3, <1>4, StillRecovering
<1>6. Histories(Range(Pending.lineage))'
  BY <1>1, <1>3, <1>5 DEF Histories
<1>7. \/ step' = "down"
      \/ /\ step' = "recoverLineage"
         /\ folder'.active = <<Pending'.rec.portfolio>>
  BY <1>3, <1>5 DEF GoTo
<1> QED BY <1>5, <1>6, <1>7 DEF ActivationInv, StepInv, Recovering

(* Its lineage: the story is whole again.                                  *)
LEMMA RecoverLineageStep ==
  ASSUME ActivationInv, RecoverLineage
  PROVE  ActivationInv'
<1>1. /\ CrashSafe /\ Recovering /\ IsFolder(folder) /\ IsFolder(durable)
      /\ Histories(Range(Pending.lineage))
      /\ folder.active = <<Pending.rec.portfolio>>
  BY DEF ActivationInv, CrashSafe, StepInv, RecoverLineage
<1>2. UNCHANGED acknowledged
  BY DEF RecoverLineage, KeepOthers
<1>3. /\ IsFolder(folder') /\ IsFolder(durable')
      /\ folder'.history = folder.history
      /\ durable'.history = durable.history
      /\ \A x \in Main \ {"lineage"} : folder'[x] = folder[x]
      /\ \/ /\ GoTo("recoverCommit") /\ folder'["lineage"] = Pending.lineage
            /\ \A x \in Main : durable'[x] = folder'[x]
         \/ GoTo("down") /\ durable' = durable
  BY <1>1, PutMain DEF RecoverLineage, Main
<1>4. folder'.pending = folder.pending /\ durable'.pending = durable.pending
  BY <1>1, <1>3 DEF Main, Recovering
<1>5. CrashSafe' /\ Recovering' /\ Pending' = Pending
  BY <1>1, <1>2, <1>3, <1>4, StillRecovering
<1>6. step' \in {"down", "recoverCommit"}
  BY <1>3 DEF GoTo
<1>7. ASSUME step' = "recoverCommit"
      PROVE  Settled(Pending.lineage)'
  <2>1. /\ Chain(Pending.lineage)
        /\ acknowledged \subseteq Range(Pending.lineage)
        /\ ActiveOf(Pending.lineage) = <<Pending.rec.portfolio>>
    BY <1>1 DEF CrashSafe, Recovering, Restores, Pending, ActiveOf
  <2>2. /\ folder'.lineage = Pending.lineage
        /\ durable'.lineage = Pending.lineage
        /\ folder'.active = <<Pending.rec.portfolio>>
        /\ durable'.active = <<Pending.rec.portfolio>>
    BY <1>1, <1>3, <1>7 DEF GoTo, Main
  <2>3. /\ folder'.history = Range(Pending.lineage)
        /\ durable'.history = Range(Pending.lineage)
    BY <1>1, <1>3 DEF Histories
  <2> QED BY <1>2, <1>5, <2>1, <2>2, <2>3 DEF Settled
<1> QED BY <1>5, <1>6, <1>7 DEF ActivationInv, StepInv, Recovering

(* A step that touches neither the folder nor the protocol.                *)
LEMMA ProtocolKept ==
  ASSUME ActivationInv,
         UNCHANGED <<folder, durable, step, job, recoveryRequired,
                     acknowledged>>
  PROVE  ActivationInv'
<1>1. CrashSafe'
  BY DEF ActivationInv, CrashSafe, Restores, Settled
<1>2. /\ Rec' = Rec /\ NewLineage' = NewLineage /\ Intent' = Intent
      /\ JobContinues' <=> JobContinues
  BY JobKept
<1>3. /\ Pending' = Pending
      /\ Recovering' <=> Recovering
  BY DEF Pending, Recovering
<1>4. Underway' <=> Underway
  BY <1>2 DEF Underway
<1>5. /\ Settled(folder.lineage)' <=> Settled(folder.lineage)
      /\ Settled(job.prev)' <=> Settled(job.prev)
  BY DEF Settled
<1>6. Settled(NewLineage)' <=> Settled(NewLineage)
  BY <1>2 DEF Settled
<1>7. Settled(Pending.lineage)' <=> Settled(Pending.lineage)
  BY <1>3 DEF Settled
<1>8. /\ Histories(Range(NewLineage))' <=> Histories(Range(NewLineage))
      /\ Histories(Range(job.prev))' <=> Histories(Range(job.prev))
      /\ Histories(Range(Pending.lineage))' <=>
           Histories(Range(Pending.lineage))
  BY <1>2, <1>3 DEF Histories
<1> QED
  BY <1>1, <1>2, <1>3, <1>4, <1>5, <1>6, <1>7, <1>8
     DEF ActivationInv, StepInv

(* An operation accepts an activation that continues the lineage.          *)
LEMMA AcceptStep ==
  ASSUME ActivationInv, step = "idle", ~recoveryRequired, NEW id, NEW target,
         Accept(ActivationRecord(id, target)),
         UNCHANGED <<folder, durable, recoveryRequired, acknowledged>>
  PROVE  ActivationInv'
<1> DEFINE rec == ActivationRecord(id, target)
<1>1. CrashSafe /\ Settled(folder.lineage)
  BY DEF ActivationInv, StepInv
<1>2. /\ step' = "pending" /\ job'.rec = <<rec>>
      /\ job'.prev = folder.lineage
  BY DEF Accept
<1>3. rec.seq = Len(folder.lineage) + 1 /\ rec.prev = Len(folder.lineage)
  BY DEF ActivationRecord
<1> HIDE DEF rec
<1>4. Rec' = rec
  BY <1>2 DEF Rec
<1>5. CrashSafe'
  BY <1>1 DEF CrashSafe, Restores, Settled
<1>6. JobContinues'
  BY <1>1, <1>2, <1>3, <1>4 DEF JobContinues, Settled
<1>7. Settled(job.prev)'
  BY <1>1, <1>2 DEF Settled
<1> QED BY <1>2, <1>5, <1>6, <1>7 DEF ActivationInv, StepInv

(* Proposals, activations and rollbacks.                                   *)
LEMMA RequestSteps ==
  ASSUME ActivationInv,
         \/ \E c \in Callers :
               \/ \E p \in Candidates : CreateChangeProposal(c, p)
               \/ CheckProposal(c)
               \/ \E f \in FactSamples : Activate(c, f)
         \/ \E t \in folder.history, f \in FactSamples : Rollback(t, f)
  PROVE  ActivationInv'
<1>1. \/ UNCHANGED <<folder, durable, step, job, recoveryRequired,
                     acknowledged>>
      \/ /\ step = "idle" /\ ~recoveryRequired
         /\ UNCHANGED <<folder, durable, recoveryRequired, acknowledged>>
         /\ \E id, target : Accept(ActivationRecord(id, target))
  <2>1. ASSUME NEW c \in Callers, NEW p \in Candidates,
               CreateChangeProposal(c, p)
        PROVE  UNCHANGED <<folder, durable, step, job, recoveryRequired,
                           acknowledged>>
    BY <2>1 DEF CreateChangeProposal
  <2>2. ASSUME NEW c \in Callers, CheckProposal(c)
        PROVE  UNCHANGED <<folder, durable, step, job, recoveryRequired,
                           acknowledged>>
    BY <2>2 DEF CheckProposal
  <2>3. ASSUME NEW c \in Callers, NEW f \in FactSamples, Activate(c, f)
        PROVE  <1>1!1 \/ <1>1!2
    BY <2>3 DEF Activate
  <2>4. ASSUME NEW t \in folder.history, NEW f \in FactSamples,
               Rollback(t, f)
        PROVE  <1>1!1 \/ <1>1!2
    BY <2>4 DEF Rollback
  <2> QED BY <2>1, <2>2, <2>3, <2>4
<1> QED BY <1>1, ProtocolKept, AcceptStep

(* A new folder is settled with the empty lineage.                         *)
LEMMA ActivationInit == InitActivation => ActivationInv
<1> SUFFICES ASSUME InitActivation PROVE ActivationInv
  OBVIOUS
<1>1. /\ folder = EmptyDirectory /\ durable = EmptyDirectory
      /\ step = "idle" /\ acknowledged = {}
  BY DEF InitActivation
<1>2. /\ IsFolder(EmptyDirectory) /\ EmptyDirectory.pending = <<>>
      /\ EmptyDirectory.lineage = <<>> /\ EmptyDirectory.active = <<>>
      /\ EmptyDirectory.history = {}
  BY DEF EmptyDirectory, IsFolder, Files
<1>3. Range(<<>>) = {} /\ Chain(<<>>) /\ ActiveOf(<<>>) = <<>>
  BY DEF Range, Chain, ActiveOf
<1> HIDE DEF EmptyDirectory
<1>4. Settled(folder.lineage)
  BY <1>1, <1>2, <1>3 DEF Settled
<1> QED
  BY <1>1, <1>2, <1>4 DEF ActivationInv, CrashSafe, StepInv

(* For every set of portfolios, facts and callers, and for any number of   *)
(* activations, failing file operations and restarts: whatever a loss of   *)
(* power leaves of the folder is whole, or has an intent from which        *)
(* recoverStartupLocked makes it whole, with everything acknowledged.      *)
THEOREM ActivationInvariant == SpecActivation => []ActivationInv
<1>1. ActivationInv /\ [NextActivation]_activationVars => ActivationInv'
  <2> SUFFICES ASSUME ActivationInv, [NextActivation]_activationVars
               PROVE  ActivationInv'
    OBVIOUS
  <2>1. CASE UNCHANGED activationVars
    BY <2>1, ProtocolKept DEF activationVars
  <2>2. CASE NextActivation
    BY <2>2, RequestSteps, WritePendingStep, WriteHistoryStep,
       WriteActiveStep, WriteLineageStep, CommitStep, UndoHistoryStep,
       UndoActiveStep, UndoLineageStep, UndoSyncStep, UndoPendingStep,
       RebootStep, StartupStep, RecoverHistoryStep, RecoverActiveStep,
       RecoverLineageStep, RecoverCommitStep
       DEF NextActivation
  <2> QED BY <2>1, <2>2
<1> QED BY <1>1, ActivationInit, PTL DEF SpecActivation

(* Whenever the manager serves, active portfolio, lineage and history tell *)
(* one story, and no acknowledged activation is missing from it.           *)
THEOREM LineageWhole == SpecActivation => []LineageIsWhole
<1>1. ActivationInv => LineageIsWhole
  BY DEF ActivationInv, StepInv, LineageIsWhole, Settled, Chain, ActiveOf
<1> QED BY <1>1, ActivationInvariant, PTL

-----------------------------------------------------------------------------
(* The doctor's profile cache.                                             *)

EndpointFields ==
  {"id", "health", "auth", "cost", "exposure", "structured", "model",
   "accel", "caps"}
IsEndpoint(e) == e = [x \in EndpointFields |-> e[x]]
IsProfile(p) ==
  p = [x \in {"depth", "endpoints", "assessment"} |-> p[x]]

(* p is the probe that earned e's evidence on the machine fp.              *)
EarnedBy(e, fp, p) ==
  /\ p.run = e.accel.probe /\ p.endpoint = e.id
  /\ p.offloaded /\ p.fp = fp

EnvelopeBacked(env) ==
  /\ env.expires \in Nat
  /\ \A e \in env.profile.endpoints :
       AccelerationVerified(e) =>
         \E p \in earned : EarnedBy(e, env.fp, p) /\ env.expires <= p.until

ProbeProfileBacked(d) ==
  /\ ValidProfile(d.profile)
  /\ IsProfile(d.profile)
  /\ \A e \in d.profile.endpoints :
       /\ IsEndpoint(e)
       /\ AccelerationVerified(e) =>
            \E p \in earned : EarnedBy(e, d.facts.fp, p) /\ p.run = d.id

DoctorFields == {"stage", "id", "facts", "verify", "cached", "readAt",
                 "expired", "profile"}
RunBacked(d) ==
  /\ d = [x \in DoctorFields |-> d[x]]
  /\ d.facts \in Machines /\ d.verify \in {"", "ollama", "mlx"}
  /\ d.stage \in {"read", "probed"} /\ d.readAt \in Nat
  /\ \A env \in d.cached : EnvelopeBacked(env) /\ env.fp = d.facts.fp
  /\ \A env1, env2 \in d.cached : env1 = env2
  /\ d.expired = \E env \in d.cached : d.readAt >= env.expires
  /\ d.stage = "probed" => ProbeProfileBacked(d)

ProbesTyped ==
  \A p \in earned :
    /\ p = [x \in {"run", "endpoint", "offloaded", "fp", "until"} |-> p[x]]
    /\ p.until \in Nat /\ p.until <= doctorTime + CacheTTL

SlotBacked ==
  /\ \A env \in slot : EnvelopeBacked(env)
  /\ \A env1, env2 \in slot : env1 = env2

DoctorInv ==
  /\ hostFacts \in Machines /\ server \in {"serving", "down"}
  /\ doctorTime \in Nat
  /\ ProbesTyped
  /\ SlotBacked
  /\ \A d \in doctors : RunBacked(d)
  /\ EvidenceIsEarned

-----------------------------------------------------------------------------

FreshOf(id, e) ==
  /\ IsEndpoint(e) /\ e.id = id
  /\ e.accel = NoAcceleration
  /\ e.id \in LocalRuntimes => e.auth = "not_applicable"

(* The fields that discovery reads, on either machine.                     *)
LEMMA MachineFields ==
  ASSUME NEW m \in Machines
  PROVE  /\ DOMAIN m = {"fp", "mlx", "cli", "api", "git", "stateRoot",
                        "hosts", "candidates", "unified", "total", "vram"}
         /\ m.mlx \in {"cached", "absent"} /\ m.cli = "installed"
         /\ m.api \in {"authenticated", "expired"}
<1>1. CASE m = Laptop
  BY <1>1 DEF Laptop
<1>2. CASE m # Laptop
  BY <1>2 DEF Machines, Laptop
<1> QED
  BY <1>1, <1>2

(* What a run sees is the host, with the server as it is now.              *)
LEMMA SeenFields ==
  ASSUME NEW m \in Machines, NEW s \in {"serving", "down"}
  PROVE  /\ Seen(m, s).ollama = s
         /\ Seen(m, s).mlx \in {"cached", "absent"}
         /\ Seen(m, s).cli = "installed"
         /\ Seen(m, s).api \in {"authenticated", "expired"}
  BY MachineFields DEF Seen

(* One endpoint of an adapter.                                             *)
LEMMA EndpointIsFresh ==
  ASSUME NEW id \in Adapters, NEW health, NEW auth, NEW cost, NEW exposure,
         NEW structured, NEW model,
         id \in LocalRuntimes => auth = "not_applicable"
  PROVE  FreshOf(id, Endpoint(id, health, auth, cost, exposure, structured,
                              model))
<1> DEFINE e == Endpoint(id, health, auth, cost, exposure, structured, model)
<1>1. /\ e.id = id /\ e.auth = auth /\ e.accel = NoAcceleration
  BY DEF Endpoint
<1>2. DOMAIN e = EndpointFields
  BY DEF Endpoint, EndpointFields
<1>3. e = [x \in DOMAIN e |-> e[x]]
  BY DEF Endpoint
<1> QED
  BY <1>1, <1>2, <1>3 DEF FreshOf, IsEndpoint

(* Discovery finds at most one endpoint per adapter, none with evidence.   *)
LEMMA DiscoveryIsFresh ==
  ASSUME NEW m \in Machines, NEW s \in {"serving", "down"}
  PROVE  /\ \A e \in Discover(Seen(m, s)) :
              e.id \in Adapters /\ FreshOf(e.id, e)
         /\ \A e, f \in Discover(Seen(m, s)) : e.id = f.id => e = f
<1> DEFINE q == Seen(m, s)
           One(S, id) == \A e \in S : FreshOf(id, e) /\ \A f \in S : e = f
<1>f. /\ q.ollama \in {"serving", "down"} /\ q.mlx \in {"cached", "absent"}
      /\ q.cli = "installed" /\ q.api \in {"authenticated", "expired"}
  BY SeenFields
<1> HIDE DEF q
<1>e. /\ "ollama" \in Adapters /\ "mlx" \in Adapters /\ "cli" \in Adapters
      /\ "api" \in Adapters
      /\ "cli" \notin LocalRuntimes /\ "api" \notin LocalRuntimes
  BY DEF Adapters, LocalRuntimes
<1>1. One(DiscoverOllama(q.ollama), "ollama")
  <2>1. \E health, model :
          DiscoverOllama(q.ollama)
            = {OllamaEndpoint(health, "declared", model)}
    BY <1>f DEF DiscoverOllama
  <2>2. ASSUME NEW health, NEW model
        PROVE  FreshOf("ollama", OllamaEndpoint(health, "declared", model))
    BY <1>e, EndpointIsFresh DEF OllamaEndpoint, LocalEndpoint
  <2> QED
    BY <2>1, <2>2
<1>2. One(DiscoverMLX(q.mlx), "mlx")
  <2>1. \/ DiscoverMLX(q.mlx) = {}
        \/ DiscoverMLX(q.mlx)
             = {LocalEndpoint("mlx", "unverified", "unknown", TRUE)}
    BY <1>f DEF DiscoverMLX
  <2>2. FreshOf("mlx", LocalEndpoint("mlx", "unverified", "unknown", TRUE))
    BY <1>e, EndpointIsFresh DEF LocalEndpoint
  <2> QED
    BY <2>1, <2>2
<1>3. One(DiscoverCLI(q.cli), "cli")
  <2>1. DiscoverCLI(q.cli) = {CLIEndpoint("installed")}
    BY <1>f DEF DiscoverCLI
  <2>2. FreshOf("cli", CLIEndpoint("installed"))
    BY <1>e, EndpointIsFresh DEF CLIEndpoint
  <2> QED
    BY <2>1, <2>2
<1>4. One(DiscoverAPI(q.api), "api")
  <2>1. DiscoverAPI(q.api) = {RemoteEndpoint(q.api, "remote_economy")}
    BY <1>f DEF DiscoverAPI
  <2>2. FreshOf("api", RemoteEndpoint(q.api, "remote_economy"))
    BY <1>e, EndpointIsFresh DEF RemoteEndpoint
  <2> QED
    BY <2>1, <2>2
<1> QED
  BY <1>1, <1>2, <1>3, <1>4, <1>e DEF Discover, q, FreshOf

(* A local runtime reports an offload only in the answers "gpu" and        *)
(* "gpu_disputed".                                                         *)
LEMMA OffloadIsReported ==
  ASSUME NEW id \in LocalRuntimes, NEW answer \in Answers(id),
         NEW u \in Probe(id, answer).signals
  PROVE  /\ u = [trust |-> u.trust, backend |-> u.backend,
                 offloaded |-> u.offloaded]
         /\ u.offloaded => answer \in {"gpu", "gpu_disputed"}
<1>1. CASE id = "ollama"
  <2>1. Probe(id, answer) = ProbeOllama(answer)
    BY <1>1 DEF Probe
  <2>2. CASE answer = "gpu"
    <3>1. ProbeOllama(answer).signals
            = {Signal("authoritative", "unknown", TRUE)}
      BY <2>2 DEF ProbeOllama, ProbeResult
    <3> QED
      BY <2>1, <2>2, <3>1 DEF Signal
  <2>3. CASE answer = "cpu"
    <3>1. ProbeOllama(answer).signals
            = {Signal("authoritative", "cpu", FALSE)}
      BY <2>3 DEF ProbeOllama, ProbeResult
    <3> QED
      BY <2>1, <3>1 DEF Signal
  <2>4. CASE answer \notin {"gpu", "cpu"}
    <3>1. ProbeOllama(answer).signals = {}
      BY <2>4 DEF ProbeOllama, ProbeResult, NoBackend
    <3> QED
      BY <2>1, <3>1
  <2> QED
    BY <2>2, <2>3, <2>4
<1>2. CASE id = "mlx"
  <2>1. Probe(id, answer) = ProbeMLX(answer)
    BY <1>2 DEF Probe
  <2>2. CASE answer \in {"gpu", "gpu_disputed"}
    <3>1. ProbeMLX(answer).signals
            = {Signal("authoritative", "metal", TRUE),
               Signal("corroborating", "metal", answer = "gpu")}
      BY <2>2 DEF ProbeMLX, ProbeResult
    <3> QED
      BY <2>1, <2>2, <3>1 DEF Signal
  <2>3. CASE answer = "cpu"
    <3>1. ProbeMLX(answer).signals
            = {Signal("authoritative", "cpu", FALSE)}
      BY <2>3 DEF ProbeMLX, ProbeResult
    <3> QED
      BY <2>1, <3>1 DEF Signal
  <2>4. CASE answer \notin {"gpu", "gpu_disputed", "cpu"}
    <3>1. ProbeMLX(answer).signals = {}
      BY <2>4 DEF ProbeMLX, ProbeResult, NoBackend
    <3> QED
      BY <2>1, <3>1
  <2> QED
    BY <2>2, <2>3, <2>4
<1> QED
  BY <1>1, <1>2 DEF LocalRuntimes

(* The acceleration verdict: verified only where the runtime said that it  *)
(* had offloaded the prompt, and nothing disputed it.                      *)
LEMMA VerdictNeedsOffload ==
  ASSUME NEW id \in LocalRuntimes, NEW answer \in Answers(id),
         NEW candidates,
         EvaluateAcceleration(JudgedBackend(Probe(id, answer), candidates),
           candidates, JudgedSignals(Probe(id, answer), candidates),
           Probe(id, answer).status = "observed") = "verified"
  PROVE  answer = "gpu"
<1> DEFINE r == Probe(id, answer)
           b == JudgedBackend(r, candidates)
           signals == JudgedSignals(r, candidates)
<1> HIDE DEF b, signals
<1>1. /\ \E s \in signals : s.trust = "authoritative" /\ s.backend = b
                            /\ s.offloaded
      /\ ~ \E s \in signals : s.trust = "corroborating" /\ s.backend = b
                              /\ ~s.offloaded
  BY DEF EvaluateAcceleration, b, signals
<1>2. \A u \in r.signals : u = [trust |-> u.trust, backend |-> u.backend,
                                offloaded |-> u.offloaded]
  BY OffloadIsReported
<1>3. \A s \in signals : \E u \in r.signals : s.offloaded = u.offloaded
  BY <1>2 DEF signals, JudgedSignals
<1>4. answer \in {"gpu", "gpu_disputed"}
  BY <1>1, <1>3, OffloadIsReported
<1>5. CASE answer = "gpu_disputed"
  <2>1. id = "mlx"
    BY <1>5 DEF Answers, LocalRuntimes
  <2>2. /\ r.backend = "metal"
        /\ Signal("corroborating", "metal", FALSE) \in r.signals
    BY <1>5, <2>1 DEF Probe, ProbeMLX, ProbeResult
  <2>3. b = "metal"
    BY <2>2 DEF b, JudgedBackend
  <2>4. Signal("corroborating", "metal", FALSE) \in signals
    BY <2>2 DEF signals, JudgedSignals, Signal
  <2> QED
    BY <1>1, <2>3, <2>4 DEF Signal
<1> QED
  BY <1>4, <1>5

(* What a declaration or a probe overwrites leaves an endpoint one.        *)
LEMMA DeclaredIsFresh ==
  ASSUME NEW e, NEW declared, FreshOf(e.id, e)
  PROVE  /\ FreshOf(e.id, ApplyDeclaration(e, declared))
         /\ ApplyDeclaration(e, declared).id = e.id
<1>1. PICK c : ApplyDeclaration(e, declared) = [e EXCEPT !.caps = c]
  BY DEF ApplyDeclaration
<1>2. /\ IsEndpoint([e EXCEPT !.caps = c])
      /\ [e EXCEPT !.caps = c].id = e.id
      /\ [e EXCEPT !.caps = c].auth = e.auth
      /\ [e EXCEPT !.caps = c].accel = e.accel
  BY DEF FreshOf, IsEndpoint, EndpointFields
<1> HIDE DEF IsEndpoint
<1> QED
  BY <1>1, <1>2 DEF FreshOf

(* An endpoint as discovery makes it is valid and claims nothing.          *)
LEMMA FreshIsValid ==
  ASSUME NEW e, e.id \in Adapters, FreshOf(e.id, e)
  PROVE  ValidEndpoint(e) /\ e.accel.state = "none" /\ ~AccelerationVerified(e)
BY DEF FreshOf, ValidEndpoint, KindOf, Adapters, LocalRuntimes,
       NoAcceleration, AccelerationVerified

(* What probe n of target leaves of the endpoint e.                        *)
IsProbed(g, e, target, answer, n) ==
  /\ IsEndpoint(g) /\ g.id = e.id /\ ValidEndpoint(g)
  /\ AccelerationVerified(g) =>
       g.accel.probe = n /\ g.id = target /\ answer = "gpu"

(* A probe of a local endpoint leaves it valid, and its evidence verified  *)
(* only by an undisputed offload.                                          *)
LEMMA ProbedEndpoint ==
  ASSUME NEW e, NEW target \in LocalRuntimes, NEW answer \in Answers(target),
         NEW candidates, NEW n, NEW g,
         e.id \in Adapters, FreshOf(e.id, e),
         g = ProbeEndpoint(e, target, answer, candidates, n)
  PROVE  IsProbed(g, e, target, answer, n)
<1>a. IsEndpoint(e)
  BY DEF FreshOf
<1>1. CASE g = e
  BY <1>1, <1>a, FreshIsValid DEF IsProbed
<1>2. CASE g = [e EXCEPT !.health = "unhealthy"]
  <2>1. IsEndpoint(g) /\ g.id = e.id /\ g.auth = e.auth /\ g.accel = e.accel
    BY <1>2, <1>a DEF IsEndpoint, EndpointFields
  <2>2. FreshOf(g.id, g)
    BY <2>1 DEF FreshOf
  <2> QED
    BY <2>1, <2>2, FreshIsValid DEF IsProbed
<1>3. ASSUME NEW r, g = ApplyProbeResult(e, r, candidates, n), e.id = target,
             r = Probe(target, answer) \/ r = NoBackend("absent")
      PROVE  IsProbed(g, e, target, answer, n)
  <2> DEFINE b == JudgedBackend(r, candidates)
             v == EvaluateAcceleration(b, candidates,
                    JudgedSignals(r, candidates), r.status = "observed")
  <2>1. r.auth = ""
    <3>1. ASSUME NEW st, NEW bk, NEW ss
          PROVE  ProbeResult(st, "", bk, ss).auth = ""
      BY DEF ProbeResult
    <3>2. \E st, bk, ss : ProbeOllama(answer) = ProbeResult(st, "", bk, ss)
      BY DEF ProbeOllama, NoBackend
    <3>3. \E st, bk, ss : ProbeMLX(answer) = ProbeResult(st, "", bk, ss)
      BY DEF ProbeMLX, NoBackend
    <3>4. r \in {ProbeOllama(answer), ProbeMLX(answer), NoBackend("absent")}
      BY <1>3 DEF Probe, LocalRuntimes
    <3> QED
      BY <3>1, <3>2, <3>3, <3>4 DEF NoBackend
  <2>2. LocalityOf(e.id) = "local" /\ KindOf(e.id) = "local_runtime"
    BY <1>3 DEF LocalityOf, KindOf, LocalRuntimes
  <2>3. PICK h : g = [e EXCEPT !.health = h, !.auth = e.auth,
                     !.accel = [backend |-> b, state |-> v, probe |-> n]]
    BY <1>3, <2>1, <2>2 DEF ApplyProbeResult
  <2>4. /\ IsEndpoint(g) /\ g.id = e.id /\ g.auth = e.auth
        /\ g.accel = [backend |-> b, state |-> v, probe |-> n]
    BY <2>3, <1>a DEF IsEndpoint, EndpointFields
  <2>5. ValidEndpoint(g)
    BY <2>2, <2>4, <1>3 DEF ValidEndpoint, FreshOf
  <2>6. ASSUME v = "verified"  PROVE answer = "gpu"
    <3>1. CASE r = Probe(target, answer)
      BY <2>6, <3>1, VerdictNeedsOffload
    <3>2. CASE r = NoBackend("absent")
      <4>1. r.status # "observed"
        BY <3>2 DEF NoBackend, ProbeResult
      <4> QED
        BY <2>6, <4>1 DEF EvaluateAcceleration
    <3> QED
      BY <3>1, <3>2, <1>3
  <2> QED
    BY <2>4, <2>5, <2>6, <1>3 DEF AccelerationVerified, IsProbed
<1> QED
  BY <1>1, <1>2, <1>3 DEF ProbeEndpoint

(* What probe n of target makes of a profile.                              *)
OwnEvidence(prof, target, answer, n) ==
  /\ ValidProfile(prof)
  /\ IsProfile(prof)
  /\ \A e \in prof.endpoints :
       /\ IsEndpoint(e)
       /\ AccelerationVerified(e) =>
            /\ e.accel.probe = n /\ e.id = target
            /\ target # "" /\ answer = "gpu"

(* A profile is valid, and its evidence is of its own probe.               *)
LEMMA ProbedProfile ==
  ASSUME NEW m \in Machines, NEW s \in {"serving", "down"},
         NEW target \in {"", "ollama", "mlx"}, NEW answer,
         NEW n, NEW prof, target # "" => answer \in Answers(target),
         prof = Profile(Seen(m, s), NoCapabilities, target, answer, n)
  PROVE  OwnEvidence(prof, target, answer, n)
<1> DEFINE q == Seen(m, s)
           decl(e) == ApplyDeclaration(e, NoCapabilities)
           found == {decl(e) : e \in Discover(q)}
           probe(e) == ProbeEndpoint(e, target, answer, q.candidates, n)
<1> HIDE DEF decl, q
<1>0. /\ \A e \in Discover(q) : /\ e.id \in Adapters /\ decl(e).id = e.id
                                /\ FreshOf(decl(e).id, decl(e))
      /\ \A e, f \in Discover(q) : e.id = f.id => e = f
  <2>1. ASSUME NEW e \in Discover(q)
        PROVE  /\ e.id \in Adapters /\ decl(e).id = e.id
               /\ FreshOf(decl(e).id, decl(e))
    <3>1. e.id \in Adapters /\ FreshOf(e.id, e)
      BY DiscoveryIsFresh DEF q
    <3> QED
      BY <3>1, DeclaredIsFresh DEF decl
  <2> QED
    BY <2>1, DiscoveryIsFresh DEF q
<1>1. \A e \in found : e.id \in Adapters /\ FreshOf(e.id, e)
  BY <1>0
<1>2. \A e, f \in found : e.id = f.id => e = f
  BY <1>0
<1>3. /\ IsProfile(prof)
      /\ prof.endpoints = IF target = "" THEN found
                          ELSE {probe(e) : e \in found}
      /\ prof.depth = IF target = "" THEN "health" ELSE "inference"
  BY DEF Profile, IsProfile, decl, q
<1> HIDE DEF found, probe
<1>4. CASE target = ""
  <2>1. \A e \in found : IsEndpoint(e)
    BY <1>1 DEF FreshOf
  <2>2. \A e \in found : ValidEndpoint(e) /\ e.accel.state = "none"
                         /\ ~AccelerationVerified(e)
    BY <1>1, FreshIsValid
  <2> QED
    <3>1. prof.endpoints = found
      BY <1>3, <1>4
    <3>2. ValidProfile(prof)
      BY <1>2, <2>2, <3>1 DEF ValidProfile
    <3> QED
      BY <1>3, <2>1, <2>2, <3>1, <3>2 DEF OwnEvidence
<1>5. CASE target # ""
  <2>1. target \in LocalRuntimes /\ answer \in Answers(target)
    BY <1>5 DEF LocalRuntimes
  <2>2. \A e \in found : IsProbed(probe(e), e, target, answer, n)
    <3>1. ASSUME NEW e \in found
          PROVE  IsProbed(probe(e), e, target, answer, n)
      <4>1. e.id \in Adapters /\ FreshOf(e.id, e)
        BY <1>1
      <4> QED
        BY <4>1, <2>1, ProbedEndpoint DEF probe
    <3> QED
      BY <3>1
  <2>3. prof.endpoints = {probe(e) : e \in found} /\ prof.depth = "inference"
    BY <1>3, <1>5
  <2>4. \A e, f \in prof.endpoints : e.id = f.id => e = f
    <3>1. SUFFICES ASSUME NEW x \in prof.endpoints, NEW y \in prof.endpoints,
                          x.id = y.id
                   PROVE  x = y
      OBVIOUS
    <3>2. PICK e \in found : x = probe(e)
      BY <2>3
    <3>3. PICK f \in found : y = probe(f)
      BY <2>3
    <3>4. e.id = f.id
      BY <2>2, <3>1, <3>2, <3>3 DEF IsProbed
    <3> QED
      BY <1>2, <3>2, <3>3, <3>4
  <2>5. \A x \in prof.endpoints : ValidEndpoint(x)
    BY <2>2, <2>3 DEF IsProbed
  <2>6. ValidProfile(prof)
    BY <2>3, <2>4, <2>5 DEF ValidProfile
  <2> QED
    BY <1>3, <1>5, <2>2, <2>3, <2>6 DEF IsProbed, OwnEvidence
<1> QED
  BY <1>4, <1>5

-----------------------------------------------------------------------------
(* What a run may report and write.                                        *)

(* What becomes of a probed profile and a cached one.                      *)
CarriesEvidence(merged, prof, cached) ==
  /\ ValidProfile(merged.profile)
  /\ merged.used \in BOOLEAN
  /\ ~merged.used => merged.profile = prof
  /\ merged.used =>
       /\ cached # {}
       /\ \A e \in merged.profile.endpoints : AccelerationVerified(e) =>
            \E env \in cached : \E old \in env.profile.endpoints :
              /\ AccelerationVerified(old)
              /\ old.id = e.id /\ old.accel = e.accel

(* Where cached inference is not used, the profile is the probed one;      *)
(* where it is, the evidence of every endpoint is that of a cached one.    *)
LEMMA CombinedEvidence ==
  ASSUME NEW prof, NEW cached, NEW merged, ValidProfile(prof),
         IsProfile(prof),
         \A e \in prof.endpoints : IsEndpoint(e),
         merged = Combine(prof, cached)
  PROVE  CarriesEvidence(merged, prof, cached)
<1> DEFINE olds == UNION {env.profile.endpoints : env \in cached}
           match(e) == {old \in olds : old.id = e.id}
           used == \E e \in prof.endpoints : \E old \in match(e) :
                     UsesCachedInference(e, old)
           join(e) == IF match(e) = {} THEN e
                      ELSE MergeEndpoint(e, CHOOSE old \in match(e) : TRUE)
           combined == [prof EXCEPT !.depth = "inference",
                          !.endpoints = {join(e) : e \in @}]
           taken == prof.depth = "health" /\ used /\ ValidProfile(combined)
<1>1. merged = IF taken THEN [profile |-> combined, used |-> TRUE]
               ELSE [profile |-> prof, used |-> FALSE]
  BY DEF Combine
<1>2. combined.endpoints = {join(e) : e \in prof.endpoints}
  BY DEF IsProfile
<1> HIDE DEF used, combined
<1>3. CASE ~taken
  <2>1. merged.profile = prof /\ merged.used = FALSE
    BY <1>1, <1>3
  <2> QED
    BY <2>1 DEF CarriesEvidence
<1>4. CASE taken
  <2>1. merged.profile = combined /\ merged.used = TRUE
    BY <1>1, <1>4
  <2>2. ASSUME NEW e \in prof.endpoints, AccelerationVerified(join(e))
        PROVE  \E env \in cached : \E old \in env.profile.endpoints :
                 /\ AccelerationVerified(old)
                 /\ old.id = join(e).id /\ old.accel = join(e).accel
    <3>1. ~AccelerationVerified(e)
      BY <1>4 DEF ValidProfile, AccelerationVerified
    <3>2. match(e) # {}
      BY <2>2, <3>1
    <3> DEFINE o == CHOOSE old \in match(e) : TRUE
    <3>3. o \in olds /\ o.id = e.id
      BY <3>2
    <3>4. join(e) = MergeEndpoint(e, o)
      BY <3>2
    <3> HIDE DEF o
    <3>5. PICK c, st : MergeEndpoint(e, o) =
            [e EXCEPT !.accel = IF /\ AccelerationVerified(o)
                                   /\ ~AccelerationVerified(e)
                                THEN o.accel ELSE e.accel,
                      !.caps = c, !.structured = st]
      BY DEF MergeEndpoint
    <3>6. IsEndpoint(e)
      OBVIOUS
    <3>7. /\ join(e).id = e.id
          /\ join(e).accel = IF /\ AccelerationVerified(o)
                                /\ ~AccelerationVerified(e)
                             THEN o.accel ELSE e.accel
      <4>1. ASSUME NEW x
            PROVE  /\ [e EXCEPT !.accel = x, !.caps = c,
                                !.structured = st].accel = x
                   /\ [e EXCEPT !.accel = x, !.caps = c,
                                !.structured = st].id = e.id
        BY <3>6 DEF IsEndpoint, EndpointFields
      <4> QED
        BY <3>4, <3>5, <4>1
    <3> HIDE DEF join
    <3>8. AccelerationVerified(o)
      BY <2>2, <3>1, <3>7 DEF AccelerationVerified
    <3> QED
      BY <3>1, <3>3, <3>7, <3>8
  <2> QED
    <3>1. ASSUME NEW x \in merged.profile.endpoints, AccelerationVerified(x)
          PROVE  \E env \in cached : \E old \in env.profile.endpoints :
                   /\ AccelerationVerified(old)
                   /\ old.id = x.id /\ old.accel = x.accel
      <4> HIDE DEF join
      <4>1. PICK e \in prof.endpoints : x = join(e)
        BY <1>2, <2>1
      <4> QED
        BY <4>1, <2>2, <3>1
    <3>2. cached # {}
      BY <1>4 DEF used
    <3> QED
      BY <1>4, <2>1, <3>1, <3>2 DEF CarriesEvidence
<1> QED
  BY <1>3, <1>4

-----------------------------------------------------------------------------
(* Probes are never forgotten, and their profiles only last longer.        *)
ProbesKept ==
  \A p \in earned : \E k \in earned' :
    /\ k.run = p.run /\ k.endpoint = p.endpoint
    /\ k.offloaded = p.offloaded /\ k.fp = p.fp
    /\ p.until \in Nat /\ k.until \in Nat /\ p.until <= k.until

(* A step that earns nothing keeps every probe.                            *)
LEMMA UnchangedProbesKept ==
  ASSUME ProbesTyped, UNCHANGED earned
  PROVE  ProbesKept
BY DEF ProbesTyped, ProbesKept

(* Backed evidence stays backed while the probes are kept.                 *)
LEMMA EnvelopeKept ==
  ASSUME NEW env, EnvelopeBacked(env), ProbesKept
  PROVE  EnvelopeBacked(env)'
<1>1. ASSUME NEW e \in env.profile.endpoints, AccelerationVerified(e)
      PROVE  \E p \in earned' : EarnedBy(e, env.fp, p) /\ env.expires <= p.until
  <2>1. env.expires \in Nat
    BY DEF EnvelopeBacked
  <2>2. PICK p \in earned : EarnedBy(e, env.fp, p) /\ env.expires <= p.until
    BY <1>1 DEF EnvelopeBacked
  <2>3. PICK k \in earned' :
          /\ k.run = p.run /\ k.endpoint = p.endpoint
          /\ k.offloaded = p.offloaded /\ k.fp = p.fp
          /\ p.until \in Nat /\ k.until \in Nat /\ p.until <= k.until
    BY DEF ProbesKept
  <2>4. EarnedBy(e, env.fp, k)
    BY <2>2, <2>3 DEF EarnedBy
  <2>5. env.expires <= k.until
    BY <2>1, <2>2, <2>3
  <2> QED
    BY <2>4, <2>5
<1> QED
  BY <1>1 DEF EnvelopeBacked

(* The same for the profile of a run under way.                            *)
LEMMA ProbeProfileKept ==
  ASSUME NEW d, ProbeProfileBacked(d), ProbesKept
  PROVE  ProbeProfileBacked(d)'
<1>1. ASSUME NEW e \in d.profile.endpoints, AccelerationVerified(e)
      PROVE  \E p \in earned' : EarnedBy(e, d.facts.fp, p) /\ p.run = d.id
  <2>2. PICK p \in earned : EarnedBy(e, d.facts.fp, p) /\ p.run = d.id
    BY <1>1 DEF ProbeProfileBacked
  <2>3. PICK k \in earned' :
          /\ k.run = p.run /\ k.endpoint = p.endpoint
          /\ k.offloaded = p.offloaded /\ k.fp = p.fp
    BY DEF ProbesKept
  <2> QED
    BY <2>2, <2>3 DEF EarnedBy
<1> QED
  BY <1>1 DEF ProbeProfileBacked

(* The same for a run as a whole.                                          *)
LEMMA RunKept ==
  ASSUME NEW d, RunBacked(d), ProbesKept
  PROVE  RunBacked(d)'
<1>1. ASSUME NEW env \in d.cached
      PROVE  EnvelopeBacked(env)' /\ env.fp = d.facts.fp
  BY EnvelopeKept DEF RunBacked
<1>2. d.stage = "probed" => ProbeProfileBacked(d)'
  BY ProbeProfileKept DEF RunBacked
<1> QED
  BY <1>1, <1>2 DEF RunBacked

(* A step that keeps the clock, the probes' record and the cache.          *)
LEMMA QuietDoctor ==
  ASSUME DoctorInv, UNCHANGED <<doctorTime, earned>>, NEW rest,
         doctors' = rest, rest \subseteq doctors,
         slot' \subseteq slot,
         hostFacts' \in Machines, server' \in {"serving", "down"},
         report' = NoReport
  PROVE  DoctorInv'
<1>1. ProbesKept
  BY UnchangedProbesKept DEF DoctorInv
<1>2. ProbesTyped'
  BY DEF DoctorInv, ProbesTyped
<1>3. SlotBacked'
  BY <1>1, EnvelopeKept DEF DoctorInv, SlotBacked
<1>4. \A d \in doctors' : RunBacked(d)'
  BY <1>1, RunKept DEF DoctorInv
<1>5. EvidenceIsEarned'
  BY DEF EvidenceIsEarned
<1> QED
  BY <1>2, <1>3, <1>4, <1>5 DEF DoctorInv

(* A run starts with what the cache has for its host.                      *)
LEMMA StartDoctorStep ==
  ASSUME DoctorInv, NEW verify \in {"", "ollama", "mlx"}, StartDoctor(verify)
  PROVE  DoctorInv'
<1> DEFINE cached == ReadEnvelope(hostFacts.fp)
           new == [stage |-> "read", id |-> doctorRuns + 1,
                   facts |-> hostFacts, verify |-> verify, cached |-> cached,
                   readAt |-> doctorTime,
                   expired |-> \E env \in cached : Expired(env),
                   profile |-> NoProfile]
<1>1. /\ doctors' = doctors \cup {new} /\ report' = NoReport
      /\ UNCHANGED <<hostFacts, server, doctorTime, slot, earned>>
  BY DEF StartDoctor
<1>2. ProbesKept
  BY <1>1, UnchangedProbesKept DEF DoctorInv
<1>3. ProbesTyped' /\ SlotBacked'
  BY <1>1, <1>2, EnvelopeKept DEF DoctorInv, ProbesTyped, SlotBacked
<1>4. RunBacked(new)
  <2>1. \A env \in cached : EnvelopeBacked(env) /\ env.fp = hostFacts.fp
    BY DEF DoctorInv, SlotBacked, ReadEnvelope
  <2>2. \A env1, env2 \in cached : env1 = env2
    BY DEF DoctorInv, SlotBacked, ReadEnvelope
  <2>3. (\E env \in cached : Expired(env))
          = \E env \in cached : doctorTime >= env.expires
    BY DEF Expired
  <2> HIDE DEF cached
  <2>4. new = [x \in DoctorFields |-> new[x]]
    BY DEF DoctorFields
  <2>5. hostFacts \in Machines /\ doctorTime \in Nat
    BY DEF DoctorInv
  <2>6. /\ new.facts = hostFacts /\ new.verify = verify /\ new.stage = "read"
        /\ new.readAt = doctorTime /\ new.cached = cached
        /\ new.expired = \E env \in cached : Expired(env)
    OBVIOUS
  <2> HIDE DEF new
  <2> QED
    BY <2>1, <2>2, <2>3, <2>4, <2>5, <2>6 DEF RunBacked
<1> HIDE DEF new
<1>5. \A d \in doctors' : RunBacked(d)'
  BY <1>1, <1>2, <1>4, RunKept DEF DoctorInv
<1> QED
  BY <1>1, <1>3, <1>5 DEF DoctorInv, EvidenceIsEarned

(* A run probes the machine, and may earn evidence.                        *)
LEMMA ProbeMachineStep ==
  ASSUME DoctorInv, NEW d \in doctors, NEW answer,
         ProbeMachine(d, answer)
  PROVE  DoctorInv'
<1>0. PICK prof : prof = Profile(Seen(d.facts, server), NoCapabilities,
                                 d.verify, answer, d.id)
  OBVIOUS
<1> DEFINE new == [d EXCEPT !.stage = "probed", !.profile = prof]
           probe == [run |-> d.id, endpoint |-> d.verify,
                     offloaded |-> answer = "gpu", fp |-> d.facts.fp,
                     until |-> 0]
<1>1. /\ doctors' = (doctors \ {d}) \cup {new} /\ report' = NoReport
      /\ earned' = IF d.verify = "" THEN earned ELSE earned \cup {probe}
      /\ UNCHANGED <<hostFacts, server, doctorTime, slot, doctorRuns>>
      /\ d.verify # "" => answer \in Answers(d.verify)
      /\ d.stage = "read"
  BY <1>0 DEF ProbeMachine
<1>2. /\ d = [x \in DoctorFields |-> d[x]] /\ d.facts \in Machines
      /\ d.verify \in {"", "ollama", "mlx"} /\ RunBacked(d)
      /\ server \in {"serving", "down"}
  BY DEF DoctorInv, RunBacked
<1>3. OwnEvidence(prof, d.verify, answer, d.id)
  BY <1>0, <1>1, <1>2, ProbedProfile
<1>4. /\ new = [x \in DoctorFields |-> new[x]]
      /\ new.facts = d.facts /\ new.verify = d.verify /\ new.stage = "probed"
      /\ new.readAt = d.readAt /\ new.cached = d.cached /\ new.id = d.id
      /\ new.expired = d.expired /\ new.profile = prof
  BY <1>2 DEF DoctorFields
<1>5. /\ probe.run = d.id /\ probe.endpoint = d.verify
      /\ probe.offloaded = (answer = "gpu") /\ probe.fp = d.facts.fp
      /\ probe.until = 0
      /\ probe = [x \in {"run", "endpoint", "offloaded", "fp", "until"}
                    |-> probe[x]]
  OBVIOUS
<1>p. earned \subseteq earned' /\ \A p \in earned' : p \in earned \/ p = probe
  BY <1>1
<1> HIDE DEF probe
<1>6. ProbesTyped' /\ ProbesKept
  <2>1. doctorTime + CacheTTL \in Nat
    BY DoctorAssumption DEF DoctorInv
  <2>2. ProbesTyped
    BY DEF DoctorInv
  <2>3. ProbesTyped'
    <3>1. ASSUME NEW p \in earned'
          PROVE  /\ p = [x \in {"run", "endpoint", "offloaded", "fp", "until"}
                           |-> p[x]]
                 /\ p.until \in Nat /\ p.until <= doctorTime + CacheTTL
      <4>1. CASE p \in earned
        BY <2>2, <4>1 DEF ProbesTyped
      <4>2. CASE p = probe
        BY <1>5, <2>1, <4>2
      <4> QED
        BY <1>p, <4>1, <4>2
    <3> QED
      BY <1>1, <3>1 DEF ProbesTyped
  <2>4. ProbesKept
    BY <1>p, <2>2 DEF ProbesTyped, ProbesKept
  <2> QED
    BY <2>3, <2>4
<1>7. SlotBacked'
  BY <1>1, <1>6, EnvelopeKept DEF DoctorInv, SlotBacked
<1>q. PICK nu : nu = new
  OBVIOUS
<1>8. ProbeProfileBacked(nu)'
  <2>1. ASSUME NEW e \in prof.endpoints, AccelerationVerified(e)
        PROVE  \E p \in earned' : EarnedBy(e, d.facts.fp, p) /\ p.run = d.id
    BY <1>1, <1>3, <1>5, <2>1 DEF EarnedBy, OwnEvidence
  <2>2. /\ ValidProfile(prof) /\ IsProfile(prof)
        /\ \A e \in prof.endpoints : IsEndpoint(e)
    BY <1>3 DEF OwnEvidence
  <2> QED
    BY <1>4, <1>q, <2>1, <2>2 DEF ProbeProfileBacked
<1>9. RunBacked(nu)'
  <2>1. ASSUME NEW env \in d.cached
        PROVE  EnvelopeBacked(env)' /\ env.fp = d.facts.fp
    BY <1>2, <1>6, EnvelopeKept DEF RunBacked
  <2>2. /\ d.facts \in Machines /\ d.readAt \in Nat
        /\ \A env1, env2 \in d.cached : env1 = env2
        /\ d.expired = \E env \in d.cached : d.readAt >= env.expires
    BY <1>2 DEF RunBacked
  <2> QED
    BY <1>2, <1>4, <1>q, <1>8, <2>1, <2>2 DEF RunBacked
<1>10. \A x \in doctors' : RunBacked(x)'
  <2>1. \A x \in doctors : RunBacked(x)'
    BY <1>6, RunKept DEF DoctorInv
  <2> QED
    BY <1>1, <1>q, <1>9, <2>1
<1> QED
  BY <1>1, <1>6, <1>7, <1>10 DEF DoctorInv, EvidenceIsEarned

(* A run combines, reports and refreshes the cache.                        *)
LEMMA FinishDoctorStep ==
  ASSUME DoctorInv, NEW d \in doctors, NEW written \in BOOLEAN,
         FinishDoctor(d, written)
  PROVE  DoctorInv'
<1> DEFINE merged == Combine(d.profile, d.cached)
           grown(p) == IF p.run # d.id THEN p
                       ELSE [p EXCEPT !.until = doctorTime + CacheTTL]
<1>1. /\ d.stage = "probed" /\ doctors' = doctors \ {d}
      /\ IF written THEN RefreshCache(d, merged.profile, merged.used)
         ELSE UNCHANGED slot
      /\ earned' = {grown(p) : p \in earned}
      /\ report' = Report(d, merged)
      /\ UNCHANGED <<hostFacts, server, doctorTime, doctorRuns>>
  BY DEF FinishDoctor
<1>2. /\ RunBacked(d) /\ ProbeProfileBacked(d)
      /\ doctorTime \in Nat /\ doctorTime + CacheTTL \in Nat
      /\ d.readAt \in Nat
  <2>1. RunBacked(d) /\ doctorTime \in Nat
    BY DEF DoctorInv
  <2>2. ProbeProfileBacked(d) /\ d.readAt \in Nat
    BY <1>1, <2>1 DEF RunBacked
  <2>3. doctorTime + CacheTTL \in Nat
    BY <2>1, DoctorAssumption
  <2> QED
    BY <2>1, <2>2, <2>3
<1>3. CarriesEvidence(merged, d.profile, d.cached)
  <2>1. /\ ValidProfile(d.profile) /\ IsProfile(d.profile)
        /\ \A e \in d.profile.endpoints : IsEndpoint(e)
    BY <1>2 DEF ProbeProfileBacked
  <2> QED
    BY <2>1, CombinedEvidence
<1>4. /\ report'.status = EvidenceStatus(d, merged.used)
      /\ report'.id = d.id /\ report'.fp = d.facts.fp
      /\ report'.readAt = d.readAt /\ report'.profile = merged.profile
  BY <1>1 DEF Report
<1> HIDE DEF merged
<1>5. ASSUME NEW p \in earned
      PROVE  LET k == grown(p)
             IN /\ k \in earned'
                /\ k = [x \in {"run", "endpoint", "offloaded", "fp", "until"}
                          |-> k[x]]
                /\ k.run = p.run /\ k.endpoint = p.endpoint
                /\ k.offloaded = p.offloaded /\ k.fp = p.fp
                /\ p.until \in Nat /\ k.until \in Nat /\ p.until <= k.until
                /\ k.until <= doctorTime + CacheTTL
                /\ k.run = d.id => k.until = doctorTime + CacheTTL
  BY <1>1, <1>2 DEF DoctorInv, ProbesTyped
<1>6. ProbesTyped' /\ ProbesKept
  BY <1>1, <1>5 DEF ProbesTyped, ProbesKept
<1>7. ASSUME NEW e \in d.profile.endpoints, AccelerationVerified(e)
      PROVE  \E k \in earned' : /\ EarnedBy(e, d.facts.fp, k) /\ k.run = d.id
                                /\ k.until = doctorTime + CacheTTL
  <2>1. PICK p \in earned : EarnedBy(e, d.facts.fp, p) /\ p.run = d.id
    BY <1>2, <1>7 DEF ProbeProfileBacked
  <2>2. EarnedBy(e, d.facts.fp, grown(p))
    BY <1>5, <2>1 DEF EarnedBy
  <2> HIDE DEF grown
  <2> QED
    BY <1>5, <2>1, <2>2
<1>8. ASSUME NEW e \in merged.profile.endpoints, AccelerationVerified(e),
             merged.used
      PROVE  \E env \in d.cached : \E k \in earned' :
               EarnedBy(e, d.facts.fp, k) /\ env.expires <= k.until
  <2>1. PICK env \in d.cached : \E old \in env.profile.endpoints :
          /\ AccelerationVerified(old)
          /\ old.id = e.id /\ old.accel = e.accel
    BY <1>3, <1>8 DEF CarriesEvidence
  <2>2. EnvelopeBacked(env)' /\ env.fp = d.facts.fp
    BY <1>2, <1>6, EnvelopeKept DEF RunBacked
  <2> QED
    BY <2>1, <2>2 DEF EnvelopeBacked, EarnedBy
<1>9. SlotBacked'
  <2>1. CASE slot' = slot
    BY <1>6, <2>1, EnvelopeKept DEF DoctorInv, SlotBacked
  <2>2. ASSUME NEW expires,
               slot' = {[fp |-> d.facts.fp, profile |-> merged.profile,
                         expires |-> expires]},
               expires = IF merged.used
                         THEN (CHOOSE env \in d.cached : TRUE).expires
                         ELSE doctorTime + CacheTTL
        PROVE  SlotBacked'
    <3> DEFINE new == [fp |-> d.facts.fp, profile |-> merged.profile,
                       expires |-> expires]
    <3>1. /\ new.fp = d.facts.fp /\ new.profile = merged.profile
          /\ new.expires = expires
      OBVIOUS
    <3> HIDE DEF new
    <3>2. EnvelopeBacked(new)'
      <4>1. CASE ~merged.used
        BY <1>2, <1>3, <1>7, <2>2, <3>1, <4>1
           DEF EnvelopeBacked, CarriesEvidence
      <4>2. CASE merged.used
        <5>1. \A env \in d.cached : env.expires = expires
          BY <1>2, <2>2, <4>2 DEF RunBacked
        <5>2. expires \in Nat
          BY <1>2, <1>3, <4>2, <5>1
             DEF RunBacked, EnvelopeBacked, CarriesEvidence
        <5> QED
          BY <1>8, <3>1, <4>2, <5>1, <5>2 DEF EnvelopeBacked
      <4> QED
        BY <1>3, <4>1, <4>2 DEF CarriesEvidence
    <3> QED
      BY <2>2, <3>2 DEF SlotBacked, new
  <2> QED
    BY <1>1, <2>1, <2>2 DEF RefreshCache, WriteWithExpiresAt
<1>10. \A x \in doctors' : RunBacked(x)'
  <2>1. \A x \in doctors : RunBacked(x)'
    BY <1>6, RunKept DEF DoctorInv
  <2> QED
    BY <1>1, <2>1
<1>11. EvidenceIsEarned'
  <2>1. ValidProfile(report'.profile)
    BY <1>3, <1>4 DEF CarriesEvidence
  <2>2. ASSUME NEW e \in report'.profile.endpoints, AccelerationVerified(e)
        PROVE  \E p \in earned' :
                 /\ EarnedBy(e, report'.fp, p)
                 /\ \/ report'.status = "stale_inference_retained"
                    \/ p.run = report'.id
                    \/ report'.readAt < p.until
    <3>1. CASE ~merged.used
      BY <1>3, <1>4, <1>7, <2>2, <3>1 DEF CarriesEvidence
    <3>2. CASE merged.used /\ d.expired
      <4>1. report'.status = "stale_inference_retained"
        BY <1>4, <3>2 DEF EvidenceStatus
      <4> QED
        BY <1>4, <1>8, <2>2, <3>2, <4>1
    <3>3. CASE merged.used /\ ~d.expired
      <4>1. PICK env \in d.cached : \E k \in earned' :
              EarnedBy(e, d.facts.fp, k) /\ env.expires <= k.until
        BY <1>4, <1>8, <2>2, <3>3
      <4>2. d.readAt < env.expires /\ env.expires \in Nat
        <5>1. EnvelopeBacked(env)
          BY <1>2 DEF RunBacked
        <5>2. env.expires \in Nat
          BY <5>1 DEF EnvelopeBacked
        <5>3. ~(d.readAt >= env.expires)
          BY <1>2, <3>3 DEF RunBacked
        <5> QED
          BY <1>2, <5>2, <5>3
      <4>3. \A k \in earned' : k.until \in Nat
        BY <1>6 DEF ProbesTyped
      <4> QED
        BY <1>2, <1>4, <4>1, <4>2, <4>3
    <3> QED
      BY <1>3, <3>1, <3>2, <3>3 DEF CarriesEvidence
  <2> QED
    BY <2>1, <2>2 DEF EvidenceIsEarned, EarnedBy
<1> QED
  BY <1>1, <1>6, <1>9, <1>10, <1>11 DEF DoctorInv

(* Time passes.                                                            *)
LEMMA DoctorTickStep ==
  ASSUME DoctorInv, DoctorTick
  PROVE  DoctorInv'
<1>1. /\ doctorTime \in Nat /\ doctorTime' = doctorTime + 1
      /\ UNCHANGED <<hostFacts, server, slot, doctors, doctorRuns, earned>>
      /\ report' = NoReport
  BY DEF DoctorTick, DoctorInv
<1>2. ProbesKept
  BY <1>1, UnchangedProbesKept DEF DoctorInv
<1>3. ProbesTyped'
  <2>1. ASSUME NEW n \in Nat, n <= doctorTime + CacheTTL
        PROVE  n <= doctorTime' + CacheTTL
    BY <1>1, <2>1, DoctorAssumption
  <2> QED
    BY <1>1, <2>1 DEF DoctorInv, ProbesTyped
<1>4. SlotBacked'
  BY <1>1, <1>2, EnvelopeKept DEF DoctorInv, SlotBacked
<1>5. \A d \in doctors' : RunBacked(d)'
  BY <1>1, <1>2, RunKept DEF DoctorInv
<1> QED
  BY <1>1, <1>3, <1>4, <1>5 DEF DoctorInv, EvidenceIsEarned

(* The invariant of the doctor and its cache.                              *)
THEOREM DoctorInvariant == SpecDoctor => []DoctorInv
<1>1. InitDoctor => DoctorInv
  BY DEF InitDoctor, DoctorInv, Machines, ProbesTyped, SlotBacked,
         EvidenceIsEarned
<1>2. DoctorInv /\ [NextDoctor]_doctorVars => DoctorInv'
  <2> SUFFICES ASSUME DoctorInv, [NextDoctor]_doctorVars  PROVE DoctorInv'
    OBVIOUS
  <2>1. CASE \E verify \in {"", "ollama", "mlx"} : StartDoctor(verify)
    BY <2>1, StartDoctorStep
  <2>2. CASE \E d \in doctors, answer \in {"none", "gpu", "gpu_disputed"} :
               ProbeMachine(d, answer)
    BY <2>2, ProbeMachineStep
  <2>3. CASE \E d \in doctors, written \in BOOLEAN : FinishDoctor(d, written)
    BY <2>3, FinishDoctorStep
  <2>4. CASE \E d \in doctors : FailDoctor(d)
    <3>1. PICK d \in doctors : FailDoctor(d)
      BY <2>4
    <3> QED
      BY <3>1, QuietDoctor DEF FailDoctor, DoctorInv
  <2>5. CASE RemoveCache
    BY <2>5, QuietDoctor DEF RemoveCache, DoctorInv
  <2>6. CASE ServerStops
    BY <2>6, QuietDoctor DEF ServerStops, DoctorInv
  <2>7. CASE \E m \in Machines : MachineChanges(m)
    BY <2>7, QuietDoctor DEF MachineChanges, DoctorInv
  <2>8. CASE DoctorTick
    BY <2>8, DoctorTickStep
  <2>9. CASE UNCHANGED doctorVars
    <3>1. ProbesKept
      BY <2>9, UnchangedProbesKept DEF doctorVars, DoctorInv
    <3>2. SlotBacked'
      BY <2>9, <3>1, EnvelopeKept DEF doctorVars, DoctorInv, SlotBacked
    <3>3. \A d \in doctors' : RunBacked(d)'
      BY <2>9, <3>1, RunKept DEF doctorVars, DoctorInv
    <3> QED
      BY <2>9, <3>2, <3>3
         DEF doctorVars, DoctorInv, ProbesTyped, EvidenceIsEarned
  <2> QED
    BY <2>1, <2>2, <2>3, <2>4, <2>5, <2>6, <2>7, <2>8, <2>9 DEF NextDoctor
<1> QED
  BY <1>1, <1>2, PTL DEF SpecDoctor

(* The doctor reports acceleration as verified only where a probe of that  *)
(* endpoint on this machine saw it offloaded, and its report says so when  *)
(* the evidence had outlived the cache; whatever runs were concurrent,     *)
(* whichever of them wrote the cache last, and for every CacheTTL.         *)
THEOREM EvidenceIsAlwaysEarned == SpecDoctor => []EvidenceIsEarned
<1>1. DoctorInv => EvidenceIsEarned
  BY DEF DoctorInv
<1> QED
  BY <1>1, DoctorInvariant, PTL

-----------------------------------------------------------------------------
(* The setup planner.  First, what FlattenSeq gathers.                     *)

(* Of natural numbers one is the least.                                    *)
LEMMA LeastNatural ==
  ASSUME NEW S, S \subseteq Nat, S # {}
  PROVE  \E m \in S : \A k \in S : m <= k
<1>1. PICK m \in S : \A k \in S : ~(<<k, m>> \in OpToRel(<, Nat))
  BY NatLessThanWellFounded, WFMin
<1>2. \A k \in S : ~(k < m)
  BY <1>1 DEF OpToRel
<1> QED BY <1>2

(* The recursive function that FlattenSeq runs through has one step for
   each sequence.                                                          *)
Flattens(f, n, seqs) ==
  f = [i \in 1 .. n |-> IF i = 1 THEN seqs[i] ELSE f[i - 1] \o seqs[i]]

(* There is such a function for every number of sequences.                 *)
LEMMA FlattensExists ==
  ASSUME NEW seqs, NEW n \in Nat
  PROVE  \E f : Flattens(f, n, seqs)
<1> DEFINE Bad == {k \in Nat : ~\E f : Flattens(f, k, seqs)}
<1> SUFFICES ASSUME Bad # {} PROVE FALSE
  OBVIOUS
<1>1. PICK m \in Bad : \A k \in Bad : m <= k
  <2> HIDE DEF Bad
  <2>1. Bad \subseteq Nat
    BY DEF Bad
  <2> QED BY <2>1, LeastNatural
<1>2. CASE m = 0
  <2>1. Flattens([i \in 1 .. 0 |-> 0], 0, seqs)
    BY DEF Flattens
  <2> QED BY <1>2, <2>1
<1>3. CASE m > 0
  <2>1. m - 1 \in Nat /\ ~(m - 1 \in Bad)
    BY <1>1, <1>3
  <2>2. PICK g : Flattens(g, m - 1, seqs)
    BY <2>1
  <2> DEFINE h == [i \in 1 .. m |->
                     IF i = m THEN IF i = 1 THEN seqs[i]
                                   ELSE g[i - 1] \o seqs[i]
                     ELSE g[i]]
  <2>3. \A i \in 1 .. m :
          h[i] = IF i = 1 THEN seqs[i] ELSE h[i - 1] \o seqs[i]
    <3> SUFFICES ASSUME NEW i \in 1 .. m
                 PROVE h[i] = IF i = 1 THEN seqs[i] ELSE h[i - 1] \o seqs[i]
      OBVIOUS
    <3>1. CASE i = m
      <4>1. i # 1 => h[i - 1] = g[i - 1]
        BY <3>1
      <4> QED BY <3>1, <4>1
    <3>2. CASE i # m
      <4>1. i \in 1 .. (m - 1)
        BY <3>2
      <4>2. h[i] = g[i]
        BY <3>2
      <4>3. i # 1 => h[i - 1] = g[i - 1]
        BY <4>1
      <4>4. g[i] = IF i = 1 THEN seqs[i] ELSE g[i - 1] \o seqs[i]
        BY <2>2, <4>1 DEF Flattens
      <4> QED BY <4>2, <4>3, <4>4
    <3> QED BY <3>1, <3>2
  <2>4. h = [i \in 1 .. m |-> IF i = 1 THEN seqs[i] ELSE h[i - 1] \o seqs[i]]
    <3>1. h = [i \in 1 .. m |-> h[i]]
      OBVIOUS
    <3> HIDE DEF h
    <3> QED BY <2>3, <3>1
  <2>5. Flattens(h, m, seqs)
    BY <2>4 DEF Flattens
  <2> HIDE DEF h
  <2> QED BY <2>5, <1>1
<1> QED BY <1>1, <1>2, <1>3

(* FlattenSeq is where that function ends.                                 *)
LEMMA FlattenUnfolds ==
  ASSUME NEW seqs, Len(seqs) \in Nat, Len(seqs) # 0
  PROVE  \E f : Flattens(f, Len(seqs), seqs) /\ FlattenSeq(seqs) = f[Len(seqs)]
<1> DEFINE P(f) == f = [i \in 1 .. Len(seqs) |->
                          IF i = 1 THEN seqs[i] ELSE f[i - 1] \o seqs[i]]
<1>1. FlattenSeq(seqs) = (CHOOSE f : P(f))[Len(seqs)]
  BY DEF FlattenSeq
<1>2. \E f : P(f)
  BY FlattensExists DEF Flattens
<1>3. P(CHOOSE f : P(f))
  BY <1>2
<1> QED BY <1>1, <1>3 DEF Flattens

(* Sequences that hold at most one thing each.                             *)
AtMostOne(seqs, n, T) ==
  /\ n \in Nat /\ Len(seqs) = n /\ DOMAIN seqs = 1 .. n
  /\ \A i \in 1 .. n : seqs[i] = <<>> \/ \E x \in T : seqs[i] = <<x>>

(* What s has came from different places of seqs, one each.                *)
Places(from, s, seqs, n) ==
  /\ from \in [1 .. Len(s) -> 1 .. n]
  /\ \A i \in 1 .. Len(s) : seqs[from[i]] = <<s[i]>>
  /\ \A i, j \in 1 .. Len(s) : i # j => from[i] # from[j]
Gathered(s, seqs, n, T) ==
  s \in Seq(T) /\ \E from : Places(from, s, seqs, n)

(* Nothing comes from nowhere.                                             *)
LEMMA NothingGathered ==
  ASSUME NEW seqs, NEW n, NEW T
  PROVE  Gathered(<<>>, seqs, n, T)
<1>1. Len(<<>>) = 0 /\ <<>> \in Seq(T)
  BY EmptySeq
<1>2. \A l : l = 0 => Places([i \in 1 .. l |-> 1], <<>>, seqs, n)
  <2> SUFFICES Places([i \in 1 .. 0 |-> 1], <<>>, seqs, n)
    OBVIOUS
  <2>1. 1 .. 0 = {}
    OBVIOUS
  <2>2. [i \in 1 .. 0 |-> 1] \in [1 .. 0 -> 1 .. n]
    BY <2>1
  <2> QED BY <1>1, <2>1, <2>2 DEF Places
<1> QED BY <1>1, <1>2 DEF Gathered

(* The first sequence is gathered.                                         *)
LEMMA GatherOne ==
  ASSUME NEW seqs, NEW n, NEW T, AtMostOne(seqs, n, T), n > 0
  PROVE  Gathered(seqs[1], seqs, 1, T)
<1>1. CASE seqs[1] = <<>>
  BY <1>1, NothingGathered
<1>2. CASE \E x \in T : seqs[1] = <<x>>
  <2>1. PICK x \in T : seqs[1] = <<x>>
    BY <1>2
  <2>2. <<x>> \in Seq(T) /\ Len(<<x>>) = 1 /\ <<x>>[1] = x
    OBVIOUS
  <2>3. PICK from : from = [i \in 1 .. 1 |-> 1]
    OBVIOUS
  <2>4. Places(from, <<x>>, seqs, 1)
    BY <2>1, <2>2, <2>3 DEF Places
  <2> QED BY <2>1, <2>2, <2>4 DEF Gathered
<1> QED BY <1>1, <1>2 DEF AtMostOne

(* One sequence more is gathered by appending it.                          *)
LEMMA GatherNext ==
  ASSUME NEW seqs, NEW n, NEW T, AtMostOne(seqs, n, T),
         NEW k \in Nat, k >= 1, k < n, NEW s, Gathered(s, seqs, k, T)
  PROVE  Gathered(s \o seqs[k + 1], seqs, k + 1, T)
<1>1. PICK from \in [1 .. Len(s) -> 1 .. k] :
        /\ \A i \in 1 .. Len(s) : seqs[from[i]] = <<s[i]>>
        /\ \A i, j \in 1 .. Len(s) : i # j => from[i] # from[j]
  BY DEF Gathered, Places
<1>2. s \in Seq(T) /\ Len(s) \in Nat
  BY DEF Gathered
<1>3. CASE seqs[k + 1] = <<>>
  <2>1. s \o <<>> = s
    BY <1>2, ConcatEmptySeq
  <2>2. from \in [1 .. Len(s) -> 1 .. (k + 1)]
    OBVIOUS
  <2>3. Places(from, s, seqs, k + 1)
    BY <1>1, <2>2 DEF Places
  <2> QED BY <1>2, <1>3, <2>1, <2>3 DEF Gathered
<1>4. CASE \E x \in T : seqs[k + 1] = <<x>>
  <2>1. PICK x \in T : seqs[k + 1] = <<x>>
    BY <1>4
  <2> DEFINE t == s \o <<x>>
             l == Len(s) + 1
             g == [i \in 1 .. l |-> IF i = l THEN k + 1 ELSE from[i]]
  <2>2. <<x>> \in Seq(T) /\ Len(<<x>>) = 1 /\ <<x>>[1] = x
    OBVIOUS
  <2>3. /\ t \in Seq(T) /\ Len(t) = l
        /\ \A i \in 1 .. l : t[i] = IF i = l THEN x ELSE s[i]
    <3>1. /\ t \in Seq(T) /\ Len(t) = Len(s) + 1
          /\ \A i \in 1 .. Len(s) + 1 :
               t[i] = IF i <= Len(s) THEN s[i] ELSE <<x>>[i - Len(s)]
      BY <1>2, <2>2, ConcatProperties
    <3>2. \A i \in 1 .. l : i = l <=> ~(i <= Len(s))
      BY <1>2
    <3>3. l - Len(s) = 1
      BY <1>2
    <3> QED BY <2>2, <3>1, <3>2, <3>3
  <2>4. g \in [1 .. l -> 1 .. (k + 1)]
    BY <1>2
  <2>5. \A i \in 1 .. l : seqs[g[i]] = <<t[i]>>
    <3> HIDE DEF t
    <3> QED BY <1>1, <1>2, <2>1, <2>3
  <2>6. \A i, j \in 1 .. l : i # j => g[i] # g[j]
    <3> SUFFICES ASSUME NEW i \in 1 .. l, NEW j \in 1 .. l, i # j
                 PROVE  g[i] # g[j]
      OBVIOUS
    <3>1. \A h \in 1 .. Len(s) : from[h] # k + 1
      OBVIOUS
    <3>2. i # l => i \in 1 .. Len(s)
      BY <1>2
    <3>3. j # l => j \in 1 .. Len(s)
      BY <1>2
    <3> QED BY <1>1, <3>1, <3>2, <3>3
  <2>8. t = s \o seqs[k + 1]
    BY <2>1
  <2> HIDE DEF t, g, l
  <2>7. Places(g, t, seqs, k + 1)
    BY <2>3, <2>4, <2>5, <2>6 DEF Places
  <2> QED BY <2>8, <2>3, <2>7 DEF Gathered
<1> QED BY <1>3, <1>4 DEF AtMostOne

(* FlattenSeq gathers what its sequences hold.                             *)
LEMMA FlattenGathers ==
  ASSUME NEW seqs, NEW n, NEW T, AtMostOne(seqs, n, T)
  PROVE  Gathered(FlattenSeq(seqs), seqs, n, T)
<1>1. n \in Nat /\ Len(seqs) = n /\ DOMAIN seqs = 1 .. n
  BY DEF AtMostOne
<1>2. CASE n = 0
  <2>1. FlattenSeq(seqs) = seqs
    BY <1>1, <1>2 DEF FlattenSeq
  <2>2. seqs \in Seq(T)
    BY <1>1, <1>2
  <2>3. seqs = <<>>
    BY <1>1, <1>2, <2>2, EmptySeq
  <2> QED BY <2>1, <2>3, NothingGathered
<1>3. CASE n # 0
  <2>1. PICK f : Flattens(f, n, seqs) /\ FlattenSeq(seqs) = f[n]
    BY <1>1, <1>3, FlattenUnfolds
  <2>2. \A i \in 1 .. n :
          f[i] = IF i = 1 THEN seqs[i] ELSE f[i - 1] \o seqs[i]
    BY <2>1 DEF Flattens
  <2> DEFINE Bad == {k \in 1 .. n : ~Gathered(f[k], seqs, k, T)}
  <2>3. SUFFICES ASSUME Bad # {} PROVE FALSE
    BY <1>1, <1>3, <2>1
  <2>4. PICK m \in Bad : \A k \in Bad : m <= k
    <3>1. Bad \subseteq Nat
      BY <1>1
    <3> HIDE DEF Bad
    <3> QED BY <2>3, <3>1, LeastNatural
  <2>5. CASE m = 1
    <3>1. f[1] = seqs[1]
      BY <1>1, <1>3, <2>2
    <3>2. Gathered(seqs[1], seqs, 1, T)
      BY <1>1, <1>3, GatherOne
    <3> QED BY <2>5, <3>1, <3>2
  <2>6. CASE m # 1
    <3>1. m - 1 \in 1 .. n /\ ~(m - 1 \in Bad) /\ m - 1 \in Nat
          /\ m - 1 >= 1 /\ m - 1 < n /\ (m - 1) + 1 = m
      BY <1>1, <2>4, <2>6
    <3>2. PICK k \in Nat : k = m - 1
      BY <3>1
    <3>3. Gathered(f[k], seqs, k, T) /\ k >= 1 /\ k < n /\ k + 1 = m
      BY <3>1, <3>2
    <3>4. Gathered(f[k] \o seqs[k + 1], seqs, k + 1, T)
      BY <3>3, GatherNext
    <3>5. f[m] = f[k] \o seqs[k + 1]
      BY <2>2, <2>6, <3>2, <3>3
    <3> QED BY <3>3, <3>4, <3>5
  <2> QED BY <2>5, <2>6
<1> QED BY <1>2, <1>3

(* A sequence of whatever.                                                 *)
List(s) == \E T : s \in Seq(T)

(* A list has a length and places.                                         *)
LEMMA ListShape ==
  ASSUME NEW s, List(s)
  PROVE  Len(s) \in Nat /\ DOMAIN s = 1 .. Len(s)
BY DEF List

(* Two lists in a row.                                                     *)
Joined(u, s, t) ==
  /\ Len(u) = Len(s) + Len(t)
  /\ \A i \in 1 .. Len(s) : u[i] = s[i]
  /\ \A i \in 1 .. Len(t) : u[Len(s) + i] = t[i]
  /\ \A i \in 1 .. Len(u) :
       i \in 1 .. Len(s) \/ \E j \in 1 .. Len(t) : i = Len(s) + j

(* What follows another list keeps its order behind it.                    *)
LEMMA JoinLists ==
  ASSUME NEW s, NEW t, List(s), List(t)
  PROVE  List(s \o t) /\ Joined(s \o t, s, t)
<1>1. PICK S : s \in Seq(S)
  BY DEF List
<1>2. PICK T : t \in Seq(T)
  BY DEF List
<1>3. PICK U : U = S \cup T
  OBVIOUS
<1>4. s \in Seq(U) /\ t \in Seq(U)
  BY <1>1, <1>2, <1>3, SeqMonotonic
<1>5. Len(s) \in Nat /\ Len(t) \in Nat
  BY <1>4
<1>6. PICK u : u = s \o t
  OBVIOUS
<1>7. /\ u \in Seq(U) /\ Len(u) = Len(s) + Len(t)
      /\ \A i \in 1 .. Len(s) + Len(t) :
           u[i] = IF i <= Len(s) THEN s[i] ELSE t[i - Len(s)]
  BY <1>4, <1>6, ConcatProperties
<1>8. \A i \in 1 .. Len(s) : u[i] = s[i]
  BY <1>5, <1>7
<1>9. \A i \in 1 .. Len(t) : u[Len(s) + i] = t[i]
  <2> SUFFICES ASSUME NEW i \in 1 .. Len(t) PROVE u[Len(s) + i] = t[i]
    OBVIOUS
  <2>1. /\ Len(s) + i \in 1 .. Len(s) + Len(t) /\ ~(Len(s) + i <= Len(s))
        /\ (Len(s) + i) - Len(s) = i
    BY <1>5
  <2> QED BY <1>7, <2>1
<1>10. ASSUME NEW i \in 1 .. Len(u), ~(i \in 1 .. Len(s))
       PROVE  \E j \in 1 .. Len(t) : i = Len(s) + j
  <2>1. i - Len(s) \in 1 .. Len(t) /\ i = Len(s) + (i - Len(s))
    BY <1>5, <1>7, <1>10
  <2> QED BY <2>1
<1> QED BY <1>6, <1>7, <1>8, <1>9, <1>10 DEF List, Joined

(* Lists of nothing and of one thing.                                      *)
LEMMA ShortLists ==
  /\ List(<<>>) /\ Len(<<>>) = 0
  /\ \A x : List(<<x>>) /\ Len(<<x>>) = 1 /\ <<x>>[1] = x
<1>1. List(<<>>) /\ Len(<<>>) = 0
  BY EmptySeq DEF List
<1>2. ASSUME NEW x PROVE List(<<x>>) /\ Len(<<x>>) = 1 /\ <<x>>[1] = x
  <2>1. <<x>> \in Seq({x}) /\ Len(<<x>>) = 1 /\ <<x>>[1] = x
    OBVIOUS
  <2> QED BY <2>1 DEF List
<1> QED BY <1>1, <1>2

-----------------------------------------------------------------------------
(* Candidates: one for a backend and a device.                             *)

Assessed(s, backends) ==
  /\ List(s)
  /\ \A i \in 1 .. Len(s) : s[i].backend \in backends
  /\ \A i, j \in 1 .. Len(s) :
       i # j => s[i].backend # s[j].backend \/ s[i].device # s[j].device

(* Candidates of different backends stay apart when appended.              *)
LEMMA JoinAssessed ==
  ASSUME NEW s, NEW t, NEW A, NEW B, Assessed(s, A), Assessed(t, B),
         A \cap B = {}
  PROVE  Assessed(s \o t, A \cup B)
<1>1. PICK u : u = s \o t
  OBVIOUS
<1>2. List(u) /\ Joined(u, s, t)
  BY <1>1, JoinLists DEF Assessed
<1>3. \A i \in 1 .. Len(u) : u[i].backend \in A \cup B
  BY <1>2 DEF Joined, Assessed
<1>4. ASSUME NEW i \in 1 .. Len(u), NEW j \in 1 .. Len(u), i # j
      PROVE  u[i].backend # u[j].backend \/ u[i].device # u[j].device
  <2>1. CASE i \in 1 .. Len(s) /\ j \in 1 .. Len(s)
    BY <1>2, <1>4, <2>1 DEF Joined, Assessed
  <2>2. CASE i \in 1 .. Len(s) /\ \E l \in 1 .. Len(t) : j = Len(s) + l
    <3>1. u[i].backend \in A /\ u[j].backend \in B
      BY <1>2, <2>2 DEF Joined, Assessed
    <3> QED BY <3>1
  <2>3. CASE j \in 1 .. Len(s) /\ \E l \in 1 .. Len(t) : i = Len(s) + l
    <3>1. u[j].backend \in A /\ u[i].backend \in B
      BY <1>2, <2>3 DEF Joined, Assessed
    <3> QED BY <3>1
  <2>4. CASE /\ \E k \in 1 .. Len(t) : i = Len(s) + k
             /\ \E l \in 1 .. Len(t) : j = Len(s) + l
    <3>1. PICK k \in 1 .. Len(t), l \in 1 .. Len(t) :
            i = Len(s) + k /\ j = Len(s) + l
      BY <2>4
    <3>2. k # l
      BY <1>4, <3>1
    <3>3. u[i] = t[k] /\ u[j] = t[l]
      BY <1>2, <3>1 DEF Joined
    <3> QED BY <3>2, <3>3 DEF Assessed
  <2> QED BY <1>2, <2>1, <2>2, <2>3, <2>4 DEF Joined
<1> QED BY <1>1, <1>2, <1>3, <1>4 DEF Assessed

(* What CandidatesOf finds for one backend.                                *)
LEMMA CandidateKnown ==
  ASSUME NEW backend \in {"cuda", "metal", "rocm", "vulkan"}, NEW facts, NEW i
  PROVE  /\ CandidateFor(backend, facts, i).backend = backend
         /\ CandidateFor(backend, facts, i).device = i
BY DEF CandidateFor, nvidiaCandidate, appleCandidate, rocmCandidate,
       vulkanCandidate, Candidate

(* CandidatesOf finds each device at most once.                            *)
LEMMA OneBackend ==
  ASSUME NEW backend \in {"cuda", "metal", "rocm", "vulkan"}, NEW facts,
         List(facts.devices)
  PROVE  Assessed(CandidatesOf(backend, facts), {backend})
<1>1. PICK n \in Nat : n = Len(facts.devices) /\ DOMAIN facts.devices = 1 .. n
  BY ListShape
<1>2. PICK T : T = {CandidateFor(backend, facts, i) : i \in 1 .. n}
  OBVIOUS
<1>3. PICK seqs :
        seqs = [i \in 1 .. n |->
                  IF backend \in BackendsFor(facts.devices[i].vendor)
                  THEN <<CandidateFor(backend, facts, i)>> ELSE <<>>]
  OBVIOUS
<1>4. \A i \in 1 .. n : \/ seqs[i] = <<>>
                        \/ seqs[i] = <<CandidateFor(backend, facts, i)>>
  BY <1>3
<1>5. AtMostOne(seqs, n, T)
  <2>1. Len(seqs) = n /\ DOMAIN seqs = 1 .. n
    BY <1>3
  <2> QED BY <1>2, <1>4, <2>1 DEF AtMostOne
<1>6. PICK s : s = FlattenSeq(seqs)
  OBVIOUS
<1>7. CandidatesOf(backend, facts) = s
  BY <1>1, <1>3, <1>6 DEF CandidatesOf
<1>8. Gathered(s, seqs, n, T)
  BY <1>5, <1>6, FlattenGathers
<1>9. PICK from : Places(from, s, seqs, n)
  BY <1>8 DEF Gathered
<1>10. ASSUME NEW i \in 1 .. Len(s)
       PROVE  s[i] = CandidateFor(backend, facts, from[i])
  <2>1. seqs[from[i]] = <<s[i]>> /\ from[i] \in 1 .. n
    BY <1>9 DEF Places
  <2>2. seqs[from[i]] # <<>>
    BY <2>1, ShortLists
  <2>3. PICK x : x = CandidateFor(backend, facts, from[i])
    OBVIOUS
  <2>4. <<s[i]>> = <<x>>
    BY <1>4, <2>1, <2>2, <2>3
  <2> QED BY <2>3, <2>4
<1>11. \A i \in 1 .. Len(s) : s[i].backend = backend /\ s[i].device = from[i]
  BY <1>10, CandidateKnown
<1>12. List(s)
  BY <1>8 DEF Gathered, List
<1> QED BY <1>7, <1>9, <1>11, <1>12 DEF Assessed, Places

(* All that the assessment returns.                                        *)
LEMMA BackendsAssessed ==
  ASSUME NEW facts, List(facts.devices)
  PROVE  \E B : Assessed(AssessBackends(facts), B)
<1>1. PICK c, m, r, v : /\ c = CandidatesOf("cuda", facts)
                        /\ m = CandidatesOf("metal", facts)
                        /\ r = CandidatesOf("rocm", facts)
                        /\ v = CandidatesOf("vulkan", facts)
  OBVIOUS
<1>2. /\ Assessed(c, {"cuda"}) /\ Assessed(m, {"metal"})
      /\ Assessed(r, {"rocm"}) /\ Assessed(v, {"vulkan"})
  BY <1>1, OneBackend
<1>3. Assessed(c \o m, {"cuda"} \cup {"metal"})
  BY <1>2, JoinAssessed
<1>4. Assessed((c \o m) \o r, ({"cuda"} \cup {"metal"}) \cup {"rocm"})
  BY <1>2, <1>3, JoinAssessed
<1>5. Assessed(((c \o m) \o r) \o v,
               (({"cuda"} \cup {"metal"}) \cup {"rocm"}) \cup {"vulkan"})
  BY <1>2, <1>4, JoinAssessed
<1> QED BY <1>1, <1>5 DEF AssessBackends

-----------------------------------------------------------------------------
(* Actions.                                                                *)

ActionFields == {"id", "label", "op", "key", "deps", "post", "effects",
                 "authority"}

(* An action that creates a directory.                                     *)
Directory(a) ==
  /\ DOMAIN a = ActionFields /\ ValidAction(a)
  /\ a.op = "create_directory" /\ a.label = "create_directory"
  /\ a.deps = {}

(* Any other: what runs by itself waits for the directories, and a program
   is run for a model only where it was observed.                          *)
Later(a, in, deps) ==
  /\ DOMAIN a = ActionFields /\ ValidAction(a)
  /\ a.op # "create_directory"
  /\ a.deps = deps \/ (a.op = "none" /\ a.deps = {})
  /\ a.op = "ensure_local_model" =>
       in.facts.sameMachine /\ in.facts.software # {}

(* A manual action may stand behind the directories.                       *)
LEMMA ManualLater ==
  ASSUME NEW label, NEW key, NEW effects, NEW deps, NEW post, NEW in,
         NEW all, deps = {} \/ deps = all, post # {}
  PROVE  /\ Later(Manual(label, key, effects, deps, post), in, all)
         /\ Manual(label, key, effects, deps, post).key = key
<1>1. PICK a : a = Manual(label, key, effects, deps, post)
  OBVIOUS
<1>2. /\ DOMAIN a = ActionFields /\ a.op = "none" /\ a.key = key
      /\ a.deps = deps /\ a.authority = "high_impact_manual"
      /\ a.post = post
  BY <1>1 DEF Manual, ActionFields
<1>3. ValidAction(a)
  BY <1>2 DEF ValidAction
<1>4. a.op # "create_directory" /\ a.op # "ensure_local_model"
  BY <1>2
<1>5. a.deps = all \/ (a.op = "none" /\ a.deps = {})
  BY <1>2
<1> QED BY <1>1, <1>2, <1>3, <1>4, <1>5 DEF Later

(* So may an automatic one that waits for them.                            *)
LEMMA AutomaticLater ==
  ASSUME NEW kind \in {"write_managed_config", "remove_stale_cache"},
         NEW key, NEW deps, NEW post, NEW in
  PROVE  /\ Later(Automatic(kind, key, deps, post), in, deps)
         /\ Automatic(kind, key, deps, post).key = key
<1>1. PICK a : a = Automatic(kind, key, deps, post)
  OBVIOUS
<1>2. /\ DOMAIN a = ActionFields /\ a.op = kind /\ a.key = key
      /\ a.deps = deps /\ a.authority = "user_confirmation"
      /\ a.effects = {"filesystem_write"}
  BY <1>1 DEF Automatic, ActionFields, IntrinsicPolicy
<1>3. a.op # "create_directory" /\ a.op # "ensure_local_model"
      /\ a.op # "none"
  BY <1>2
<1>4. ValidAction(a)
  BY <1>2, <1>3 DEF ValidAction, IntrinsicPolicy, AuthorityRank
<1> QED BY <1>1, <1>2, <1>3, <1>4 DEF Later

(* What NewCreateDirectoryAction makes.                                    *)
LEMMA DirectoryKnown ==
  ASSUME NEW loc
  PROVE  /\ Directory(NewCreateDirectoryAction(loc))
         /\ NewCreateDirectoryAction(loc).key = <<"create_dir", loc>>
<1>1. PICK a : a = NewCreateDirectoryAction(loc)
  OBVIOUS
<1>2. /\ DOMAIN a = ActionFields /\ a.op = "create_directory"
      /\ a.label = "create_directory" /\ a.key = <<"create_dir", loc>>
      /\ a.deps = {} /\ a.authority = "user_confirmation"
      /\ a.effects = {"filesystem_write"}
  BY <1>1 DEF NewCreateDirectoryAction, Automatic, ActionFields,
              IntrinsicPolicy
<1>3. ValidAction(a)
  BY <1>2 DEF ValidAction, IntrinsicPolicy, AuthorityRank
<1> QED BY <1>1, <1>2, <1>3 DEF Directory

(* A model is pulled by a program that was observed, or by hand.           *)
LEMMA ModelLater ==
  ASSUME NEW runtime, NEW command, NEW in, NEW deps
  PROVE  LET a == ensureLocalModelAction(runtime, command, in, deps)
         IN  /\ Later(a, in, deps)
             /\ \/ a.key = <<runtime, "pull">>
                \/ a.key = <<"manual", runtime, "pull">>
<1>1. PICK a : a = ensureLocalModelAction(runtime, command, in, deps)
  OBVIOUS
<1>2. PICK post : post = {<<"model_present", runtime, "pinned">>}
  OBVIOUS
<1>3. CASE in.facts.sameMachine /\ command \in in.facts.software
  <2>1. a = Automatic("ensure_local_model", <<runtime, "pull">>, deps, post)
    BY <1>1, <1>2, <1>3 DEF ensureLocalModelAction
  <2>2. /\ DOMAIN a = ActionFields /\ a.op = "ensure_local_model"
        /\ a.key = <<runtime, "pull">> /\ a.post = post
        /\ a.deps = deps /\ a.authority = "user_confirmation"
        /\ a.effects = {"network_access", "model_download",
                        "filesystem_write"}
    BY <2>1 DEF Automatic, ActionFields, IntrinsicPolicy
  <2>3. \E c \in a.post : c[1] = "model_present" /\ c[2] = a.key[1]
    BY <1>2, <2>2
  <2>4. ValidAction(a)
    BY <2>2, <2>3 DEF ValidAction, IntrinsicPolicy, AuthorityRank
  <2>5. in.facts.software # {}
    BY <1>3
  <2>6. in.facts.sameMachine
    BY <1>3
  <2>7. a.op # "create_directory" /\ DOMAIN a = ActionFields /\ a.deps = deps
    BY <2>2
  <2>8. Later(a, in, deps)
    BY <2>4, <2>5, <2>6, <2>7 DEF Later
  <2> QED BY <1>1, <2>2, <2>8
<1>4. CASE ~(in.facts.sameMachine /\ command \in in.facts.software)
  <2>1. a = Manual("pull_model", <<"manual", runtime, "pull">>,
                   {"package_download", "filesystem_write"}, deps, post)
    BY <1>1, <1>2, <1>4 DEF ensureLocalModelAction
  <2>2. post # {}
    BY <1>2
  <2> QED BY <1>1, <2>1, <2>2, ManualLater
<1> QED BY <1>3, <1>4

-----------------------------------------------------------------------------
(* Blocks of a plan: d directories, then others; keys of known kinds, each *)
(* once.                                                                   *)

Fits(s, d, in, deps) ==
  /\ List(s) /\ d \in 0 .. Len(s)
  /\ \A i \in 1 .. d : Directory(s[i])
  /\ \A i \in 1 .. Len(s) : i > d => Later(s[i], in, deps)
Keyed(s, kinds) ==
  /\ \A i \in 1 .. Len(s) : s[i].key[1] \in kinds
  /\ \A i, j \in 1 .. Len(s) : i # j => s[i].key # s[j].key
Block(s, kinds, d, in, deps) == Fits(s, d, in, deps) /\ Keyed(s, kinds)

(* Actions that may stand behind the directories may be appended.          *)
LEMMA JoinFits ==
  ASSUME NEW s, NEW t, NEW d, NEW in, NEW deps, Fits(s, d, in, deps),
         Fits(t, 0, in, deps)
  PROVE  Fits(s \o t, d, in, deps)
<1>1. PICK u : u = s \o t
  OBVIOUS
<1>2. List(u) /\ Joined(u, s, t)
  BY <1>1, JoinLists DEF Fits
<1>3. Len(s) \in Nat /\ Len(t) \in Nat /\ d \in 0 .. Len(s)
  BY ListShape DEF Fits
<1>4. d \in 0 .. Len(u)
  BY <1>2, <1>3 DEF Joined
<1>5. \A i \in 1 .. d : Directory(u[i])
  BY <1>2, <1>3 DEF Joined, Fits
<1>6. ASSUME NEW i \in 1 .. Len(u), i > d PROVE Later(u[i], in, deps)
  <2>1. CASE i \in 1 .. Len(s)
    BY <1>2, <1>6, <2>1 DEF Joined, Fits
  <2>2. CASE \E j \in 1 .. Len(t) : i = Len(s) + j
    <3>1. PICK j \in 1 .. Len(t) : i = Len(s) + j
      BY <2>2
    <3>2. u[i] = t[j] /\ j > 0
      BY <1>2, <3>1 DEF Joined
    <3> QED BY <3>2 DEF Fits
  <2> QED BY <1>2, <2>1, <2>2 DEF Joined
<1> QED BY <1>1, <1>2, <1>4, <1>5, <1>6 DEF Fits

(* Keys of different kinds do not meet.                                    *)
LEMMA JoinKeyed ==
  ASSUME NEW s, NEW t, NEW A, NEW B, List(s), List(t), Keyed(s, A),
         Keyed(t, B),
         \A i \in 1 .. Len(s), j \in 1 .. Len(t) : s[i].key # t[j].key
  PROVE  Keyed(s \o t, A \cup B)
<1>1. PICK u : u = s \o t
  OBVIOUS
<1>2. List(u) /\ Joined(u, s, t)
  BY <1>1, JoinLists
<1>3. ASSUME NEW i \in 1 .. Len(u) PROVE u[i].key[1] \in A \cup B
  <2>1. CASE i \in 1 .. Len(s)
    <3>1. u[i] = s[i]
      BY <1>2, <2>1 DEF Joined
    <3> QED BY <2>1, <3>1 DEF Keyed
  <2>2. CASE \E j \in 1 .. Len(t) : i = Len(s) + j
    <3>1. PICK j \in 1 .. Len(t) : u[i] = t[j]
      BY <1>2, <2>2 DEF Joined
    <3> QED BY <3>1 DEF Keyed
  <2> QED BY <1>2, <2>1, <2>2 DEF Joined
<1>4. ASSUME NEW i \in 1 .. Len(u), NEW j \in 1 .. Len(u), i # j
      PROVE  u[i].key # u[j].key
  <2>1. CASE i \in 1 .. Len(s) /\ j \in 1 .. Len(s)
    BY <1>2, <1>4, <2>1 DEF Joined, Keyed
  <2>2. CASE i \in 1 .. Len(s) /\ \E l \in 1 .. Len(t) : j = Len(s) + l
    <3>1. PICK l \in 1 .. Len(t) : u[i] = s[i] /\ u[j] = t[l]
      BY <1>2, <2>2 DEF Joined
    <3> QED BY <2>2, <3>1
  <2>3. CASE j \in 1 .. Len(s) /\ \E l \in 1 .. Len(t) : i = Len(s) + l
    <3>1. PICK l \in 1 .. Len(t) : u[j] = s[j] /\ u[i] = t[l]
      BY <1>2, <2>3 DEF Joined
    <3>2. s[j].key # t[l].key
      BY <2>3, <3>1
    <3> QED BY <3>1, <3>2
  <2>4. CASE /\ \E k \in 1 .. Len(t) : i = Len(s) + k
             /\ \E l \in 1 .. Len(t) : j = Len(s) + l
    <3>1. PICK k \in 1 .. Len(t), l \in 1 .. Len(t) :
            i = Len(s) + k /\ j = Len(s) + l
      BY <2>4
    <3>2. k # l
      BY <1>4, <3>1
    <3>3. u[i] = t[k] /\ u[j] = t[l]
      BY <1>2, <3>1 DEF Joined
    <3> QED BY <3>2, <3>3 DEF Keyed
  <2> QED BY <1>2, <2>1, <2>2, <2>3, <2>4 DEF Joined
<1> QED BY <1>1, <1>3, <1>4 DEF Keyed

(* A block is extended by one with keys of other kinds.                    *)
LEMMA JoinBlocks ==
  ASSUME NEW s, NEW t, NEW A, NEW B, NEW d, NEW in, NEW deps,
         Block(s, A, d, in, deps), Block(t, B, 0, in, deps), A \cap B = {}
  PROVE  Block(s \o t, A \cup B, d, in, deps)
<1>1. \A i \in 1 .. Len(s), j \in 1 .. Len(t) : s[i].key # t[j].key
  BY DEF Block, Keyed
<1>2. List(s) /\ List(t)
  BY DEF Block, Fits
<1>3. Keyed(s \o t, A \cup B)
  BY <1>1, <1>2, JoinKeyed DEF Block
<1>4. Fits(s \o t, d, in, deps)
  BY JoinFits DEF Block
<1> QED BY <1>3, <1>4 DEF Block

(* A block may be empty.                                                   *)
LEMMA EmptyBlock ==
  ASSUME NEW A, NEW in, NEW deps
  PROVE  Block(<<>>, A, 0, in, deps)
<1>1. List(<<>>) /\ Len(<<>>) = 0
  BY ShortLists
<1>2. PICK s : s = <<>>
  OBVIOUS
<1>3. List(s) /\ Len(s) = 0
  BY <1>1, <1>2
<1>4. Fits(s, 0, in, deps) /\ Keyed(s, A)
  BY <1>3 DEF Fits, Keyed
<1> QED BY <1>2, <1>4 DEF Block

(* A block of one action.                                                  *)
LEMMA OneBlock ==
  ASSUME NEW a, NEW A, NEW in, NEW deps, Later(a, in, deps), a.key[1] \in A
  PROVE  Block(<<a>>, A, 0, in, deps)
<1>1. PICK s : s = <<a>>
  OBVIOUS
<1>2. List(s) /\ Len(s) = 1 /\ s[1] = a
  BY <1>1, ShortLists
<1>3. \A i \in 1 .. Len(s) : s[i] = a /\ i = 1
  BY <1>2
<1>4. Fits(s, 0, in, deps) /\ Keyed(s, A)
  BY <1>2, <1>3 DEF Fits, Keyed
<1> QED BY <1>1, <1>4 DEF Block

(* A function from the first natural numbers is a sequence.                *)
LEMMA SeqOfFunction ==
  ASSUME NEW n \in Nat, NEW T, NEW s \in [1 .. n -> T]
  PROVE  s \in Seq(T) /\ Len(s) = n
OBVIOUS

(* A manual action depends on nothing.                                     *)
LEMMA ManualFree ==
  ASSUME NEW label, NEW key, NEW effects, NEW post, NEW in, NEW all,
         post # {}
  PROVE  /\ Later(Manual(label, key, effects, {}, post), in, all)
         /\ Manual(label, key, effects, {}, post).key = key
<1>1. PICK deps : deps = {}
  OBVIOUS
<1>2. /\ Later(Manual(label, key, effects, deps, post), in, all)
      /\ Manual(label, key, effects, deps, post).key = key
  BY <1>1, ManualLater
<1> QED BY <1>1, <1>2

(* The directories come first, and each has its own.                       *)
LEMMA DirBlock ==
  ASSUME NEW in, NEW target, NEW deps
  PROVE  /\ Block(DirActions(in, target), {"create_dir"},
                  Len(DirActions(in, target)), in, deps)
<1>1. CASE DirActions(in, target) = <<>>
  BY <1>1, EmptyBlock, ShortLists
<1>2. CASE DirActions(in, target) # <<>>
  <2>1. PICK names : names = <<"state", "artifacts_setup", "tmp">>
    OBVIOUS
  <2>2. PICK s : s = [i \in 1 .. 3 |-> NewCreateDirectoryAction(names[i])]
    OBVIOUS
  <2>3. DirActions(in, target) = s
    BY <1>2, <2>1, <2>2 DEF DirActions
  <2>4. \A i \in 1 .. 3 : /\ Directory(s[i])
                          /\ s[i].key = <<"create_dir", names[i]>>
    BY <2>2, DirectoryKnown
  <2>5. \A i, j \in 1 .. 3 : i # j => names[i] # names[j]
    BY <2>1
  <2>6. PICK T : T = {NewCreateDirectoryAction(names[i]) : i \in 1 .. 3}
    OBVIOUS
  <2>7. s \in [1 .. 3 -> T]
    BY <2>2, <2>6
  <2>8. s \in Seq(T) /\ Len(s) = 3
    <3>1. \A n \in Nat : n = 3 => s \in Seq(T) /\ Len(s) = n
      BY <2>7, SeqOfFunction
    <3> QED BY <3>1
  <2>9. List(s)
    BY <2>8 DEF List
  <2>10. Fits(s, 3, in, deps)
    BY <2>4, <2>8, <2>9 DEF Fits
  <2>11. \A i \in 1 .. 3 : s[i].key[1] = "create_dir"
    BY <2>4
  <2>12. \A i, j \in 1 .. 3 : i # j => s[i].key # s[j].key
    BY <2>4, <2>5
  <2>13. Keyed(s, {"create_dir"})
    BY <2>8, <2>11, <2>12 DEF Keyed
  <2> QED BY <2>3, <2>8, <2>10, <2>13 DEF Block
<1> QED BY <1>1, <1>2

(* The block of GitActions.                                                *)
LEMMA GitBlock ==
  ASSUME NEW in, NEW target, NEW deps
  PROVE  Block(GitActions(in, target), {"manual_install_git"}, 0, in, deps)
<1>1. PICK post : post = {<<"command_available", "git">>}
  OBVIOUS
<1>2. post # {}
  BY <1>1
<1>3. Later(NewManualGitAction, in, deps)
      /\ NewManualGitAction.key = <<"manual_install_git">>
  <2>1. PICK key, effects : /\ key = <<"manual_install_git">>
                            /\ effects = {"package_download",
                                          "filesystem_write"}
    OBVIOUS
  <2>2. NewManualGitAction = Manual("git", key, effects, {}, post)
    BY <1>1, <2>1 DEF NewManualGitAction
  <2>3. /\ Later(Manual("git", key, effects, {}, post), in, deps)
        /\ Manual("git", key, effects, {}, post).key = key
    BY <1>2, ManualFree
  <2> QED BY <2>1, <2>2, <2>3
<1>4. NewManualGitAction.key[1] \in {"manual_install_git"}
  BY <1>3
<1> QED BY <1>3, <1>4, OneBlock, EmptyBlock DEF GitActions

(* A driver action is for its candidate's backend and device.              *)
DriverKinds == {"manual_install_driver", "manual_device_access"}

(* What DriverAction makes of a candidate.                                 *)
LEMMA DriverKnown ==
  ASSUME NEW c, NEW in, NEW deps
  PROVE  \/ DriverAction(c) = <<>>
         \/ \E a : /\ DriverAction(c) = <<a>> /\ Later(a, in, deps)
                   /\ a.key[1] \in DriverKinds
                   /\ a.key[2] = c.backend /\ a.key[3] = c.device
<1>1. ASSUME NEW node
      PROVE  LET a == NewManualDriverAction(c, node)
             IN  /\ Later(a, in, deps) /\ a.key[1] \in DriverKinds
                 /\ a.key[2] = c.backend /\ a.key[3] = c.device
  <2>1. PICK a : a = NewManualDriverAction(c, node)
    OBVIOUS
  <2>2. PICK post : post = {<<"kernel_driver_bound", c.device>>,
                            <<"device_node", node>>}
    OBVIOUS
  <2>3. post # {}
    BY <2>2
  <2>4. Later(a, in, deps)
        /\ a.key = <<"manual_install_driver", c.backend, c.device>>
    <3>1. PICK key, effects :
            /\ key = <<"manual_install_driver", c.backend, c.device>>
            /\ effects = {"privilege_elevation",
                                    "device_permission_change",
                                    "package_download"}
      OBVIOUS
    <3>2. a = Manual("driver", key, effects, {}, post)
      BY <2>1, <2>2, <3>1 DEF NewManualDriverAction
    <3>3. /\ Later(Manual("driver", key, effects, {}, post), in, deps)
          /\ Manual("driver", key, effects, {}, post).key = key
      BY <2>3, ManualFree
    <3> QED BY <3>1, <3>2, <3>3
  <2> QED BY <2>1, <2>4 DEF DriverKinds
<1>2. ASSUME NEW node
      PROVE  LET a == NewManualPermissionsAction(c, node)
             IN  /\ Later(a, in, deps) /\ a.key[1] \in DriverKinds
                 /\ a.key[2] = c.backend /\ a.key[3] = c.device
  <2>1. PICK a : a = NewManualPermissionsAction(c, node)
    OBVIOUS
  <2>2. PICK post : post = {<<"device_node", node>>}
    OBVIOUS
  <2>3. post # {}
    BY <2>2
  <2>4. Later(a, in, deps)
        /\ a.key = <<"manual_device_access", c.backend, c.device>>
    <3>1. PICK key, effects :
            /\ key = <<"manual_device_access", c.backend, c.device>>
            /\ effects = {"privilege_elevation",
                                    "device_permission_change"}
      OBVIOUS
    <3>2. a = Manual("perm", key, effects, {}, post)
      BY <2>1, <2>2, <3>1 DEF NewManualPermissionsAction
    <3>3. /\ Later(Manual("perm", key, effects, {}, post), in, deps)
          /\ Manual("perm", key, effects, {}, post).key = key
      BY <2>3, ManualFree
    <3> QED BY <3>1, <3>2, <3>3
  <2> QED BY <2>1, <2>4 DEF DriverKinds
<1>3. \/ DriverAction(c) = <<>>
      \/ \E node : DriverAction(c) = <<NewManualDriverAction(c, node)>>
      \/ \E node : DriverAction(c) = <<NewManualPermissionsAction(c, node)>>
  <2>1. PICK a, b : /\ a = (c.lacks \cap {"nvidia-driver", "amdgpu-driver"}
                              # {})
                    /\ b = (c.lacks \cap {"nvidia-driver-device-access",
                                          "amdkfd-device-access"} # {})
    OBVIOUS
  <2> QED BY DEF DriverAction
<1> QED BY <1>1, <1>2, <1>3

(* Places that hold at most one later action each, of unlike keys.         *)
LaterEach(seqs, n, kinds, in, deps) ==
  /\ n \in Nat /\ Len(seqs) = n /\ DOMAIN seqs = 1 .. n
  /\ \A i \in 1 .. n :
        \/ seqs[i] = <<>>
        \/ \E a : /\ seqs[i] = <<a>> /\ Later(a, in, deps)
                  /\ a.key[1] \in kinds
Unlike(seqs, n) ==
  \A i, j \in 1 .. n : \A a, b :
     i # j /\ seqs[i] = <<a>> /\ seqs[j] = <<b>> => a.key # b.key

(* A list gathered from them is a block.                                   *)
LEMMA GatheredBlock ==
  ASSUME NEW seqs, NEW n, NEW kinds, NEW in, NEW deps,
         LaterEach(seqs, n, kinds, in, deps), Unlike(seqs, n)
  PROVE  Block(FlattenSeq(seqs), kinds, 0, in, deps)
<1>1. PICK T : T = {seqs[i][1] : i \in 1 .. n}
  OBVIOUS
<1>12. /\ n \in Nat /\ Len(seqs) = n /\ DOMAIN seqs = 1 .. n
      /\ \A i \in 1 .. n :
            \/ seqs[i] = <<>>
            \/ \E a : /\ seqs[i] = <<a>> /\ Later(a, in, deps)
                      /\ a.key[1] \in kinds
  BY DEF LaterEach
<1>2. AtMostOne(seqs, n, T)
  <2>1. ASSUME NEW i \in 1 .. n, seqs[i] # <<>>
        PROVE  \E x \in T : seqs[i] = <<x>>
    <3>1. PICK a : seqs[i] = <<a>>
      BY <1>12, <2>1
    <3>2. seqs[i][1] = a
      BY <3>1
    <3> QED BY <1>1, <3>1, <3>2
  <2> QED BY <1>12, <2>1 DEF AtMostOne
<1>3. PICK s : s = FlattenSeq(seqs)
  OBVIOUS
<1>4. Gathered(s, seqs, n, T)
  BY <1>2, <1>3, FlattenGathers
<1>5. List(s)
  BY <1>4 DEF Gathered, List
<1>6. PICK from : Places(from, s, seqs, n)
  BY <1>4 DEF Gathered
<1>7. ASSUME NEW i \in 1 .. Len(s)
      PROVE  Later(s[i], in, deps) /\ s[i].key[1] \in kinds
  <2>1. seqs[from[i]] = <<s[i]>> /\ from[i] \in 1 .. n
    BY <1>6 DEF Places
  <2>2. seqs[from[i]] # <<>>
    BY <2>1, ShortLists
  <2>3. PICK a : /\ seqs[from[i]] = <<a>> /\ Later(a, in, deps)
                 /\ a.key[1] \in kinds
    BY <1>12, <2>1, <2>2
  <2>4. a = s[i]
    BY <2>1, <2>3
  <2> QED BY <2>3, <2>4
<1>8. ASSUME NEW i \in 1 .. Len(s), NEW j \in 1 .. Len(s), i # j
      PROVE  s[i].key # s[j].key
  <2>1. /\ seqs[from[i]] = <<s[i]>> /\ from[i] \in 1 .. n
        /\ seqs[from[j]] = <<s[j]>> /\ from[j] \in 1 .. n
        /\ from[i] # from[j]
    BY <1>6, <1>8 DEF Places
  <2> QED BY <2>1 DEF Unlike
<1>9. Len(s) \in Nat /\ 0 \in 0 .. Len(s)
  BY <1>5, ListShape
<1>10. Fits(s, 0, in, deps)
  BY <1>5, <1>7, <1>9 DEF Fits
<1>11. Keyed(s, kinds)
  BY <1>7, <1>8 DEF Keyed
<1> QED BY <1>3, <1>10, <1>11 DEF Block

(* The driver actions, one for a backend and a device at most.             *)
LEMMA DriverBlock ==
  ASSUME NEW s, NEW B, Assessed(s, B), NEW in, NEW deps
  PROVE  Block(FlattenSeq([i \in DOMAIN s |-> DriverAction(s[i])]),
               DriverKinds, 0, in, deps)
<1>1. PICK n \in Nat : n = Len(s) /\ DOMAIN s = 1 .. n
  BY ListShape DEF Assessed
<1>2. PICK seqs : seqs = [i \in DOMAIN s |-> DriverAction(s[i])]
  OBVIOUS
<1>3. /\ Len(seqs) = n /\ DOMAIN seqs = 1 .. n
      /\ \A i \in 1 .. n : seqs[i] = DriverAction(s[i])
  BY <1>1, <1>2
<1>4. ASSUME NEW i \in 1 .. n
      PROVE  \/ seqs[i] = <<>>
             \/ \E a : /\ seqs[i] = <<a>> /\ Later(a, in, deps)
                       /\ a.key[1] \in DriverKinds
  BY <1>3, DriverKnown
<1>5. ASSUME NEW i \in 1 .. n, NEW a, seqs[i] = <<a>>
      PROVE  a.key[2] = s[i].backend /\ a.key[3] = s[i].device
  <2>1. DriverAction(s[i]) = <<a>>
    BY <1>3, <1>5
  <2>2. DriverAction(s[i]) # <<>>
    BY <2>1, ShortLists
  <2>3. PICK b : /\ DriverAction(s[i]) = <<b>>
                 /\ b.key[2] = s[i].backend /\ b.key[3] = s[i].device
    BY <2>2, DriverKnown
  <2>4. a = b
    BY <2>1, <2>3
  <2> QED BY <2>3, <2>4
<1>6. ASSUME NEW i \in 1 .. n, NEW j \in 1 .. n, NEW a, NEW b,
             i # j, seqs[i] = <<a>>, seqs[j] = <<b>>
      PROVE  a.key # b.key
  <2>1. s[i].backend # s[j].backend \/ s[i].device # s[j].device
    BY <1>1, <1>6 DEF Assessed
  <2>2. /\ a.key[2] = s[i].backend /\ a.key[3] = s[i].device
        /\ b.key[2] = s[j].backend /\ b.key[3] = s[j].device
    BY <1>5, <1>6
  <2> QED BY <2>1, <2>2
<1>7. LaterEach(seqs, n, DriverKinds, in, deps)
  BY <1>3, <1>4 DEF LaterEach
<1>8. Unlike(seqs, n)
  BY <1>6 DEF Unlike
<1>9. Block(FlattenSeq(seqs), DriverKinds, 0, in, deps)
  BY <1>7, <1>8, GatheredBlock
<1> QED BY <1>2, <1>9

(* What a diagnosis shows: devices in order, endpoints with their names.   *)
Diagnosed(in) ==
  /\ List(in.facts.devices)
  /\ \E n \in Nat : Len(in.report.endpoints) = n
                    /\ DOMAIN in.report.endpoints = 1 .. n
  /\ \A i, j \in DOMAIN in.report.endpoints :
       i # j => in.report.endpoints[i].id # in.report.endpoints[j].id

(* The block of HardwareActions.                                           *)
LEMMA HardwareBlock ==
  ASSUME NEW in, NEW target, NEW deps, Diagnosed(in)
  PROVE  Block(HardwareActions(in, target, deps),
               DriverKinds \cup {"remove_cache"}, 0, in, deps)
<1>1. PICK c, B : c = AssessBackends(in.facts) /\ Assessed(c, B)
  BY BackendsAssessed DEF Diagnosed
<1>2. PICK d : d = FlattenSeq([i \in DOMAIN c |-> DriverAction(c[i])])
  OBVIOUS
<1>3. Block(d, DriverKinds, 0, in, deps)
  BY <1>1, <1>2, DriverBlock
<1>4. PICK r : r = IF in.report.stale
                   THEN <<NewRemoveStaleCacheAction(deps)>> ELSE <<>>
  OBVIOUS
<1>5. Block(r, {"remove_cache"}, 0, in, deps)
  <2>1. PICK a, key, post :
          /\ a = NewRemoveStaleCacheAction(deps)
          /\ key = <<"remove_cache", "profile">> /\ post = {}
    OBVIOUS
  <2>2. a = Automatic("remove_stale_cache", key, deps, post)
    BY <2>1 DEF NewRemoveStaleCacheAction
  <2>3. Later(a, in, deps) /\ a.key = key
    BY <2>2, AutomaticLater
  <2>4. a.key[1] \in {"remove_cache"}
    BY <2>1, <2>3
  <2>5. r = <<a>> \/ r = <<>>
    BY <1>4, <2>1
  <2> QED BY <2>3, <2>4, <2>5, OneBlock, EmptyBlock
<1>6. DriverKinds \cap {"remove_cache"} = {}
  BY DEF DriverKinds
<1>7. Block(d \o r, DriverKinds \cup {"remove_cache"}, 0, in, deps)
  BY <1>3, <1>5, <1>6, JoinBlocks
<1>8. HardwareActions(in, target, deps) = d \o r
      \/ HardwareActions(in, target, deps) = <<>>
  BY <1>1, <1>2, <1>4 DEF HardwareActions
<1> QED BY <1>7, <1>8, EmptyBlock

(* The block of AuthActions, one for each endpoint at most.                *)
LEMMA AuthBlock ==
  ASSUME NEW in, NEW target, NEW deps, Diagnosed(in)
  PROVE  Block(AuthActions(in, target), {"reauthenticate"}, 0, in, deps)
<1>1. PICK eps : eps = in.report.endpoints
  OBVIOUS
<1>2. PICK n \in Nat : Len(eps) = n /\ DOMAIN eps = 1 .. n
  BY <1>1 DEF Diagnosed
<1>3. PICK seqs :
        seqs = [i \in DOMAIN eps |->
                  IF eps[i].auth = "expired" /\ eps[i].ref # ""
                  THEN <<NewManualReauthenticateAction(eps[i])>> ELSE <<>>]
  OBVIOUS
<1>4. \A ep : /\ Later(NewManualReauthenticateAction(ep), in, deps)
              /\ NewManualReauthenticateAction(ep).key
                   = <<"reauthenticate", ep.id>>
  <2> SUFFICES ASSUME NEW ep
               PROVE  /\ Later(NewManualReauthenticateAction(ep), in, deps)
                      /\ NewManualReauthenticateAction(ep).key
                           = <<"reauthenticate", ep.id>>
    OBVIOUS
  <2>1. PICK key, effects, post :
          /\ key = <<"reauthenticate", ep.id>>
          /\ effects = {"authentication"}
          /\ post = {<<"endpoint_authenticated", ep.id, ep.ref>>}
    OBVIOUS
  <2>2. NewManualReauthenticateAction(ep)
          = Manual("auth", key, effects, {}, post)
    BY <2>1 DEF NewManualReauthenticateAction
  <2>3. post # {}
    BY <2>1
  <2>4. /\ Later(Manual("auth", key, effects, {}, post), in, deps)
        /\ Manual("auth", key, effects, {}, post).key = key
    BY <2>3, ManualFree
  <2> QED BY <2>1, <2>2, <2>4
<1>5. /\ Len(seqs) = n /\ DOMAIN seqs = 1 .. n
      /\ \A i \in 1 .. n :
           \/ seqs[i] = <<>>
           \/ seqs[i] = <<NewManualReauthenticateAction(eps[i])>>
  <2>1. DOMAIN seqs = 1 .. n
    BY <1>2, <1>3
  <2>2. Len(seqs) = n
    <3>1. PICK T : T = {seqs[i] : i \in 1 .. n}
      OBVIOUS
    <3>2. seqs \in [1 .. n -> T]
      <4>1. seqs = [i \in DOMAIN seqs |-> seqs[i]]
        BY <1>3
      <4> QED BY <2>1, <3>1, <4>1
    <3> QED BY <3>2, SeqOfFunction
  <2>3. ASSUME NEW i \in 1 .. n, ~(eps[i].auth = "expired" /\ eps[i].ref # "")
        PROVE  seqs[i] = <<>>
    BY <1>2, <1>3, <2>3
  <2>4. ASSUME NEW i \in 1 .. n, eps[i].auth = "expired" /\ eps[i].ref # ""
        PROVE  seqs[i] = <<NewManualReauthenticateAction(eps[i])>>
    BY <1>2, <1>3, <2>4
  <2> QED BY <2>1, <2>2, <2>3, <2>4
<1>6. LaterEach(seqs, n, {"reauthenticate"}, in, deps)
  <2>1. \A ep : NewManualReauthenticateAction(ep).key[1]
                  \in {"reauthenticate"}
    BY <1>4
  <2> QED BY <1>4, <1>5, <2>1 DEF LaterEach
<1>7. Unlike(seqs, n)
  <2>1. ASSUME NEW i \in 1 .. n, NEW a, seqs[i] = <<a>>
        PROVE  a.key = <<"reauthenticate", eps[i].id>>
    <3>1. seqs[i] # <<>>
      BY <2>1, ShortLists
    <3>2. PICK b : b = NewManualReauthenticateAction(eps[i])
      OBVIOUS
    <3>3. <<a>> = <<b>>
      BY <1>5, <2>1, <3>1, <3>2
    <3>4. a = b
      BY <3>3
    <3> QED BY <1>4, <3>2, <3>4
  <2>2. \A i, j \in 1 .. n : i # j => eps[i].id # eps[j].id
    BY <1>1, <1>2 DEF Diagnosed
  <2> QED BY <2>1, <2>2 DEF Unlike
<1>8. Block(FlattenSeq(seqs), {"reauthenticate"}, 0, in, deps)
  BY <1>6, <1>7, GatheredBlock
<1>9. AuthActions(in, target) = FlattenSeq(seqs)
      \/ AuthActions(in, target) = <<>>
  BY <1>1, <1>3 DEF AuthActions
<1> QED BY <1>8, <1>9, EmptyBlock

PullKinds == {"ollama", "mlx", "manual"}

(* The block of ModelActions.                                              *)
LEMMA ModelBlock ==
  ASSUME NEW in, NEW target, NEW selected, NEW deps
  PROVE  Block(ModelActions(in, target, selected, deps), PullKinds, 0, in,
               deps)
<1>1. PICK a, b : /\ a = ensureLocalModelAction("ollama", "ollama", in, deps)
                  /\ b = ensureLocalModelAction("mlx", "hf", in, deps)
  OBVIOUS
<1>2. PICK s, t : /\ s = IF WantsOllama(in, selected) THEN <<a>> ELSE <<>>
                  /\ t = IF WantsMlx(in, selected) THEN <<b>> ELSE <<>>
  OBVIOUS
<1>3. /\ Later(a, in, deps)
      /\ a.key = <<"ollama", "pull">> \/ a.key = <<"manual", "ollama", "pull">>
  BY <1>1, ModelLater
<1>4. /\ Later(b, in, deps)
      /\ b.key = <<"mlx", "pull">> \/ b.key = <<"manual", "mlx", "pull">>
  BY <1>1, ModelLater
<1>5. a.key[1] \in PullKinds /\ b.key[1] \in PullKinds /\ a.key # b.key
  <2>1. a.key[1] \in PullKinds
    BY <1>3 DEF PullKinds
  <2>2. b.key[1] \in PullKinds
    BY <1>4 DEF PullKinds
  <2>3. a.key[1] = "ollama" \/ (a.key[1] = "manual" /\ a.key[2] = "ollama")
    BY <1>3
  <2>4. b.key[1] = "mlx" \/ (b.key[1] = "manual" /\ b.key[2] = "mlx")
    BY <1>4
  <2>5. a.key # b.key
    BY <2>3, <2>4
  <2> QED BY <2>1, <2>2, <2>5
<1>6. Block(s, PullKinds, 0, in, deps) /\ Block(t, PullKinds, 0, in, deps)
  BY <1>2, <1>3, <1>4, <1>5, OneBlock, EmptyBlock
<1>7. \A i \in 1 .. Len(s), j \in 1 .. Len(t) : s[i].key # t[j].key
  <2>1. \A i \in 1 .. Len(s) : s[i] = a
    BY <1>2, ShortLists
  <2>2. \A j \in 1 .. Len(t) : t[j] = b
    BY <1>2, ShortLists
  <2> QED BY <1>5, <2>1, <2>2
<1>8. List(s) /\ List(t) /\ Keyed(s, PullKinds) /\ Keyed(t, PullKinds)
  BY <1>6 DEF Block, Fits
<1>9. Keyed(s \o t, PullKinds \cup PullKinds)
  BY <1>7, <1>8, JoinKeyed
<1>10. Fits(s \o t, 0, in, deps)
  BY <1>6, JoinFits DEF Block
<1>11. PullKinds \cup PullKinds = PullKinds
  OBVIOUS
<1>12. Block(s \o t, PullKinds, 0, in, deps)
  BY <1>9, <1>10, <1>11 DEF Block
<1>13. ModelActions(in, target, selected, deps) = s \o t
       \/ ModelActions(in, target, selected, deps) = <<>>
  BY <1>1, <1>2 DEF ModelActions
<1> QED BY <1>12, <1>13, EmptyBlock

(* The block of ConfigActions.                                             *)
LEMMA ConfigBlock ==
  ASSUME NEW in, NEW target, NEW profile, NEW deps
  PROVE  Block(ConfigActions(target, profile, deps), {"config_set"}, 0, in,
               deps)
<1>1. PICK a, key, post :
        /\ a = NewWriteManagedConfigAction(profile, deps)
        /\ key = <<"config_set", profile>>
        /\ post = {<<"managed_dir_exists", "state">>}
  OBVIOUS
<1>2. a = Automatic("write_managed_config", key, deps, post)
  BY <1>1 DEF NewWriteManagedConfigAction
<1>3. Later(a, in, deps) /\ a.key = key
  BY <1>2, AutomaticLater
<1>4. a.key[1] \in {"config_set"}
  BY <1>1, <1>3
<1>5. ConfigActions(target, profile, deps) = <<a>>
      \/ ConfigActions(target, profile, deps) = <<>>
  BY <1>1 DEF ConfigActions
<1> QED BY <1>3, <1>4, <1>5, OneBlock, EmptyBlock

-----------------------------------------------------------------------------
(* The plan.                                                               *)

(* All blocks of a plan in their order.                                    *)
LEMMA ActionsBlock ==
  ASSUME NEW in, NEW target, NEW profile, NEW selected, Diagnosed(in)
  PROVE  LET deps == DirActionIds(in, target)
             acts == DirActions(in, target) \o GitActions(in, target)
                       \o HardwareActions(in, target, deps)
                       \o AuthActions(in, target)
                       \o ModelActions(in, target, selected, deps)
                       \o ConfigActions(target, profile, deps)
         IN  \E kinds : Block(acts, kinds, Len(DirActions(in, target)), in,
                              deps)
<1>1. PICK deps, d : /\ deps = DirActionIds(in, target)
                     /\ d = Len(DirActions(in, target))
  OBVIOUS
<1>2. PICK a1, a2, a3, a4, a5, a6 :
        /\ a1 = DirActions(in, target) /\ a2 = GitActions(in, target)
        /\ a3 = HardwareActions(in, target, deps)
        /\ a4 = AuthActions(in, target)
        /\ a5 = ModelActions(in, target, selected, deps)
        /\ a6 = ConfigActions(target, profile, deps)
  OBVIOUS
<1> DEFINE K1 == {"create_dir"}
           K2 == K1 \cup {"manual_install_git"}
           K3 == K2 \cup (DriverKinds \cup {"remove_cache"})
           K4 == K3 \cup {"reauthenticate"}
           K5 == K4 \cup PullKinds
           K6 == K5 \cup {"config_set"}
<1>3. /\ K1 \cap {"manual_install_git"} = {}
      /\ K2 \cap (DriverKinds \cup {"remove_cache"}) = {}
      /\ K3 \cap {"reauthenticate"} = {}
      /\ K4 \cap PullKinds = {}
      /\ K5 \cap {"config_set"} = {}
  BY DEF DriverKinds, PullKinds
<1>4. Block(a1, K1, d, in, deps)
  BY <1>1, <1>2, DirBlock
<1> HIDE DEF K1
<1>5. Block(a1 \o a2, K2, d, in, deps)
  BY <1>2, <1>3, <1>4, GitBlock, JoinBlocks
<1> HIDE DEF K2
<1>6. Block((a1 \o a2) \o a3, K3, d, in, deps)
  BY <1>2, <1>3, <1>5, HardwareBlock, JoinBlocks
<1> HIDE DEF K3
<1>7. Block(((a1 \o a2) \o a3) \o a4, K4, d, in, deps)
  BY <1>2, <1>3, <1>6, AuthBlock, JoinBlocks
<1> HIDE DEF K4
<1>8. Block((((a1 \o a2) \o a3) \o a4) \o a5, K5, d, in, deps)
  BY <1>2, <1>3, <1>7, ModelBlock, JoinBlocks
<1> HIDE DEF K5
<1>9. Block(((((a1 \o a2) \o a3) \o a4) \o a5) \o a6, K6, d, in, deps)
  BY <1>2, <1>3, <1>8, ConfigBlock, JoinBlocks
<1> HIDE DEF K6
<1> QED BY <1>1, <1>2, <1>9

(* Numbering the actions changes nothing else of them.                     *)
LEMMA Numbered ==
  ASSUME NEW a, NEW x, DOMAIN a = ActionFields
  PROVE  LET b == [a EXCEPT !.id = x]
         IN  /\ b.id = x /\ b.op = a.op /\ b.key = a.key /\ b.deps = a.deps
             /\ b.post = a.post /\ b.effects = a.effects
             /\ b.authority = a.authority
             /\ ValidAction(a) => ValidAction(b)
<1>1. PICK b : b = [a EXCEPT !.id = x]
  OBVIOUS
<1>2. /\ b.id = x /\ b.op = a.op /\ b.key = a.key /\ b.deps = a.deps
      /\ b.post = a.post /\ b.effects = a.effects
      /\ b.authority = a.authority
  BY <1>1 DEF ActionFields
<1>3. ValidAction(a) => ValidAction(b)
  BY <1>2 DEF ValidAction
<1> QED BY <1>1, <1>2, <1>3

(* What PlanIsSound asks of a list of numbered actions.                    *)
SoundActions(acts, in) ==
  /\ \A i \in DOMAIN acts : ValidAction(acts[i])
  /\ \A i, j \in DOMAIN acts :
       i # j => acts[i].id # acts[j].id /\ acts[i].key # acts[j].key
  /\ \A i \in DOMAIN acts : \A d \in acts[i].deps :
       \E j \in 1 .. (i - 1) : acts[j].id = d
  /\ \A i, j \in DOMAIN acts :
       acts[i].op = "create_directory"
         /\ acts[j].op \notin {"none", "create_directory"}
       => acts[i].id \in acts[j].deps
  /\ \A i \in DOMAIN acts :
       acts[i].op = "ensure_local_model" =>
         in.facts.sameMachine /\ in.facts.software # {}

(* The actions of s, each with its id.                                     *)
NumberedFrom(acts, s) ==
  acts = [i \in DOMAIN s |-> [s[i] EXCEPT !.id = <<s[i].label, i>>]]
DirectoryIds(deps, d) == deps = {<<"create_directory", i>> : i \in 1 .. d}

(* Such a block is sound once its actions are numbered.                    *)
LEMMA BlockSound ==
  ASSUME NEW s, NEW kinds, NEW d, NEW in, NEW deps, NEW acts,
         Block(s, kinds, d, in, deps), DirectoryIds(deps, d),
         NumberedFrom(acts, s)
  PROVE  SoundActions(acts, in)
<1>1. PICK n \in Nat : n = Len(s) /\ DOMAIN s = 1 .. n /\ d \in 0 .. n
  BY ListShape DEF Block, Fits
<1>2. DOMAIN acts = 1 .. n
  BY <1>1 DEF NumberedFrom
<1>3. ASSUME NEW i \in 1 .. n
      PROVE  /\ DOMAIN s[i] = ActionFields /\ ValidAction(s[i])
             /\ i <= d => Directory(s[i])
             /\ i > d => Later(s[i], in, deps)
  <2>1. i <= d => Directory(s[i])
    BY <1>1 DEF Block, Fits
  <2>2. i > d => Later(s[i], in, deps)
    BY <1>1 DEF Block, Fits
  <2>3. i <= d \/ i > d
    BY <1>1
  <2> QED BY <2>1, <2>2, <2>3 DEF Directory, Later
<1>4. ASSUME NEW i \in 1 .. n
      PROVE  /\ acts[i].id = <<s[i].label, i>> /\ acts[i].op = s[i].op
             /\ acts[i].key = s[i].key /\ acts[i].deps = s[i].deps
             /\ ValidAction(acts[i])
  <2>1. acts[i] = [s[i] EXCEPT !.id = <<s[i].label, i>>]
    BY <1>1 DEF NumberedFrom
  <2>2. DOMAIN s[i] = ActionFields /\ ValidAction(s[i])
    BY <1>3
  <2>3. PICK a, x : a = s[i] /\ x = <<s[i].label, i>>
    OBVIOUS
  <2>4. LET b == [a EXCEPT !.id = x]
        IN  /\ b.id = x /\ b.op = a.op /\ b.key = a.key /\ b.deps = a.deps
            /\ b.post = a.post /\ b.effects = a.effects
            /\ b.authority = a.authority
            /\ ValidAction(a) => ValidAction(b)
    BY <2>2, <2>3, Numbered
  <2> QED BY <2>1, <2>2, <2>3, <2>4
<1>5. ASSUME NEW i \in 1 .. n, NEW j \in 1 .. n, i # j
      PROVE  acts[i].id # acts[j].id /\ acts[i].key # acts[j].key
  <2>1. s[i].key # s[j].key
    BY <1>1, <1>5 DEF Block, Keyed
  <2>2. <<s[i].label, i>> # <<s[j].label, j>>
    BY <1>5
  <2> QED BY <1>4, <2>1, <2>2
<1>6. ASSUME NEW i \in 1 .. d
      PROVE  acts[i].id = <<"create_directory", i>>
  <2>1. i \in 1 .. n /\ i <= d
    BY <1>1
  <2>2. s[i].label = "create_directory"
    BY <1>3, <2>1 DEF Directory
  <2> QED BY <1>4, <2>1, <2>2
<1>7. ASSUME NEW i \in 1 .. n, NEW x \in acts[i].deps
      PROVE  \E j \in 1 .. (i - 1) : acts[j].id = x
  <2>1. i > d /\ acts[i].deps = deps
    <3>1. acts[i].deps # {}
      BY <1>7
    <3>2. ~(i <= d)
      BY <1>3, <1>4, <3>1 DEF Directory
    <3>3. i > d
      BY <1>1, <3>2
    <3>4. acts[i].deps = deps
      BY <1>3, <1>4, <3>1, <3>3 DEF Later
    <3> QED BY <3>3, <3>4
  <2>2. PICK j \in 1 .. d : x = <<"create_directory", j>>
    BY <1>7, <2>1 DEF DirectoryIds
  <2>3. j \in 1 .. (i - 1)
    BY <1>1, <2>1
  <2> QED BY <1>6, <2>2, <2>3
<1>8. ASSUME NEW i \in 1 .. n, NEW j \in 1 .. n,
             acts[i].op = "create_directory",
             acts[j].op \notin {"none", "create_directory"}
      PROVE  acts[i].id \in acts[j].deps
  <2>1. ~(i > d)
    BY <1>3, <1>4, <1>8 DEF Later
  <2>2. i \in 1 .. d
    BY <1>1, <2>1
  <2>3. ~(j <= d)
    BY <1>3, <1>4, <1>8 DEF Directory
  <2>4. j > d
    BY <1>1, <2>3
  <2>5. acts[j].deps = deps
    BY <1>3, <1>4, <1>8, <2>4 DEF Later
  <2> QED BY <1>6, <2>2, <2>5 DEF DirectoryIds
<1>9. ASSUME NEW i \in 1 .. n, acts[i].op = "ensure_local_model"
      PROVE  in.facts.sameMachine /\ in.facts.software # {}
  <2>1. s[i].op = "ensure_local_model"
    BY <1>4, <1>9
  <2>2. ~(i <= d)
    BY <1>3, <2>1 DEF Directory
  <2>3. Later(s[i], in, deps)
    BY <1>1, <1>3, <2>2
  <2> QED BY <2>1, <2>3 DEF Later
<1>10. \A i \in DOMAIN acts : ValidAction(acts[i])
  BY <1>2, <1>4
<1>11. \A i, j \in DOMAIN acts :
         i # j => acts[i].id # acts[j].id /\ acts[i].key # acts[j].key
  BY <1>2, <1>5
<1>12. \A i \in DOMAIN acts : \A x \in acts[i].deps :
         \E j \in 1 .. (i - 1) : acts[j].id = x
  BY <1>2, <1>7
<1>13. \A i, j \in DOMAIN acts :
         acts[i].op = "create_directory"
           /\ acts[j].op \notin {"none", "create_directory"}
         => acts[i].id \in acts[j].deps
  BY <1>2, <1>8
<1>14. \A i \in DOMAIN acts :
         acts[i].op = "ensure_local_model" =>
           in.facts.sameMachine /\ in.facts.software # {}
  BY <1>2, <1>9
<1> QED BY <1>10, <1>11, <1>12, <1>13, <1>14 DEF SoundActions

(* PlanWithContext puts together sound actions.                            *)
LEMMA PlanSoundActions ==
  ASSUME NEW in, NEW target, NEW profile, NEW selected, Diagnosed(in)
  PROVE  SoundActions(PlanActions(in, target, profile, selected), in)
<1>1. PICK deps, s, kinds, d :
        /\ deps = DirActionIds(in, target)
        /\ s = DirActions(in, target) \o GitActions(in, target)
                 \o HardwareActions(in, target, deps)
                 \o AuthActions(in, target)
                 \o ModelActions(in, target, selected, deps)
                 \o ConfigActions(target, profile, deps)
        /\ d = Len(DirActions(in, target))
        /\ Block(s, kinds, d, in, deps)
  BY ActionsBlock
<1>2. DirectoryIds(deps, d)
  <2>1. List(DirActions(in, target))
    BY DirBlock DEF Block, Fits
  <2>2. DOMAIN DirActions(in, target) = 1 .. d
    BY <1>1, <2>1, ListShape
  <2> QED BY <1>1, <2>2 DEF DirActionIds, DirectoryIds
<1>3. PICK acts : acts = PlanActions(in, target, profile, selected)
  OBVIOUS
<1>4. NumberedFrom(acts, s)
  BY <1>1, <1>3 DEF PlanActions, NumberedFrom
<1> QED BY <1>1, <1>2, <1>3, <1>4, BlockSound

(* What was observed is a diagnosis, and a plan is made of it.             *)
PlannerInv ==
  /\ observed = NoObservation \/ Diagnosed(observed)
  /\ proposal.status = "planned" =>
       /\ SoundActions(proposal.actions, observed)
       /\ proposal.authority = MaxAuthority(proposal.actions)
       /\ proposal.effects = TotalEffects(proposal.actions)
       /\ observed # NoObservation

(* Everything that Diagnose observes is a diagnosis.                       *)
LEMMA DiagnosisKnown ==
  ASSUME NEW in \in [report : DoctorReports, facts : EnvironmentFacts]
  PROVE  Diagnosed(in)
<1>1. in.report \in DoctorReports /\ in.facts \in EnvironmentFacts
  OBVIOUS
<1>2. in.facts.devices \in Accelerators
  BY <1>1 DEF EnvironmentFacts
<1>3. in.report.endpoints \in DiscoveredEndpoints
  BY <1>1 DEF DoctorReports
<1>4. List(in.facts.devices)
  <2>1. \/ in.facts.devices = <<>>
        \/ \E T : in.facts.devices \in [1 .. NumDevices -> T]
    <3>1. PICK s : s = in.facts.devices
      OBVIOUS
    <3>2. ASSUME NEW d, s = [i \in 1 .. NumDevices |-> d]
          PROVE  s \in [1 .. NumDevices -> {d}]
      BY <3>2
    <3>3. PICK e : e = [i \in 1 .. NumDevices |->
                          [vendor |-> IF i = 1 THEN "amd" ELSE "nvidia",
                           bound |-> FALSE, arch |-> "supported",
                           native |-> TRUE]]
      OBVIOUS
    <3>4. e \in [1 .. NumDevices -> Range(e)]
      BY <3>3 DEF Range
    <3>5. \/ s = <<>> \/ s = e
          \/ \E d : s = [i \in 1 .. NumDevices |-> d]
      BY <1>2, <3>1, <3>3 DEF Accelerators
    <3> QED BY <3>1, <3>2, <3>4, <3>5
  <2>2. PICK n, s :
          n \in Nat /\ n = NumDevices /\ s = in.facts.devices
    BY NumDevicesAssumption
  <2>3. CASE s = <<>>
    BY <2>2, <2>3, ShortLists
  <2>4. ASSUME NEW T, s \in [1 .. n -> T]
        PROVE  List(s)
    <3>1. s \in Seq(T)
      BY <2>2, <2>4, SeqOfFunction
    <3> QED BY <3>1 DEF List
  <2>5. s = <<>> \/ \E T : s \in [1 .. n -> T]
    BY <2>1, <2>2
  <2> QED BY <2>2, <2>3, <2>4, <2>5
<1>5. PICK e1, e2, e3 :
        /\ in.report.endpoints = <<e1, e2, e3>>
        /\ e1.id = "ollama" /\ e2.id = "codex" /\ e3.id = "claude"
  <2>1. PICK h, e1, e2, e3 :
          /\ in.report.endpoints = <<e1, e2, e3>>
          /\ e1 = [id |-> "ollama", health |-> h, auth |-> "not_required",
                   ref |-> ""]
          /\ e2 = [id |-> "codex", health |-> "ready", auth |-> "expired",
                   ref |-> "cred"]
          /\ e3 = [id |-> "claude", health |-> "ready", auth |-> "expired",
                   ref |-> ""]
    <3>1. PICK eps : eps = in.report.endpoints
      OBVIOUS
    <3>2. eps \in DiscoveredEndpoints
      BY <1>3, <3>1
    <3>3. PICK h \in {"not_configured", "unhealthy"} :
            eps = <<[id |-> "ollama", health |-> h, auth |-> "not_required",
                     ref |-> ""],
                    [id |-> "codex", health |-> "ready", auth |-> "expired",
                     ref |-> "cred"],
                    [id |-> "claude", health |-> "ready", auth |-> "expired",
                     ref |-> ""]>>
      BY <3>2 DEF DiscoveredEndpoints
    <3> QED BY <3>1, <3>3, Zenon
  <2>2. e1.id = "ollama" /\ e2.id = "codex" /\ e3.id = "claude"
    BY <2>1
  <2> QED BY <2>1, <2>2
<1>6. PICK eps : eps = in.report.endpoints
  OBVIOUS
<1>7. /\ Len(eps) = 3 /\ DOMAIN eps = 1 .. 3
      /\ eps[1].id = "ollama" /\ eps[2].id = "codex" /\ eps[3].id = "claude"
  BY <1>5, <1>6
<1>8. \A i, j \in 1 .. 3 : i # j => eps[i].id # eps[j].id
  BY <1>7
<1>9. \E n \in Nat : Len(eps) = n /\ DOMAIN eps = 1 .. n
  BY <1>7
<1> QED BY <1>4, <1>6, <1>7, <1>8, <1>9 DEF Diagnosed

(* Nothing is planned at first.                                            *)
LEMMA InitPlannerInv == InitPlanner => PlannerInv
BY DEF InitPlanner, PlannerInv

(* Diagnose keeps the invariant: nothing is planned before it.             *)
LEMMA DiagnoseStep ==
  ASSUME PlannerInv, Diagnose
  PROVE  PlannerInv'
<1>1. Diagnosed(observed')
  BY DiagnosisKnown DEF Diagnose
<1>2. observed = NoObservation /\ proposal' = proposal
  BY DEF Diagnose
<1>3. proposal.status # "planned"
  BY <1>2 DEF PlannerInv
<1> QED BY <1>1, <1>2, <1>3 DEF PlannerInv

(* PlanWithContext keeps it.                                               *)
LEMMA PlanStep ==
  ASSUME NEW target, NEW profile, NEW selected, NEW resolves, PlannerInv,
         PlanWithContext(target, profile, selected, resolves)
  PROVE  PlannerInv'
<1>1. PICK acts : acts = PlanActions(observed, target, profile, selected)
  OBVIOUS
<1>2. /\ observed # NoObservation /\ observed' = observed
      /\ \/ proposal' = [status |-> "refused"]
         \/ proposal' = [status |-> "planned", actions |-> acts,
                         authority |-> MaxAuthority(acts),
                         effects |-> TotalEffects(acts)]
  BY <1>1 DEF PlanWithContext
<1>3. Diagnosed(observed)
  BY <1>2 DEF PlannerInv
<1>4. SoundActions(acts, observed)
  BY <1>1, <1>3, PlanSoundActions
<1>5. CASE proposal' = [status |-> "refused"]
  <2>1. proposal'.status # "planned"
    BY <1>5
  <2> QED BY <1>2, <1>3, <2>1 DEF PlannerInv
<1>6. CASE proposal' = [status |-> "planned", actions |-> acts,
                        authority |-> MaxAuthority(acts),
                        effects |-> TotalEffects(acts)]
  <2>1. /\ proposal'.actions = acts
        /\ proposal'.authority = MaxAuthority(acts)
        /\ proposal'.effects = TotalEffects(acts)
    BY <1>6
  <2> QED BY <1>2, <1>3, <1>4, <2>1 DEF PlannerInv
<1> QED BY <1>2, <1>5, <1>6

(* Every step keeps it.                                                    *)
LEMMA PlannerInvStep ==
  ASSUME PlannerInv, [NextPlanner]_plannerVars
  PROVE  PlannerInv'
<1>1. CASE UNCHANGED plannerVars
  BY <1>1 DEF plannerVars, PlannerInv
<1>2. CASE NextPlanner
  BY <1>2, DiagnoseStep, PlanStep DEF NextPlanner
<1> QED BY <1>1, <1>2

(* Theorem: the planner keeps its invariant.                               *)
THEOREM PlannerInvariant == SpecPlanner => []PlannerInv
BY InitPlannerInv, PlannerInvStep, PTL DEF SpecPlanner

(* Theorem: whatever was observed, the plan is sound.                      *)
THEOREM PlanAlwaysSound == SpecPlanner => []PlanIsSound
<1>1. PlannerInv => PlanIsSound
  <2> SUFFICES ASSUME PlannerInv, proposal.status = "planned"
               PROVE  PlanIsSound
    BY DEF PlanIsSound
  <2>1. SoundActions(proposal.actions, observed)
    BY DEF PlannerInv
  <2>2. ValidPlan(proposal)
    BY <2>1 DEF PlannerInv, SoundActions, ValidPlan
  <2> QED BY <2>1, <2>2 DEF SoundActions, PlanIsSound
<1> QED BY <1>1, PlannerInvariant, PTL

=============================================================================
