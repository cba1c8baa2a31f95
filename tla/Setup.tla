------------------------------- MODULE Setup -------------------------------
(***************************************************************************)
(* The setup executor over its hash-chained ledger: Apply walks an         *)
(* approved plan, Recover settles the actions a dead process left open.    *)
(* Appends may fail in the file system, and the process or the machine     *)
(* may stop at any step.                                                   *)
(*                                                                         *)
(* The exclusive lock on state/setup.lock is taken before the ledger is    *)
(* opened and a second caller blocks on it, so at most one call is under   *)
(* way; `run` is its progress.  A line of the ledger keeps the sequence    *)
(* number that the chain is checked by.                                    *)
(***************************************************************************)
EXTENDS Naturals, Sequences, FiniteSets

CONSTANTS
  MaxExecutions,    \* calls of Apply that start an execution
  MaxAppendFaults,  \* failed appends
  MaxStops          \* processes or machines that stop

ASSUME SetupBounds ==
  {MaxExecutions, MaxAppendFaults, MaxStops} \subseteq Nat

VARIABLES
  ledgerLines,   \* newline-terminated lines of setup-ledger.jsonl
  ledgerTail,    \* the file ends in an unterminated chunk
  durableLines,  \* how many lines an fsync has covered
  run,           \* the call that holds the lock
  machine,       \* per operation kind, how far its effect is there
  touched,       \* actions whose operation was started, over all time
  executions,    \* executions created
  appendFaults,
  stops

setupVars == <<ledgerLines, ledgerTail, durableLines, run, machine, touched,
               executions, appendFaults, stops>>

(* Three plans, by the kinds of their actions in plan order.               *)
SetupActions ==
  [p1 |-> <<"create_directory", "mlx_model">>,
   p2 |-> <<"write_managed_config", "ollama_model">>,
   p3 |-> <<"run_diagnostic_check", "remove_stale_cache", "manual">>]
SetupPlanIds == DOMAIN SetupActions

ModelKinds == {"mlx_model", "ollama_model"}

(* "partial" is an incomplete snapshot of the Hugging Face cache, or an    *)
(* Ollama tag with another digest than the approved one.                   *)
Effects == {"no", "partial", "yes"}

IdleRun == [pc |-> "idle", plan |-> "p1", exec |-> 0, at |-> 0, tip |-> 0,
            passed |-> FALSE, halt |-> FALSE, todo |-> {}]

InitSetup ==
  /\ ledgerLines = <<>> /\ ledgerTail = FALSE /\ durableLines = 0
  /\ run = IdleRun
  /\ machine = [k \in ModelKinds \cup
                       {"create_directory", "write_managed_config",
                        "run_diagnostic_check", "remove_stale_cache"} |-> "no"]
  /\ touched = {} /\ executions = 0 /\ appendFaults = 0 /\ stops = 0

-----------------------------------------------------------------------------
(* The ledger.  loadLedgerFile drops an unterminated last chunk and fails  *)
(* on any terminated line that breaks the chain; a chunk that a later      *)
(* append completed is such a line.                                        *)

Chained(lines) == \A i \in DOMAIN lines : lines[i].seq = i

Event(type, plan, x, i, status) ==
  [seq |-> run.tip + 1, type |-> type, plan |-> plan, exec |-> x, act |-> i,
   status |-> status]

Written(event) ==
  Append(ledgerLines, IF ledgerTail THEN [event EXCEPT !.seq = 0] ELSE event)

(* Append succeeds and the call goes on as `next` with the new tip.        *)
AppendSynced(event, next) ==
  /\ ledgerLines' = Written(event) /\ ledgerTail' = FALSE
  /\ durableLines' = Len(ledgerLines')
  /\ run' = [next EXCEPT !.tip = run.tip + 1]
  /\ UNCHANGED appendFaults

(* Append fails: opening the file, writing the line or the fsync.  The tip *)
(* stays where it was, whatever has reached the file.                      *)
AppendFails(event, next) ==
  /\ appendFaults < MaxAppendFaults
  /\ appendFaults' = appendFaults + 1
  /\ \/ UNCHANGED <<ledgerLines, ledgerTail>>
     \/ ledgerTail' = TRUE /\ UNCHANGED ledgerLines
     \/ ledgerLines' = Written(event) /\ ledgerTail' = FALSE
  /\ run' = next
  /\ UNCHANGED durableLines

Log(event, next, failed) ==
  AppendSynced(event, next) \/ AppendFails(event, failed)

Has(lines, type, x, i) ==
  \E n \in DOMAIN lines :
    lines[n].type = type /\ lines[n].exec = x /\ lines[n].act = i

(* Mutation: an execution that finished hides the actions it left open.    *)
FindInterruptedUnfinished(lines) ==
  {n \in DOMAIN lines :
     /\ lines[n].type = "starting"
     /\ ~Has(lines, "terminated", lines[n].exec, lines[n].act)
     /\ ~Has(lines, "finished", lines[n].exec, 0)}

(* The lines that start an action no later line terminates.                *)
FindInterrupted(lines) ==
  {n \in DOMAIN lines :
     /\ lines[n].type = "starting"
     /\ ~Has(lines, "terminated", lines[n].exec, lines[n].act)}

(* openLockedLedger: a broken chain refuses the call.                      *)
OpenLedger ==
  /\ run.pc = "idle"
  /\ Chained(ledgerLines)
  /\ ledgerTail' = FALSE
  /\ UNCHANGED <<ledgerLines, durableLines, machine, touched, appendFaults,
                 stops>>

-----------------------------------------------------------------------------
(* Conditions and operations.                                              *)

Action(plan, i) == SetupActions[plan][i]
Current == Action(run.plan, run.at)

Answer(holds) == IF holds THEN "holds" ELSE "fails"

(* Mutation: a snapshot that exists counts, whatever its size.             *)
MlxSnapshotFound == {Answer(machine["mlx_model"] # "no"), "error"}

(* The revision's snapshot directory and its measured size; the cache      *)
(* directory or the walk over it may fail.                                 *)
MlxModelPresent == {Answer(machine["mlx_model"] = "yes"), "error"}

(* The tag's digest and size; an Ollama that cannot be reached answers     *)
(* that the condition does not hold.                                       *)
OllamaModelPresent == {Answer(machine["ollama_model"] = "yes"), "fails"}

(* managed_dir_exists of the state directory, which AcquireExecutionLock   *)
(* and Append create with mode 0700.                                       *)
StateDirExists == TRUE

(* EvaluateCondition over an action's preconditions: the executable, its   *)
(* version and the port of a model runtime are the environment's.          *)
Preconditions(kind) ==
  IF kind \in ModelKinds THEN BOOLEAN ELSE {StateDirExists}

(* ... and over its postconditions, with the outcome "error" where the     *)
(* evaluator can fail.  remove_stale_cache and run_diagnostic_check have   *)
(* none, and those of a manual action are the environment's.               *)
Postconditions(kind) ==
  CASE kind = "create_directory" -> {Answer(machine[kind] = "yes")}
    [] kind = "mlx_model" -> MlxModelPresent
    [] kind = "ollama_model" -> OllamaModelPresent
    [] kind = "write_managed_config" -> {Answer(StateDirExists)}
    [] kind \in {"remove_stale_cache", "run_diagnostic_check"} -> {}
    [] kind = "manual" -> {"holds", "fails", "error"}

(* What an operation may do: how far its effect gets, whether it returns   *)
(* no error, and whether a subprocess result is returned with it.          *)
OperationOutcomes == [effect : Effects, ok : BOOLEAN, proc : BOOLEAN]

(* ensureDirMode, writeManagedConfigKey and CacheManager.Remove do all of  *)
(* their work or fail.                                                     *)
LocalOutcomes(kind) ==
  {[effect |-> "yes", ok |-> TRUE, proc |-> FALSE],
   [effect |-> machine[kind], ok |-> FALSE, proc |-> FALSE]}

(* A diagnostic changes nothing, and a negative answer is an error.        *)
DiagnosticOutcomes == {o \in OperationOutcomes : o.effect = "no"}

(* MLXAdapter.EnsureModel: files of an immutable revision are only added.  *)
(* A failed download is no error, the postcondition tells; a captured      *)
(* output that cannot be stored is an error without a result.              *)
MlxEnsureModel ==
  {o \in OperationOutcomes :
     /\ machine["mlx_model"] = "yes" => o.effect = "yes"
     /\ machine["mlx_model"] = "partial" => o.effect # "no"
     /\ o.ok => o.proc}

(* OllamaAdapter.EnsureModel: a pull replaces the tag as a whole, by       *)
(* whatever the registry has under it now.                                 *)
OllamaEnsureModel ==
  {o \in OperationOutcomes :
     /\ machine["ollama_model"] # "no" => o.effect # "no"
     /\ o.ok => o.proc}

applyOperation(kind) ==
  CASE kind = "mlx_model" -> MlxEnsureModel
    [] kind = "ollama_model" -> OllamaEnsureModel
    [] kind = "run_diagnostic_check" -> DiagnosticOutcomes
    [] OTHER -> LocalOutcomes(kind)

-----------------------------------------------------------------------------
(* Apply, for a valid plan whose digest was approved with enough           *)
(* authority; otherwise it returns before the lock.                        *)

Apply(p) ==
  /\ OpenLedger
  /\ FindInterrupted(ledgerLines) = {}
  /\ executions < MaxExecutions
  /\ executions' = executions + 1
  /\ run' = [IdleRun EXCEPT !.pc = "created", !.plan = p,
                            !.exec = executions + 1,
                            !.tip = Len(ledgerLines)]

RunEvent(type, status) == Event(type, run.plan, run.exec, 0, status)
ActionEvent(type, status) == Event(type, run.plan, run.exec, run.at, status)

KeepsMachine == UNCHANGED <<machine, touched, executions, stops>>

(* ExecutionCreated, then PlanApproved; when one fails Apply returns.      *)
ApplyCreated ==
  /\ run.pc = "created"
  /\ Log(RunEvent("created", ""), [run EXCEPT !.pc = "approved"], IdleRun)
  /\ KeepsMachine

ApplyApproved ==
  /\ run.pc = "approved"
  /\ Log(RunEvent("approved", ""), [run EXCEPT !.pc = "pre", !.at = 1],
         IdleRun)
  /\ KeepsMachine

(* walk returns an error: Apply goes on to ExecutionFinished all the same. *)
WalkFails == [run EXCEPT !.pc = "finish", !.passed = FALSE]

WalkPreconditions ==
  /\ run.pc = "pre"
  /\ \E holds \in Preconditions(Current) :
       run' = IF holds THEN [run EXCEPT !.pc = "starting"] ELSE WalkFails
  /\ UNCHANGED <<ledgerLines, ledgerTail, durableLines, appendFaults>>
  /\ KeepsMachine

WalkStarting ==
  /\ run.pc = "starting"
  /\ Log(ActionEvent("starting", ""),
         [run EXCEPT !.pc = IF Current = "manual" THEN "manual" ELSE "op"],
         WalkFails)
  /\ KeepsMachine

(* No automated path past a manual step.                                   *)
WalkManual ==
  /\ run.pc = "manual"
  /\ Log(ActionEvent("terminated", "manual_required"), WalkFails, WalkFails)
  /\ KeepsMachine

WalkOperation ==
  /\ run.pc = "op"
  /\ \E o \in applyOperation(Current) :
       /\ machine' = [machine EXCEPT ![Current] = o.effect]
       /\ run' = [run EXCEPT !.pc = IF o.proc THEN "process" ELSE "post",
                             !.passed = o.ok, !.halt = FALSE]
  /\ touched' = touched \cup {<<run.exec, run.at>>}
  /\ UNCHANGED <<ledgerLines, ledgerTail, durableLines, executions,
                 appendFaults, stops>>

WalkProcessCompleted ==
  /\ run.pc = "process"
  /\ Log(ActionEvent("process", ""), [run EXCEPT !.pc = "post"], WalkFails)
  /\ KeepsMachine

WalkPostcondition ==
  /\ run.pc = "post"
  /\ \/ \E holds \in Postconditions(Current) :
          Log(ActionEvent("postcondition", ""),
              [run EXCEPT !.pc = "terminate",
                          !.passed = @ /\ holds = "holds",
                          !.halt = holds = "error"],
              WalkFails)
     \/ /\ Postconditions(Current) = {}
        /\ run' = [run EXCEPT !.pc = "terminate"]
        /\ UNCHANGED <<ledgerLines, ledgerTail, durableLines, appendFaults>>
  /\ KeepsMachine

WalkTerminated ==
  /\ run.pc = "terminate"
  /\ Log(ActionEvent("terminated",
                     IF run.passed THEN "succeeded" ELSE "failed"),
         IF run.halt \/ ~run.passed THEN WalkFails
         ELSE IF run.at = Len(SetupActions[run.plan])
              THEN [run EXCEPT !.pc = "finish"]
              ELSE [run EXCEPT !.pc = "pre", !.at = @ + 1],
         WalkFails)
  /\ KeepsMachine

ApplyFinished ==
  /\ run.pc = "finish"
  /\ Log(RunEvent("finished", IF run.passed THEN "succeeded" ELSE "failed"),
         IdleRun, IdleRun)
  /\ KeepsMachine

-----------------------------------------------------------------------------
(* Recover: every interrupted action of this plan, in any order, by its    *)
(* postconditions alone.                                                   *)

Recover(p) ==
  /\ OpenLedger
  /\ \E todo \in {{n \in FindInterrupted(ledgerLines) :
                      ledgerLines[n].plan = p}} :
       /\ todo # {}
       /\ run' = [IdleRun EXCEPT !.pc = "reconcile", !.plan = p,
                                 !.tip = Len(ledgerLines), !.todo = todo]
  /\ UNCHANGED executions

(* CheckPostconditions, with the empty list holding.  An error ends        *)
(* Recover; otherwise the evidence is appended.                            *)
ReconcileInterrupted(n) ==
  LET open == ledgerLines[n]
      checks == Postconditions(Action(open.plan, open.act))
  IN /\ run.pc = "reconcile" /\ n \in run.todo
     /\ \E holds \in IF checks = {} THEN {"holds"} ELSE checks :
          \/ /\ holds = "error"
             /\ run' = IdleRun
             /\ UNCHANGED <<ledgerLines, ledgerTail, durableLines,
                            appendFaults>>
          \/ /\ holds # "error"
             /\ Log(Event("postcondition", open.plan, open.exec, open.act,
                          ""),
                    [run EXCEPT !.pc = "resolve", !.at = n,
                                !.passed = holds = "holds"],
                    IdleRun)
     /\ KeepsMachine

ResolveInterrupted ==
  LET open == ledgerLines[run.at]
      left == run.todo \ {run.at}
  IN /\ run.pc = "resolve"
     /\ Log(Event("terminated", open.plan, open.exec, open.act,
                  IF run.passed THEN "succeeded" ELSE "blocked"),
            IF left = {} THEN IdleRun
            ELSE [run EXCEPT !.pc = "reconcile", !.todo = left],
            IdleRun)
     /\ KeepsMachine

(* The process or the machine stops: lines without an fsync may be lost,   *)
(* an append under way may leave a torn chunk, an operation under way may  *)
(* have done anything it could have done.                                  *)
SetupStops ==
  /\ stops < MaxStops
  /\ stops' = stops + 1
  /\ run' = IdleRun
  /\ \E n \in durableLines..Len(ledgerLines) :
       ledgerLines' = SubSeq(ledgerLines, 1, n)
  /\ \/ ledgerTail' = (ledgerTail /\ ledgerLines' = ledgerLines)
     \/ ledgerTail' = TRUE /\ run.pc \notin {"idle", "pre", "op"}
  /\ \/ UNCHANGED <<machine, touched>>
     \/ /\ run.pc = "op"
        /\ \E o \in applyOperation(Current) :
             machine' = [machine EXCEPT ![Current] = o.effect]
        /\ touched' = touched \cup {<<run.exec, run.at>>}
  /\ UNCHANGED <<durableLines, executions, appendFaults>>

NextSetup ==
  \/ \E p \in SetupPlanIds : Apply(p) \/ Recover(p)
  \/ ApplyCreated \/ ApplyApproved \/ WalkPreconditions \/ WalkStarting
  \/ WalkManual \/ WalkOperation \/ WalkProcessCompleted
  \/ WalkPostcondition \/ WalkTerminated \/ ApplyFinished
  \/ \E n \in run.todo : ReconcileInterrupted(n)
  \/ ResolveInterrupted
  \/ SetupStops

SpecSetup == InitSetup /\ [][NextSetup]_setupVars

-----------------------------------------------------------------------------
(* An operation that has touched the machine keeps its ActionStarting line *)
(* whatever fails later, and no operation of any execution begins before   *)
(* the outcome of every earlier one is in the ledger: the refusal of Apply *)
(* while FindInterrupted finds something, also after an execution that     *)
(* recorded its end but not that of its action.                            *)
EffectsAreSettled ==
  /\ \A t \in touched : Has(ledgerLines, "starting", t[1], t[2])
  /\ run.pc = "op" =>
       \A t \in touched : Has(ledgerLines, "terminated", t[1], t[2])

(* The report of an execution, projected from its lines: an action that    *)
(* was started and not terminated is interrupted, and so is the execution  *)
(* unless its end is recorded.                                             *)
ProjectExecutionReport(lines, x) ==
  LET mine == {n \in DOMAIN lines : lines[n].exec = x}
      acts(type) == {lines[n].act : n \in {m \in mine : lines[m].type = type}}
      interrupted == acts("starting") \ acts("terminated")
      ends == {n \in mine : lines[n].type = "finished"}
  IN [results |->
        [i \in acts("starting") \cup acts("terminated") |->
           IF i \in interrupted THEN "interrupted"
           ELSE lines[CHOOSE n \in mine :
                        /\ lines[n].type = "terminated" /\ lines[n].act = i
                        /\ \A m \in mine : m > n =>
                             ~(lines[m].type = "terminated"
                                 /\ lines[m].act = i)].status],
      status |-> IF ends # {} THEN lines[CHOOSE n \in ends :
                                           \A m \in ends : m <= n].status
                 ELSE IF interrupted # {} THEN "interrupted"
                 ELSE "running"]

(* An execution reported as succeeded reports every action of its plan as  *)
(* succeeded, and when a model action is recorded as succeeded, by the     *)
(* walk or by Recover after a crash in the middle of a download, the       *)
(* complete approved model is there.                                       *)
ModelSuccessIsReal ==
  /\ \A x \in 1..executions :
       LET report == ProjectExecutionReport(ledgerLines, x)
       IN report.status = "succeeded" =>
            \E p \in SetupPlanIds :
              report.results = [i \in DOMAIN SetupActions[p] |-> "succeeded"]
  /\ ledgerLines # <<>> =>
       LET last == ledgerLines[Len(ledgerLines)]
       IN /\ last.type = "terminated"
          /\ last.status = "succeeded"
          /\ Action(last.plan, last.act) \in ModelKinds
          => machine[Action(last.plan, last.act)] = "yes"

=============================================================================
