----------------------------- MODULE Validation -----------------------------
(***************************************************************************)
(* One validation: ExecuteAndRecord binds a profile's run to a commit,     *)
(* RunProfile starts the supervised services, runs the checks one by one   *)
(* under a monitor, and tears the services down; the outcome is journalled *)
(* as ValidationCompleted.  Services die, the operation is cancelled or    *)
(* passes its deadline, and checks move HEAD, whenever they like.          *)
(***************************************************************************)
EXTENDS Naturals, FiniteSets

CONSTANTS
  NumChecks,   \* checks of the profile
  SupervisedServices     \* its supervised services

ASSUME NumChecksAssumption == NumChecks \in Nat \ {0}

VARIABLES
  vpc,        \* where the validation is
  nextCheck,  \* the index of the next check
  results,    \* CheckResult.Status per check
  saw,        \* sawFail, sawError, sawCancel
  serving,         \* services running
  died,       \* services that ended before they were torn down
  torn,       \* some service could not be killed
  vctx,        \* the operation's context: "live", "canceled" or "deadline"
  onCommit,   \* HEAD of the worktree is the claimed commit
  recorded,   \* the journalled outcome
  deadThen    \* services that had died when the last check was over

validationVars == <<vpc, nextCheck, results, saw, serving, died, torn, vctx,
                    onCommit,
                    recorded, deadThen>>

Checks == 1 .. NumChecks

InitValidation ==
  /\ vpc = "new" /\ nextCheck = 1
  /\ results = [c \in Checks |-> "none"] /\ saw = {}
  /\ serving = {} /\ died = {} /\ torn = FALSE
  /\ vctx = "live" /\ onCommit = TRUE /\ recorded = "none" /\ deadThen = {}

-----------------------------------------------------------------------------
(* The world.                                                              *)

(* A service exits, or exceeds its lifetime and is killed.                 *)
ServiceDies(s) ==
  /\ s \in serving
  /\ serving' = serving \ {s} /\ died' = died \cup {s}
  /\ UNCHANGED <<vpc, nextCheck, results, saw, torn, vctx, onCommit, recorded,
                 deadThen>>

ContextEndsBy(how) ==
  /\ vctx = "live" /\ vpc \notin {"new", "ended"}
  /\ vctx' = how
  /\ UNCHANGED <<vpc, nextCheck, results, saw, serving, died, torn, onCommit,
                 recorded, deadThen>>

(* A check, or someone else, checks another commit out, or this one again. *)
MoveHead ==
  /\ vpc = "running"
  /\ onCommit' = ~onCommit
  /\ UNCHANGED <<vpc, nextCheck, results, saw, serving, died, torn, vctx,
                 recorded, deadThen>>

-----------------------------------------------------------------------------
(* Before the checks.                                                      *)

(* The worktree is created at the claimed commit; HEAD and cleanliness are *)
(* looked up and must agree, or nothing is run.                            *)
ClaimCommit ==
  /\ vpc = "new"
  /\ vpc' = "starting"
  /\ UNCHANGED <<nextCheck, results, saw, serving, died, torn, vctx, onCommit,
                 recorded, deadThen>>

StartService(s) ==
  /\ vpc = "starting" /\ s \notin serving \cup died
  /\ vctx = "live"
  /\ serving' = serving \cup {s}
  /\ UNCHANGED <<vpc, nextCheck, results, saw, died, torn, vctx, onCommit,
                 recorded, deadThen>>

(* A service does not start or does not become ready; those before it are  *)
(* torn down and the run is over.                                          *)
ServiceFailsToStart(s) ==
  /\ vpc = "starting" /\ s \notin serving \cup died
  /\ vpc' = "ended"
  /\ \/ serving' = {} /\ UNCHANGED torn
     \/ serving # {} /\ torn' = TRUE /\ UNCHANGED serving
  /\ UNCHANGED <<nextCheck, results, saw, died, vctx, onCommit, recorded,
                 deadThen>>

ServicesReady ==
  /\ vpc = "starting"
  /\ SupervisedServices \subseteq serving \cup died
  /\ vpc' = "checking"
  /\ UNCHANGED <<nextCheck, results, saw, serving, died, torn, vctx, onCommit,
                 recorded, deadThen>>

-----------------------------------------------------------------------------
(* The checks.                                                             *)

CheckHealth == died = {}

ReportCheck(status, mark, pc) ==
  /\ results' = [results EXCEPT ![nextCheck] = status]
  /\ saw' = saw \cup mark
  /\ vpc' = pc
  /\ nextCheck' = nextCheck + 1
  /\ UNCHANGED <<serving, died, torn, vctx, onCommit, recorded, deadThen>>

AtCheck == vpc = "checking" /\ nextCheck \in Checks

CheckSkippedByCancel ==
  AtCheck /\ vctx # "live" /\ ReportCheck("cancelled", {"cancel"}, "checking")

CheckOnDeadService ==
  /\ AtCheck /\ vctx = "live" /\ ~CheckHealth
  /\ ReportCheck("error", {"error"}, "checked")

(* A module or directory of the check escapes the worktree.                *)
CheckNotContained ==
  /\ AtCheck /\ vctx = "live" /\ CheckHealth
  /\ ReportCheck("error", {"error"}, "checking")

CheckRuns ==
  /\ AtCheck /\ vctx = "live" /\ CheckHealth
  /\ vpc' = "running"
  /\ UNCHANGED <<nextCheck, results, saw, serving, died, torn, vctx, onCommit,
                 recorded, deadThen>>

(* The monitor may have cancelled the check because a service died; a      *)
(* deadline of the operation is a cause of the same kind.                  *)
CauseOtherThanCancel == died # {} \/ vctx = "deadline"

CheckAborted ==
  /\ vpc = "running" /\ CauseOtherThanCancel
  /\ ReportCheck("error", {"error"}, "checked")

(* The command's own end: its exit code, its timeout or a failure to start *)
(* it.  A service that dies so late that the monitor was stopped first is  *)
(* left to the next health check.                                          *)
CheckEnds(end) ==
  /\ vpc = "running"
  /\ vctx # "deadline"
  /\ IF vctx = "canceled" /\ end # "unstarted"
     THEN ReportCheck("cancelled", {"cancel"}, "checking")
     ELSE CASE end = "zero" -> ReportCheck("pass", {}, "checking")
            [] end = "nonzero" -> ReportCheck("fail", {"fail"}, "checking")
            [] OTHER -> ReportCheck("error", {"error"}, "checking")

-----------------------------------------------------------------------------
(* After the checks.                                                       *)

(* Mutation: the services are not looked at after the last check.          *)
NoFinalHealth == saw

FinalHealth ==
  IF "error" \notin saw /\ ~CheckHealth THEN saw \cup {"error"} ELSE saw

ProfileDone ==
  /\ vpc = "checked" \/ (vpc = "checking" /\ nextCheck = NumChecks + 1)
  /\ saw' = FinalHealth
  /\ vpc' = "tearing"
  /\ deadThen' = died
  /\ UNCHANGED <<nextCheck, results, serving, died, torn, vctx, onCommit,
                 recorded>>

ProfileOutcome ==
  IF "cancel" \in saw THEN "cancelled"
  ELSE CASE "error" \in saw -> "error"
         [] saw = {"fail"} -> "fail"
         [] saw = {} -> "pass"

(* SIGTERM, then SIGKILL; a service that survives both makes the run an    *)
(* error that is returned and not recorded.                                *)
Teardown ==
  /\ vpc = "tearing"
  /\ \/ serving' = {} /\ vpc' = "claimed" /\ UNCHANGED torn
     \/ serving # {} /\ torn' = TRUE /\ vpc' = "ended" /\ UNCHANGED serving
  /\ UNCHANGED <<nextCheck, results, saw, died, vctx, onCommit, recorded,
                 deadThen>>

(* HEAD is resolved again, which fails in an ended context, and must still *)
(* be the claimed commit.  Cleanliness is not looked up again.             *)
RecordOutcome ==
  /\ vpc = "claimed"
  /\ vctx = "live" /\ onCommit
  /\ recorded' = ProfileOutcome
  /\ vpc' = "ended"
  /\ UNCHANGED <<nextCheck, results, saw, serving, died, torn, vctx, onCommit,
                 deadThen>>

(* HEAD moved, the context ended, or the journal refused the event.        *)
NotRecorded ==
  /\ vpc = "claimed"
  /\ vpc' = "ended"
  /\ UNCHANGED <<nextCheck, results, saw, serving, died, torn, vctx, onCommit,
                 recorded, deadThen>>

NextValidation ==
  \/ \E s \in SupervisedServices :
       ServiceDies(s) \/ StartService(s) \/ ServiceFailsToStart(s)
  \/ \E how \in {"canceled", "deadline"} : ContextEndsBy(how)
  \/ MoveHead
  \/ ClaimCommit \/ ServicesReady
  \/ CheckSkippedByCancel \/ CheckOnDeadService \/ CheckNotContained
  \/ CheckRuns \/ CheckAborted
  \/ \E end \in {"zero", "nonzero", "timeout", "unstarted"} : CheckEnds(end)
  \/ ProfileDone \/ Teardown \/ RecordOutcome \/ NotRecorded

SpecValidation == InitValidation /\ [][NextValidation]_validationVars

-----------------------------------------------------------------------------
(* Properties.                                                             *)

(* A recorded pass is earned (RunProfile, ExecuteAndRecord): every check   *)
(* of the profile ran and exited zero, every service it was run against    *)
(* lived until the last check had ended, the context was not cancelled and *)
(* HEAD ended where the record says; no service process is left behind     *)
(* unless the run was an error for it.                                     *)
PassIsEarned ==
  /\ recorded = "pass" =>
       (\A c \in Checks : results[c] = "pass")
       /\ deadThen = {} /\ onCommit
  /\ recorded # "none" => serving = {} /\ ~torn
  /\ vpc = "ended" /\ serving # {} => torn /\ recorded = "none"

=============================================================================
