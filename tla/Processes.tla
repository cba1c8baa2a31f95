----------------------------- MODULE Processes -----------------------------
(***************************************************************************)
(* The process runner: one controlled command and the descendants it       *)
(* leaves in its process group, run either to its end (Runner.Run) or as   *)
(* an operation that yields to its caller and is asked about, awaited and  *)
(* cancelled later (OperationManager).  The command, the deadline, the     *)
(* caller's context and CancelOperation race.                              *)
(***************************************************************************)
EXTENDS Naturals

VARIABLES
  proc,      \* "none", "running", or how the leader ended: "zero", "nonzero",
             \* "signalled" (a kill) or "lost" (it could not be waited on)
  children,  \* descendants of the command are alive
  pmode,      \* "run" or "operation", once started
  expired,  \* spec.Timeout has passed
  pcaller,    \* the caller's context: "live" or "ended"
  waiter,    \* "waiting", "reaped" (Wait has returned) or "done"
  pstatus,    \* OperationStatus, or Run's Result.Status
  cancelAsked,     \* CancelOperation has found the operation running
  answers    \* statuses in the answers given after doneCh was closed

processVars == <<proc, children, pmode, expired, pcaller, waiter, pstatus,
                 cancelAsked,
                 answers>>

InitProcesses ==
  /\ proc = "none" /\ children = FALSE /\ pmode = "none"
  /\ expired = FALSE /\ pcaller = "live" /\ waiter = "waiting"
  /\ pstatus = "none" /\ cancelAsked = FALSE /\ answers = {}

(* validateSpec, resolveExecutable and cmd.Start have succeeded; otherwise *)
(* there is no process and nothing to say about it.                        *)
Launch(m) ==
  /\ proc = "none"
  /\ proc' = "running" /\ pmode' = m /\ pstatus' = "running"
  /\ UNCHANGED <<children, expired, pcaller, waiter, cancelAsked, answers>>

(* The command and the clock.                                              *)
Fork == /\ proc = "running" /\ ~children
        /\ children' = TRUE
        /\ UNCHANGED <<proc, pmode, expired, pcaller, waiter, pstatus,
                       cancelAsked, answers>>

LeaderExits(how) ==
  /\ proc = "running"
  /\ how \in {"zero", "nonzero", "lost"}
  /\ proc' = how
  /\ UNCHANGED <<children, pmode, expired, pcaller, waiter, pstatus,
                 cancelAsked, answers>>

DeadlineExpires ==
  /\ pmode # "none" /\ ~expired
  /\ expired' = TRUE
  /\ UNCHANGED <<proc, children, pmode, pcaller, waiter, pstatus, cancelAsked,
                 answers>>

CallerEnds ==
  /\ pmode # "none" /\ pcaller = "live"
  /\ pcaller' = "ended"
  /\ UNCHANGED <<proc, children, pmode, expired, waiter, pstatus, cancelAsked,
                 answers>>

(* The context Run waits on is the caller's with the timeout; that of an   *)
(* operation is the timeout's alone, which CancelOperation cancels too.    *)
ContextDone ==
  expired \/ (IF pmode = "run" THEN pcaller = "ended" ELSE cancelAsked)

(* Mutation: the group is killed only when the command has to be stopped.  *)
KillAfterStopOnly(stopped) == stopped

(* Run kills the group after every run, an operation only when stopped.    *)
KillsGroup(stopped) == stopped \/ pmode = "run"

(* Wait returns: on its own, or after the kill that the context triggers.  *)
Reap ==
  /\ waiter = "waiting"
  /\ \/ /\ proc \in {"zero", "nonzero", "lost", "signalled"}
        /\ children' = (children /\ ~KillsGroup(FALSE))
        /\ UNCHANGED proc
     \/ /\ proc = "running" /\ ContextDone
        /\ proc' = "signalled"
        /\ children' = (children /\ ~KillsGroup(TRUE))
  /\ waiter' = "reaped"
  /\ UNCHANGED <<pmode, expired, pcaller, pstatus, cancelAsked, answers>>

(* How the end is classified, after the process was reaped.                *)
Classified ==
  IF \/ pmode = "operation" /\ pstatus = "cancelled"
     \/ pmode = "run" /\ pcaller = "ended"
  THEN "cancelled"
  ELSE CASE expired -> "timeout"
         [] ~expired /\ pmode = "operation" /\ cancelAsked -> "cancelled"
         [] OTHER -> IF proc = "lost" /\ pmode = "operation" THEN "failed"
                     ELSE "completed"

Classify ==
  /\ waiter = "reaped"
  /\ pstatus' = Classified
  /\ waiter' = "done"
  /\ UNCHANGED <<proc, children, pmode, expired, pcaller, cancelAsked,
                 answers>>

(* CancelOperation, also called by StartOperation when its caller ends     *)
(* before the yield threshold.  It then waits for doneCh.                  *)
CancelOperation ==
  /\ pmode = "operation" /\ pstatus = "running"
  /\ pstatus' = "cancelled" /\ cancelAsked' = TRUE
  /\ proc' = IF proc = "running" THEN "signalled" ELSE proc
  /\ children' = FALSE
  /\ UNCHANGED <<pmode, expired, pcaller, waiter, answers>>

(* GetOperation, WaitOperation and CancelOperation after the end.          *)
Observe ==
  /\ pmode = "operation" /\ waiter = "done"
  /\ answers' = answers \cup {pstatus}
  /\ UNCHANGED <<proc, children, pmode, expired, pcaller, waiter, pstatus,
                 cancelAsked>>

NextProcesses ==
  \/ \E m \in {"run", "operation"} : Launch(m)
  \/ Fork
  \/ \E how \in {"zero", "nonzero", "lost"} : LeaderExits(how)
  \/ DeadlineExpires \/ CallerEnds
  \/ Reap \/ Classify \/ CancelOperation \/ Observe

SpecProcesses == InitProcesses /\ [][NextProcesses]_processVars

-----------------------------------------------------------------------------
(* Properties.                                                             *)

(* A finished command is finished (Run, "so no descendant outlives the     *)
(* controlled command"; snapshot): after Run has returned nothing of its   *)
(* group is alive; an answer given after the end shows one terminal status *)
(* for ever, never "running"; and an operation that was stopped on request *)
(* never reads as completed, however the request and the exit raced.       *)
FinishedIsFinished ==
  /\ pmode = "run" /\ waiter = "done" => ~children
  /\ \A s \in answers : s = pstatus /\ s # "running"
  /\ cancelAsked /\ waiter = "done" => pstatus \in {"cancelled", "timeout"}

=============================================================================
