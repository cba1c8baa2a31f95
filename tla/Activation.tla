----------------------------- MODULE Activation -----------------------------
(***************************************************************************)
(* Activating a portfolio (internal/cognition/portfolio_activation*.go,    *)
(* portfolio_adaptation.go and `devcadence cognition apply`): proposals    *)
(* against the active portfolio, validation, and an activation written as  *)
(* five files' worth of steps - pending intent, history snapshot, active   *)
(* portfolio, lineage, removal of the intent - any of which may fail or be *)
(* cut short, with a synchronous rollback and a roll-forward at startup.   *)
(*                                                                         *)
(* folder is what the process sees, durable what a power loss leaves: a    *)
(* file that was renamed or removed is durable once its directory was      *)
(* synced.  A crash keeps, for each file, either version.  One manager     *)
(* works on the directory; its mutex makes an operation's steps            *)
(* contiguous.                                                             *)
(*                                                                         *)
(* An activation id is a timestamp and the sequence number: the number.    *)
(* The lineage's "current" fields repeat its last record.                  *)
(***************************************************************************)
EXTENDS Portfolios, SequencesExt

CONSTANTS Candidates,         \* portfolios somebody may apply
          FactSamples,        \* facts they may be judged against
          Callers,            \* goroutines sharing the manager
          MaxActivations,     \* bound on sequence numbers
          MaxFileFaults,      \* bound on failing file operations
          MaxReboots          \* bound on crashes and restarts

VARIABLES folder, durable,    \* the directory: seen, and surviving power loss
          step,               \* where the manager is, "down" when not running
          job,                \* the activation being written
          recoveryRequired,   \* a rollback failed: nothing more is accepted
          proposals,          \* each caller's proposal, if any
          acknowledged,       \* activations Activate or Rollback returned
          fileFaults, reboots

activationVars == <<folder, durable, step, job, recoveryRequired, proposals,
                    acknowledged, fileFaults, reboots>>

NoJob == [rec |-> <<>>, prev |-> <<>>]
EmptyDirectory == [pending |-> <<>>, history |-> {}, active |-> <<>>,
                   lineage |-> <<>>]

InitActivation ==
  /\ folder = EmptyDirectory /\ durable = EmptyDirectory
  /\ step = "idle" /\ job = NoJob /\ recoveryRequired = FALSE
  /\ proposals = [c \in Callers |-> <<>>]
  /\ acknowledged = {} /\ fileFaults = 0 /\ reboots = 0

Named(id) == CHOOSE p \in Candidates : p.id = id
CurrentId == IF folder.lineage = <<>> THEN ""
             ELSE Last(folder.lineage).portfolio

-----------------------------------------------------------------------------
(* Proposals. *)

(* CreateChangeProposal on what GetActivePortfolio returned, for a candidate
   that is valid by itself. *)
CreateChangeProposal(c, p) ==
  /\ step = "idle" /\ proposals[c] = <<>>
  /\ ValidPortfolio(p)
  /\ proposals' = [proposals EXCEPT ![c] =
       <<[base |-> IF folder.active = <<>> THEN "" ELSE folder.active[1],
          candidate |-> p.id, checked |-> FALSE,
          diff |-> DiffPortfolios([i \in DOMAIN folder.active |->
                                     Named(folder.active[i])], p)]>>]
  /\ UNCHANGED <<folder, durable, step, job, recoveryRequired, acknowledged,
                 fileFaults, reboots>>

(* ProposeAndActivate reads the lineage under the mutex, compares, and lets
   go of the mutex before Activate takes it again. *)
CheckProposal(c) ==
  /\ step = "idle" /\ proposals[c] # <<>> /\ ~proposals[c][1].checked
  /\ proposals' = [proposals EXCEPT ![c] =
       IF @[1].base = CurrentId THEN <<[@[1] EXCEPT !.checked = TRUE]>>
       ELSE <<>>]
  /\ UNCHANGED <<folder, durable, step, job, recoveryRequired, acknowledged,
                 fileFaults, reboots>>

(* The caller's facts, completed with provisional context profiles for the
   portfolios of the history and then for the candidate. *)
ValidationFacts(f, p) ==
  LET old == FoldSeq(LAMBDA r, cs :
                       SynthesizeContextProfiles(Named(r.portfolio), cs),
                     f.contexts, folder.lineage)
  IN  [f EXCEPT !.contexts = SynthesizeContextProfiles(p, old)]

ActivationRecord(id, target) ==
  [seq |-> Len(folder.lineage) + 1, portfolio |-> id,
   prev |-> Len(folder.lineage), target |-> target]

(* What both operations do once they accept: hand a record to
   persistActivationLocked. *)
Accept(rec) ==
  /\ rec.seq <= MaxActivations
  /\ step' = "pending" /\ job' = [rec |-> <<rec>>, prev |-> folder.lineage]

Activate(c, f) ==
  /\ step = "idle" /\ proposals[c] # <<>> /\ proposals[c][1].checked
  /\ LET p == Named(proposals[c][1].candidate)
     IN  IF /\ ~recoveryRequired
            /\ Validate(p, ValidationFacts(f, p))
            /\ f.sameMachine
         THEN Accept(ActivationRecord(p.id, 0))
         ELSE UNCHANGED <<step, job>>
  /\ proposals' = [proposals EXCEPT ![c] = <<>>]
  /\ UNCHANGED <<folder, durable, recoveryRequired, acknowledged, fileFaults,
                 reboots>>

(* RollbackToPrevious and RollbackToActivation: the target is a record of
   the lineage or a snapshot of the history directory. *)
Rollback(target, f) ==
  /\ step = "idle" /\ ~recoveryRequired /\ folder.lineage # <<>>
  /\ Len(folder.lineage) < MaxActivations
  /\ target \in Range(folder.lineage) \cup folder.history
  /\ LET p == Named(target.portfolio)
     IN  IF Validate(p, ValidationFacts(f, p))
         THEN Accept(ActivationRecord(p.id, target.seq))
         ELSE UNCHANGED <<step, job>>
  /\ UNCHANGED <<folder, durable, recoveryRequired, proposals, acknowledged,
                 fileFaults, reboots>>

-----------------------------------------------------------------------------
(* File operations. *)

Main == {"pending", "active", "lineage"}
SameDirectory(file) == IF file = "history" THEN {"history"} ELSE Main

(* syncDir on the directory of file, whose contents are now d. *)
Synced(file, d) == [x \in DOMAIN d |-> IF x \in SameDirectory(file)
                                       THEN d[x] ELSE durable[x]]

(* Where an operation goes on from here; a failed rollback poisons. *)
GoTo(next) ==
  /\ step' = IF next = "poison" THEN "idle" ELSE next
  /\ recoveryRequired' = (recoveryRequired \/ next = "poison")

(* atomicWriteFile, and a removal with its sync: it succeeds, fails leaving
   the old file, or fails to sync the new one. *)
Put(file, value, next, failed) ==
  \/ /\ folder' = [folder EXCEPT ![file] = value]
     /\ durable' = Synced(file, folder')
     /\ GoTo(next) /\ UNCHANGED fileFaults
  \/ /\ fileFaults < MaxFileFaults /\ fileFaults' = fileFaults + 1
     /\ folder' \in {folder, [folder EXCEPT ![file] = value]}
     /\ GoTo(failed) /\ UNCHANGED durable

(* os.Remove alone. *)
Unlink(file, next, failed) ==
  \/ /\ folder' = [folder EXCEPT ![file] = <<>>]
     /\ GoTo(next) /\ UNCHANGED <<durable, fileFaults>>
  \/ /\ fileFaults < MaxFileFaults /\ fileFaults' = fileFaults + 1
     /\ GoTo(failed) /\ UNCHANGED <<folder, durable>>

(* syncDir on the main directory alone. *)
Sync(next, failed) ==
  \/ /\ durable' = Synced("lineage", folder)
     /\ GoTo(next) /\ UNCHANGED <<folder, fileFaults>>
  \/ /\ fileFaults < MaxFileFaults /\ fileFaults' = fileFaults + 1
     /\ GoTo(failed) /\ UNCHANGED <<folder, durable>>

(* The removal of the intent, all of whose errors are ignored. *)
RemovePending ==
  \E d \in {folder, [folder EXCEPT !.pending = <<>>]}, synced \in BOOLEAN :
     /\ folder' = d
     /\ durable' = IF synced THEN Synced("pending", d) ELSE durable
     /\ IF synced /\ d.pending = <<>> THEN UNCHANGED fileFaults
        ELSE fileFaults < MaxFileFaults /\ fileFaults' = fileFaults + 1
     /\ GoTo("idle")

Snapshot(rec) == folder.history \cup {rec}
KeepOthers == UNCHANGED <<job, proposals, acknowledged, reboots>>

-----------------------------------------------------------------------------
(* persistActivationLocked. *)

Rec == job.rec[1]
NewLineage == Append(job.prev, Rec)

WritePending ==
  /\ step = "pending"
  /\ Put("pending", <<[rec |-> Rec, lineage |-> NewLineage]>>, "history",
         "idle")
  /\ KeepOthers
WriteHistory ==
  /\ step = "history"
  /\ Put("history", Snapshot(Rec), "active", "undoHistory")
  /\ KeepOthers
WriteActive ==
  /\ step = "active"
  /\ Put("active", <<Rec.portfolio>>, "lineage", "undoHistory")
  /\ KeepOthers
WriteLineage ==
  /\ step = "lineage"
  /\ Put("lineage", NewLineage, "commit", "undoHistory")
  /\ KeepOthers
Commit ==
  /\ step = "commit"
  /\ RemovePending
  /\ acknowledged' = acknowledged \cup {Rec}
  /\ UNCHANGED <<job, proposals, reboots>>

(* rollbackOnFailure. *)
UndoHistory ==
  /\ step = "undoHistory"
  /\ Put("history", folder.history \ {Rec}, "undoActive", "poison")
  /\ KeepOthers
UndoActive ==
  /\ step = "undoActive"
  /\ IF job.prev = <<>> THEN Unlink("active", "undoLineage", "poison")
     ELSE Put("active", <<Last(job.prev).portfolio>>, "undoLineage", "poison")
  /\ KeepOthers
UndoLineage ==
  /\ step = "undoLineage"
  /\ IF job.prev = <<>> THEN Unlink("lineage", "undoSync", "poison")
     ELSE Put("lineage", job.prev, "undoSync", "poison")
  /\ KeepOthers
UndoSync ==
  /\ step = "undoSync"
  /\ Sync("undoPending", "poison")
  /\ KeepOthers
UndoPending ==
  /\ step = "undoPending"
  /\ Put("pending", <<>>, "idle", "poison")
  /\ KeepOthers

-----------------------------------------------------------------------------
(* The process ends, or power is lost; NewActivationManager starts it again
   and rolls a pending intent forward.  A failed recovery constructs no
   manager. *)

Reboot ==
  /\ step # "down" /\ reboots < MaxReboots /\ reboots' = reboots + 1
  /\ \E lost \in SUBSET DOMAIN folder :
        folder' = [x \in DOMAIN folder |-> IF x \in lost THEN durable[x]
                                       ELSE folder[x]]
  /\ durable' = folder'
  /\ step' = "down" /\ job' = NoJob /\ recoveryRequired' = FALSE
  /\ proposals' = [c \in Callers |-> <<>>]
  /\ UNCHANGED <<acknowledged, fileFaults>>

RecoverStartupForgetting ==
  /\ step = "down" /\ GoTo("idle")
  /\ UNCHANGED <<folder, durable, fileFaults>> /\ KeepOthers
RecoverStartup ==
  /\ step = "down"
  /\ GoTo(IF folder.pending = <<>> THEN "idle" ELSE "recoverHistory")
  /\ UNCHANGED <<folder, durable, fileFaults>> /\ KeepOthers

Pending == folder.pending[1]
RecoverHistory ==
  /\ step = "recoverHistory"
  /\ Put("history", Snapshot(Pending.rec), "recoverActive", "down")
  /\ KeepOthers
RecoverActive ==
  /\ step = "recoverActive"
  /\ Put("active", <<Pending.rec.portfolio>>, "recoverLineage", "down")
  /\ KeepOthers
RecoverLineage ==
  /\ step = "recoverLineage"
  /\ Put("lineage", Pending.lineage, "recoverCommit", "down")
  /\ KeepOthers
RecoverCommit ==
  /\ step = "recoverCommit" /\ RemovePending /\ KeepOthers

NextActivation ==
  \/ \E c \in Callers :
        \/ \E p \in Candidates : CreateChangeProposal(c, p)
        \/ CheckProposal(c)
        \/ \E f \in FactSamples : Activate(c, f)
  \/ \E t \in folder.history, f \in FactSamples : Rollback(t, f)
  \/ WritePending \/ WriteHistory \/ WriteActive \/ WriteLineage \/ Commit
  \/ UndoHistory \/ UndoActive \/ UndoLineage \/ UndoSync \/ UndoPending
  \/ Reboot \/ RecoverStartup
  \/ RecoverHistory \/ RecoverActive \/ RecoverLineage \/ RecoverCommit

SpecActivation == InitActivation /\ [][NextActivation]_activationVars

-----------------------------------------------------------------------------
(* Whenever the manager would serve a request, the folder tells one story:
   the active portfolio is that of the last activation, the lineage is an
   unbroken chain, every activation in it has its snapshot and nothing else
   does, and no activation that was acknowledged is missing - whatever file
   operations failed, whether a rollback, a restart or a loss of power came
   in between (persistActivationLocked, rollbackOnFailure and
   recoverStartupLocked). *)
LineageIsWhole ==
  step = "idle" /\ ~recoveryRequired =>
    /\ folder.active = IF folder.lineage = <<>> THEN <<>>
                     ELSE <<Last(folder.lineage).portfolio>>
    /\ \A i \in DOMAIN folder.lineage :
          folder.lineage[i].seq = i /\ folder.lineage[i].prev = i - 1
    /\ folder.history = Range(folder.lineage)
    /\ acknowledged \subseteq Range(folder.lineage)
=============================================================================
