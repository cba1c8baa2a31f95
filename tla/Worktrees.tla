----------------------------- MODULE Worktrees -----------------------------
(***************************************************************************)
(* The worktree manager: Create, Cleanup and Recover over git, the file    *)
(* system and the manifest.  The manager's mutex runs one operation of a   *)
(* project at a time; the process may die between any two of its effects,  *)
(* and workers and operators touch the directories in between.             *)
(*                                                                         *)
(* Path and branch are functions of the identifiers, so a worktree is its  *)
(* id.  Git is external: a path stays registered when its directory is     *)
(* deleted, `worktree remove` validates the directory it removes and       *)
(* refuses uncommitted changes without --force, and `worktree add -b`      *)
(* refuses a branch or a registered path that exists.                      *)
(***************************************************************************)
EXTENDS Naturals

CONSTANT WorktreeIds

VARIABLES
  manifest,    \* status per id: "none", "active", "removed" or "missing"
  disk,        \* what is at the path: "none", the "tree", something "foreign"
  dirty,       \* worktrees with uncommitted changes
  registered,  \* paths git has registered
  branches,    \* branches that exist
  wop          \* the operation in progress

worktreeVars == <<manifest, disk, dirty, registered, branches, wop>>

NoWorktreeOp == [op |-> "none"]

InitWorktrees ==
  /\ manifest = [i \in WorktreeIds |-> "none"]
  /\ disk = [i \in WorktreeIds |-> "none"]
  /\ dirty = {}
  /\ registered = {}
  /\ branches = {}
  /\ wop = NoWorktreeOp

-----------------------------------------------------------------------------
(* Git.                                                                    *)

GitRemovable(i, force) ==
  /\ i \in registered
  /\ disk[i] = "none" \/ (disk[i] = "tree" /\ (force \/ i \notin dirty))

GitRemove(i) ==
  /\ disk' = [disk EXCEPT ![i] = "none"]
  /\ dirty' = dirty \ {i}
  /\ registered' = registered \ {i}

(* `branch -D` may fail, and does while a worktree has it checked out.     *)
GitDeleteBranch(i) ==
  \/ UNCHANGED branches
  \/ i \notin registered' /\ branches' = branches \ {i}

-----------------------------------------------------------------------------
(* Create.                                                                 *)

CreateAdd(i) ==
  /\ wop = NoWorktreeOp
  /\ manifest[i] # "active"
  /\ disk[i] = "none"
  /\ i \notin branches /\ i \notin registered
  /\ disk' = [disk EXCEPT ![i] = "tree"]
  /\ registered' = registered \cup {i}
  /\ branches' = branches \cup {i}
  /\ wop' = [op |-> "create", id |-> i]
  /\ UNCHANGED <<manifest, dirty>>

SaveManifest(i, status) == manifest' = [manifest EXCEPT ![i] = status]

CreateSaved(i) ==
  /\ wop = [op |-> "create", id |-> i]
  /\ SaveManifest(i, "active")
  /\ wop' = NoWorktreeOp
  /\ UNCHANGED <<disk, dirty, registered, branches>>

(* The manifest cannot be written: both git effects are undone, each of    *)
(* them best effort.                                                       *)
CreateRolledBack(i) ==
  /\ wop = [op |-> "create", id |-> i]
  /\ \/ GitRemovable(i, TRUE) /\ GitRemove(i)
     \/ UNCHANGED <<disk, dirty, registered>>
  /\ GitDeleteBranch(i)
  /\ wop' = NoWorktreeOp
  /\ UNCHANGED manifest

-----------------------------------------------------------------------------
(* Cleanup.                                                                *)

(* The directory is gone: the entry is recorded as missing, once.          *)
CleanupMissing(i) ==
  /\ wop = NoWorktreeOp
  /\ manifest[i] = "active"
  /\ disk[i] = "none"
  /\ SaveManifest(i, "missing")
  /\ UNCHANGED <<disk, dirty, registered, branches, wop>>

(* isDirty fails on a directory that is no working tree.                   *)
CleanupChecked(i, force) ==
  /\ wop = NoWorktreeOp
  /\ manifest[i] = "active"
  /\ disk[i] # "none"
  /\ force \/ (disk[i] = "tree" /\ i \notin dirty)
  /\ wop' = [op |-> "cleanup", id |-> i, force |-> force, removed |-> FALSE]
  /\ UNCHANGED <<manifest, disk, dirty, registered, branches>>

(* Mutation: the check has been made, so the removal is always forced.     *)
AlwaysForced(force) == TRUE

(* --force is passed on only when the caller asked for it.                 *)
RemoveForced(force) == force

CleanupRemoved(i) ==
  /\ wop.op = "cleanup" /\ wop.id = i /\ ~wop.removed
  /\ \/ /\ GitRemovable(i, RemoveForced(wop.force))
        /\ GitRemove(i)
        /\ GitDeleteBranch(i)
        /\ wop' = [wop EXCEPT !.removed = TRUE]
     \/ /\ ~GitRemovable(i, RemoveForced(wop.force))
        /\ wop' = NoWorktreeOp
        /\ UNCHANGED <<disk, dirty, registered, branches>>
  /\ UNCHANGED manifest

CleanupSaved(i) ==
  /\ wop.op = "cleanup" /\ wop.id = i /\ wop.removed
  /\ SaveManifest(i, "removed")
  /\ wop' = NoWorktreeOp
  /\ UNCHANGED <<disk, dirty, registered, branches>>

-----------------------------------------------------------------------------
(* Recover.                                                                *)

(* The path is in git's own list, on the expected branch.  The list does   *)
(* not say whether the directory there is still the one git registered.    *)
verifyGitWorktreeRegistration(i) == i \in registered /\ i \in branches

RecoverAdopt(i) ==
  /\ wop = NoWorktreeOp
  /\ manifest[i] # "none"
  /\ disk[i] # "none"
  /\ verifyGitWorktreeRegistration(i)
  /\ SaveManifest(i, "active")
  /\ UNCHANGED <<disk, dirty, registered, branches, wop>>

(* confirmGone, and the directory is indeed gone.  Without a repository,   *)
(* or when git fails, the registration stays.                              *)
RecoverGone(i) ==
  /\ wop = NoWorktreeOp
  /\ manifest[i] # "none"
  /\ disk[i] = "none"
  /\ \/ registered' = registered \ {i}
     \/ UNCHANGED registered
  /\ SaveManifest(i, "removed")
  /\ UNCHANGED <<disk, dirty, branches, wop>>

-----------------------------------------------------------------------------
(* The world: a worker edits and commits, an operator deletes or replaces  *)
(* a directory or prunes git's list, the process dies.                     *)

EditWork(i) ==
  /\ disk[i] = "tree" /\ manifest[i] = "active"
  /\ dirty' = dirty \cup {i}
  /\ UNCHANGED <<manifest, disk, registered, branches, wop>>

CommitWork(i) ==
  /\ i \in dirty
  /\ dirty' = dirty \ {i}
  /\ UNCHANGED <<manifest, disk, registered, branches, wop>>

DeleteDirectory(i) ==
  /\ disk[i] # "none"
  /\ disk' = [disk EXCEPT ![i] = "none"]
  /\ dirty' = dirty \ {i}
  /\ UNCHANGED <<manifest, registered, branches, wop>>

OccupyPath(i) ==
  /\ disk[i] = "none"
  /\ disk' = [disk EXCEPT ![i] = "foreign"]
  /\ UNCHANGED <<manifest, dirty, registered, branches, wop>>

PruneList(i) ==
  /\ i \in registered /\ disk[i] # "tree"
  /\ registered' = registered \ {i}
  /\ UNCHANGED <<manifest, disk, dirty, branches, wop>>

ManagerDies ==
  /\ wop # NoWorktreeOp
  /\ wop' = NoWorktreeOp
  /\ UNCHANGED <<manifest, disk, dirty, registered, branches>>

NextWorktrees ==
  \/ \E i \in WorktreeIds :
       \/ CreateAdd(i) \/ CreateSaved(i) \/ CreateRolledBack(i)
       \/ CleanupMissing(i) \/ CleanupRemoved(i) \/ CleanupSaved(i)
       \/ \E force \in BOOLEAN : CleanupChecked(i, force)
       \/ RecoverAdopt(i) \/ RecoverGone(i)
       \/ EditWork(i) \/ CommitWork(i)
       \/ DeleteDirectory(i) \/ OccupyPath(i) \/ PruneList(i)
  \/ ManagerDies

SpecWorktrees == InitWorktrees /\ [][NextWorktrees]_worktreeVars

-----------------------------------------------------------------------------
(* Properties.                                                             *)

(* Evidence in progress is not lost (Cleanup, "so an operator does not     *)
(* silently lose in-progress evidence"): a directory with uncommitted      *)
(* changes, or one that is not this worktree, disappears only in a cleanup *)
(* that was asked to force, or by someone else's hand.  A worker who edits *)
(* between the check and the removal is protected too.                     *)
WorkIsKept ==
  [][ \A i \in WorktreeIds :
        (i \in dirty \/ disk[i] = "foreign") /\ disk'[i] = "none" =>
          \/ /\ wop.op = "cleanup" /\ wop.id = i /\ wop.force
             /\ disk[i] = "tree"
          \/ DeleteDirectory(i) ]_worktreeVars

=============================================================================
