------------------------------ MODULE Reviews ------------------------------
(***************************************************************************)
(* The review executor over the reducer: Executor.Review with its          *)
(* synchronous checks, the asynchronous review of one dimension after the  *)
(* other, the intent that is committed before a model session starts, the  *)
(* terminal batch that records the outcome, cancellation, and crashes of   *)
(* the executor's process.                                                 *)
(*                                                                         *)
(* IDs.New never repeats an id, so the review id of dimension d in call k  *)
(* is the pair <<k, d>>; it also names the worktree rv-<invocation>.       *)
(* Revisions are compared for equality only: `current` holds the calls     *)
(* whose last read of the revision is still current.                       *)
(***************************************************************************)
EXTENDS Reducer, FiniteSets

CONSTANTS
  Calls,        \* calls of Review, each made once
  Dimensions,   \* review dimensions
  Actors        \* reviewer identities a resolved endpoint may have

ASSUME ReviewIdAssumption ==
  (Calls \X Dimensions) \subseteq ReviewIds /\ None \notin ReviewIds

VARIABLES
  calls,        \* per call, its progress
  intents,      \* ReviewInvocationIntent records, by attempt and dimension
  invocations,  \* ReviewInvocation records, by review id
  authors,      \* InvocationProvenance: who produced each attempt's candidate
  sessions,     \* per attempt and dimension, the model sessions ever started
  checkouts,    \* the review worktrees on disk
  current       \* calls whose revision is still the journal's

reviewVars == <<calls, intents, invocations, authors, sessions, checkouts,
                current>>
allReviewVars == <<vars, reviewVars>>

(* Cancelled, limit_reached, driver_error and output_invalid are treated   *)
(* alike: "unfinished".  A verdict parsed from the model's answer is       *)
(* "judged" whatever it says, unless it says unable_to_verify itself.      *)
InvocationOutcomes == {"completed", "unfinished"}
Verdicts == {"judged", "unable_to_verify"}

NoCall == [pc |-> "new", task |-> None, attempt |-> None, commit |-> None,
           wp |-> None, todo |-> {}, dim |-> None, reviewer |-> None,
           outcome |-> "none", verdict |-> "none"]
NoIntent == [review |-> None, commit |-> None, reviewer |-> None]
NoInvocation == [outcome |-> "none", verdict |-> "none", attempt |-> None,
                 commit |-> None]

InitReviews ==
  /\ Init
  /\ calls = [k \in Calls |-> NoCall]
  /\ intents = [p \in AttemptIds \X Dimensions |-> NoIntent]
  /\ invocations = [p \in Calls \X Dimensions |-> NoInvocation]
  /\ authors = [a \in AttemptIds |-> None]
  /\ sessions = [p \in AttemptIds \X Dimensions |-> 0]
  /\ checkouts = {}
  /\ current = {}

-----------------------------------------------------------------------------

(* An appended event makes every revision read so far stale.               *)
JournalMoves == current' = {}

(* Events of the principal, the task executor and the validators.  The     *)
(* provenance of a candidate is recorded in the batch that produces it.    *)
OtherClient(t) ==
  /\ \/ /\ \/ TaskCreated(t) \/ TaskDesignStarted(t)
           \/ \E w \in WorkPackageIds, v \in Versions : WorkPackageApproved(t, w, v)
           \/ \E w \in WorkPackageIds : TaskDelegated(t, w)
           \/ \E a \in AttemptIds, w \in WorkPackageIds, v \in Versions :
                AttemptStarted(t, a, w, v)
           \/ \E a \in AttemptIds, c \in Commits, id \in ValidationIds,
                 o \in {"pass", "fail"} :
                ValidationCompletedAttempt(t, a, c, id, o)
           \/ \E a \in AttemptIds : ChangeRejected(t, a)
           \/ EscalationRaised(t, None)
           \/ \E a \in AttemptIds, c \in Commits, w \in WorkPackageIds,
                 v \in ValidationIds, r \in ReviewIds :
                ChangeAccepted(t, a, c, w, {v}, {r})
        /\ UNCHANGED authors
     \/ \E a \in AttemptIds, c \in Commits, x \in Actors :
          /\ CandidateProduced(t, a, c)
          /\ authors' = [authors EXCEPT ![a] = x]
  /\ JournalMoves
  /\ UNCHANGED <<calls, intents, invocations, sessions, checkouts>>

Start == /\ ProjectInitialized(None)
         /\ JournalMoves
         /\ UNCHANGED <<calls, intents, invocations, authors, sessions, checkouts>>

-----------------------------------------------------------------------------
(* Executor.Review.                                                        *)

(* The synchronous checks.  The task's own state is not among them.  A     *)
(* call they refuse leaves no trace, and is not a step.                    *)
Review(k, t, a, dims) ==
  /\ calls[k].pc = "new"
  /\ dims # {}
  /\ tasks[t].state # "absent"
  /\ requireAttemptOf(t, a)
  /\ attempts[a].status = "candidate_produced"
  /\ \A d \in dims : intents[<<a, d>>] = NoIntent
  /\ authors[a] # None
  /\ calls' = [calls EXCEPT ![k] =
       [NoCall EXCEPT !.pc = "next", !.task = t, !.attempt = a,
                      !.commit = attempts[a].commit, !.wp = tasks[t].wp,
                      !.todo = dims]]
  /\ UNCHANGED <<vars, intents, invocations, authors, sessions, checkouts, current>>

Step(k, pc, r) == calls' = [calls EXCEPT ![k] = [r EXCEPT !.pc = pc]]

(* The call has ended; its deferred cleanup has removed its worktree.      *)
EndCall(k) ==
  /\ calls' = [calls EXCEPT ![k] = [NoCall EXCEPT !.pc = "ended"]]
  /\ checkouts' = {x \in checkouts : x[1] # k}
  /\ current' = current \ {k}

(* runReview takes the dimensions in the order of their names; the model   *)
(* takes any order.  Resolve, Open, Bind, the derivation of the actors,    *)
(* the compiler and the worktree may each fail: the call ends.             *)
PrepareDimension(k, d, x) ==
  /\ calls[k].pc = "next" /\ d \in calls[k].todo
  /\ x # authors[calls[k].attempt]
  /\ Step(k, "prepared", [calls[k] EXCEPT !.dim = d, !.reviewer = x,
                                          !.todo = calls[k].todo \ {d}])
  /\ checkouts' = checkouts \cup {<<k, d>>}
  /\ UNCHANGED <<vars, intents, invocations, authors, sessions, current>>

PrepareFails(k) ==
  /\ calls[k].pc = "next" /\ calls[k].todo # {}
  /\ EndCall(k)
  /\ UNCHANGED <<vars, intents, invocations, authors, sessions>>

ReviewDone(k) ==
  /\ calls[k].pc = "next" /\ calls[k].todo = {}
  /\ EndCall(k)
  /\ UNCHANGED <<vars, intents, invocations, authors, sessions>>

(* ProjectState before the intent batch, and again before the terminal one. *)
ReadRevision(k, from, to) ==
  /\ calls[k].pc = from
  /\ Step(k, to, calls[k])
  /\ current' = current \cup {k}
  /\ UNCHANGED <<vars, intents, invocations, authors, sessions, checkouts>>

(* Mutation: the record is not looked up inside the transaction, as the    *)
(* synchronous check has done so already.                                  *)
intentAbsentUnchecked(k) ==
  LET c == calls[k]
  IN  /\ tasks[c.task].state \in RunningBucket
      /\ authors[c.attempt] # None
      /\ attempts[c.attempt].commit = c.commit

(* The guard runs inside the batch's transaction: the task is in the       *)
(* Running bucket of the project state, the candidate is still the one the *)
(* provenance names, and no intent exists.                                 *)
intentAbsentGuard(k) ==
  LET c == calls[k]
  IN  /\ tasks[c.task].state \in RunningBucket
      /\ authors[c.attempt] # None
      /\ attempts[c.attempt].commit = c.commit
      /\ intents[<<c.attempt, c.dim>>] = NoIntent

IntentOf(k) == [review |-> <<k, calls[k].dim>>, commit |-> calls[k].commit,
                reviewer |-> calls[k].reviewer]

(* ReviewInvocationStarted and the intent record.  The event changes       *)
(* nothing in the projection and moves the revision.                       *)
CommitIntent(k) ==
  LET c == calls[k]
  IN  /\ c.pc = "intending"
      /\ k \in current
      /\ intentAbsentGuard(k)
      /\ intents' = [intents EXCEPT ![<<c.attempt, c.dim>>] = IntentOf(k)]
      /\ Step(k, "intended", c)
      /\ JournalMoves
      /\ UNCHANGED <<vars, invocations, authors, sessions, checkouts>>

(* The batch is refused or fails: review-intent-unrecorded.                *)
IntentUnrecorded(k) ==
  /\ calls[k].pc = "intending"
  /\ EndCall(k)
  /\ UNCHANGED <<vars, intents, invocations, authors, sessions>>

(* Mutation: an answer cut off by a limit is still parsed for its verdict. *)
VerdictParsedAlways(outcome) == Verdicts

(* The verdict of a session that did not complete is the executor's own.   *)
VerdictOf(outcome) ==
  IF outcome = "completed" THEN Verdicts ELSE {"unable_to_verify"}

(* runReviewSession: limits, session start, turns and the parsed answer.   *)
(* Limits that are not positive end it before a session is started.        *)
RunSession(k, outcome, verdict) ==
  LET c == calls[k]
  IN  /\ c.pc = "intended"
      /\ verdict \in VerdictOf(outcome)
      /\ sessions' = [sessions EXCEPT ![<<c.attempt, c.dim>>] = @ + 1]
      /\ Step(k, "session", [c EXCEPT !.outcome = outcome, !.verdict = verdict])
      /\ UNCHANGED <<vars, intents, invocations, authors, checkouts, current>>

BadLimits(k) ==
  LET c == calls[k]
  IN  /\ c.pc = "intended"
      /\ Step(k, "session", [c EXCEPT !.outcome = "unfinished",
                                      !.verdict = "unable_to_verify"])
      /\ UNCHANGED <<vars, intents, invocations, authors, sessions, checkouts,
                     current>>

(* The intent is still the one this call committed, and the invocation is  *)
(* not yet recorded.                                                       *)
terminalPersistenceGuard(k) ==
  /\ intents[<<calls[k].attempt, calls[k].dim>>] = IntentOf(k)
  /\ invocations[<<k, calls[k].dim>>] = NoInvocation

(* ReviewCompleted with the result, the provenance and the invocation.  A  *)
(* dimension that did not complete stops the ones after it.                *)
PersistReview(k) ==
  LET c == calls[k]
  IN  /\ c.pc = "closing"
      /\ k \in current
      /\ terminalPersistenceGuard(k)
      /\ ReviewCompleted(c.task, c.attempt, c.wp, <<k, c.dim>>)
      /\ invocations' = [invocations EXCEPT ![<<k, c.dim>>] =
           [outcome |-> c.outcome, verdict |-> c.verdict,
            attempt |-> c.attempt, commit |-> c.commit]]
      /\ IF c.outcome = "completed"
         THEN /\ Step(k, "next", [c EXCEPT !.dim = None, !.reviewer = None,
                                     !.outcome = "none", !.verdict = "none"])
              /\ checkouts' = checkouts \ {<<k, c.dim>>}
         ELSE /\ calls' = [calls EXCEPT ![k] = [NoCall EXCEPT !.pc = "ended"]]
              /\ checkouts' = checkouts \ {<<k, c.dim>>}
      /\ JournalMoves
      /\ UNCHANGED <<intents, authors, sessions>>

(* review-outcome-unrecorded: the revision moved, the reducer refused, or  *)
(* the read or the commit failed.  There is no second try.                 *)
OutcomeUnrecorded(k) ==
  /\ calls[k].pc \in {"session", "closing"}
  /\ EndCall(k)
  /\ UNCHANGED <<vars, intents, invocations, authors, sessions>>

(* The process dies.  Its calls end where they are and their worktrees     *)
(* stay; New removes the clean ones (the reviewers' tools only read) and   *)
(* touches no intent.                                                      *)
Crash ==
  /\ \E k \in Calls : calls[k].pc \notin {"new", "ended"}
  /\ calls' = [k \in Calls |-> IF calls[k].pc = "new" THEN NoCall
                               ELSE [NoCall EXCEPT !.pc = "ended"]]
  /\ current' = {}
  /\ UNCHANGED <<vars, intents, invocations, authors, sessions, checkouts>>

cleanupOrphanWorktrees ==
  /\ checkouts # {}
  /\ \A k \in Calls : calls[k].pc \in {"new", "ended"}
  /\ checkouts' = {}
  /\ UNCHANGED <<vars, calls, intents, invocations, authors, sessions, current>>

NextCall(k) ==
  \/ \E t \in TaskIds, a \in AttemptIds, dims \in SUBSET Dimensions :
       Review(k, t, a, dims)
  \/ \E d \in Dimensions, x \in Actors : PrepareDimension(k, d, x)
  \/ PrepareFails(k)
  \/ ReviewDone(k)
  \/ ReadRevision(k, "prepared", "intending")
  \/ CommitIntent(k)
  \/ IntentUnrecorded(k)
  \/ \E o \in InvocationOutcomes, v \in Verdicts : RunSession(k, o, v)
  \/ BadLimits(k)
  \/ ReadRevision(k, "session", "closing")
  \/ PersistReview(k)
  \/ OutcomeUnrecorded(k)

NextReviews ==
  \/ Start
  \/ \E t \in TaskIds : OtherClient(t)
  \/ \E k \in Calls : NextCall(k)
  \/ Crash
  \/ cleanupOrphanWorktrees

SpecReviews == InitReviews /\ [][NextReviews]_allReviewVars

-----------------------------------------------------------------------------
(* Properties.                                                             *)

(* A model is asked at most once about a dimension of a candidate          *)
(* (intentAbsentGuard): whatever calls overlap and wherever the process    *)
(* dies, one session per attempt and dimension is ever started, and only   *)
(* after its intent is in the journal.                                     *)
OneSessionPerDimension ==
  \A p \in AttemptIds \X Dimensions :
    sessions[p] <= IF intents[p] = NoIntent THEN 0 ELSE 1

(* A recorded review is what was announced (terminalPersistenceGuard):     *)
(* its intent names this very review, the candidate commit reviewed is the *)
(* one its attempt still has, its reviewer is not the candidate's author,  *)
(* the evidence index points at the same commit, and any verdict other     *)
(* than unable_to_verify comes from a completed session.                   *)
ReviewsAreAnnounced ==
  \A k \in Calls, d \in Dimensions :
    LET inv == invocations[<<k, d>>]
    IN  inv # NoInvocation =>
          /\ intents[<<inv.attempt, d>>].review = <<k, d>>
          /\ intents[<<inv.attempt, d>>].commit = attempts[inv.attempt].commit
          /\ intents[<<inv.attempt, d>>].reviewer # authors[inv.attempt]
          /\ reviews[<<k, d>>].attempt = inv.attempt
          /\ reviews[<<k, d>>].commit = inv.commit
          /\ inv.outcome # "completed" => inv.verdict = "unable_to_verify"

(* wp-m5-r2-independent-review-acceptance-ewp.md: the batch that starts an *)
(* invocation requires the task to be "reviewing".                         *)
ReviewStartsWhileReviewing ==
  [][ \A a \in AttemptIds, d \in Dimensions :
        intents'[<<a, d>>] # intents[<<a, d>>] =>
          tasks[attempts[a].task].state = "reviewing" ]_allReviewVars

=============================================================================
