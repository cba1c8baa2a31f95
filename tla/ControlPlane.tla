---------------------------- MODULE ControlPlane ----------------------------
(***************************************************************************)
(* The control plane's write path over the SQLite store: Service.Apply and *)
(* RebuildProjection through Store.Write, Service.ApplyBatch through       *)
(* Store.WriteSerialized, from several processes at once, with contention, *)
(* bounded retries, commits whose outcome is unknown, and crashes.         *)
(*                                                                         *)
(* A process has one database connection (SetMaxOpenConns(1)).  SQLite in  *)
(* WAL mode gives a transaction a snapshot at its first read, one write    *)
(* lock for the whole database, and SQLITE_BUSY to a transaction that      *)
(* wants to write over a snapshot that is no longer the latest.            *)
(***************************************************************************)
EXTENDS Reduction, FiniteSets

CONSTANTS
  Calls,                  \* calls of the control plane, each made once
  Processes,              \* operating system processes sharing the database
  Bodies,                 \* the event sequences a call may want to append
  MaxContentionAttempts,  \* bound on complete transaction attempts
  None

ASSUME AttemptsAssumption == MaxContentionAttempts \in Nat \ {0}

ASSUME NoneAssumption == None \notin Calls

ASSUME BodiesAssumption ==
  Bodies \subseteq Seq(Kinds) /\ \A b \in Bodies : Len(b) > 0

VARIABLES
  journal,  \* the events table, in seq order
  view,     \* the projection_* tables: high watermark and state
  writer,   \* the call whose transaction holds the write lock
  conn,     \* per process, the call that holds its connection
  calls     \* per call, its progress

vars == <<journal, view, writer, conn, calls>>

Modes == {"apply", "batch", "rebuild"}
Answers == {"none", "ok", "busy", "stale", "refused", "failed", "uncertain",
            "cancelled", "lost"}

NewCall == [pc |-> "new", proc |-> None, mode |-> "apply", body |-> << >>,
            expected |-> 0, base |-> 0, work |-> Empty, done |-> 0,
            tries |-> 0, answer |-> "none"]

Row(stream) == [watermark |-> Len(stream), state |-> Reduce(stream)]

Init ==
  /\ journal = << >>
  /\ view = Row(<< >>)
  /\ writer = None
  /\ conn = [p \in Processes |-> None]
  /\ calls = [c \in Calls |-> NewCall]

-----------------------------------------------------------------------------

At(c, pc) == calls[c].pc = pc

Serialized(c) == calls[c].mode = "batch"

(* Mutation: the connection is not returned.                               *)
ReleaseLock(c) ==
  /\ writer' = IF writer = c THEN None ELSE writer
  /\ UNCHANGED conn

(* The end of a transaction, committed or rolled back, frees the write     *)
(* lock and returns the connection to the pool.                            *)
Release(c) ==
  /\ writer' = IF writer = c THEN None ELSE writer
  /\ conn' = [p \in Processes |-> IF conn[p] = c THEN None ELSE conn[p]]

(* Mutation: a failed commit counts as contention.                         *)
RetryAnyError(err) == err \in {"busy", "uncertain"}

(* isBusy: contention may be retried.  A failed commit is uncertain, never *)
(* busy, whatever its cause.                                               *)
Retryable(err) == err = "busy"

(* One attempt of the transaction ends with an error and is rolled back.   *)
(* WriteSerialized starts over while attempts remain; Write reports it.    *)
EndAttempt(c, err) ==
  /\ calls' = [calls EXCEPT ![c] =
       IF Serialized(c) /\ Retryable(err) /\ @.tries + 1 < MaxContentionAttempts
         THEN [@ EXCEPT !.pc = "called", !.tries = calls[c].tries + 1,
                        !.done = 0]
         ELSE [@ EXCEPT !.pc = "answered", !.answer = err]]
  /\ Release(c)

(* A client makes a call: one event, a batch with the state revision its   *)
(* caller last read, or a rebuild.                                         *)
Invoke(c, p, mode, body) ==
  /\ At(c, "new")
  /\ mode = "apply" => Len(body) = 1
  /\ calls' = [calls EXCEPT ![c] =
       [NewCall EXCEPT !.pc = "called", !.proc = p, !.mode = mode,
          !.body = IF mode = "rebuild" THEN << >> ELSE body,
          !.expected = IF mode = "batch" THEN view.watermark ELSE 0]]
  /\ UNCHANGED <<journal, view, writer, conn>>

(* BeginTx on the process's only connection.                               *)
BeginTx(c) ==
  /\ At(c, "called")
  /\ conn[calls[c].proc] = None
  /\ conn' = [conn EXCEPT ![calls[c].proc] = c]
  /\ calls' = [calls EXCEPT ![c].pc =
                 IF Serialized(c) THEN "locking" ELSE "reading"]
  /\ UNCHANGED <<journal, view, writer>>

(* The contention budget of WriteSerialized is spent while it waits for    *)
(* the connection or between two attempts.                                 *)
BudgetSpent(c) ==
  /\ At(c, "called")
  /\ Serialized(c)
  /\ conn[calls[c].proc] # None \/ calls[c].tries > 0
  /\ calls' = [calls EXCEPT ![c].pc = "answered", ![c].answer = "busy"]
  /\ UNCHANGED <<journal, view, writer, conn>>

(* loadProjection: the whole journal is replayed.                          *)
Load(c, pc) ==
  calls' = [calls EXCEPT ![c] =
    [@ EXCEPT !.pc = pc, !.base = Len(journal), !.work = Reduce(journal)]]

(* Mutation: the statement that should take the lock does not take it.     *)
ReadWithoutLock(c) ==
  /\ At(c, "locking")
  /\ writer = None
  /\ Load(c, "body")
  /\ UNCHANGED <<journal, view, writer, conn>>

(* The write lock first, then every read, so they see what they write to.  *)
acquireWriteIntent(c) ==
  /\ At(c, "locking")
  /\ writer = None
  /\ writer' = c
  /\ Load(c, "body")
  /\ UNCHANGED <<journal, view, conn>>

LockBusy(c) ==
  /\ At(c, "locking")
  /\ writer # None
  /\ EndAttempt(c, "busy")
  /\ UNCHANGED <<journal, view>>

(* Store.Write reads first, in a deferred transaction.                     *)
ReadSnapshot(c) ==
  /\ At(c, "reading")
  /\ Load(c, "upgrading")
  /\ UNCHANGED <<journal, view, writer, conn>>

(* Its first INSERT or DELETE asks for the write lock.                     *)
CanUpgrade(c) == writer = None /\ calls[c].base = Len(journal)

Upgrade(c) ==
  /\ At(c, "upgrading")
  /\ CanUpgrade(c)
  /\ writer' = c
  /\ calls' = [calls EXCEPT ![c].pc = "body"]
  /\ UNCHANGED <<journal, view, conn>>

UpgradeBusy(c) ==
  /\ At(c, "upgrading")
  /\ ~CanUpgrade(c)
  /\ EndAttempt(c, "failed")
  /\ UNCHANGED <<journal, view>>

(* Mutation: the batch does not compare the expected prefix.               *)
AnyPrefix(c) == TRUE

PrefixHolds(c) == Serialized(c) => calls[c].expected = calls[c].base

StalePrefix(c) ==
  /\ At(c, "body")
  /\ ~PrefixHolds(c)
  /\ EndAttempt(c, "stale")
  /\ UNCHANGED <<journal, view>>

NextKind(c) == calls[c].body[calls[c].done + 1]

More(c) == calls[c].done < Len(calls[c].body)

(* One event is appended and reduced within the transaction.               *)
applyMember(c) ==
  /\ At(c, "body")
  /\ PrefixHolds(c)
  /\ More(c)
  /\ Legal(calls[c].work, NextKind(c))
  /\ calls' = [calls EXCEPT ![c] =
       [@ EXCEPT !.done = calls[c].done + 1,
                 !.work = ApplyEvent(calls[c].work, NextKind(c))]]
  /\ UNCHANGED <<journal, view, writer, conn>>

(* The reducer refuses the event, or there is nothing to save yet.         *)
Unacceptable(c) ==
  IF More(c) THEN ~Legal(calls[c].work, NextKind(c))
             ELSE ~calls[c].work.initialised

RefuseBody(c) ==
  /\ At(c, "body")
  /\ Unacceptable(c)
  /\ EndAttempt(c, "refused")
  /\ UNCHANGED <<journal, view>>

(* A guard, a record check or an artifact refuses the transaction.         *)
Abort(c) ==
  /\ At(c, "body")
  /\ EndAttempt(c, "refused")
  /\ UNCHANGED <<journal, view>>

(* The caller's context ends before the commit.                            *)
Cancelled(c) ==
  /\ calls[c].pc \in {"called", "locking", "reading", "upgrading", "body"}
  /\ EndAttempt(c, "cancelled")
  /\ UNCHANGED <<journal, view>>

(* Mutation: the members applied before a refused one are committed.       *)
CompletePrefix(c) ==
  /\ At(c, "body") /\ PrefixHolds(c) /\ calls[c].work.initialised
  /\ ~More(c) \/ calls[c].done > 0

(* The transaction is complete: every member applied, projection saved.    *)
Complete(c) ==
  At(c, "body") /\ PrefixHolds(c) /\ ~More(c) /\ calls[c].work.initialised

(* Mutation: the projection is saved before the event is reduced into it.  *)
SaveBeforeApply(c) ==
  view' = [watermark |-> calls[c].base + calls[c].done,
           state |-> Reduce(journal)]

(* SaveProjection rewrites the whole view from the working projection.     *)
SaveProjection(c) ==
  view' = [watermark |-> calls[c].base + calls[c].done,
           state |-> calls[c].work]

Durable(c) ==
  /\ journal' = journal \o Tagged(c, SubSeq(calls[c].body, 1, calls[c].done))
  /\ SaveProjection(c)

Commit(c) ==
  /\ Complete(c)
  /\ Durable(c)
  /\ calls' = [calls EXCEPT ![c].pc = "committed"]
  /\ Release(c)

(* Commit reports an error although it may have taken effect.              *)
(* WriteSerialized reports the error of the caller's context instead when  *)
(* that has ended too.                                                     *)
CommitFails(c, durable, err) ==
  /\ Complete(c)
  /\ err = "cancelled" => Serialized(c)
  /\ IF durable THEN Durable(c) ELSE UNCHANGED <<journal, view>>
  /\ EndAttempt(c, err)

Answer(c) ==
  /\ At(c, "committed")
  /\ calls' = [calls EXCEPT ![c].pc = "answered", ![c].answer = "ok"]
  /\ UNCHANGED <<journal, view, writer, conn>>

InFlight(p) ==
  {c \in Calls : calls[c].proc = p /\ calls[c].pc \notin {"new", "answered"}}

(* The process dies and is started again: SQLite rolls its transaction     *)
(* back and its callers hear nothing.                                      *)
Crash(p) ==
  /\ InFlight(p) # {}
  /\ calls' = [c \in Calls |->
       IF c \in InFlight(p)
         THEN [calls[c] EXCEPT !.pc = "answered", !.answer = "lost"]
         ELSE calls[c]]
  /\ conn' = [conn EXCEPT ![p] = None]
  /\ writer' = IF writer \in InFlight(p) THEN None ELSE writer
  /\ UNCHANGED <<journal, view>>

-----------------------------------------------------------------------------

(* The steps a call takes by itself once it is made.                       *)
Step(c) ==
  \/ BeginTx(c)
  \/ BudgetSpent(c)
  \/ acquireWriteIntent(c)
  \/ LockBusy(c)
  \/ ReadSnapshot(c)
  \/ Upgrade(c)
  \/ UpgradeBusy(c)
  \/ StalePrefix(c)
  \/ applyMember(c)
  \/ RefuseBody(c)
  \/ Commit(c)
  \/ Answer(c)

Terminating ==
  /\ \A c \in Calls : At(c, "answered")
  /\ UNCHANGED vars

Next ==
  \/ \E c \in Calls, p \in Processes, mode \in Modes, body \in Bodies :
       Invoke(c, p, mode, body)
  \/ \E c \in Calls : Step(c) \/ Abort(c) \/ Cancelled(c)
  \/ \E c \in Calls, durable \in BOOLEAN, err \in {"uncertain", "cancelled"} :
       CommitFails(c, durable, err)
  \/ \E p \in Processes : Crash(p)
  \/ Terminating

(* The goroutine of a call keeps running while its process lives: the      *)
(* busy timeouts and the contention budget bound each of its waits.        *)
Fairness == \A c \in Calls : WF_vars(Step(c))

Spec == Init /\ [][Next]_vars /\ Fairness

-----------------------------------------------------------------------------
(* Properties.                                                             *)

CallType ==
  [pc : {"new", "called", "locking", "reading", "upgrading", "body",
         "committed", "answered"},
   proc : Processes \cup {None},
   mode : Modes,
   body : Bodies \cup {<< >>},
   expected : Nat,
   base : Nat,
   work : ProjectionState,
   done : Nat,
   tries : 0 .. (MaxContentionAttempts - 1),
   answer : Answers]

(* Types, with the number of transaction attempts within its bound         *)
(* (WriteSerialized).                                                      *)
TypeOK ==
  /\ journal \in Seq([call : Calls, kind : Kinds])
  /\ view \in [watermark : Nat, state : ProjectionState]
  /\ writer \in Calls \cup {None}
  /\ conn \in [Processes -> Calls \cup {None}]
  /\ calls \in [Calls -> CallType]

(* The materialised view carries nothing the journal does not (DCI-053,    *)
(* SaveProjection): it is the fold of the committed journal in every       *)
(* state, between crashes, lost commits and rebuilds.                      *)
ProjectionIsReduction == view = Row(journal)

Rows(c) == {i \in DOMAIN journal : journal[i].call = c}

(* The whole body of c is in the journal, once and without a gap.          *)
Landed(c) ==
  \E k \in 0 .. (Len(journal) - Len(calls[c].body)) :
    /\ Rows(c) = (k + 1) .. (k + Len(calls[c].body))
    /\ \A i \in DOMAIN calls[c].body : journal[k + i].kind = calls[c].body[i]

(* A call lands whole or not at all, never twice, and its answer tells the *)
(* caller which (ApplyBatch: "commits every command of the batch, or       *)
(* none"; WriteSerialized: never retried "after a commit whose outcome is  *)
(* uncertain").  Only an uncertain, cancelled or lost answer leaves it     *)
(* open.                                                                   *)
AnswersAreTrue ==
  \A c \in Calls :
    /\ Rows(c) = {} \/ Landed(c)
    /\ calls[c].answer = "ok" => Landed(c)
    /\ calls[c].answer \in {"busy", "stale", "refused", "failed"} => Rows(c) = {}

(* A batch lands directly after the state revision its caller had read     *)
(* (BatchCommand.ExpectedStateRevision), whatever waited or retried in     *)
(* between.                                                                *)
BatchFollowsPrefix ==
  \A c \in Calls : Serialized(c) =>
    \A i \in Rows(c) : i > calls[c].expected
                      /\ i <= calls[c].expected + Len(calls[c].body)

(* "every read fn performs observes the state it will write against"       *)
(* (WriteSerialized, and Store.Write through SQLite's snapshot check): no  *)
(* two transactions write at once, and the journal a writer reduced is     *)
(* still the journal when it commits.                                      *)
ReadsAreCurrent ==
  \A c \in Calls : At(c, "body") =>
    /\ writer = c
    /\ calls[c].base = Len(journal)
    /\ calls[c].work =
         Reduce(journal \o Tagged(c, SubSeq(calls[c].body, 1, calls[c].done)))

(* The write path implements the abstract journal, step for step.          *)
Store == INSTANCE Journal WITH log <- journal, summary <- view

ImplementsJournal == Store!JournalSpec

(* Every call is answered: contention, a waiting connection and bounded    *)
(* retries never leave a caller hanging (ContentionBudget,                 *)
(* MaxContentionAttempts, busy_timeout).                                   *)
EveryCallAnswered ==
  \A c \in Calls : At(c, "called") ~> At(c, "answered")

=============================================================================
