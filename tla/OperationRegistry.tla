-------------------------- MODULE OperationRegistry --------------------------
(***************************************************************************)
(* The process-scoped operations behind delegate, validate and review: the *)
(* registry starts a goroutine per operation under a deadline, keeps the   *)
(* most recent completed ones for task_status, and is closed before the    *)
(* server releases the project lock.  Sequence numbers start over in each  *)
(* process; a handle also names the registry's random instance id.         *)
(***************************************************************************)
EXTENDS Integers, Sequences, FiniteSets

CONSTANTS
  Clients,                 \* callers that hold handles
  MaxStarts,               \* bound: operations started by one process
  MaxTotalStarts,          \* bound: operations started by all processes
  MaxInstances,            \* bound: processes, one after the other
  MaxActiveOperations,
  MaxCompletedOperations

ASSUME RegistryAssumption ==
  /\ MaxStarts \in Nat \ {0}
  /\ MaxInstances \in Nat \ {0}
  /\ MaxActiveOperations \in Nat
  /\ MaxCompletedOperations \in Nat

VARIABLES
  instance,   \* the instance id of the current process
  phase,      \* "serving", "closing" (Close waits) or "released" (the lock)
  seq,        \* operations started by this instance
  ops,        \* the operations of this instance
  completed,  \* ids of the kept completed operations, oldest first
  active,     \* the counter the limit is checked against
  clients,    \* per client, its call and the last answer it got
  bodies      \* per handle, what became of the operation's function

vars == <<instance, phase, seq, ops, completed, active, clients, bodies>>

Ids == 1 .. MaxStarts
Instances == 1 .. MaxInstances
Handles == Instances \X Ids

(* kept: in the map of the registry; ended: its context has ended.         *)
NoOp == [pc |-> "none", status |-> "absent", kept |-> FALSE, ended |-> FALSE,
         err |-> "none", ctxErr |-> FALSE]

Idle(h, answer) == [pc |-> "idle", handle |-> h, answer |-> answer]

Init ==
  /\ instance = 1
  /\ phase = "serving"
  /\ seq = 0
  /\ ops = [i \in Ids |-> NoOp]
  /\ completed = << >>
  /\ active = 0
  /\ clients = [c \in Clients |-> Idle(<<1, 1>>, "none")]
  /\ bodies = [h \in Handles |-> "unissued"]

Issued(h) == bodies[h] # "unissued"

InFlight(i) == ops[i].pc \in {"body", "returned", "finishing"}

-----------------------------------------------------------------------------

(* Mutation: one operation more than the limit.                            *)
AdmitsOneMore == phase = "serving" /\ active <= MaxActiveOperations

Admits == phase = "serving" /\ active < MaxActiveOperations

(* A full or closed registry refuses and changes nothing.                  *)
Start ==
  /\ Admits
  /\ seq < MaxStarts
  /\ Cardinality({h \in Handles : Issued(h)}) < MaxTotalStarts
  /\ seq' = seq + 1
  /\ ops' = [ops EXCEPT ![seq + 1] =
       [NoOp EXCEPT !.pc = "body", !.status = "running", !.kept = TRUE]]
  /\ active' = active + 1
  /\ bodies' = [bodies EXCEPT ![<<instance, seq + 1>>] = "running"]
  /\ UNCHANGED <<instance, phase, completed, clients>>

(* Mutation: the context has no deadline.                                  *)
NoDeadline(i) == FALSE

DeadlinePasses(i) == ops[i].pc \in {"body", "returned"} /\ ~ops[i].ended

ContextEnds(i) ==
  /\ DeadlinePasses(i)
  /\ ops' = [ops EXCEPT ![i].ended = TRUE]
  /\ UNCHANGED <<instance, phase, seq, completed, active, clients, bodies>>

(* The operation's function returns, with or without an error.             *)
Return(i, err) ==
  /\ ops[i].pc = "body"
  /\ ops' = [ops EXCEPT ![i].pc = "returned", ![i].err = err]
  /\ bodies' = [bodies EXCEPT ![<<instance, i>>] = err]
  /\ UNCHANGED <<instance, phase, seq, completed, active, clients>>

(* The context's error is read before cancel sets it.                      *)
ReadContext(i) ==
  /\ ops[i].pc = "returned"
  /\ ops' = [ops EXCEPT ![i].pc = "finishing", ![i].ctxErr = ops[i].ended,
                        ![i].ended = TRUE]
  /\ UNCHANGED <<instance, phase, seq, completed, active, clients, bodies>>

(* Work that was done is reported as done, whatever raced with it.         *)
Outcome(op) ==
  IF op.err = "nil" THEN "completed"
  ELSE IF op.ctxErr \/ phase # "serving" THEN "cancelled" ELSE "failed"

(* Mutation: the oldest operation is evicted, completed or not.            *)
EvictedOldest(queue) ==
  IF Len(queue) > MaxCompletedOperations
    THEN {CHOOSE i \in Ids : ops[i].kept /\ \A j \in 1 .. (i - 1) : ~ops[j].kept}
    ELSE {}

(* Completed operations beyond the limit, oldest first; each finish adds   *)
(* one, so at most one is evicted.                                         *)
Evicted(queue) ==
  IF Len(queue) > MaxCompletedOperations THEN {Head(queue)} ELSE {}

Finish(i) ==
  /\ ops[i].pc = "finishing"
  /\ LET queue == Append(completed, i)
     IN  /\ completed' = IF Len(queue) > MaxCompletedOperations
                           THEN Tail(queue) ELSE queue
         /\ ops' = [j \in Ids |->
              [ops[j] EXCEPT
                 !.pc = IF j = i THEN "done" ELSE @,
                 !.status = IF j = i THEN Outcome(ops[i]) ELSE @,
                 !.kept = @ /\ j \notin Evicted(queue)]]
  /\ active' = active - 1
  /\ UNCHANGED <<instance, phase, seq, clients, bodies>>

-----------------------------------------------------------------------------
(* Handles.                                                                *)

(* Mutation: the instance of the handle is not compared.                   *)
FoundAnyInstance(h) == ops[h[2]].kept

Found(h) == h[1] = instance /\ ops[h[2]].kept

(* Lookup, through task_status.  A handle that is not live is              *)
(* OPERATION_LOST.                                                         *)
Lookup(c, h) ==
  /\ phase # "released" /\ clients[c].pc = "idle" /\ Issued(h)
  /\ clients' = [clients EXCEPT ![c] =
       Idle(h, IF Found(h) THEN ops[h[2]].status ELSE "lost")]
  /\ UNCHANGED <<instance, phase, seq, ops, completed, active, bodies>>

(* Wait holds on to the operation it found, evicted later or not.  For an  *)
(* unknown handle it returns what the caller passed in.                    *)
Wait(c, h) ==
  /\ phase # "released" /\ clients[c].pc = "idle" /\ Issued(h)
  /\ clients' = [clients EXCEPT ![c] =
       IF Found(h) THEN [Idle(h, "none") EXCEPT !.pc = "waiting"]
                   ELSE Idle(h, "running")]
  /\ UNCHANGED <<instance, phase, seq, ops, completed, active, bodies>>

(* Done, the yield threshold or the caller's context: each may be first.   *)
WaitReturns(c) ==
  /\ clients[c].pc = "waiting"
  /\ clients' = [clients EXCEPT ![c] =
       Idle(@.handle, ops[@.handle[2]].status)]
  /\ UNCHANGED <<instance, phase, seq, ops, completed, active, bodies>>

-----------------------------------------------------------------------------
(* Shutdown, crash and restart of the server.                              *)

Close ==
  /\ phase = "serving"
  /\ phase' = "closing"
  /\ ops' = [i \in Ids |->
       IF ops[i].status = "running" THEN [ops[i] EXCEPT !.ended = TRUE]
                                    ELSE ops[i]]
  /\ UNCHANGED <<instance, seq, completed, active, clients, bodies>>

(* Mutation: Close does not wait for the goroutines.                       *)
CloseAtOnce == phase = "closing"

AllDone == phase = "closing" /\ \A i \in Ids : ~InFlight(i)

(* Close returns, and the project lock is released after it.               *)
Release ==
  /\ AllDone
  /\ phase' = "released"
  /\ UNCHANGED <<instance, seq, ops, completed, active, clients, bodies>>

(* The calls in a process end with it.                                     *)
HangUp ==
  clients' = [c \in Clients |->
    IF clients[c].pc = "waiting" THEN Idle(clients[c].handle, "none")
                                 ELSE clients[c]]

Fresh ==
  /\ seq' = 0
  /\ ops' = [i \in Ids |-> NoOp]
  /\ completed' = << >>
  /\ active' = 0
  /\ HangUp

Crash ==
  /\ phase # "released"
  /\ phase' = "released"
  /\ Fresh
  /\ UNCHANGED <<instance, bodies>>

(* NewOperationRegistry in the next process.                               *)
Restart ==
  /\ phase = "released"
  /\ instance < MaxInstances
  /\ instance' = instance + 1
  /\ phase' = "serving"
  /\ Fresh
  /\ UNCHANGED bodies

Terminating ==
  /\ phase = "released" /\ instance = MaxInstances
  /\ \A c \in Clients : clients[c].pc = "idle"
  /\ UNCHANGED vars

Next ==
  \/ Start \/ Close \/ Release \/ Crash \/ Restart
  \/ \E i \in Ids :
       \/ ContextEnds(i) \/ ReadContext(i) \/ Finish(i)
       \/ \E err \in {"nil", "error"} : Return(i, err)
  \/ \E c \in Clients :
       \/ WaitReturns(c)
       \/ \E h \in Handles : Lookup(c, h) \/ Wait(c, h)
  \/ Terminating

(* A function gives up some time after its context has ended.              *)
GiveUp(i) == ops[i].ended /\ \E err \in {"nil", "error"} : Return(i, err)

(* Deadlines pass, functions heed their context, goroutines run.           *)
Fairness ==
  \A i \in Ids : WF_vars(ContextEnds(i)) /\ WF_vars(GiveUp(i))
              /\ WF_vars(ReadContext(i)) /\ WF_vars(Finish(i))

Spec == Init /\ [][Next]_vars /\ Fairness

-----------------------------------------------------------------------------
(* Properties.                                                             *)

Ended == {"completed", "cancelled", "failed"}

OpType ==
  [pc : {"none", "body", "returned", "finishing", "done"},
   status : {"absent", "running"} \cup Ended,
   kept : BOOLEAN, ended : BOOLEAN, err : {"none", "nil", "error"},
   ctxErr : BOOLEAN]

(* Types, with the limits on active and completed operations.              *)
TypeOK ==
  /\ instance \in Instances
  /\ phase \in {"serving", "closing", "released"}
  /\ seq \in 0 .. MaxStarts
  /\ ops \in [Ids -> OpType]
  /\ completed \in Seq(Ids) /\ Len(completed) <= MaxCompletedOperations
  /\ active \in 0 .. MaxActiveOperations
  /\ clients \in [Clients -> [pc : {"idle", "waiting"}, handle : Handles,
       answer : {"none", "lost", "running"} \cup Ended]]
  /\ bodies \in [Handles -> {"unissued", "running", "nil", "error"}]

(* "a full registry denies new work and never evicts an active operation"  *)
(* (Start, finish): every operation in flight can be looked up, the        *)
(* counter is their number, and what is kept beyond them is the queue.     *)
ActiveIsKept ==
  /\ active = Cardinality({i \in Ids : InFlight(i)})
  /\ \A i \in Ids : InFlight(i) => ops[i].kept
  /\ {i \in Ids : ops[i].kept /\ ~InFlight(i)} =
       {completed[n] : n \in DOMAIN completed}

(* An answer is about the caller's own operation, across restarts that     *)
(* reuse its number, evictions and cancellations (Lookup, Wait, finish):   *)
(* done work is completed, other work never is, and a lost operation no    *)
(* longer runs.                                                            *)
AnswersAreOwn ==
  \A c \in Clients :
    LET h == clients[c].handle
    IN  /\ clients[c].answer \in Ended =>
             (clients[c].answer = "completed" <=> bodies[h] = "nil")
        /\ clients[c].answer \in Ended => bodies[h] # "running"
        /\ clients[c].answer = "lost" => ~(h[1] = instance /\ InFlight(h[2]))

(* "Stop in-flight delegation before releasing the project lock"           *)
(* (run, mcpadapter): once Close has begun every operation in flight has   *)
(* been told to stop and none is added, and the lock is free only when     *)
(* none is left.                                                           *)
ShutdownIsQuiet ==
  \A i \in Ids : InFlight(i) =>
    phase # "released" /\ (phase = "closing" => ops[i].ended)

(* Every operation ends: a deadline, Close or the death of its process     *)
(* ends it at the latest (Start).                                          *)
EveryOperationEnds ==
  \A i \in Ids : InFlight(i) ~> ~InFlight(i)

=============================================================================
