--------------------------- MODULE RegistryProofs ---------------------------
(***************************************************************************)
(* Proofs about the operation registry, for every limit and any number of  *)
(* processes, operations and clients.                                      *)
(***************************************************************************)
EXTENDS OperationRegistry, FiniteSetTheorems, SequenceTheorems, TLAPS

-----------------------------------------------------------------------------
(* The inductive invariant.                                                *)

Flying == {i \in Ids : InFlight(i)}

(* What the goroutine's place says of the operation's record.              *)
OpShape ==
  \A i \in Ids :
    /\ InFlight(i) => ops[i].status = "running" /\ ops[i].kept
    /\ ops[i].pc = "done" => ops[i].status \in Ended
    /\ ops[i].pc = "none" => ~ops[i].kept
    /\ i > seq => ops[i].pc = "none"

(* The queue holds ended operations, each once, and exactly the kept ones. *)
QueueShape ==
  /\ \A n \in DOMAIN completed : ops[completed[n]].pc = "done"
  /\ \A m, n \in DOMAIN completed : completed[m] = completed[n] => m = n
  /\ \A i \in Ids : ops[i].pc = "done" /\ ops[i].kept =>
       \E n \in DOMAIN completed : completed[n] = i
  /\ \A n \in DOMAIN completed : ops[completed[n]].kept

(* The function's fate agrees with the record, and no handle of a number   *)
(* or a process to come has been issued.                                   *)
BodyShape ==
  /\ \A i \in Ids :
       /\ ops[i].pc = "body" => bodies[<<instance, i>>] = "running"
       /\ ops[i].pc \in {"returned", "finishing"} =>
            ops[i].err \in {"nil", "error"} /\ bodies[<<instance, i>>] = ops[i].err
       /\ ops[i].pc = "done" =>
            /\ bodies[<<instance, i>>] \in {"nil", "error"}
            /\ ops[i].status = "completed" <=> bodies[<<instance, i>>] = "nil"
       /\ phase # "released" /\ i > seq => bodies[<<instance, i>>] = "unissued"
  /\ \A h \in Handles : h[1] > instance => ~Issued(h)

(* A client waits for an operation of this process, and has answers only   *)
(* about handles that were issued.                                         *)
ClientShape ==
  \A c \in Clients :
    /\ clients[c].pc = "waiting" =>
         clients[c].handle[1] = instance /\ ops[clients[c].handle[2]].pc # "none"
    /\ clients[c].answer # "none" => Issued(clients[c].handle)

RegistryInv ==
  /\ TypeOK
  /\ active = Cardinality(Flying)
  /\ OpShape
  /\ QueueShape
  /\ BodyShape
  /\ ClientShape
  /\ ShutdownIsQuiet
  /\ AnswersAreOwn

-----------------------------------------------------------------------------
(* Facts used throughout.                                                  *)

(* The initial state is typed.                                             *)
LEMMA InitTyped == Init => TypeOK
<1> SUFFICES ASSUME Init PROVE TypeOK
  OBVIOUS
<1>1. 1 \in Ids /\ 1 \in Instances
  BY RegistryAssumption DEF Ids, Instances
<1>2. <<1, 1>> \in Handles
  BY <1>1 DEF Handles
<1>3. NoOp \in OpType
  BY DEF NoOp, OpType
<1>4. ops \in [Ids -> OpType]
  BY <1>3 DEF Init
<1>5. clients \in [Clients -> [pc : {"idle", "waiting"}, handle : Handles,
         answer : {"none", "lost", "running"} \cup Ended]]
  BY <1>2 DEF Init, Idle
<1>6. completed \in Seq(Ids) /\ Len(completed) <= MaxCompletedOperations
  BY RegistryAssumption DEF Init
<1>7. active \in 0 .. MaxActiveOperations /\ seq \in 0 .. MaxStarts
  BY RegistryAssumption DEF Init
<1>8. bodies \in [Handles -> {"unissued", "running", "nil", "error"}]
  BY DEF Init
<1> QED BY <1>1, <1>4, <1>5, <1>6, <1>7, <1>8 DEF TypeOK, Init

(* The initial state has the invariant.                                    *)
LEMMA InitInv == Init => RegistryInv
<1> SUFFICES ASSUME Init PROVE RegistryInv
  OBVIOUS
<1>1. TypeOK
  BY InitTyped
<1>2. \A i \in Ids : ops[i] = NoOp /\ ~InFlight(i)
  BY DEF Init, InFlight, NoOp
<1>3. active = Cardinality(Flying)
  <2>1. Flying = {}
    BY <1>2 DEF Flying
  <2> QED BY <2>1, FS_EmptySet DEF Init
<1>4. OpShape /\ ShutdownIsQuiet
  BY <1>2 DEF OpShape, ShutdownIsQuiet, NoOp
<1>5. QueueShape
  BY <1>2 DEF QueueShape, NoOp, Init
<1>6. \A h \in Handles : bodies[h] = "unissued"
  BY DEF Init
<1>7. \A i \in Ids : <<instance, i>> \in Handles
  BY <1>1 DEF TypeOK, Handles
<1>8. BodyShape
  BY <1>2, <1>6, <1>7 DEF BodyShape, NoOp, Issued
<1>9. \A c \in Clients : clients[c].pc = "idle" /\ clients[c].answer = "none"
  BY DEF Init, Idle
<1>10. ClientShape /\ AnswersAreOwn
  BY <1>9 DEF ClientShape, AnswersAreOwn, Ended
<1> QED BY <1>1, <1>3, <1>4, <1>5, <1>8, <1>10 DEF RegistryInv

(* The operations in flight are finitely many.                             *)
LEMMA FlyingFinite == IsFiniteSet(Flying) /\ Cardinality(Flying) \in Nat
<1>1. IsFiniteSet(Ids)
  BY FS_Interval, RegistryAssumption DEF Ids
<1>2. Flying \in SUBSET Ids
  BY DEF Flying
<1> QED BY <1>1, <1>2, FS_Subset, FS_CardinalityType

(* The handles of the current process are handles.                         *)
LEMMA OwnHandle ==
  ASSUME TypeOK, NEW i \in Ids
  PROVE  <<instance, i>> \in Handles
  BY DEF TypeOK, Handles

-----------------------------------------------------------------------------
(* Start.                                                                  *)

(* Start keeps the invariant.                                              *)
LEMMA StartStep ==
  ASSUME RegistryInv, Start
  PROVE  RegistryInv'
<1> DEFINE k == seq + 1
           new == [NoOp EXCEPT !.pc = "body", !.status = "running", !.kept = TRUE]
<1>0. TypeOK /\ OpShape /\ QueueShape /\ BodyShape /\ ClientShape
      /\ ShutdownIsQuiet /\ AnswersAreOwn /\ active = Cardinality(Flying)
  BY DEF RegistryInv
<1>1. /\ k \in Ids /\ k > seq /\ seq' = k /\ seq \in Nat
      /\ phase = "serving" /\ active < MaxActiveOperations
      /\ UNCHANGED <<instance, phase, completed, clients>>
  BY <1>0, RegistryAssumption DEF Start, Admits, TypeOK, Ids
<1>2. /\ new \in OpType
      /\ new.pc = "body" /\ new.status = "running" /\ new.kept = TRUE
  BY DEF NoOp, OpType
<1>3. ops' = [ops EXCEPT ![k] = new]
  BY DEF Start
<1> HIDE DEF k, new
<1>4. /\ ops' \in [Ids -> OpType]
      /\ ops'[k] = new
      /\ \A j \in Ids : j # k => ops'[j] = ops[j]
  BY <1>0, <1>1, <1>2, <1>3 DEF TypeOK
<1>5. ops[k].pc = "none" /\ ~ops[k].kept
  BY <1>0, <1>1 DEF OpShape
<1>6. <<instance, k>> \in Handles
  BY <1>0, <1>1, OwnHandle
<1>7. bodies' = [bodies EXCEPT ![<<instance, k>>] = "running"]
  BY DEF Start, k
<1>8. /\ bodies' \in [Handles -> {"unissued", "running", "nil", "error"}]
      /\ bodies'[<<instance, k>>] = "running"
      /\ \A h \in Handles : h # <<instance, k>> => bodies'[h] = bodies[h]
  BY <1>0, <1>6, <1>7 DEF TypeOK
<1>9. ~Issued(<<instance, k>>)
  BY <1>0, <1>1 DEF BodyShape, Issued
<1>10. active' = active + 1
  BY DEF Start
<1>11. TypeOK'
  BY <1>0, <1>1, <1>4, <1>8, <1>10, RegistryAssumption DEF TypeOK, Ids
<1>12. \A j \in Ids : InFlight(j)' <=> InFlight(j) \/ j = k
  BY <1>1, <1>2, <1>4 DEF InFlight
<1>13. active' = Cardinality(Flying)'
  <2>1. Flying' = Flying \cup {k} /\ k \notin Flying
    BY <1>1, <1>5, <1>12 DEF Flying, InFlight
  <2> QED BY <2>1, <1>0, <1>10, FlyingFinite, FS_AddElement
<1>14. OpShape'
  <2> SUFFICES ASSUME NEW i \in Ids
               PROVE  /\ InFlight(i)' => ops'[i].status = "running" /\ ops'[i].kept
                      /\ ops'[i].pc = "done" => ops'[i].status \in Ended
                      /\ ops'[i].pc = "none" => ~ops'[i].kept
                      /\ i > seq' => ops'[i].pc = "none"
    BY DEF OpShape
  <2>1. CASE i = k
    BY <2>1, <1>1, <1>2, <1>4, k \in Int DEF Ids
  <2>2. CASE i # k
    <3>1. i > seq' => i > seq
      BY <1>1 DEF Ids
    <3> QED BY <2>2, <3>1, <1>0, <1>4, <1>12 DEF OpShape
  <2> QED BY <2>1, <2>2
<1>15. QueueShape'
  <2>1. \A n \in DOMAIN completed : completed[n] \in Ids /\ completed[n] # k
    BY <1>0, <1>5, LenProperties DEF QueueShape, TypeOK
  <2> QED BY <2>1, <1>0, <1>1, <1>2, <1>4 DEF QueueShape
<1>16. BodyShape'
  <2>1. ASSUME NEW i \in Ids
        PROVE  /\ ops'[i].pc = "body" => bodies'[<<instance, i>>] = "running"
               /\ ops'[i].pc \in {"returned", "finishing"} =>
                    /\ ops'[i].err \in {"nil", "error"}
                    /\ bodies'[<<instance, i>>] = ops'[i].err
               /\ ops'[i].pc = "done" =>
                    /\ bodies'[<<instance, i>>] \in {"nil", "error"}
                    /\ ops'[i].status = "completed" <=> bodies'[<<instance, i>>] = "nil"
               /\ i > seq' => bodies'[<<instance, i>>] = "unissued"
    <3>1. CASE i = k
      BY <3>1, <1>1, <1>2, <1>4, <1>8 DEF Ids
    <3>2. CASE i # k
      <4>1. (i > seq' => i > seq) /\ <<instance, i>> \in Handles
            /\ <<instance, i>> # <<instance, k>>
        BY <3>2, <1>0, <1>1, OwnHandle DEF Ids
      <4> QED BY <3>2, <4>1, <1>0, <1>1, <1>4, <1>8 DEF BodyShape
    <3> QED BY <3>1, <3>2
  <2>2. ASSUME NEW h \in Handles, h[1] > instance
        PROVE  bodies'[h] = "unissued"
    <3>1. h # <<instance, k>>
      BY <2>2, <1>0 DEF TypeOK, Instances
    <3> QED BY <2>2, <3>1, <1>0, <1>8 DEF BodyShape, Issued
  <2> QED BY <2>1, <2>2, <1>1 DEF BodyShape, Issued
<1>17. \A c \in Clients : clients[c].handle \in Handles /\ clients[c].handle[2] \in Ids
  BY <1>0 DEF TypeOK, Handles
<1>18. \A c \in Clients : clients[c].answer # "none" =>
         /\ Issued(clients[c].handle) /\ clients[c].handle # <<instance, k>>
         /\ bodies'[clients[c].handle] = bodies[clients[c].handle]
  BY <1>0, <1>8, <1>9, <1>17 DEF ClientShape
<1>19. ClientShape'
  <2>1. \A c \in Clients : clients[c].pc = "waiting" =>
          clients[c].handle[1] = instance /\ ops'[clients[c].handle[2]].pc # "none"
    BY <1>0, <1>2, <1>4, <1>17 DEF ClientShape
  <2> QED BY <2>1, <1>1, <1>18 DEF ClientShape, Issued
<1>20. ShutdownIsQuiet'
  BY <1>1 DEF ShutdownIsQuiet
<1>21. AnswersAreOwn'
  <2> SUFFICES ASSUME NEW c \in Clients, clients[c].answer # "none"
               PROVE  LET h == clients[c].handle
                      IN  /\ clients[c].answer \in Ended =>
                               (clients[c].answer = "completed" <=> bodies'[h] = "nil")
                          /\ clients[c].answer \in Ended => bodies'[h] # "running"
                          /\ clients[c].answer = "lost" =>
                               ~(h[1] = instance /\ InFlight(h[2])')
    BY <1>1 DEF AnswersAreOwn, Ended
  <2>1. clients[c].handle[1] = instance => clients[c].handle[2] # k
    BY <1>17, <1>18 DEF Handles
  <2>2. ASSUME clients[c].answer = "lost", clients[c].handle[1] = instance
        PROVE  ~InFlight(clients[c].handle[2])'
    <3>1. ~InFlight(clients[c].handle[2])
      BY <2>2, <1>0 DEF AnswersAreOwn
    <3> QED BY <2>1, <2>2, <3>1, <1>1, <1>4, <1>17 DEF InFlight
  <2> QED BY <2>2, <1>0, <1>18 DEF AnswersAreOwn
<1> QED BY <1>11, <1>13, <1>14, <1>15, <1>16, <1>19, <1>20, <1>21 DEF RegistryInv

-----------------------------------------------------------------------------
(* An operation in flight goes on: its context ends, its function returns, *)
(* or the context is read.                                                 *)

(* So does a step of a worker whose operation stays in flight.             *)
LEMMA ProgressStep ==
  ASSUME RegistryInv, NEW i \in Ids, NEW r \in OpType, InFlight(i),
         ops' = [ops EXCEPT ![i] = r],
         r.pc \in {"body", "returned", "finishing"},
         r.status = ops[i].status, r.kept = ops[i].kept,
         ops[i].ended => r.ended,
         NEW b \in {"running", "nil", "error"},
         bodies' = [bodies EXCEPT ![<<instance, i>>] = b],
         IF r.pc = "body" THEN b = "running" ELSE r.err = b /\ b # "running",
         bodies[<<instance, i>>] \in {"running", b},
         UNCHANGED <<instance, phase, seq, completed, active, clients>>
  PROVE  RegistryInv'
<1>0. TypeOK /\ OpShape /\ QueueShape /\ BodyShape /\ ClientShape
      /\ ShutdownIsQuiet /\ AnswersAreOwn /\ active = Cardinality(Flying)
  BY DEF RegistryInv
<1>1. UNCHANGED <<instance, phase, seq, completed, active, clients>>
  OBVIOUS
<1>2. /\ ops' \in [Ids -> OpType]
      /\ ops'[i] = r
      /\ \A j \in Ids : j # i => ops'[j] = ops[j]
  BY <1>0 DEF TypeOK
<1>3. /\ bodies' \in [Handles -> {"unissued", "running", "nil", "error"}]
      /\ bodies'[<<instance, i>>] = b
      /\ \A h \in Handles : h # <<instance, i>> => bodies'[h] = bodies[h]
  BY <1>0, OwnHandle DEF TypeOK
<1>4. TypeOK'
  BY <1>0, <1>1, <1>2, <1>3 DEF TypeOK
<1>5. \A j \in Ids : InFlight(j)' <=> InFlight(j)
  BY <1>2 DEF InFlight
<1>6. Flying' = Flying
  BY <1>5 DEF Flying
<1>7. r.status = "running" /\ r.kept /\ ~(i > seq)
  BY <1>0 DEF OpShape, InFlight
<1>8. OpShape'
  BY <1>0, <1>1, <1>2, <1>5, <1>7 DEF OpShape
<1>9. QueueShape'
  <2>1. \A n \in DOMAIN completed : completed[n] \in Ids /\ completed[n] # i
    BY <1>0, LenProperties DEF QueueShape, TypeOK, InFlight
  <2> QED BY <2>1, <1>0, <1>1, <1>2 DEF QueueShape
<1>10. BodyShape'
  <2>1. ASSUME NEW j \in Ids
        PROVE  /\ ops'[j].pc = "body" => bodies'[<<instance, j>>] = "running"
               /\ ops'[j].pc \in {"returned", "finishing"} =>
                    /\ ops'[j].err \in {"nil", "error"}
                    /\ bodies'[<<instance, j>>] = ops'[j].err
               /\ ops'[j].pc = "done" =>
                    /\ bodies'[<<instance, j>>] \in {"nil", "error"}
                    /\ ops'[j].status = "completed" <=> bodies'[<<instance, j>>] = "nil"
               /\ phase # "released" /\ j > seq =>
                    bodies'[<<instance, j>>] = "unissued"
    <3>1. CASE j = i
      BY <3>1, <1>2, <1>3, <1>7
    <3>2. CASE j # i
      <4>1. <<instance, j>> \in Handles /\ <<instance, j>> # <<instance, i>>
        BY <3>2, <1>0, OwnHandle
      <4> QED BY <3>2, <4>1, <1>0, <1>2, <1>3 DEF BodyShape
    <3> QED BY <3>1, <3>2
  <2>2. ASSUME NEW h \in Handles, h[1] > instance
        PROVE  bodies'[h] = "unissued"
    <3>1. h # <<instance, i>>
      BY <2>2, <1>0 DEF TypeOK, Instances
    <3> QED BY <2>2, <3>1, <1>0, <1>3 DEF BodyShape, Issued
  <2> QED BY <2>1, <2>2, <1>1 DEF BodyShape, Issued
<1>11. \A c \in Clients : clients[c].handle \in Handles /\ clients[c].handle[2] \in Ids
  BY <1>0 DEF TypeOK, Handles
<1>12. ClientShape'
  <2>1. \A c \in Clients : clients[c].pc = "waiting" =>
          clients[c].handle[1] = instance /\ ops'[clients[c].handle[2]].pc # "none"
    BY <1>0, <1>2, <1>11 DEF ClientShape
  <2>2. \A c \in Clients : clients[c].answer # "none" =>
          bodies'[clients[c].handle] # "unissued"
    BY <1>0, <1>3, <1>11 DEF ClientShape, Issued
  <2> QED BY <2>1, <2>2, <1>1 DEF ClientShape, Issued
<1>13. ShutdownIsQuiet'
  BY <1>0, <1>1, <1>2, <1>5 DEF ShutdownIsQuiet
<1>14. AnswersAreOwn'
  <2>1. ASSUME NEW c \in Clients, clients[c].answer \in Ended
        PROVE  /\ bodies'[clients[c].handle] # "running"
               /\ clients[c].answer = "completed" <=> bodies'[clients[c].handle] = "nil"
    <3>1. bodies'[clients[c].handle] = bodies[clients[c].handle]
      BY <2>1, <1>0, <1>3, <1>11 DEF AnswersAreOwn
    <3> QED BY <2>1, <3>1, <1>0 DEF AnswersAreOwn
  <2>2. ASSUME NEW c \in Clients, clients[c].answer = "lost",
               clients[c].handle[1] = instance
        PROVE  ~InFlight(clients[c].handle[2])'
    <3>1. ~InFlight(clients[c].handle[2])
      BY <2>2, <1>0 DEF AnswersAreOwn
    <3> QED BY <3>1, <1>1, <1>5, <1>11, <1>2 DEF InFlight
  <2> QED BY <2>1, <2>2, <1>1 DEF AnswersAreOwn
<1> QED BY <1>0, <1>1, <1>4, <1>6, <1>8, <1>9, <1>10, <1>12, <1>13, <1>14
        DEF RegistryInv

(* The end of a context keeps it.                                          *)
LEMMA ContextEndsStep ==
  ASSUME RegistryInv, NEW i \in Ids, ContextEnds(i)
  PROVE  RegistryInv'
<1> DEFINE r == [ops[i] EXCEPT !.ended = TRUE]
           b == bodies[<<instance, i>>]
<1>1. TypeOK /\ BodyShape /\ <<instance, i>> \in Handles
  BY OwnHandle DEF RegistryInv
<1>2. ops[i] \in OpType /\ ops[i].pc \in {"body", "returned"}
  BY <1>1 DEF TypeOK, ContextEnds, DeadlinePasses
<1>3. /\ r \in OpType /\ r.pc = ops[i].pc /\ r.status = ops[i].status
      /\ r.kept = ops[i].kept /\ r.ended /\ r.err = ops[i].err
  BY <1>2 DEF OpType
<1>4. InFlight(i)
  BY <1>2 DEF InFlight
<1>5. IF r.pc = "body" THEN b = "running" ELSE r.err = b /\ b # "running"
  BY <1>1, <1>2, <1>3 DEF BodyShape
<1>6. b \in {"running", "nil", "error"}
  BY <1>1, <1>2, <1>3, <1>5 DEF BodyShape
<1>7. ops' = [ops EXCEPT ![i] = r]
  BY DEF ContextEnds
<1>8. bodies' = [bodies EXCEPT ![<<instance, i>>] = b]
  BY <1>1 DEF ContextEnds, TypeOK
<1>9. UNCHANGED <<instance, phase, seq, completed, active, clients>>
  BY DEF ContextEnds
<1> HIDE DEF r, b
<1>10. bodies[<<instance, i>>] \in {"running", b}
  BY DEF b
<1> QED BY <1>2, <1>3, <1>4, <1>5, <1>6, <1>7, <1>8, <1>9, <1>10, ProgressStep

(* The return of the work keeps it.                                        *)
LEMMA ReturnStep ==
  ASSUME RegistryInv, NEW i \in Ids, NEW err \in {"nil", "error"}, Return(i, err)
  PROVE  RegistryInv'
<1> DEFINE r == [ops[i] EXCEPT !.pc = "returned", !.err = err]
<1>1. TypeOK /\ BodyShape
  BY DEF RegistryInv
<1>2. ops[i] \in OpType /\ ops[i].pc = "body"
  BY <1>1 DEF TypeOK, Return
<1>3. /\ r \in OpType /\ r.pc = "returned" /\ r.status = ops[i].status
      /\ r.kept = ops[i].kept /\ r.ended = ops[i].ended /\ r.err = err
  BY <1>2 DEF OpType
<1>4. InFlight(i)
  BY <1>2 DEF InFlight
<1>5. bodies[<<instance, i>>] \in {"running", err}
  BY <1>1, <1>2 DEF BodyShape
<1>6. ops' = [ops EXCEPT ![i] = r]
  BY DEF Return
<1>7. /\ bodies' = [bodies EXCEPT ![<<instance, i>>] = err]
      /\ UNCHANGED <<instance, phase, seq, completed, active, clients>>
  BY DEF Return
<1> HIDE DEF r
<1>8. IF r.pc = "body" THEN err = "running" ELSE r.err = err /\ err # "running"
  BY <1>3
<1> QED BY <1>3, <1>4, <1>5, <1>6, <1>7, <1>8, ProgressStep

(* Reading the context keeps it.                                           *)
LEMMA ReadContextStep ==
  ASSUME RegistryInv, NEW i \in Ids, ReadContext(i)
  PROVE  RegistryInv'
<1> DEFINE r == [ops[i] EXCEPT !.pc = "finishing", !.ctxErr = ops[i].ended,
                               !.ended = TRUE]
           b == bodies[<<instance, i>>]
<1>1. TypeOK /\ BodyShape /\ <<instance, i>> \in Handles
  BY OwnHandle DEF RegistryInv
<1>2. ops[i] \in OpType /\ ops[i].pc = "returned"
  BY <1>1 DEF TypeOK, ReadContext
<1>3. /\ r \in OpType /\ r.pc = "finishing" /\ r.status = ops[i].status
      /\ r.kept = ops[i].kept /\ r.ended /\ r.err = ops[i].err
  BY <1>2 DEF OpType
<1>4. InFlight(i)
  BY <1>2 DEF InFlight
<1>5. b \in {"nil", "error"} /\ r.err = b
  BY <1>1, <1>2, <1>3 DEF BodyShape
<1>6. ops' = [ops EXCEPT ![i] = r]
  BY DEF ReadContext
<1>7. bodies' = [bodies EXCEPT ![<<instance, i>>] = b]
  BY <1>1 DEF ReadContext, TypeOK
<1>8. UNCHANGED <<instance, phase, seq, completed, active, clients>>
  BY DEF ReadContext
<1> HIDE DEF r, b
<1>9. bodies[<<instance, i>>] \in {"running", b}
  BY DEF b
<1>10. IF r.pc = "body" THEN b = "running" ELSE r.err = b /\ b # "running"
  BY <1>3, <1>5
<1> QED BY <1>3, <1>4, <1>5, <1>6, <1>7, <1>8, <1>9, <1>10, ProgressStep

-----------------------------------------------------------------------------
(* Finish.                                                                 *)

Holds(q, j) == \E n \in DOMAIN q : q[n] = j

(* What an operation's end does to the queue of completed ones.            *)
LEMMA QueuePush ==
  ASSUME NEW q \in Seq(Ids), NEW i \in Ids, ~Holds(q, i),
         \A m, n \in DOMAIN q : q[m] = q[n] => m = n,
         Len(q) <= MaxCompletedOperations,
         NEW q2, q2 = IF Len(Append(q, i)) > MaxCompletedOperations
                        THEN Tail(Append(q, i)) ELSE Append(q, i)
  PROVE  /\ q2 \in Seq(Ids)
         /\ Len(q2) <= MaxCompletedOperations
         /\ \A m, n \in DOMAIN q2 : q2[m] = q2[n] => m = n
         /\ \A j \in Ids : Holds(q2, j) <=>
              (Holds(q, j) \/ j = i) /\ j \notin Evicted(Append(q, i))
<1> DEFINE p == Append(q, i)
<1>1. /\ p \in Seq(Ids) /\ p # << >> /\ Len(p) = Len(q) + 1
      /\ \A n \in 1 .. Len(q) : p[n] = q[n]
      /\ p[Len(q) + 1] = i
  BY AppendProperties
<1>2. /\ Len(q) \in Nat /\ DOMAIN q = 1 .. Len(q)
      /\ DOMAIN p = 1 .. (Len(q) + 1)
  BY <1>1, LenProperties
<1>p. /\ p = Append(q, i)
      /\ q2 = IF Len(p) > MaxCompletedOperations THEN Tail(p) ELSE p
  OBVIOUS
<1> HIDE DEF p
<1>3. \A m, n \in DOMAIN p : p[m] = p[n] => m = n
  BY <1>1, <1>2 DEF Holds
<1>4. \A j \in Ids : Holds(p, j) <=> Holds(q, j) \/ j = i
  BY <1>1, <1>2 DEF Holds
<1>5. CASE Len(p) > MaxCompletedOperations
  <2>1. /\ q2 = Tail(p) /\ q2 \in Seq(Ids) /\ Len(q2) = Len(q)
        /\ \A n \in 1 .. Len(q) : q2[n] = p[n + 1]
    BY <1>p, <1>1, <1>2, <1>5, HeadTailProperties
  <2>2. DOMAIN q2 = 1 .. Len(q)
    BY <2>1, LenProperties
  <2>3. Evicted(p) = {p[1]}
    BY <1>1, <1>5 DEF Evicted
  <2>4. \A m, n \in DOMAIN q2 : q2[m] = q2[n] => m = n
    <3> SUFFICES ASSUME NEW m \in 1 .. Len(q), NEW n \in 1 .. Len(q),
                        q2[m] = q2[n]
                 PROVE  m = n
      BY <2>2
    <3>1. m + 1 \in DOMAIN p /\ n + 1 \in DOMAIN p
      BY <1>2
    <3>2. p[m + 1] = p[n + 1]
      BY <2>1
    <3>3. m + 1 = n + 1
      BY <3>1, <3>2, <1>3
    <3> QED BY <3>3
  <2>5. \A j \in Ids : Holds(q2, j) <=> Holds(p, j) /\ j # p[1]
    <3> SUFFICES ASSUME NEW j \in Ids
                 PROVE  Holds(q2, j) <=> Holds(p, j) /\ j # p[1]
      OBVIOUS
    <3>1. ASSUME Holds(q2, j) PROVE Holds(p, j) /\ j # p[1]
      <4>1. PICK n \in 1 .. Len(q) : q2[n] = j
        BY <3>1, <2>2 DEF Holds
      <4>2. n + 1 \in DOMAIN p /\ n + 1 # 1 /\ 1 \in DOMAIN p
        BY <1>2
      <4>3. p[n + 1] = j
        BY <4>1, <2>1
      <4> QED BY <4>2, <4>3, <1>3 DEF Holds
    <3>2. ASSUME Holds(p, j), j # p[1] PROVE Holds(q2, j)
      <4>1. PICK n \in 1 .. (Len(q) + 1) : p[n] = j
        BY <3>2, <1>2 DEF Holds
      <4>2. n - 1 \in 1 .. Len(q)
        BY <4>1, <3>2, <1>2
      <4>3. q2[n - 1] = p[(n - 1) + 1]
        BY <4>2, <2>1
      <4>4. (n - 1) + 1 = n
        BY <4>1, <1>2
      <4> QED BY <4>1, <4>2, <4>3, <4>4, <2>2 DEF Holds
    <3> QED BY <3>1, <3>2
  <2> QED BY <1>p, <1>4, <2>1, <2>3, <2>4, <2>5
<1>6. CASE ~(Len(p) > MaxCompletedOperations)
  <2>1. q2 = p /\ Evicted(p) = {}
    BY <1>p, <1>6 DEF Evicted
  <2> QED BY <1>p, <1>1, <1>2, <1>3, <1>4, <1>6, <2>1, RegistryAssumption
<1> QED BY <1>5, <1>6

(* Finishing an operation keeps it.                                        *)
LEMMA FinishStep ==
  ASSUME RegistryInv, NEW i \in Ids, Finish(i)
  PROVE  RegistryInv'
<1> DEFINE gone == Evicted(Append(completed, i))
<1>0. TypeOK /\ OpShape /\ QueueShape /\ BodyShape /\ ClientShape
      /\ ShutdownIsQuiet /\ AnswersAreOwn /\ active = Cardinality(Flying)
  BY DEF RegistryInv
<1>1. /\ UNCHANGED <<instance, phase, seq, clients, bodies>>
      /\ active' = active - 1
      /\ completed' = IF Len(Append(completed, i)) > MaxCompletedOperations
                        THEN Tail(Append(completed, i)) ELSE Append(completed, i)
  BY DEF Finish
<1>2. /\ ops[i].pc = "finishing" /\ InFlight(i) /\ ops[i] \in OpType
      /\ ops[i].kept /\ ~(i > seq)
  BY <1>0 DEF Finish, TypeOK, OpShape, InFlight
<1>3. /\ completed \in Seq(Ids) /\ Len(completed) <= MaxCompletedOperations
      /\ DOMAIN completed = 1 .. Len(completed)
      /\ \A n \in DOMAIN completed : completed[n] \in Ids
  BY <1>0, LenProperties DEF TypeOK
<1>4. ~Holds(completed, i)
  BY <1>0, <1>2 DEF Holds, QueueShape
<1>5. /\ completed' \in Seq(Ids)
      /\ Len(completed') <= MaxCompletedOperations
      /\ \A m, n \in DOMAIN completed' : completed'[m] = completed'[n] => m = n
      /\ \A j \in Ids : Holds(completed', j) <=>
           (Holds(completed, j) \/ j = i) /\ j \notin gone
  <2>1. \A m, n \in DOMAIN completed : completed[m] = completed[n] => m = n
    BY <1>0 DEF QueueShape
  <2> QED BY <2>1, <1>1, <1>3, <1>4, QueuePush
<1>6. gone \subseteq {i} \cup {j \in Ids : Holds(completed, j)}
  <2>1. Append(completed, i)[1] = i \/ Holds(completed, Append(completed, i)[1])
    BY <1>3, AppendProperties, LenProperties DEF Holds
  <2>2. Head(Append(completed, i)) = Append(completed, i)[1]
        /\ Append(completed, i)[1] \in Ids
    BY <1>3, AppendProperties, LenProperties
  <2> QED BY <2>1, <2>2 DEF Evicted
<1>7. Outcome(ops[i]) \in Ended
  BY DEF Outcome, Ended
<1>8. ops' = [j \in Ids |->
         [ops[j] EXCEPT !.pc = IF j = i THEN "done" ELSE ops[j].pc,
                        !.status = IF j = i THEN Outcome(ops[i]) ELSE ops[j].status,
                        !.kept = ops[j].kept /\ j \notin gone]]
  BY DEF Finish
<1> HIDE DEF gone
<1>9. ASSUME NEW j \in Ids
      PROVE  /\ ops'[j] \in OpType
             /\ ops'[j].pc = IF j = i THEN "done" ELSE ops[j].pc
             /\ ops'[j].status = IF j = i THEN Outcome(ops[i]) ELSE ops[j].status
             /\ ops'[j].kept = (ops[j].kept /\ j \notin gone)
             /\ ops'[j].ended = ops[j].ended
             /\ ops'[j].err = ops[j].err
  <2>1. ops[j] \in OpType
    BY <1>0 DEF TypeOK
  <2>2. ops'[j] = [ops[j] EXCEPT !.pc = IF j = i THEN "done" ELSE ops[j].pc,
                     !.status = IF j = i THEN Outcome(ops[i]) ELSE ops[j].status,
                     !.kept = ops[j].kept /\ j \notin gone]
    BY <1>8
  <2> QED BY <2>1, <2>2, <1>7 DEF OpType
<1>10. ops' \in [Ids -> OpType]
  BY <1>8, <1>9
<1>11. \A j \in Ids : InFlight(j)' <=> InFlight(j) /\ j # i
  BY <1>9 DEF InFlight
<1>12. active' = Cardinality(Flying)' /\ active' \in Nat
  <2>1. Flying' = Flying \ {i} /\ i \in Flying
    BY <1>2, <1>11 DEF Flying
  <2>2. Cardinality(Flying \ {i}) = Cardinality(Flying) - 1
        /\ Cardinality(Flying \ {i}) \in Nat
    BY <2>1, FlyingFinite, FS_RemoveElement, FS_CardinalityType
  <2> QED BY <2>1, <2>2, <1>0, <1>1
<1>13. TypeOK'
  BY <1>0, <1>1, <1>5, <1>10, <1>12, RegistryAssumption DEF TypeOK
<1>14. OpShape'
  <2> SUFFICES ASSUME NEW j \in Ids
               PROVE  /\ InFlight(j)' => ops'[j].status = "running" /\ ops'[j].kept
                      /\ ops'[j].pc = "done" => ops'[j].status \in Ended
                      /\ ops'[j].pc = "none" => ~ops'[j].kept
                      /\ j > seq' => ops'[j].pc = "none"
    BY DEF OpShape
  <2>1. CASE j = i
    BY <2>1, <1>1, <1>2, <1>7, <1>9, <1>11
  <2>2. CASE j # i
    <3>1. InFlight(j) => j \notin gone
      BY <2>2, <1>0, <1>6 DEF Holds, QueueShape, InFlight
    <3> QED BY <2>2, <3>1, <1>0, <1>1, <1>9, <1>11 DEF OpShape
  <2> QED BY <2>1, <2>2
<1>15. QueueShape'
  <2>0. \A j \in Ids : Holds(completed, j) <=> ops[j].pc = "done" /\ ops[j].kept
    BY <1>0 DEF QueueShape, Holds
  <2>1. \A j \in Ids : Holds(completed', j) => ops'[j].pc = "done" /\ ops'[j].kept
    BY <2>0, <1>2, <1>5, <1>9
  <2>2. \A j \in Ids : ops'[j].pc = "done" /\ ops'[j].kept => Holds(completed', j)
    BY <2>0, <1>5, <1>9
  <2>3. \A n \in DOMAIN completed' : completed'[n] \in Ids /\ Holds(completed', completed'[n])
    BY <1>5, LenProperties DEF Holds
  <2> QED BY <2>1, <2>2, <2>3, <1>5 DEF QueueShape, Holds
<1>16. BodyShape'
  <2>1. bodies[<<instance, i>>] = ops[i].err /\ ops[i].err \in {"nil", "error"}
    BY <1>0, <1>2 DEF BodyShape
  <2>2. Outcome(ops[i]) = "completed" <=> ops[i].err = "nil"
    BY DEF Outcome
  <2>3. ASSUME NEW j \in Ids
        PROVE  /\ ops'[j].pc = "body" => bodies[<<instance, j>>] = "running"
               /\ ops'[j].pc \in {"returned", "finishing"} =>
                    /\ ops'[j].err \in {"nil", "error"}
                    /\ bodies[<<instance, j>>] = ops'[j].err
               /\ ops'[j].pc = "done" =>
                    /\ bodies[<<instance, j>>] \in {"nil", "error"}
                    /\ ops'[j].status = "completed" <=> bodies[<<instance, j>>] = "nil"
    BY <2>1, <2>2, <1>0, <1>9 DEF BodyShape
  <2> QED BY <2>3, <1>0, <1>1 DEF BodyShape, Issued
<1>17. \A c \in Clients : clients[c].handle \in Handles /\ clients[c].handle[2] \in Ids
  BY <1>0 DEF TypeOK, Handles
<1>18. ClientShape'
  <2>1. \A c \in Clients : clients[c].pc = "waiting" =>
          clients[c].handle[1] = instance /\ ops'[clients[c].handle[2]].pc # "none"
    BY <1>0, <1>9, <1>17 DEF ClientShape
  <2> QED BY <2>1, <1>0, <1>1 DEF ClientShape, Issued
<1>19. ShutdownIsQuiet'
  BY <1>0, <1>1, <1>9, <1>11 DEF ShutdownIsQuiet
<1>20. AnswersAreOwn'
  <2>1. ASSUME NEW c \in Clients, clients[c].answer = "lost",
               clients[c].handle[1] = instance
        PROVE  ~InFlight(clients[c].handle[2])'
    <3>1. ~InFlight(clients[c].handle[2])
      BY <2>1, <1>0 DEF AnswersAreOwn
    <3> QED BY <3>1, <1>1, <1>9, <1>17 DEF InFlight
  <2> QED BY <2>1, <1>0, <1>1 DEF AnswersAreOwn
<1> QED BY <1>12, <1>13, <1>14, <1>15, <1>16, <1>18, <1>19, <1>20 DEF RegistryInv

-----------------------------------------------------------------------------
(* Clients.                                                                *)

(* A step that only gives one client a new record.                         *)
LEMMA ClientStep ==
  ASSUME RegistryInv, NEW c \in Clients, NEW h \in Handles, NEW k,
         clients' = [clients EXCEPT ![c] = k],
         UNCHANGED <<instance, phase, seq, ops, completed, active, bodies>>,
         Issued(h),
         k \in [pc : {"idle", "waiting"}, handle : Handles,
                answer : {"none", "lost", "running"} \cup Ended],
         k.handle = h,
         k.pc = "waiting" => h[1] = instance /\ ops[h[2]].pc # "none",
         k.answer \in Ended => bodies[h] # "running",
         k.answer \in Ended => (k.answer = "completed" <=> bodies[h] = "nil"),
         k.answer = "lost" => ~(h[1] = instance /\ InFlight(h[2]))
  PROVE  RegistryInv'
<1>0. TypeOK /\ OpShape /\ QueueShape /\ BodyShape /\ ClientShape
      /\ ShutdownIsQuiet /\ AnswersAreOwn /\ active = Cardinality(Flying)
  BY DEF RegistryInv
<1>1. UNCHANGED <<instance, phase, seq, ops, completed, active, bodies>>
  OBVIOUS
<1>2. /\ clients' \in [Clients -> [pc : {"idle", "waiting"}, handle : Handles,
                        answer : {"none", "lost", "running"} \cup Ended]]
      /\ clients'[c] = k
      /\ \A d \in Clients : d # c => clients'[d] = clients[d]
  BY <1>0 DEF TypeOK
<1>3. TypeOK'
  BY <1>0, <1>1, <1>2 DEF TypeOK
<1>4. Flying' = Flying
  BY <1>1 DEF Flying, InFlight
<1>5. OpShape' /\ QueueShape' /\ BodyShape' /\ ShutdownIsQuiet'
  BY <1>0, <1>1 DEF OpShape, QueueShape, BodyShape, ShutdownIsQuiet, InFlight, Issued
<1>6. ClientShape'
  BY <1>0, <1>1, <1>2 DEF ClientShape, Issued
<1>7. AnswersAreOwn'
  BY <1>0, <1>1, <1>2 DEF AnswersAreOwn, InFlight
<1> QED BY <1>0, <1>1, <1>3, <1>4, <1>5, <1>6, <1>7 DEF RegistryInv

(* What the registry says of an operation it still has.                    *)
LEMMA StatusIsTrue ==
  ASSUME RegistryInv, NEW i \in Ids, ops[i].pc # "none"
  PROVE  /\ ops[i].status \in {"running"} \cup Ended
         /\ ops[i].status \in Ended => bodies[<<instance, i>>] # "running"
         /\ ops[i].status \in Ended =>
              (ops[i].status = "completed" <=> bodies[<<instance, i>>] = "nil")
<1>1. TypeOK /\ OpShape /\ BodyShape
  BY DEF RegistryInv
<1>2. ops[i].pc \in {"body", "returned", "finishing", "done"}
  BY <1>1 DEF TypeOK, OpType
<1>3. CASE ops[i].pc = "done"
  BY <1>1, <1>3 DEF OpShape, BodyShape
<1>4. CASE ops[i].pc # "done"
  <2>1. ops[i].status = "running"
    BY <1>1, <1>2, <1>4 DEF OpShape, InFlight
  <2> QED BY <2>1 DEF Ended
<1> QED BY <1>3, <1>4

(* An operation that is found has a record, one in flight is found.        *)
LEMMA FoundFacts ==
  ASSUME RegistryInv, NEW h \in Handles
  PROVE  /\ h[2] \in Ids /\ h = <<h[1], h[2]>>
         /\ Found(h) => h[1] = instance /\ ops[h[2]].pc # "none"
         /\ ~Found(h) => ~(h[1] = instance /\ InFlight(h[2]))
  BY DEF RegistryInv, OpShape, Found, Handles

(* A lookup keeps it.                                                      *)
LEMMA LookupStep ==
  ASSUME RegistryInv, NEW c \in Clients, NEW h \in Handles, Lookup(c, h)
  PROVE  RegistryInv'
<1> DEFINE k == Idle(h, IF Found(h) THEN ops[h[2]].status ELSE "lost")
<1>1. /\ clients' = [clients EXCEPT ![c] = k] /\ Issued(h)
      /\ UNCHANGED <<instance, phase, seq, ops, completed, active, bodies>>
  BY DEF Lookup
<1>2. k.pc = "idle" /\ k.handle = h
      /\ k.answer = IF Found(h) THEN ops[h[2]].status ELSE "lost"
  BY DEF Idle
<1>3. Found(h) => /\ ops[h[2]].status \in {"running"} \cup Ended
                  /\ k.answer \in Ended => bodies[h] # "running"
                  /\ k.answer \in Ended => (k.answer = "completed" <=> bodies[h] = "nil")
  BY <1>2, FoundFacts, StatusIsTrue
<1>4. k \in [pc : {"idle", "waiting"}, handle : Handles,
             answer : {"none", "lost", "running"} \cup Ended]
  BY <1>3 DEF Idle
<1> HIDE DEF k
<1>5. k.answer = "lost" => ~Found(h)
  BY <1>2, <1>3 DEF Ended
<1>6. k.answer \in Ended => Found(h)
  BY <1>2 DEF Ended
<1>7. k.pc # "waiting"
  BY <1>2
<1> QED BY <1>1, <1>2, <1>3, <1>4, <1>5, <1>6, <1>7, FoundFacts, ClientStep

(* Waiting keeps it.                                                       *)
LEMMA WaitStep ==
  ASSUME RegistryInv, NEW c \in Clients, NEW h \in Handles, Wait(c, h)
  PROVE  RegistryInv'
<1> DEFINE k == IF Found(h) THEN [Idle(h, "none") EXCEPT !.pc = "waiting"]
                            ELSE Idle(h, "running")
<1>1. /\ clients' = [clients EXCEPT ![c] = k] /\ Issued(h)
      /\ UNCHANGED <<instance, phase, seq, ops, completed, active, bodies>>
  BY DEF Wait
<1>2. /\ k.handle = h /\ k.answer \in {"none", "running"}
      /\ k.pc = IF Found(h) THEN "waiting" ELSE "idle"
      /\ k \in [pc : {"idle", "waiting"}, handle : Handles,
                answer : {"none", "lost", "running"} \cup Ended]
  BY DEF Idle
<1> HIDE DEF k
<1>3. k.answer \notin Ended /\ k.answer # "lost"
  BY <1>2 DEF Ended
<1>4. k.pc = "waiting" => h[1] = instance /\ ops[h[2]].pc # "none"
  BY <1>2, FoundFacts
<1> QED BY <1>1, <1>2, <1>3, <1>4, ClientStep

(* The return of a wait keeps it.                                          *)
LEMMA WaitReturnsStep ==
  ASSUME RegistryInv, NEW c \in Clients, WaitReturns(c)
  PROVE  RegistryInv'
<1> DEFINE h == clients[c].handle
           k == Idle(h, ops[h[2]].status)
<1>0. TypeOK /\ OpShape /\ BodyShape /\ ClientShape
  BY DEF RegistryInv
<1>1. /\ clients' = [clients EXCEPT ![c] = k] /\ clients[c].pc = "waiting"
      /\ UNCHANGED <<instance, phase, seq, ops, completed, active, bodies>>
  BY DEF WaitReturns
<1>2. /\ h \in Handles /\ h[2] \in Ids /\ h = <<h[1], h[2]>>
      /\ h[1] = instance /\ ops[h[2]].pc # "none"
  BY <1>0, <1>1 DEF TypeOK, Handles, ClientShape
<1>3. ops[h[2]].pc \in {"body", "returned", "finishing", "done"}
  BY <1>0, <1>2 DEF TypeOK, OpType
<1>4. Issued(h)
  BY <1>0, <1>2, <1>3 DEF BodyShape, Issued
<1>5. /\ k.pc = "idle" /\ k.handle = h /\ k.answer = ops[h[2]].status
  BY DEF Idle
<1>6. /\ ops[h[2]].status \in {"running"} \cup Ended
      /\ k.answer \in Ended => bodies[h] # "running"
      /\ k.answer \in Ended => (k.answer = "completed" <=> bodies[h] = "nil")
  BY <1>2, <1>5, StatusIsTrue
<1>7. k \in [pc : {"idle", "waiting"}, handle : Handles,
             answer : {"none", "lost", "running"} \cup Ended]
  BY <1>2, <1>6 DEF Idle
<1> HIDE DEF k, h
<1>8. k.answer # "lost" /\ k.pc # "waiting"
  BY <1>5, <1>6 DEF Ended
<1> QED BY <1>1, <1>2, <1>4, <1>5, <1>6, <1>7, <1>8, ClientStep

-----------------------------------------------------------------------------
(* Shutdown, crash and restart.                                            *)

(* Closing the registry keeps it.                                          *)
LEMMA CloseStep ==
  ASSUME RegistryInv, Close
  PROVE  RegistryInv'
<1>0. TypeOK /\ OpShape /\ QueueShape /\ BodyShape /\ ClientShape
      /\ ShutdownIsQuiet /\ AnswersAreOwn /\ active = Cardinality(Flying)
  BY DEF RegistryInv
<1>1. /\ phase = "serving" /\ phase' = "closing"
      /\ UNCHANGED <<instance, seq, completed, active, clients, bodies>>
  BY DEF Close
<1>2. ASSUME NEW i \in Ids
      PROVE  /\ ops'[i] \in OpType
             /\ ops'[i].pc = ops[i].pc /\ ops'[i].status = ops[i].status
             /\ ops'[i].kept = ops[i].kept /\ ops'[i].err = ops[i].err
             /\ ops[i].status = "running" => ops'[i].ended
  <2>1. ops[i] \in OpType
    BY <1>0 DEF TypeOK
  <2>2. ops'[i] = IF ops[i].status = "running" THEN [ops[i] EXCEPT !.ended = TRUE]
                                               ELSE ops[i]
    BY DEF Close
  <2> QED BY <2>1, <2>2 DEF OpType
<1>3. ops' \in [Ids -> OpType]
  BY <1>2 DEF Close
<1>4. TypeOK'
  BY <1>0, <1>1, <1>3 DEF TypeOK
<1>5. \A i \in Ids : InFlight(i)' <=> InFlight(i)
  BY <1>2 DEF InFlight
<1>6. Flying' = Flying
  BY <1>5 DEF Flying
<1>7. OpShape'
  BY <1>0, <1>1, <1>2, <1>5 DEF OpShape
<1>8. QueueShape'
  <2>1. \A n \in DOMAIN completed : completed[n] \in Ids
    BY <1>0, LenProperties DEF TypeOK
  <2> QED BY <2>1, <1>0, <1>1, <1>2 DEF QueueShape
<1>9. BodyShape'
  BY <1>0, <1>1, <1>2 DEF BodyShape, Issued
<1>10. \A c \in Clients : clients[c].handle[2] \in Ids
  BY <1>0 DEF TypeOK, Handles
<1>11. ClientShape'
  BY <1>0, <1>1, <1>2, <1>10 DEF ClientShape, Issued
<1>12. ShutdownIsQuiet'
  BY <1>0, <1>1, <1>2, <1>5 DEF ShutdownIsQuiet, OpShape
<1>13. AnswersAreOwn'
  BY <1>0, <1>1, <1>2, <1>10 DEF AnswersAreOwn, InFlight
<1> QED BY <1>0, <1>1, <1>4, <1>6, <1>7, <1>8, <1>9, <1>11, <1>12, <1>13
        DEF RegistryInv

(* The release of a job keeps it.                                          *)
LEMMA ReleaseStep ==
  ASSUME RegistryInv, Release
  PROVE  RegistryInv'
<1>0. TypeOK /\ OpShape /\ QueueShape /\ BodyShape /\ ClientShape
      /\ ShutdownIsQuiet /\ AnswersAreOwn /\ active = Cardinality(Flying)
  BY DEF RegistryInv
<1>1. /\ phase' = "released" /\ \A i \in Ids : ~InFlight(i)
      /\ UNCHANGED <<instance, seq, ops, completed, active, clients, bodies>>
  BY DEF Release, AllDone
<1>2. TypeOK'
  BY <1>0, <1>1 DEF TypeOK
<1>3. Flying' = Flying /\ OpShape' /\ QueueShape' /\ ClientShape' /\ AnswersAreOwn'
  BY <1>0, <1>1
     DEF Flying, OpShape, QueueShape, ClientShape, AnswersAreOwn, InFlight, Issued
<1>4. BodyShape'
  BY <1>0, <1>1 DEF BodyShape, Issued
<1>5. ShutdownIsQuiet'
  BY <1>1 DEF ShutdownIsQuiet, InFlight
<1> QED BY <1>0, <1>1, <1>2, <1>3, <1>4, <1>5 DEF RegistryInv

(* A process ends without Close, or the next one begins: no operation is   *)
(* left, and no client is waiting.                                         *)
LEMMA FreshStep ==
  ASSUME RegistryInv, Fresh, UNCHANGED bodies,
         instance' \in Instances, phase' \in {"serving", "released"},
         \/ instance' = instance /\ phase' = "released"
         \/ instance' = instance + 1
  PROVE  RegistryInv'
<1>0. TypeOK /\ BodyShape /\ ClientShape /\ AnswersAreOwn
  BY DEF RegistryInv
<1>1. /\ seq' = 0 /\ completed' = << >> /\ active' = 0
      /\ ops' = [i \in Ids |-> NoOp]
      /\ bodies' = bodies
  BY DEF Fresh
<1>2. \A c \in Clients :
        /\ clients[c].handle \in Handles
        /\ clients'[c].pc = "idle"
        /\ clients'[c].handle = clients[c].handle
        /\ clients'[c].answer = clients[c].answer \/ clients'[c].answer = "none"
        /\ clients'[c] \in [pc : {"idle", "waiting"}, handle : Handles,
                            answer : {"none", "lost", "running"} \cup Ended]
  BY <1>0 DEF Fresh, HangUp, Idle, TypeOK
<1>3. clients' \in [Clients -> [pc : {"idle", "waiting"}, handle : Handles,
                       answer : {"none", "lost", "running"} \cup Ended]]
  BY <1>2 DEF Fresh, HangUp
<1>4. NoOp \in OpType /\ NoOp.pc = "none" /\ ~NoOp.kept
  BY DEF NoOp, OpType
<1>5. TypeOK'
  BY <1>0, <1>1, <1>3, <1>4, RegistryAssumption DEF TypeOK
<1>6. \A i \in Ids : ops'[i].pc = "none" /\ ~ops'[i].kept /\ ~InFlight(i)'
  BY <1>1, <1>4 DEF InFlight
<1>7. active' = Cardinality(Flying)'
  <2>1. Flying' = {}
    BY <1>6 DEF Flying
  <2> QED BY <2>1, <1>1, FS_EmptySet
<1>8. OpShape' /\ ShutdownIsQuiet'
  BY <1>6 DEF OpShape, ShutdownIsQuiet, InFlight
<1>9. QueueShape'
  BY <1>1, <1>6 DEF QueueShape
<1>10. BodyShape'
  <2>1. instance \in Int /\ instance' \in Int /\ instance' >= instance
    BY <1>0 DEF TypeOK, Instances
  <2>2. \A h \in Handles : h[1] > instance' => bodies'[h] = "unissued"
    <3> SUFFICES ASSUME NEW h \in Handles, h[1] > instance'
                 PROVE  bodies[h] = "unissued"
      BY <1>1
    <3>1. h[1] > instance
      BY <2>1 DEF Handles, Instances
    <3> QED BY <3>1, <1>0 DEF BodyShape, Issued
  <2>3. \A i \in Ids : phase' # "released" => bodies'[<<instance', i>>] = "unissued"
    <3> SUFFICES ASSUME NEW i \in Ids, phase' # "released"
                 PROVE  bodies[<<instance', i>>] = "unissued"
      BY <1>1
    <3>1. <<instance', i>> \in Handles /\ <<instance', i>>[1] > instance
      BY <2>1 DEF Handles
    <3> QED BY <3>1, <1>0 DEF BodyShape, Issued
  <2> QED BY <2>2, <2>3, <1>6 DEF BodyShape, Issued
<1>11. ClientShape'
  BY <1>0, <1>1, <1>2 DEF ClientShape, Issued
<1>12. AnswersAreOwn'
  <2>1. \A c \in Clients : clients'[c].handle[2] \in Ids
    BY <1>2 DEF Handles
  <2> QED BY <2>1, <1>0, <1>1, <1>2, <1>6 DEF AnswersAreOwn, InFlight, Ended
<1> QED BY <1>5, <1>7, <1>8, <1>9, <1>10, <1>11, <1>12 DEF RegistryInv

(* A crash keeps it.                                                       *)
LEMMA CrashStep ==
  ASSUME RegistryInv, Crash
  PROVE  RegistryInv'
<1>1. /\ Fresh /\ UNCHANGED bodies /\ phase' = "released"
      /\ instance' = instance /\ instance \in Instances
  BY DEF Crash, RegistryInv, TypeOK
<1> QED BY <1>1, FreshStep

(* A restart keeps it.                                                     *)
LEMMA RestartStep ==
  ASSUME RegistryInv, Restart
  PROVE  RegistryInv'
<1>1. /\ Fresh /\ UNCHANGED bodies /\ phase' = "serving"
      /\ instance' = instance + 1 /\ instance' \in Instances
  BY RegistryAssumption DEF Restart, RegistryInv, TypeOK, Instances
<1> QED BY <1>1, FreshStep

-----------------------------------------------------------------------------

(* A step that changes nothing keeps it.                                   *)
LEMMA StutterStep ==
  ASSUME RegistryInv, UNCHANGED vars
  PROVE  RegistryInv'
  BY DEF RegistryInv, vars, TypeOK, Flying, OpShape, QueueShape, BodyShape,
         ClientShape, ShutdownIsQuiet, AnswersAreOwn, InFlight, Issued

(* Every step keeps it.                                                    *)
LEMMA InvStep ==
  ASSUME RegistryInv, [Next]_vars
  PROVE  RegistryInv'
  BY StutterStep, StartStep, CloseStep, ReleaseStep, CrashStep, RestartStep,
     ContextEndsStep, ReadContextStep, FinishStep, ReturnStep, WaitReturnsStep,
     LookupStep, WaitStep
     DEF Next, Terminating

(* The invariant holds in every state.                                     *)
LEMMA InvAlways == Spec => []RegistryInv
  BY InitInv, InvStep, PTL DEF Spec

(* The limits on active and completed operations hold in every state.      *)
THEOREM RegistryTyped == Spec => []TypeOK
<1>1. RegistryInv => TypeOK
  BY DEF RegistryInv
<1> QED BY <1>1, InvAlways, PTL

(* The registry never loses an operation in flight, its counter is exact,  *)
(* and it keeps exactly the completed operations in its queue.             *)
THEOREM ActiveKept == Spec => []ActiveIsKept
<1>1. RegistryInv => ActiveIsKept
  <2> SUFFICES ASSUME RegistryInv PROVE ActiveIsKept
    OBVIOUS
  <2>0. TypeOK /\ OpShape /\ QueueShape /\ active = Cardinality(Flying)
    BY DEF RegistryInv
  <2>1. active = Cardinality({i \in Ids : InFlight(i)})
    BY <2>0 DEF Flying
  <2>2. \A i \in Ids : InFlight(i) => ops[i].kept
    BY <2>0 DEF OpShape
  <2>3. \A n \in DOMAIN completed : completed[n] \in Ids
    BY <2>0, LenProperties DEF TypeOK
  <2>4. \A i \in Ids : ops[i].kept /\ ~InFlight(i) <=> ops[i].kept /\ ops[i].pc = "done"
    BY <2>0 DEF OpShape, InFlight, TypeOK, OpType
  <2>5. \A i \in Ids : ops[i].kept /\ ops[i].pc = "done" <=>
          \E n \in DOMAIN completed : completed[n] = i
    BY <2>0 DEF QueueShape
  <2>6. {i \in Ids : ops[i].kept /\ ~InFlight(i)} =
          {completed[n] : n \in DOMAIN completed}
    BY <2>3, <2>4, <2>5
  <2> QED BY <2>1, <2>2, <2>6 DEF ActiveIsKept
<1> QED BY <1>1, InvAlways, PTL

(* Every answer is about the caller's own operation, across restarts,      *)
(* evictions and cancellations.                                            *)
THEOREM OwnAnswers == Spec => []AnswersAreOwn
<1>1. RegistryInv => AnswersAreOwn
  BY DEF RegistryInv
<1> QED BY <1>1, InvAlways, PTL

(* The project lock is released only when no operation is in flight, and   *)
(* Close reaches every operation.                                          *)
THEOREM QuietShutdown == Spec => []ShutdownIsQuiet
<1>1. RegistryInv => ShutdownIsQuiet
  BY DEF RegistryInv
<1> QED BY <1>1, InvAlways, PTL

=============================================================================
