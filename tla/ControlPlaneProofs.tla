------------------------- MODULE ControlPlaneProofs -------------------------
(***************************************************************************)
(* Proofs about the control plane's write path, for any number of calls    *)
(* and processes, any event bodies and any bound on the attempts.          *)
(*                                                                         *)
(* The inductive invariant Inv says, for each call, how far its            *)
(* transaction has come and what the journal holds of it by then.          *)
(***************************************************************************)
EXTENDS ControlPlane, SequenceTheorems, TLAPS

Event == [call : Calls, kind : Kinds]

(* What a call would leave in the journal if it committed now.             *)
Pending(c) ==
  journal \o Tagged(c, SubSeq(calls[c].body, 1, calls[c].done))

(* Before its commit a call has nothing in the journal and no answer.      *)
NothingYet(c) ==
  calls[c].pc \in {"new", "called", "locking", "reading", "upgrading", "body"}
    => Rows(c) = {} /\ calls[c].answer = "none"

(* An attempt starts from the first member.                                *)
FromTheStart(c) ==
  calls[c].pc \in {"called", "locking", "reading", "upgrading"}
    => calls[c].done = 0

(* A deferred transaction's snapshot is a past of the journal; if nothing  *)
(* was appended since, it is the present.                                  *)
Snapshot(c) ==
  At(c, "upgrading") =>
    /\ calls[c].base <= Len(journal)
    /\ calls[c].base = Len(journal) => calls[c].work = Reduce(journal)

(* The writer has reduced the journal and the members applied so far, and  *)
(* each of them was legal.                                                 *)
Writing(c) ==
  At(c, "body") =>
    /\ writer = c
    /\ calls[c].base = Len(journal)
    /\ calls[c].work = Reduce(Pending(c))
    /\ calls[c].done <= Len(calls[c].body)
    /\ Replayable(Pending(c))

(* After its commit a call has landed; answered, it has landed or left     *)
(* nothing, and the answer agrees.                                         *)
Outcome(c) ==
  /\ At(c, "committed") => Landed(c) /\ calls[c].answer = "none"
  /\ At(c, "answered") =>
       /\ Rows(c) = {} \/ Landed(c)
       /\ calls[c].answer = "ok" => Landed(c)
       /\ calls[c].answer \in {"busy", "stale", "refused", "failed"}
            => Rows(c) = {}

(* Where a batch lands.                                                    *)
Placed(c) ==
  Serialized(c) =>
    \A i \in Rows(c) : /\ i > calls[c].expected
                       /\ i <= calls[c].expected + Len(calls[c].body)

(* Only a rebuild has no events.                                           *)
BodyFits(c) ==
  ~At(c, "new") =>
    IF calls[c].mode = "rebuild" THEN calls[c].body = << >>
                                 ELSE calls[c].body \in Bodies

CallInv(c) ==
  /\ NothingYet(c)
  /\ FromTheStart(c)
  /\ Snapshot(c)
  /\ Writing(c)
  /\ Outcome(c)
  /\ Placed(c)
  /\ BodyFits(c)

Inv ==
  /\ TypeOK
  /\ ProjectionIsReduction
  /\ Replayable(journal)
  /\ \A c \in Calls : CallInv(c)

-----------------------------------------------------------------------------
(* The reducer.                                                            *)

(* Projection.Apply, in this abstraction, looks only at the event.         *)
LEMMA ApplyIs ==
  ASSUME NEW p, NEW q, NEW k
  PROVE  ApplyEvent(p, k) = ApplyEvent(q, k)
  BY DEF ApplyEvent

(* ... and gives a projection state.                                       *)
LEMMA ApplyTyped ==
  ASSUME NEW p, NEW k
  PROVE  ApplyEvent(p, k) \in ProjectionState
  BY Zenon DEF ApplyEvent, ProjectionState

(* state.Reduce is determined by the last event.                           *)
LEMMA ReduceIs ==
  ASSUME NEW s, Len(s) \in Nat
  PROVE  Reduce(s) = IF Len(s) = 0 THEN Empty
                     ELSE ApplyEvent(Empty, s[Len(s)].kind)
<1> DEFINE after == CHOOSE f : f = [n \in 0 .. Len(s) |->
              IF n = 0 THEN Empty ELSE ApplyEvent(f[n - 1], s[n].kind)]
           g == [n \in 0 .. Len(s) |->
                   IF n = 0 THEN Empty ELSE ApplyEvent(Empty, s[n].kind)]
<1>1. g = [n \in 0 .. Len(s) |->
              IF n = 0 THEN Empty ELSE ApplyEvent(g[n - 1], s[n].kind)]
  BY DEF ApplyEvent
<1>2. \E f : f = [n \in 0 .. Len(s) |->
              IF n = 0 THEN Empty ELSE ApplyEvent(f[n - 1], s[n].kind)]
  BY <1>1
<1>3. after = [n \in 0 .. Len(s) |->
              IF n = 0 THEN Empty ELSE ApplyEvent(after[n - 1], s[n].kind)]
  BY <1>2, Zenon
<1>4. Reduce(s) = after[Len(s)]
  BY DEF Reduce
<1> HIDE DEF after, g
<1>5. QED
  BY <1>3, <1>4 DEF ApplyEvent

(* The projection is a projection state.                                   *)
LEMMA ReduceTyped ==
  ASSUME NEW s \in Seq(Event)
  PROVE  Reduce(s) \in ProjectionState
<1>1. Len(s) \in Nat
  OBVIOUS
<1>2. Empty \in ProjectionState
  BY Zenon DEF Empty, ProjectionState
<1>3. Reduce(s) = IF Len(s) = 0 THEN Empty
                  ELSE ApplyEvent(Empty, s[Len(s)].kind)
  BY <1>1, ReduceIs
<1> QED
  BY <1>2, <1>3, ApplyTyped, Zenon

(* Appending an event applies it (Projection.Apply).                       *)
LEMMA ReduceAppend ==
  ASSUME NEW s \in Seq(Event), NEW e \in Event
  PROVE  Reduce(Append(s, e)) = ApplyEvent(Reduce(s), e.kind)
<1> DEFINE t == Append(s, e)
<1>1. /\ Len(t) = Len(s) + 1 /\ Len(s) \in Nat /\ Len(t) \in Nat
      /\ t[Len(t)] = e /\ Len(t) # 0
  OBVIOUS
<1> HIDE DEF t
<1>2. Reduce(t) = IF Len(t) = 0 THEN Empty
                  ELSE ApplyEvent(Empty, t[Len(t)].kind)
  BY <1>1, ReduceIs, Zenon
<1>3. Reduce(t) = ApplyEvent(Empty, e.kind)
  BY <1>1, <1>2, Zenon
<1> QED
  BY <1>3, ApplyIs, Zenon DEF t

(* A legal event keeps a stream replayable.                                *)
LEMMA ReplayableAppend ==
  ASSUME NEW s \in Seq(Event), NEW e \in Event,
         Replayable(s), Legal(Reduce(s), e.kind)
  PROVE  Replayable(Append(s, e))
<1> DEFINE t == Append(s, e)
<1>1. /\ Len(t) = Len(s) + 1 /\ Len(s) \in Nat
      /\ t[Len(s) + 1] = e /\ \A i \in 1 .. Len(s) : t[i] = s[i]
      /\ DOMAIN t = 1 .. Len(s) + 1 /\ DOMAIN s = 1 .. Len(s)
      /\ t \in Seq(Event)
  OBVIOUS
<1> HIDE DEF t
<1>2. ASSUME NEW n \in 1 .. Len(s) + 1
      PROVE  SubSeq(t, 1, n - 1) = SubSeq(s, 1, n - 1)
  BY <1>1, <1>2
<1>3. SubSeq(s, 1, Len(s)) = s
  OBVIOUS
<1>4. ASSUME NEW n \in 1 .. Len(s) + 1
      PROVE  Legal(Reduce(SubSeq(t, 1, n - 1)), t[n].kind)
  <2>1. CASE n \in 1 .. Len(s)
    BY <1>1, <1>2, <2>1 DEF Replayable
  <2>2. CASE n = Len(s) + 1
    <3>1. t[n] = e /\ SubSeq(t, 1, n - 1) = s
      BY <1>1, <1>2, <1>3, <2>2
    <3> QED BY <3>1, Zenon
  <2> QED BY <2>1, <2>2, <1>1
<1> QED
  BY <1>1, <1>4 DEF Replayable, t

-----------------------------------------------------------------------------
(* The journal grows by the body of a call.                                *)

(* What is appended, event by event (AppendEvent).                         *)
LEMMA Appended ==
  ASSUME NEW s \in Seq(Event), NEW c \in Calls, NEW b \in Seq(Kinds)
  PROVE  /\ s \o Tagged(c, b) \in Seq(Event)
         /\ Len(s \o Tagged(c, b)) = Len(s) + Len(b)
         /\ \A i \in 1 .. Len(s) : (s \o Tagged(c, b))[i] = s[i]
         /\ \A i \in 1 .. Len(b) :
              (s \o Tagged(c, b))[Len(s) + i] = [call |-> c, kind |-> b[i]]
<1>1. DOMAIN b = 1 .. Len(b) /\ Len(b) \in Nat
  OBVIOUS
<1>2. \A i \in 1 .. Len(b) : b[i] \in Kinds
  OBVIOUS
<1>3. Tagged(c, b) \in Seq(Event) /\ Len(Tagged(c, b)) = Len(b)
  <2>1. Tagged(c, b) \in [1 .. Len(b) -> Event]
    BY <1>1, <1>2 DEF Tagged, Event
  <2> QED BY <2>1, <1>1
<1>4. \A i \in 1 .. Len(b) : Tagged(c, b)[i] = [call |-> c, kind |-> b[i]]
  BY <1>1 DEF Tagged
<1> HIDE DEF Tagged
<1> QED
  BY <1>3, <1>4, <1>1

(* applyMember adds one event to what the call would leave.                *)
LEMMA OneMore ==
  ASSUME NEW s \in Seq(Event), NEW c \in Calls, NEW b \in Seq(Kinds),
         NEW d \in Nat, d < Len(b)
  PROVE  s \o Tagged(c, SubSeq(b, 1, d + 1))
           = Append(s \o Tagged(c, SubSeq(b, 1, d)),
                    [call |-> c, kind |-> b[d + 1]])
<1> DEFINE b0 == SubSeq(b, 1, d)
           b1 == SubSeq(b, 1, d + 1)
           e == [call |-> c, kind |-> b[d + 1]]
           t0 == s \o Tagged(c, b0)
           t1 == s \o Tagged(c, b1)
<1>1. /\ b0 \in Seq(Kinds) /\ Len(b0) = d /\ \A i \in 1 .. d : b0[i] = b[i]
      /\ b1 \in Seq(Kinds) /\ Len(b1) = d + 1
      /\ \A i \in 1 .. d + 1 : b1[i] = b[i]
  OBVIOUS
<1>2. e \in Event
  BY DEF Event
<1> HIDE DEF b0, b1, e
<1>3. /\ t0 \in Seq(Event) /\ Len(t0) = Len(s) + d
      /\ \A i \in 1 .. Len(s) : t0[i] = s[i]
      /\ \A i \in 1 .. d : t0[Len(s) + i] = [call |-> c, kind |-> b[i]]
  <2>1. /\ t0 \in Seq(Event)
        /\ Len(t0) = Len(s) + Len(b0)
        /\ \A i \in 1 .. Len(s) : t0[i] = s[i]
        /\ \A i \in 1 .. Len(b0) :
              t0[Len(s) + i] = [call |-> c, kind |-> b0[i]]
    BY <1>1, Appended, Zenon
  <2> HIDE DEF t0
  <2> QED BY <2>1, <1>1
<1>4. /\ t1 \in Seq(Event) /\ Len(t1) = Len(s) + (d + 1)
      /\ \A i \in 1 .. Len(s) : t1[i] = s[i]
      /\ \A i \in 1 .. d + 1 : t1[Len(s) + i] = [call |-> c, kind |-> b[i]]
  <2>1. /\ t1 \in Seq(Event)
        /\ Len(t1) = Len(s) + Len(b1)
        /\ \A i \in 1 .. Len(s) : t1[i] = s[i]
        /\ \A i \in 1 .. Len(b1) :
              t1[Len(s) + i] = [call |-> c, kind |-> b1[i]]
    BY <1>1, Appended, Zenon
  <2> HIDE DEF t1
  <2> QED BY <2>1, <1>1
<1> HIDE DEF t0, t1
<1>5. /\ Append(t0, e) \in Seq(Event) /\ Len(Append(t0, e)) = Len(s) + (d + 1)
      /\ \A i \in 1 .. Len(t0) : Append(t0, e)[i] = t0[i]
      /\ Append(t0, e)[Len(t0) + 1] = e
  BY <1>2, <1>3
<1>6. ASSUME NEW i \in 1 .. Len(t1)
      PROVE  t1[i] = Append(t0, e)[i]
  <2>1. Len(s) \in Nat
    OBVIOUS
  <2>2. CASE i <= Len(s)
    <3>1. i \in 1 .. Len(s) /\ i \in 1 .. Len(t0)
      BY <2>1, <2>2, <1>3
    <3> QED BY <3>1, <1>3, <1>4, <1>5
  <2>3. CASE i > Len(s) /\ i <= Len(s) + d
    <3> DEFINE j == i - Len(s)
    <3>1. /\ j \in 1 .. d /\ j \in 1 .. d + 1
          /\ i = Len(s) + j /\ i \in 1 .. Len(t0)
      BY <2>1, <2>3, <1>3
    <3> HIDE DEF j
    <3>2. t1[Len(s) + j] = t0[Len(s) + j]
      BY <3>1, <1>3, <1>4, Zenon
    <3>3. Append(t0, e)[i] = t0[i]
      BY <3>1, <1>5
    <3> QED BY <3>1, <3>2, <3>3
  <2>4. CASE i = Len(s) + (d + 1)
    <3>1. d + 1 \in 1 .. d + 1 /\ i = Len(t0) + 1
      BY <2>1, <2>4, <1>3
    <3>2. t1[Len(s) + (d + 1)] = e
      BY <3>1, <1>4, Zenon DEF e
    <3>3. t1[i] = e
      BY <3>2, <2>4, Zenon
    <3>4. Append(t0, e)[i] = e
      BY <3>1, <1>5, Zenon
    <3> QED BY <3>3, <3>4
  <2>5. i <= Len(s) \/ (i > Len(s) /\ i <= Len(s) + d) \/ i = Len(s) + (d + 1)
    BY <2>1, <1>4
  <2> QED BY <2>2, <2>3, <2>4, <2>5, Zenon
<1>7. t1 = Append(t0, e)
  BY <1>4, <1>5, <1>6, SeqEqual
<1> QED
  BY <1>7 DEF t0, t1, b0, b1, e

(* A call that has applied no member would leave the journal as it is.     *)
LEMMA NoMore ==
  ASSUME NEW s \in Seq(Event), NEW c \in Calls, NEW b
  PROVE  s \o Tagged(c, SubSeq(b, 1, 0)) = s
<1>1. SubSeq(b, 1, 0) = << >>
  BY SubSeqEmpty
<1>2. Tagged(c, << >>) = << >>
  BY DEF Tagged
<1> QED
  BY <1>1, <1>2, ConcatEmptySeq

(* The journal is a sequence of events.                                    *)
LEMMA JournalTyped ==
  ASSUME TypeOK
  PROVE  journal \in Seq(Event) /\ Len(journal) \in Nat
  BY DEF TypeOK, Event

(* Every body, the empty one of a rebuild included, is a sequence of kinds.*)
LEMMA BodyTyped ==
  ASSUME TypeOK, NEW c \in Calls
  PROVE  calls[c].body \in Seq(Kinds)
<1>1. << >> \in Seq(Kinds)
  OBVIOUS
<1> QED
  BY <1>1, BodiesAssumption DEF TypeOK, CallType

-----------------------------------------------------------------------------
(* Steps that leave the journal alone.                                     *)

(* A call that does not move keeps its invariant while the journal stays.  *)
LEMMA OtherCall ==
  ASSUME NEW d \in Calls, CallInv(d), journal' = journal,
         calls'[d] = calls[d], At(d, "body") => writer' = writer
  PROVE  CallInv(d)'
<1>1. Rows(d)' = Rows(d) /\ Pending(d)' = Pending(d)
  BY DEF Rows, Pending
<1>2. Landed(d)' = Landed(d)
  BY <1>1 DEF Landed
<1>3. NothingYet(d)' /\ FromTheStart(d)'
  BY <1>1 DEF CallInv, NothingYet, FromTheStart, At
<1>4. Snapshot(d)' /\ Writing(d)'
  BY <1>1 DEF CallInv, Snapshot, Writing, At
<1>5. Outcome(d)' /\ Placed(d)' /\ BodyFits(d)'
  BY <1>1, <1>2 DEF CallInv, Outcome, Placed, BodyFits, At, Serialized
<1> QED
  BY <1>3, <1>4, <1>5 DEF CallInv

(* A step of one call that leaves the journal and the view alone.          *)
LEMMA QuietStep ==
  ASSUME Inv, NEW c \in Calls, UNCHANGED <<journal, view>>, TypeOK',
         \A d \in Calls \ {c} :
            calls'[d] = calls[d] /\ (At(d, "body") => writer' = writer),
         CallInv(c)'
  PROVE  Inv'
<1>1. ProjectionIsReduction' /\ Replayable(journal)'
  BY DEF Inv, ProjectionIsReduction, Row
<1>2. ASSUME NEW d \in Calls \ {c} PROVE CallInv(d)'
  BY <1>2, OtherCall DEF Inv
<1> QED
  BY <1>1, <1>2 DEF Inv

(* The end of a transaction keeps the lock and the connections typed, and  *)
(* frees nobody else's lock.                                               *)
LEMMA Released ==
  ASSUME TypeOK, NEW c \in Calls, Release(c)
  PROVE  /\ writer' \in Calls \cup {None}
         /\ conn' \in [Processes -> Calls \cup {None}]
         /\ \A d \in Calls \ {c} : writer = d => writer' = writer
  BY DEF TypeOK, Release

(* How an attempt ends: the call starts over or is answered.               *)
LEMMA AttemptEnds ==
  ASSUME TypeOK, NEW c \in Calls, NEW err, EndAttempt(c, err),
         err \in Answers
  PROVE  /\ calls' \in [Calls -> CallType]
         /\ \A d \in Calls \ {c} : calls'[d] = calls[d]
         /\ calls'[c].body = calls[c].body /\ calls'[c].mode = calls[c].mode
         /\ calls'[c].expected = calls[c].expected
         /\ \/ /\ err = "busy" /\ calls'[c].pc = "called" /\ calls'[c].done = 0
               /\ calls'[c].answer = calls[c].answer
            \/ calls'[c].pc = "answered" /\ calls'[c].answer = err
<1>1. calls[c] \in CallType
  BY DEF TypeOK
<1> DEFINE again == [calls[c] EXCEPT !.pc = "called", !.done = 0,
                             !.tries = calls[c].tries + 1]
           over == [calls[c] EXCEPT !.pc = "answered", !.answer = err]
<1>2. /\ again.body = calls[c].body /\ again.mode = calls[c].mode
      /\ again.expected = calls[c].expected /\ again.pc = "called"
      /\ again.done = 0 /\ again.answer = calls[c].answer
  BY <1>1 DEF CallType
<1>3. /\ over \in CallType
      /\ over.body = calls[c].body /\ over.mode = calls[c].mode
      /\ over.expected = calls[c].expected /\ over.pc = "answered"
      /\ over.answer = err
  BY <1>1 DEF CallType
<1>4. ASSUME calls[c].tries + 1 < MaxContentionAttempts
      PROVE  again \in CallType
  <2>1. calls[c].tries \in 0 .. (MaxContentionAttempts - 1)
    BY <1>1 DEF CallType
  <2>2. calls[c].tries + 1 \in 0 .. (MaxContentionAttempts - 1)
    BY <2>1, <1>4, AttemptsAssumption
  <2> QED BY <1>1, <2>2 DEF CallType
<1>5. calls \in [Calls -> CallType]
  BY DEF TypeOK
<1>6. CASE /\ Serialized(c) /\ Retryable(err)
           /\ calls[c].tries + 1 < MaxContentionAttempts
  <2>1. calls' = [calls EXCEPT ![c] = again]
    BY <1>5, <1>6 DEF EndAttempt
  <2> HIDE DEF again
  <2> QED BY <1>2, <1>4, <1>5, <1>6, <2>1 DEF Retryable
<1>7. CASE ~ /\ Serialized(c) /\ Retryable(err)
             /\ calls[c].tries + 1 < MaxContentionAttempts
  <2>1. calls' = [calls EXCEPT ![c] = over]
    BY <1>5, <1>7 DEF EndAttempt
  <2> HIDE DEF over
  <2> QED BY <1>3, <1>5, <2>1
<1> QED
  BY <1>6, <1>7

(* An attempt that ends before the commit leaves nothing behind.           *)
LEMMA AbandonStep ==
  ASSUME Inv, NEW c \in Calls, NEW err, EndAttempt(c, err),
         err \in Answers \ {"none", "ok"}, UNCHANGED <<journal, view>>,
         calls[c].pc \in {"called", "locking", "reading", "upgrading", "body"}
  PROVE  Inv'
<1>1. TypeOK /\ CallInv(c) /\ Release(c) /\ err \in Answers
  BY DEF Inv, EndAttempt
<1>2. /\ calls' \in [Calls -> CallType]
      /\ \A d \in Calls \ {c} : calls'[d] = calls[d]
      /\ calls'[c].body = calls[c].body /\ calls'[c].mode = calls[c].mode
      /\ calls'[c].expected = calls[c].expected
      /\ \/ /\ err = "busy" /\ calls'[c].pc = "called" /\ calls'[c].done = 0
            /\ calls'[c].answer = calls[c].answer
         \/ calls'[c].pc = "answered" /\ calls'[c].answer = err
  BY <1>1, AttemptEnds
<1>3. /\ writer' \in Calls \cup {None}
      /\ conn' \in [Processes -> Calls \cup {None}]
      /\ \A d \in Calls \ {c} : writer = d => writer' = writer
  BY <1>1, Released
<1>4. TypeOK'
  BY <1>1, <1>2, <1>3 DEF TypeOK
<1>5. \A d \in Calls \ {c} : At(d, "body") => writer' = writer
  BY <1>3 DEF Inv, CallInv, Writing
<1>6. Rows(c)' = {} /\ calls[c].answer = "none" /\ Rows(c)' = Rows(c)
  BY <1>1 DEF CallInv, NothingYet, Rows
<1>7. CallInv(c)'
  <2>1. NothingYet(c)' /\ FromTheStart(c)'
    BY <1>2, <1>6 DEF NothingYet, FromTheStart, At
  <2>2. Snapshot(c)' /\ Writing(c)'
    BY <1>2 DEF Snapshot, Writing, At
  <2>3. Outcome(c)' /\ Placed(c)'
    BY <1>2, <1>6 DEF Outcome, Placed, At
  <2>4. BodyFits(c)'
    BY <1>1, <1>2 DEF CallInv, BodyFits, At
  <2> QED BY <2>1, <2>2, <2>3, <2>4 DEF CallInv
<1> QED
  BY <1>2, <1>4, <1>5, <1>7, QuietStep

(* One call's record is replaced.                                          *)
LEMMA OneMoves ==
  ASSUME TypeOK, NEW c \in Calls, NEW r \in CallType,
         calls' = [calls EXCEPT ![c] = r]
  PROVE  /\ calls' \in [Calls -> CallType]
         /\ \A d \in Calls \ {c} : calls'[d] = calls[d]
         /\ calls'[c] = r
  BY DEF TypeOK

(* A client makes a call.                                                  *)
LEMMA InvokeStep ==
  ASSUME Inv, NEW c \in Calls, NEW p \in Processes, NEW mode \in Modes,
         NEW body \in Bodies, Invoke(c, p, mode, body)
  PROVE  Inv'
<1> DEFINE r == [NewCall EXCEPT !.pc = "called", !.proc = p, !.mode = mode,
                   !.body = IF mode = "rebuild" THEN << >> ELSE body,
                   !.expected = IF mode = "batch" THEN view.watermark ELSE 0]
<1>1. TypeOK /\ CallInv(c) /\ At(c, "new") /\ calls' = [calls EXCEPT ![c] = r]
      /\ UNCHANGED <<journal, view, writer, conn>>
  BY DEF Inv, Invoke
<1>2. Empty \in ProjectionState
  BY Zenon DEF Empty, ProjectionState
<1>3. /\ r \in CallType /\ r.pc = "called" /\ r.done = 0 /\ r.mode = mode
      /\ r.answer = "none" /\ r.body = IF mode = "rebuild" THEN << >> ELSE body
  <2>1. 0 \in 0 .. (MaxContentionAttempts - 1)
    BY AttemptsAssumption
  <2>2. view.watermark \in Nat
    BY <1>1 DEF TypeOK
  <2> QED BY <1>2, <2>1, <2>2 DEF NewCall, CallType, Answers
<1> HIDE DEF r
<1>4. /\ calls' \in [Calls -> CallType] /\ calls'[c] = r
      /\ \A d \in Calls \ {c} : calls'[d] = calls[d]
  BY <1>1, <1>3, OneMoves
<1>5. TypeOK'
  BY <1>1, <1>4 DEF TypeOK
<1>6. Rows(c)' = {}
  BY <1>1 DEF CallInv, NothingYet, Rows, At
<1>7. CallInv(c)'
  BY <1>3, <1>4, <1>6 DEF CallInv, NothingYet, FromTheStart, Snapshot, Writing,
     Outcome, Placed, BodyFits, At
<1> QED
  BY <1>1, <1>4, <1>5, <1>7, QuietStep

(* The transaction begins.                                                 *)
LEMMA BeginTxStep ==
  ASSUME Inv, NEW c \in Calls, BeginTx(c)
  PROVE  Inv'
<1> DEFINE r == [calls[c] EXCEPT !.pc =
                   IF Serialized(c) THEN "locking" ELSE "reading"]
<1>1. TypeOK /\ CallInv(c) /\ At(c, "called")
      /\ UNCHANGED <<journal, view, writer>>
  BY DEF Inv, BeginTx
<1>2. calls' = [calls EXCEPT ![c] = r]
  BY <1>1 DEF BeginTx, TypeOK
<1>3. conn' \in [Processes -> Calls \cup {None}]
  BY <1>1 DEF BeginTx, TypeOK
<1>4. /\ r \in CallType /\ r.pc \in {"locking", "reading"}
      /\ r.done = calls[c].done /\ r.answer = calls[c].answer
      /\ r.mode = calls[c].mode /\ r.body = calls[c].body
  <2>1. calls[c] \in CallType
    BY <1>1 DEF TypeOK
  <2> QED BY <2>1 DEF CallType
<1> HIDE DEF r
<1>5. /\ calls' \in [Calls -> CallType] /\ calls'[c] = r
      /\ \A d \in Calls \ {c} : calls'[d] = calls[d]
  BY <1>1, <1>2, <1>4, OneMoves
<1>6. TypeOK'
  BY <1>1, <1>3, <1>5 DEF TypeOK
<1>7. Rows(c)' = {} /\ r.answer = "none" /\ r.done = 0
  BY <1>1, <1>4 DEF CallInv, NothingYet, FromTheStart, Rows, At
<1>8. BodyFits(c)'
  BY <1>1, <1>4, <1>5 DEF CallInv, BodyFits, At
<1>9. CallInv(c)'
  BY <1>4, <1>5, <1>7, <1>8 DEF CallInv, NothingYet, FromTheStart, Snapshot,
     Writing, Outcome, Placed, At
<1> QED
  BY <1>1, <1>5, <1>6, <1>9, QuietStep

(* The contention budget is spent before the transaction begins.           *)
LEMMA BudgetSpentStep ==
  ASSUME Inv, NEW c \in Calls, BudgetSpent(c)
  PROVE  Inv'
<1> DEFINE r == [calls[c] EXCEPT !.pc = "answered", !.answer = "busy"]
<1>1. TypeOK /\ CallInv(c) /\ At(c, "called")
      /\ UNCHANGED <<journal, view, writer, conn>>
  BY DEF Inv, BudgetSpent
<1>2. calls' = [calls EXCEPT ![c] = r]
  BY <1>1 DEF BudgetSpent, TypeOK
<1>3. /\ r \in CallType /\ r.pc = "answered" /\ r.answer = "busy"
      /\ r.mode = calls[c].mode /\ r.body = calls[c].body
  <2>1. calls[c] \in CallType
    BY <1>1 DEF TypeOK
  <2> QED BY <2>1 DEF CallType, Answers
<1> HIDE DEF r
<1>4. /\ calls' \in [Calls -> CallType] /\ calls'[c] = r
      /\ \A d \in Calls \ {c} : calls'[d] = calls[d]
  BY <1>1, <1>2, <1>3, OneMoves
<1>5. TypeOK'
  BY <1>1, <1>4 DEF TypeOK
<1>6. Rows(c)' = {}
  BY <1>1 DEF CallInv, NothingYet, Rows, At
<1>7. BodyFits(c)'
  BY <1>1, <1>3, <1>4 DEF CallInv, BodyFits, At
<1>8. CallInv(c)'
  BY <1>3, <1>4, <1>6, <1>7 DEF CallInv, NothingYet, FromTheStart, Snapshot,
     Writing, Outcome, Placed, At
<1> QED
  BY <1>1, <1>4, <1>5, <1>8, QuietStep

(* What loadProjection gives a call.                                       *)
LEMMA Loaded ==
  ASSUME TypeOK, NEW c \in Calls, NEW pc \in {"upgrading", "body"},
         Load(c, pc), FromTheStart(c), calls[c].pc \in {"locking", "reading"}
  PROVE  /\ calls' \in [Calls -> CallType]
         /\ \A d \in Calls \ {c} : calls'[d] = calls[d]
         /\ calls'[c].pc = pc /\ calls'[c].done = 0
         /\ calls'[c].base = Len(journal) /\ calls'[c].work = Reduce(journal)
         /\ calls'[c].answer = calls[c].answer
         /\ calls'[c].mode = calls[c].mode /\ calls'[c].body = calls[c].body
<1> DEFINE r == [calls[c] EXCEPT !.pc = pc, !.base = Len(journal),
                                 !.work = Reduce(journal)]
<1>1. Reduce(journal) \in ProjectionState /\ Len(journal) \in Nat
  BY JournalTyped, ReduceTyped
<1>2. calls[c] \in CallType /\ calls[c].done = 0
  BY DEF TypeOK, FromTheStart
<1>3. /\ r \in CallType /\ r.pc = pc /\ r.done = 0
      /\ r.base = Len(journal) /\ r.work = Reduce(journal)
      /\ r.answer = calls[c].answer
      /\ r.mode = calls[c].mode /\ r.body = calls[c].body
  BY <1>1, <1>2 DEF CallType
<1>4. calls' = [calls EXCEPT ![c] = r]
  BY DEF Load
<1> HIDE DEF r
<1> QED
  BY <1>3, <1>4, OneMoves

(* A serialized write takes the lock and then reads.                       *)
LEMMA acquireWriteIntentStep ==
  ASSUME Inv, NEW c \in Calls, acquireWriteIntent(c)
  PROVE  Inv'
<1>1. /\ TypeOK /\ CallInv(c) /\ At(c, "locking") /\ writer = None
      /\ writer' = c /\ Load(c, "body") /\ UNCHANGED <<journal, view, conn>>
      /\ Replayable(journal)
  BY DEF Inv, acquireWriteIntent
<1>2. /\ calls' \in [Calls -> CallType]
      /\ \A d \in Calls \ {c} : calls'[d] = calls[d]
      /\ calls'[c].pc = "body" /\ calls'[c].done = 0
      /\ calls'[c].base = Len(journal) /\ calls'[c].work = Reduce(journal)
      /\ calls'[c].answer = calls[c].answer
      /\ calls'[c].mode = calls[c].mode /\ calls'[c].body = calls[c].body
  BY <1>1, Loaded DEF CallInv, At
<1>3. TypeOK'
  BY <1>1, <1>2 DEF TypeOK
<1>4. \A d \in Calls \ {c} : ~At(d, "body")
  BY <1>1, NoneAssumption DEF Inv, CallInv, Writing
<1>5. Rows(c)' = {} /\ calls[c].answer = "none"
  BY <1>1 DEF CallInv, NothingYet, Rows, At
<1>6. CallInv(c)'
  <2>1. Pending(c)' = journal
    <3>1. journal \in Seq(Event)
      BY <1>1, JournalTyped
    <3> QED BY <1>1, <1>2, <3>1, NoMore DEF Pending
  <2>2. calls'[c].body \in Seq(Kinds)
    BY <1>1, <1>2, BodyTyped
  <2>3. Writing(c)'
    BY <1>1, <1>2, <2>1, <2>2 DEF Writing, At
  <2>4. BodyFits(c)'
    BY <1>1, <1>2 DEF CallInv, BodyFits, At
  <2> QED BY <1>2, <1>5, <2>3, <2>4 DEF CallInv, NothingYet, FromTheStart,
          Snapshot, Outcome, Placed, At
<1> QED
  BY <1>1, <1>2, <1>3, <1>4, <1>6, QuietStep

(* A deferred write reads before it has the lock.                          *)
LEMMA ReadSnapshotStep ==
  ASSUME Inv, NEW c \in Calls, ReadSnapshot(c)
  PROVE  Inv'
<1>1. /\ TypeOK /\ CallInv(c) /\ At(c, "reading") /\ Load(c, "upgrading")
      /\ UNCHANGED <<journal, view, writer, conn>>
  BY DEF Inv, ReadSnapshot
<1>2. /\ calls' \in [Calls -> CallType]
      /\ \A d \in Calls \ {c} : calls'[d] = calls[d]
      /\ calls'[c].pc = "upgrading" /\ calls'[c].done = 0
      /\ calls'[c].base = Len(journal) /\ calls'[c].work = Reduce(journal)
      /\ calls'[c].answer = calls[c].answer
      /\ calls'[c].mode = calls[c].mode /\ calls'[c].body = calls[c].body
  BY <1>1, Loaded DEF CallInv, At
<1>3. TypeOK'
  BY <1>1, <1>2 DEF TypeOK
<1>4. Rows(c)' = {} /\ calls[c].answer = "none"
  BY <1>1 DEF CallInv, NothingYet, Rows, At
<1>5. CallInv(c)'
  <2>1. Len(journal) \in Nat
    BY <1>1 DEF TypeOK
  <2>2. Snapshot(c)'
    BY <1>1, <1>2, <2>1 DEF Snapshot, At
  <2>3. BodyFits(c)'
    BY <1>1, <1>2 DEF CallInv, BodyFits, At
  <2> QED BY <1>2, <1>4, <2>2, <2>3 DEF CallInv, NothingYet, FromTheStart,
          Writing, Outcome, Placed, At
<1> QED
  BY <1>1, <1>2, <1>3, <1>5, QuietStep

(* SQLite gives the lock to a deferred write only over the latest snapshot. *)
LEMMA UpgradeStep ==
  ASSUME Inv, NEW c \in Calls, Upgrade(c)
  PROVE  Inv'
<1> DEFINE r == [calls[c] EXCEPT !.pc = "body"]
<1>1. /\ TypeOK /\ CallInv(c) /\ At(c, "upgrading") /\ writer = None
      /\ calls[c].base = Len(journal) /\ writer' = c
      /\ UNCHANGED <<journal, view, conn>> /\ Replayable(journal)
  BY DEF Inv, Upgrade, CanUpgrade
<1>2. calls' = [calls EXCEPT ![c] = r]
  BY <1>1 DEF Upgrade, TypeOK
<1>3. /\ r \in CallType /\ r.pc = "body" /\ r.done = calls[c].done
      /\ r.base = calls[c].base /\ r.work = calls[c].work
      /\ r.answer = calls[c].answer /\ r.mode = calls[c].mode
      /\ r.body = calls[c].body
  <2>1. calls[c] \in CallType
    BY <1>1 DEF TypeOK
  <2> QED BY <2>1 DEF CallType
<1> HIDE DEF r
<1>4. /\ calls' \in [Calls -> CallType] /\ calls'[c] = r
      /\ \A d \in Calls \ {c} : calls'[d] = calls[d]
  BY <1>1, <1>2, <1>3, OneMoves
<1>5. TypeOK'
  BY <1>1, <1>4 DEF TypeOK
<1>6. \A d \in Calls \ {c} : ~At(d, "body")
  BY <1>1, NoneAssumption DEF Inv, CallInv, Writing
<1>7. Rows(c)' = {} /\ r.answer = "none" /\ r.done = 0
  BY <1>1, <1>3 DEF CallInv, NothingYet, FromTheStart, Rows, At
<1>8. CallInv(c)'
  <2>1. Pending(c)' = journal
    <3>1. journal \in Seq(Event)
      BY <1>1, JournalTyped
    <3> QED BY <1>1, <1>4, <1>7, <3>1, NoMore DEF Pending
  <2>2. r.body \in Seq(Kinds)
    BY <1>1, <1>3, BodyTyped
  <2>3. r.work = Reduce(journal)
    BY <1>1, <1>3 DEF CallInv, Snapshot
  <2>4. Writing(c)'
    BY <1>1, <1>3, <1>4, <1>7, <2>1, <2>2, <2>3 DEF Writing, At
  <2>5. BodyFits(c)'
    BY <1>1, <1>3, <1>4 DEF CallInv, BodyFits, At
  <2> QED BY <1>3, <1>4, <1>7, <2>4, <2>5 DEF CallInv, NothingYet,
          FromTheStart, Snapshot, Outcome, Placed, At
<1> QED
  BY <1>1, <1>4, <1>5, <1>6, <1>8, QuietStep

(* One event is appended and reduced within the transaction.               *)
LEMMA applyMemberStep ==
  ASSUME Inv, NEW c \in Calls, applyMember(c)
  PROVE  Inv'
<1> DEFINE k == NextKind(c)
           n == calls[c].done
           b == calls[c].body
           e == [call |-> c, kind |-> k]
           w == ApplyEvent(calls[c].work, k)
           r == [calls[c] EXCEPT !.done = n + 1, !.work = w]
<1>1. /\ TypeOK /\ CallInv(c) /\ At(c, "body") /\ Writing(c)
      /\ UNCHANGED <<journal, view, writer, conn>> /\ n < Len(b)
      /\ Legal(calls[c].work, k)
  BY DEF Inv, applyMember, CallInv, More
<1>2. calls' = [calls EXCEPT ![c] = r]
  BY <1>1 DEF applyMember, TypeOK
<1>3. calls[c] \in CallType /\ b \in Seq(Kinds) /\ n \in Nat /\ Len(b) \in Nat
  <2>1. b \in Seq(Kinds)
    BY <1>1, BodyTyped
  <2>2. calls[c] \in CallType
    BY <1>1 DEF TypeOK
  <2>3. n \in Nat
    BY <2>2 DEF CallType
  <2> QED BY <2>1, <2>2, <2>3
<1>4. k = b[n + 1] /\ e \in Event
  BY <1>1, <1>3 DEF NextKind, Event
<1> HIDE DEF k
<1>5. w \in ProjectionState /\ n + 1 \in Nat
  BY <1>3, ApplyTyped
<1> HIDE DEF w
<1>6. /\ r \in CallType /\ r.pc = "body" /\ r.done = n + 1
      /\ r.work = w
      /\ r.base = calls[c].base /\ r.answer = calls[c].answer
      /\ r.mode = calls[c].mode /\ r.body = b
  BY <1>1, <1>3, <1>5 DEF CallType, At
<1> HIDE DEF r, n, b, e
<1>7. /\ calls' \in [Calls -> CallType] /\ calls'[c] = r
      /\ \A d \in Calls \ {c} : calls'[d] = calls[d]
  BY <1>1, <1>2, <1>6, OneMoves
<1>8. TypeOK'
  BY <1>1, <1>7 DEF TypeOK
<1>9. Pending(c)' = Append(Pending(c), e)
  <2>1. journal \in Seq(Event)
    BY <1>1, JournalTyped
  <2>2. journal \o Tagged(c, SubSeq(b, 1, n + 1))
          = Append(journal \o Tagged(c, SubSeq(b, 1, n)), e)
    BY <2>1, <1>1, <1>3, <1>4, OneMore DEF e
  <2> QED BY <2>2, <1>1, <1>6, <1>7 DEF Pending, n, b
<1>10. Pending(c) \in Seq(Event)
  <2>1. SubSeq(b, 1, n) \in Seq(Kinds)
    BY <1>1, <1>3
  <2> QED BY <2>1, <1>1, JournalTyped, Appended DEF Pending, n, b
<1>11. Reduce(Pending(c)') = r.work
  <2>1. Reduce(Append(Pending(c), e)) = ApplyEvent(Reduce(Pending(c)), e.kind)
    BY <1>4, <1>10, ReduceAppend
  <2>2. e.kind = k /\ calls[c].work = Reduce(Pending(c))
    BY <1>1 DEF e, Writing
  <2> QED BY <2>1, <2>2, <1>6, <1>9 DEF w
<1>12. Replayable(Pending(c)')
  <2>1. Replayable(Pending(c)) /\ calls[c].work = Reduce(Pending(c))
    BY <1>1 DEF Writing
  <2>2. e.kind = k
    BY DEF e
  <2>3. Legal(Reduce(Pending(c)), e.kind)
    BY <1>1, <2>1, <2>2
  <2> QED BY <2>1, <2>3, <1>4, <1>9, <1>10, ReplayableAppend
<1>13. Writing(c)'
  BY <1>1, <1>3, <1>6, <1>7, <1>11, <1>12 DEF Writing, At
<1>14. Rows(c)' = {} /\ r.answer = "none"
  BY <1>1, <1>6 DEF CallInv, NothingYet, Rows, At
<1>15. BodyFits(c)'
  BY <1>1, <1>6, <1>7 DEF CallInv, BodyFits, At, b
<1>16. CallInv(c)'
  BY <1>6, <1>7, <1>13, <1>14, <1>15 DEF CallInv, NothingYet, FromTheStart,
     Snapshot, Outcome, Placed, At
<1> QED
  BY <1>1, <1>7, <1>8, <1>16, QuietStep

(* A committed call is answered.                                           *)
LEMMA AnswerStep ==
  ASSUME Inv, NEW c \in Calls, Answer(c)
  PROVE  Inv'
<1> DEFINE r == [calls[c] EXCEPT !.pc = "answered", !.answer = "ok"]
<1>1. TypeOK /\ CallInv(c) /\ At(c, "committed")
      /\ UNCHANGED <<journal, view, writer, conn>>
  BY DEF Inv, Answer
<1>2. calls' = [calls EXCEPT ![c] = r]
  BY <1>1 DEF Answer, TypeOK
<1>3. /\ r \in CallType /\ r.pc = "answered" /\ r.answer = "ok"
      /\ r.mode = calls[c].mode /\ r.body = calls[c].body
      /\ r.expected = calls[c].expected
  <2>1. calls[c] \in CallType
    BY <1>1 DEF TypeOK
  <2> QED BY <2>1 DEF CallType, Answers
<1> HIDE DEF r
<1>4. /\ calls' \in [Calls -> CallType] /\ calls'[c] = r
      /\ \A d \in Calls \ {c} : calls'[d] = calls[d]
  BY <1>1, <1>2, <1>3, OneMoves
<1>5. TypeOK'
  BY <1>1, <1>4 DEF TypeOK
<1>6. Rows(c)' = Rows(c) /\ Landed(c)
  BY <1>1 DEF CallInv, Outcome, Rows
<1>7. Landed(c)'
  BY <1>1, <1>3, <1>4, <1>6 DEF Landed
<1>8. BodyFits(c)' /\ Placed(c)'
  BY <1>1, <1>3, <1>4, <1>6 DEF CallInv, BodyFits, Placed, At, Serialized
<1>9. CallInv(c)'
  BY <1>3, <1>4, <1>7, <1>8 DEF CallInv, NothingYet, FromTheStart, Snapshot,
     Writing, Outcome, At
<1> QED
  BY <1>1, <1>4, <1>5, <1>9, QuietStep

(* A process dies: what its calls had committed stays, the rest never was. *)
LEMMA CrashStep ==
  ASSUME Inv, NEW p \in Processes, Crash(p)
  PROVE  Inv'
<1>1. /\ TypeOK /\ UNCHANGED <<journal, view>>
      /\ conn' = [conn EXCEPT ![p] = None]
      /\ writer' = IF writer \in InFlight(p) THEN None ELSE writer
      /\ calls \in [Calls -> CallType]
  BY DEF Inv, Crash, TypeOK
<1>2. ASSUME NEW c \in InFlight(p)
      PROVE  /\ c \in Calls /\ calls'[c] \in CallType
             /\ calls'[c].pc = "answered" /\ calls'[c].answer = "lost"
             /\ calls'[c].mode = calls[c].mode /\ calls'[c].body = calls[c].body
             /\ calls'[c].expected = calls[c].expected
             /\ calls[c].pc \notin {"new", "answered"}
  <2>1. c \in Calls /\ calls[c].pc \notin {"new", "answered"}
    BY DEF InFlight
  <2>2. calls'[c] = [calls[c] EXCEPT !.pc = "answered", !.answer = "lost"]
    BY <2>1 DEF Crash
  <2>3. calls[c] \in CallType
    BY <2>1, <1>1
  <2> QED BY <2>1, <2>2, <2>3 DEF CallType, Answers
<1>3. ASSUME NEW c \in Calls, c \notin InFlight(p)
      PROVE  calls'[c] = calls[c]
  BY <1>3 DEF Crash
<1>4. calls' \in [Calls -> CallType]
  <2>1. \A c \in Calls : calls'[c] \in CallType
    BY <1>1, <1>2, <1>3
  <2>2. calls' = [c \in Calls |-> calls'[c]]
    BY DEF Crash
  <2> QED BY <2>1, <2>2
<1>5. TypeOK'
  BY <1>1, <1>4 DEF TypeOK
<1>6. ASSUME NEW c \in Calls PROVE CallInv(c)'
  <2>1. CallInv(c)
    BY DEF Inv
  <2>2. CASE c \notin InFlight(p)
    <3>1. At(c, "body") => writer' = writer
      BY <1>1, <2>1, <2>2 DEF CallInv, Writing
    <3> QED BY <1>1, <1>3, <2>1, <2>2, <3>1, OtherCall
  <2>3. CASE c \in InFlight(p)
    <3>1. Rows(c)' = Rows(c)
      BY <1>1 DEF Rows
    <3>2. Landed(c) => Landed(c)'
      <4>1. journal' = journal /\ calls'[c].body = calls[c].body
        BY <1>1, <1>2, <2>3
      <4> QED BY <3>1, <4>1 DEF Landed
    <3>3. Rows(c) = {} \/ Landed(c)
      <4>1. calls[c].pc \in {"called", "locking", "reading", "upgrading",
                             "body", "committed"}
        BY <1>1, <1>2, <2>3 DEF CallType
      <4> QED BY <2>1, <4>1 DEF CallInv, NothingYet, Outcome, At
    <3>4. Placed(c)' /\ BodyFits(c)'
      BY <1>2, <2>1, <2>3, <3>1 DEF CallInv, Placed, BodyFits, At, Serialized
    <3> QED BY <1>2, <2>3, <3>1, <3>2, <3>3, <3>4 DEF CallInv, NothingYet,
            FromTheStart, Snapshot, Writing, Outcome, At
  <2> QED BY <2>2, <2>3
<1>7. ProjectionIsReduction' /\ Replayable(journal)'
  BY <1>1 DEF Inv, ProjectionIsReduction, Row
<1> QED
  BY <1>5, <1>6, <1>7 DEF Inv

-----------------------------------------------------------------------------
(* Steps that append to the journal.                                       *)

(* A complete transaction that takes effect appends the whole body.        *)
LEMMA DurableIs ==
  ASSUME Inv, NEW c \in Calls, Complete(c), Durable(c)
  PROVE  /\ journal' = journal \o Tagged(c, calls[c].body)
         /\ journal' \in Seq(Event) /\ Len(journal') \in Nat
         /\ Len(journal') = Len(journal) + Len(calls[c].body)
         /\ \A i \in 1 .. Len(journal) : journal'[i] = journal[i]
         /\ \A i \in 1 .. Len(calls[c].body) :
              journal'[Len(journal) + i] = [call |-> c, kind |-> calls[c].body[i]]
         /\ view' = Row(journal')
         /\ Replayable(journal')
         /\ PrefixHolds(c) /\ calls[c].base = Len(journal)
<1> DEFINE b == calls[c].body
<1>1. /\ TypeOK /\ CallInv(c) /\ At(c, "body") /\ Writing(c) /\ PrefixHolds(c)
      /\ ~More(c)
  BY DEF Inv, CallInv, Complete
<1>2. b \in Seq(Kinds) /\ Len(b) \in Nat /\ calls[c].done \in Nat
  <2>1. b \in Seq(Kinds)
    BY <1>1, BodyTyped
  <2>2. calls[c].done \in Nat
    BY <1>1 DEF TypeOK, CallType
  <2> QED BY <2>1, <2>2
<1>3. calls[c].done = Len(b)
  BY <1>1, <1>2 DEF Writing, More
<1>4. SubSeq(b, 1, Len(b)) = b
  BY <1>2, SubSeqFull
<1>5. journal \in Seq(Event) /\ Len(journal) \in Nat
  BY <1>1, JournalTyped
<1>6. journal' = Pending(c)
  BY DEF Durable, Pending
<1>7. Pending(c) = journal \o Tagged(c, b)
  BY <1>3, <1>4 DEF Pending
<1> HIDE DEF b
<1>8. /\ journal' \in Seq(Event)
      /\ Len(journal') = Len(journal) + Len(b)
      /\ \A i \in 1 .. Len(journal) : journal'[i] = journal[i]
      /\ \A i \in 1 .. Len(b) :
           journal'[Len(journal) + i] = [call |-> c, kind |-> b[i]]
  <2>1. /\ journal \o Tagged(c, b) \in Seq(Event)
        /\ Len(journal \o Tagged(c, b)) = Len(journal) + Len(b)
        /\ \A i \in 1 .. Len(journal) :
             (journal \o Tagged(c, b))[i] = journal[i]
        /\ \A i \in 1 .. Len(b) :
             (journal \o Tagged(c, b))[Len(journal) + i]
               = [call |-> c, kind |-> b[i]]
    BY <1>2, <1>5, Appended, Zenon
  <2>2. journal' = journal \o Tagged(c, b)
    BY <1>6, <1>7
  <2> QED BY <2>1, <2>2, Zenon
<1>9. view' = Row(journal')
  <2>1. view' = [watermark |-> calls[c].base + calls[c].done,
                 state |-> calls[c].work]
    BY DEF Durable, SaveProjection
  <2>2. calls[c].base + calls[c].done = Len(journal')
    BY <1>1, <1>2, <1>3, <1>5, <1>8 DEF Writing
  <2>3. calls[c].work = Reduce(journal')
    BY <1>1, <1>6 DEF Writing
  <2> QED BY <2>1, <2>2, <2>3 DEF Row
<1>10. Replayable(journal') /\ calls[c].base = Len(journal)
  BY <1>1, <1>6 DEF Writing
<1>11. Len(journal') \in Nat
  BY <1>8
<1> QED
  BY <1>1, <1>6, <1>7, <1>8, <1>9, <1>10, <1>11 DEF b

(* What the journal then holds of each call.                               *)
LEMMA RowsGrow ==
  ASSUME Inv, NEW c \in Calls, Complete(c), Durable(c)
  PROVE  /\ Rows(c)' = (Len(journal) + 1) .. (Len(journal) + Len(calls[c].body))
         /\ \A d \in Calls \ {c} : Rows(d)' = Rows(d)
<1> DEFINE L == Len(journal)
           m == Len(calls[c].body)
<1>1. journal \in Seq(Event) /\ L \in Nat /\ calls[c].body \in Seq(Kinds)
      /\ m \in Nat
  <2>1. TypeOK
    BY DEF Inv
  <2>2. calls[c].body \in Seq(Kinds)
    BY <2>1, BodyTyped
  <2> QED BY <2>1, <2>2, JournalTyped
<1>2. /\ journal' \in Seq(Event) /\ Len(journal') = L + m
      /\ \A i \in 1 .. L : journal'[i] = journal[i]
      /\ \A i \in 1 .. m :
           journal'[L + i] = [call |-> c, kind |-> calls[c].body[i]]
  BY DurableIs
<1>3. Rows(c) = {}
  BY DEF Inv, CallInv, NothingYet, Complete, At
<1> HIDE DEF L, m
<1>4. DOMAIN journal = 1 .. L /\ DOMAIN journal' = 1 .. L + m
  BY <1>1, <1>2 DEF L
<1>5. ASSUME NEW j \in (L + 1) .. (L + m) PROVE journal'[j].call = c
  <2>1. j - L \in 1 .. m /\ j = L + (j - L)
    BY <1>1
  <2>2. journal'[L + (j - L)] = [call |-> c, kind |-> calls[c].body[j - L]]
    BY <1>2, <2>1, Zenon
  <2> QED BY <2>1, <2>2
<1>6. ASSUME NEW d \in Calls
      PROVE  Rows(d)' = {i \in 1 .. L + m : journal'[i].call = d}
  BY <1>4 DEF Rows
<1>7. ASSUME NEW d \in Calls
      PROVE  Rows(d) = {i \in 1 .. L : journal[i].call = d}
  BY <1>4 DEF Rows
<1>8. \A i \in 1 .. L : journal[i].call # c
  BY <1>3, <1>7
<1>9. Rows(c)' = (L + 1) .. (L + m)
  <2>1. Rows(c)' = {i \in 1 .. L + m : journal'[i].call = c}
    BY <1>6
  <2>2. \A i \in 1 .. L : journal'[i].call # c
    BY <1>2, <1>8
  <2>3. \A i \in (L + 1) .. (L + m) : journal'[i].call = c
    BY <1>5
  <2> QED BY <1>1, <2>1, <2>2, <2>3
<1>10. ASSUME NEW d \in Calls \ {c} PROVE Rows(d)' = Rows(d)
  <2>1. /\ Rows(d)' = {i \in 1 .. L + m : journal'[i].call = d}
        /\ Rows(d) = {i \in 1 .. L : journal[i].call = d}
    BY <1>6, <1>7
  <2>2. \A i \in 1 .. L : journal'[i].call = journal[i].call
    BY <1>2
  <2>3. \A i \in (L + 1) .. (L + m) : journal'[i].call # d
    BY <1>5
  <2> QED BY <1>1, <2>1, <2>2, <2>3
<1> QED
  BY <1>9, <1>10 DEF L, m

(* Whatever had landed stays landed.                                       *)
LEMMA LandedStays ==
  ASSUME NEW d \in Calls, Landed(d), calls'[d] = calls[d], Rows(d)' = Rows(d),
         journal \in Seq(Event), Len(journal') \in Nat,
         calls[d].body \in Seq(Kinds), Len(journal') >= Len(journal),
         \A i \in 1 .. Len(journal) : journal'[i] = journal[i]
  PROVE  Landed(d)'
<1> DEFINE b == calls[d].body
<1>1. Len(b) \in Nat /\ DOMAIN b = 1 .. Len(b) /\ Len(journal) \in Nat
  OBVIOUS
<1>2. PICK k \in 0 .. (Len(journal) - Len(b)) :
        /\ Rows(d) = (k + 1) .. (k + Len(b))
        /\ \A i \in DOMAIN b : journal[k + i].kind = b[i]
  BY DEF Landed
<1>3. k \in 0 .. (Len(journal') - Len(b))
  BY <1>1
<1>4. ASSUME NEW i \in DOMAIN b PROVE journal'[k + i].kind = b[i]
  <2>1. k + i \in 1 .. Len(journal)
    BY <1>1
  <2>2. journal'[k + i] = journal[k + i]
    BY <2>1
  <2> QED BY <1>2, <2>2
<1>5. /\ Rows(d)' = (k + 1) .. (k + Len(calls'[d].body))
      /\ \A i \in DOMAIN calls'[d].body : journal'[k + i].kind = calls'[d].body[i]
      /\ k \in 0 .. (Len(journal') - Len(calls'[d].body))
  BY <1>2, <1>3, <1>4
<1> QED
  BY <1>5, Zenon DEF Landed

(* A transaction takes effect, whether or not its caller hears of it.      *)
LEMMA LandStep ==
  ASSUME Inv, NEW c \in Calls, Complete(c), Durable(c), Release(c),
         calls' \in [Calls -> CallType],
         \A d \in Calls \ {c} : calls'[d] = calls[d],
         calls'[c].body = calls[c].body, calls'[c].mode = calls[c].mode,
         calls'[c].expected = calls[c].expected,
         \/ calls'[c].pc = "committed" /\ calls'[c].answer = "none"
         \/ /\ calls'[c].pc = "answered"
            /\ calls'[c].answer \in {"uncertain", "cancelled"}
  PROVE  Inv'
<1> DEFINE b == calls[c].body
<1>1. /\ TypeOK /\ CallInv(c) /\ At(c, "body") /\ writer = c
  BY DEF Inv, Complete, CallInv, Writing
<1>2. /\ journal \in Seq(Event) /\ Len(journal) \in Nat
      /\ b \in Seq(Kinds) /\ Len(b) \in Nat /\ DOMAIN b = 1 .. Len(b)
  <2>1. b \in Seq(Kinds)
    BY <1>1, BodyTyped
  <2> QED BY <1>1, <2>1, JournalTyped
<1>3. /\ journal' = journal \o Tagged(c, b)
      /\ journal' \in Seq(Event) /\ Len(journal') \in Nat
      /\ Len(journal') = Len(journal) + Len(b)
      /\ \A i \in 1 .. Len(journal) : journal'[i] = journal[i]
      /\ \A i \in 1 .. Len(b) :
           journal'[Len(journal) + i] = [call |-> c, kind |-> b[i]]
      /\ view' = Row(journal') /\ Replayable(journal')
      /\ PrefixHolds(c) /\ calls[c].base = Len(journal)
  BY DurableIs
<1>4. /\ Rows(c)' = (Len(journal) + 1) .. (Len(journal) + Len(b))
      /\ \A d \in Calls \ {c} : Rows(d)' = Rows(d)
  BY RowsGrow
<1>5. TypeOK'
  <2>1. /\ writer' \in Calls \cup {None}
        /\ conn' \in [Processes -> Calls \cup {None}]
    BY <1>1, Released
  <2>2. view' \in [watermark : Nat, state : ProjectionState]
    <3>1. Reduce(journal') \in ProjectionState
      BY <1>3, ReduceTyped
    <3> QED BY <1>3, <3>1 DEF Row
  <2>3. journal' \in Seq([call : Calls, kind : Kinds])
    BY <1>3 DEF Event
  <2> QED BY <2>1, <2>2, <2>3 DEF TypeOK
<1>6. Landed(c)'
  <2>1. ASSUME NEW i \in 1 .. Len(b)
        PROVE  journal'[Len(journal) + i].kind = b[i]
    <3>1. journal'[Len(journal) + i] = [call |-> c, kind |-> b[i]]
      BY <1>3, Zenon
    <3> QED BY <3>1
  <2>2. Len(journal) \in 0 .. (Len(journal') - Len(b))
    BY <1>2, <1>3
  <2>3. \E k \in 0 .. (Len(journal') - Len(b)) :
          /\ Rows(c)' = (k + 1) .. (k + Len(b))
          /\ \A i \in DOMAIN b : journal'[k + i].kind = b[i]
    BY <1>2, <1>4, <2>1, <2>2, Zenon
  <2> QED BY <2>3 DEF Landed
<1>7. CallInv(c)'
  <2>1. Placed(c)'
    <3>1. Serialized(c)' => calls'[c].expected = Len(journal)
      BY <1>3 DEF PrefixHolds, Serialized
    <3>2. ASSUME NEW i \in Rows(c)'
          PROVE  i > Len(journal) /\ i <= Len(journal) + Len(b)
      BY <1>2, <1>4
    <3> QED BY <3>1, <3>2 DEF Placed
  <2>2. BodyFits(c)'
    BY <1>1 DEF CallInv, BodyFits, At
  <2> QED BY <1>6, <2>1, <2>2 DEF CallInv, NothingYet, FromTheStart, Snapshot,
          Writing, Outcome, At
<1>8. ASSUME NEW d \in Calls \ {c} PROVE CallInv(d)'
  <2>1. /\ CallInv(d) /\ calls'[d] = calls[d] /\ Rows(d)' = Rows(d)
        /\ calls[d].body \in Seq(Kinds) /\ calls[d] \in CallType
    BY <1>1, <1>4, BodyTyped DEF Inv, TypeOK
  <2>2. ~At(d, "body")
    BY <1>1, <2>1 DEF CallInv, Writing
  <2>3. Landed(d) => Landed(d)'
    BY <1>2, <1>3, <2>1, LandedStays
  <2>4. Snapshot(d)'
    <3> SUFFICES ASSUME At(d, "upgrading")'
                 PROVE  /\ calls[d].base <= Len(journal')
                        /\ calls[d].base = Len(journal')
                             => calls[d].work = Reduce(journal')
      BY <2>1 DEF Snapshot
    <3>1. /\ calls[d].base <= Len(journal) /\ calls[d].base \in Nat
          /\ calls[d].base = Len(journal) => calls[d].work = Reduce(journal)
      BY <2>1 DEF CallInv, Snapshot, At, CallType
    <3>2. CASE Len(b) = 0
      <4>1. journal' = journal
        <5>1. b = << >>
          BY <1>2, <3>2
        <5>2. Tagged(c, << >>) = << >>
          BY DEF Tagged
        <5> QED BY <1>2, <1>3, <5>1, <5>2, ConcatEmptySeq
      <4> QED BY <3>1, <4>1
    <3>3. CASE Len(b) > 0
      BY <1>2, <1>3, <3>1, <3>3
    <3> QED BY <1>2, <3>2, <3>3
  <2>5. Outcome(d)'
    BY <2>1, <2>3 DEF CallInv, Outcome, At
  <2> QED BY <2>1, <2>2, <2>4, <2>5 DEF CallInv, NothingYet, FromTheStart,
          Writing, Placed, BodyFits, At, Serialized
<1> QED
  BY <1>3, <1>5, <1>7, <1>8 DEF Inv, ProjectionIsReduction

(* The commit is reported.                                                 *)
LEMMA CommitStep ==
  ASSUME Inv, NEW c \in Calls, Commit(c)
  PROVE  Inv'
<1> DEFINE r == [calls[c] EXCEPT !.pc = "committed"]
<1>1. TypeOK /\ Complete(c) /\ Durable(c) /\ Release(c) /\ CallInv(c)
  BY DEF Inv, Commit
<1>2. calls' = [calls EXCEPT ![c] = r]
  BY <1>1 DEF Commit, TypeOK
<1>3. /\ r \in CallType /\ r.pc = "committed" /\ r.answer = calls[c].answer
      /\ r.mode = calls[c].mode /\ r.body = calls[c].body
      /\ r.expected = calls[c].expected
  <2>1. calls[c] \in CallType
    BY <1>1 DEF TypeOK
  <2> QED BY <2>1 DEF CallType
<1>4. calls[c].answer = "none"
  BY <1>1 DEF Complete, CallInv, NothingYet, At
<1> HIDE DEF r
<1>5. /\ calls' \in [Calls -> CallType] /\ calls'[c] = r
      /\ \A d \in Calls \ {c} : calls'[d] = calls[d]
  BY <1>1, <1>2, <1>3, OneMoves
<1> QED
  BY <1>1, <1>3, <1>4, <1>5, LandStep

(* The commit fails, or is only reported to have failed.                   *)
LEMMA CommitFailsStep ==
  ASSUME Inv, NEW c \in Calls, NEW durable \in BOOLEAN,
         NEW err \in {"uncertain", "cancelled"}, CommitFails(c, durable, err)
  PROVE  Inv'
<1>1. /\ TypeOK /\ Complete(c) /\ EndAttempt(c, err) /\ Release(c)
      /\ calls[c].pc = "body" /\ err \in Answers /\ err # "busy"
      /\ err \in Answers \ {"none", "ok"}
  BY DEF Inv, CommitFails, Complete, EndAttempt, At, Answers
<1>2. CASE durable
  <2>1. /\ calls' \in [Calls -> CallType]
        /\ \A d \in Calls \ {c} : calls'[d] = calls[d]
        /\ calls'[c].body = calls[c].body /\ calls'[c].mode = calls[c].mode
        /\ calls'[c].expected = calls[c].expected
        /\ calls'[c].pc = "answered" /\ calls'[c].answer = err
    BY <1>1, AttemptEnds
  <2>2. Durable(c)
    BY <1>2 DEF CommitFails
  <2> QED BY <1>1, <2>1, <2>2, LandStep
<1>3. CASE ~durable
  <2>1. UNCHANGED <<journal, view>>
    BY <1>3 DEF CommitFails
  <2> QED BY <1>1, <2>1, AbandonStep
<1> QED
  BY <1>2, <1>3

-----------------------------------------------------------------------------
(* The invariant.                                                          *)

(* The empty database satisfies the invariant.                             *)
LEMMA InitInv == Init => Inv
<1> SUFFICES ASSUME Init PROVE Inv
  OBVIOUS
<1>1. Empty \in ProjectionState
  BY Zenon DEF Empty, ProjectionState
<1>2. 0 \in 0 .. (MaxContentionAttempts - 1)
  BY AttemptsAssumption
<1>3. NewCall \in CallType
  BY <1>1, <1>2 DEF NewCall, CallType, Modes, Answers
<1>4. journal = << >> /\ Len(journal) = 0 /\ journal \in Seq(Event)
      /\ DOMAIN journal = {}
  BY DEF Init
<1>5. view = Row(journal) /\ view \in [watermark : Nat, state : ProjectionState]
  <2>1. Reduce(journal) \in ProjectionState
    BY <1>4, ReduceTyped
  <2> QED BY <1>4, <2>1 DEF Init, Row
<1>6. TypeOK
  BY <1>3, <1>4, <1>5 DEF Init, TypeOK
<1>7. Replayable(journal)
  BY <1>4 DEF Replayable
<1>8. ASSUME NEW c \in Calls PROVE CallInv(c)
  <2>1. calls[c] = NewCall
    BY DEF Init
  <2>2. calls[c].pc = "new" /\ calls[c].answer = "none"
    BY <2>1 DEF NewCall
  <2>3. Rows(c) = {}
    BY <1>4 DEF Rows
  <2> QED BY <2>2, <2>3 DEF CallInv, NothingYet, FromTheStart, Snapshot,
          Writing, Outcome, Placed, BodyFits, At
<1> QED
  BY <1>5, <1>6, <1>7, <1>8 DEF Inv, ProjectionIsReduction

(* The steps of a transaction that end it before the commit.               *)
LEMMA AbandonSteps ==
  ASSUME Inv, NEW c \in Calls,
         \/ LockBusy(c) \/ UpgradeBusy(c) \/ StalePrefix(c)
         \/ RefuseBody(c) \/ Abort(c) \/ Cancelled(c)
  PROVE  Inv'
<1>1. /\ calls[c].pc \in {"called", "locking", "reading", "upgrading", "body"}
      /\ UNCHANGED <<journal, view>>
      /\ \E err \in {"busy", "failed", "stale", "refused", "cancelled"} :
           EndAttempt(c, err)
  BY DEF LockBusy, UpgradeBusy, StalePrefix, RefuseBody, Abort, Cancelled, At
<1> QED
  BY <1>1, AbandonStep DEF Answers

(* Every step keeps the invariant.                                         *)
LEMMA NextInv == Inv /\ [Next]_vars => Inv'
<1> SUFFICES ASSUME Inv, [Next]_vars PROVE Inv'
  OBVIOUS
<1>1. CASE \E c \in Calls, p \in Processes, mode \in Modes, body \in Bodies :
             Invoke(c, p, mode, body)
  BY <1>1, InvokeStep
<1>2. ASSUME NEW c \in Calls, Step(c) \/ Abort(c) \/ Cancelled(c)
      PROVE  Inv'
  BY <1>2, BeginTxStep, BudgetSpentStep, acquireWriteIntentStep,
     ReadSnapshotStep, UpgradeStep, applyMemberStep, CommitStep, AnswerStep,
     AbandonSteps DEF Step
<1>3. CASE \E c \in Calls, durable \in BOOLEAN,
              err \in {"uncertain", "cancelled"} : CommitFails(c, durable, err)
  BY <1>3, CommitFailsStep
<1>4. CASE \E p \in Processes : Crash(p)
  BY <1>4, CrashStep
<1>5. CASE UNCHANGED vars
  <2>1. UNCHANGED <<journal, view, writer, conn, calls>>
    BY <1>5 DEF vars
  <2>2. TypeOK' /\ ProjectionIsReduction' /\ Replayable(journal)'
    BY <2>1 DEF Inv, TypeOK, ProjectionIsReduction, Row
  <2>3. ASSUME NEW c \in Calls PROVE CallInv(c)'
    BY <2>1, OtherCall DEF Inv
  <2> QED BY <2>2, <2>3 DEF Inv
<1> QED
  BY <1>1, <1>2, <1>3, <1>4, <1>5 DEF Next, Terminating

(* In every reachable state each call's transaction is where Inv says.     *)
THEOREM AlwaysInv == Spec => []Inv
  BY InitInv, NextInv, PTL DEF Spec

(* Types, and the number of attempts within its bound (WriteSerialized).   *)
THEOREM Types == Spec => []TypeOK
<1>1. Inv => TypeOK
  BY DEF Inv
<1> QED
  BY <1>1, AlwaysInv, PTL

(* The materialised view is the fold of the committed journal, between     *)
(* crashes, lost commits and rebuilds (SaveProjection).                    *)
THEOREM ProjectionTheorem == Spec => []ProjectionIsReduction
<1>1. Inv => ProjectionIsReduction
  BY DEF Inv
<1> QED
  BY <1>1, AlwaysInv, PTL

(* A writer has reduced the journal it writes to, and is alone (Write,     *)
(* WriteSerialized).                                                       *)
THEOREM ReadsTheorem == Spec => []ReadsAreCurrent
<1>1. Inv => ReadsAreCurrent
  BY DEF Inv, CallInv, Writing, Pending, ReadsAreCurrent
<1> QED
  BY <1>1, AlwaysInv, PTL

(* A batch lands directly after the revision its caller had read           *)
(* (BatchCommand.ExpectedStateRevision).                                   *)
THEOREM PrefixTheorem == Spec => []BatchFollowsPrefix
<1>1. Inv => BatchFollowsPrefix
  BY DEF Inv, CallInv, Placed, BatchFollowsPrefix
<1> QED
  BY <1>1, AlwaysInv, PTL

(* A call lands whole or not at all, never twice, and its answer tells the *)
(* caller which (ApplyBatch, WriteSerialized).                             *)
THEOREM AnswersTheorem == Spec => []AnswersAreTrue
<1>1. Inv => AnswersAreTrue
  <2> SUFFICES ASSUME Inv, NEW c \in Calls
               PROVE  /\ Rows(c) = {} \/ Landed(c)
                      /\ calls[c].answer = "ok" => Landed(c)
                      /\ calls[c].answer \in {"busy", "stale", "refused", "failed"}
                           => Rows(c) = {}
    BY DEF AnswersAreTrue
  <2>1. CallInv(c) /\ calls[c] \in CallType
    BY DEF Inv, TypeOK
  <2>2. calls[c].pc \in {"new", "called", "locking", "reading", "upgrading",
                         "body", "committed", "answered"}
    BY <2>1 DEF CallType
  <2>3. CASE calls[c].pc \in {"new", "called", "locking", "reading",
                              "upgrading", "body"}
    BY <2>1, <2>3 DEF CallInv, NothingYet
  <2>4. CASE calls[c].pc \in {"committed", "answered"}
    BY <2>1, <2>4 DEF CallInv, Outcome, At
  <2> QED BY <2>2, <2>3, <2>4
<1> QED
  BY <1>1, AlwaysInv, PTL

-----------------------------------------------------------------------------
(* Refinement.                                                             *)

(* The abstract journal folds and replays as the control plane does.       *)
LEMMA SameFold ==
  ASSUME NEW s
  PROVE  Store!Reduce(s) = Reduce(s)
  BY DEF Store!Reduce, Reduce, Store!ApplyEvent, ApplyEvent, Store!Empty, Empty

(* ... and accepts the same events.                                        *)
LEMMA SameLegal ==
  ASSUME NEW p, NEW k
  PROVE  Store!Legal(p, k) = Legal(p, k)
  BY DEF Store!Legal, Legal

(* A transaction that takes effect is one step of the abstract journal, or *)
(* none when it was a rebuild.                                             *)
LEMMA LandRefines ==
  ASSUME Inv, NEW c \in Calls, Complete(c), Durable(c)
  PROVE  [Store!JournalNext]_<<journal, view>>
<1> DEFINE b == calls[c].body
<1>1. /\ journal' = journal \o Tagged(c, b)
      /\ view' = Row(journal') /\ Replayable(journal')
  BY DurableIs
<1>2. TypeOK /\ CallInv(c) /\ At(c, "body") /\ view = Row(journal)
  BY DEF Inv, Complete, ProjectionIsReduction
<1>3. CASE b = << >>
  <2>1. Tagged(c, << >>) = << >>
    BY DEF Tagged
  <2>2. journal \in Seq(Event)
    BY <1>2, JournalTyped
  <2>3. journal' = journal
    BY <1>1, <1>3, <2>1, <2>2, ConcatEmptySeq
  <2>4. view' = view
    BY <1>1, <1>2, <2>3
  <2> QED BY <2>3, <2>4
<1>4. CASE b \in Bodies
  <2>1. \A i \in DOMAIN journal : journal[i].call # c
    BY <1>2 DEF CallInv, NothingYet, Rows, At
  <2>2. journal' = journal \o Store!Tagged(c, b)
    BY <1>1 DEF Store!Tagged, Tagged
  <2>3. view' = Store!Row(journal')
    BY <1>1, SameFold DEF Store!Row, Row
  <2>4. Store!Replayable(journal')
    <3>1. ASSUME NEW n \in DOMAIN journal'
          PROVE  Store!Legal(Store!Reduce(SubSeq(journal', 1, n - 1)),
                             journal'[n].kind)
      <4>1. Legal(Reduce(SubSeq(journal', 1, n - 1)), journal'[n].kind)
        BY <1>1 DEF Replayable
      <4> QED BY <4>1, SameFold, SameLegal
    <3> QED BY <3>1 DEF Store!Replayable
  <2>5. Store!Land(c, b)
    BY <2>1, <2>2, <2>3, <2>4 DEF Store!Land
  <2> QED BY <1>4, <2>5 DEF Store!JournalNext
<1>5. b = << >> \/ b \in Bodies
  BY <1>2 DEF CallInv, BodyFits, At
<1> QED
  BY <1>3, <1>4, <1>5

(* Every step of the write path is a step of the abstract journal or       *)
(* leaves journal and view alone.                                          *)
LEMMA NextRefines == Inv /\ [Next]_vars => [Store!JournalNext]_<<journal, view>>
<1> SUFFICES ASSUME Inv, [Next]_vars
             PROVE  [Store!JournalNext]_<<journal, view>>
  OBVIOUS
<1>1. CASE \E c \in Calls : Complete(c) /\ Durable(c)
  BY <1>1, LandRefines
<1>2. CASE UNCHANGED <<journal, view>>
  BY <1>2
<1>3. (\E c \in Calls : Complete(c) /\ Durable(c)) \/ UNCHANGED <<journal, view>>
  BY DEF Next, vars, Invoke, Step, BeginTx, BudgetSpent, acquireWriteIntent,
     LockBusy, ReadSnapshot, Upgrade, UpgradeBusy, StalePrefix, applyMember,
     RefuseBody, Commit, Answer, Abort, Cancelled, CommitFails, Crash,
     Terminating
<1> QED
  BY <1>1, <1>2, <1>3

(* The write path implements the abstract journal: it only grows, by whole *)
(* legal bodies, no call lands twice, and the view is its fold (Apply,     *)
(* ApplyBatch, RebuildProjection over Write and WriteSerialized).          *)
THEOREM Refinement == Spec => ImplementsJournal
<1>1. Init => Store!JournalInit
  BY SameFold DEF Init, Store!JournalInit, Row, Store!Row
<1> QED
  BY <1>1, NextRefines, AlwaysInv, PTL
     DEF Spec, ImplementsJournal, Store!JournalSpec

=============================================================================
