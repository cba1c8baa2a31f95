--------------------------- MODULE ReviewsProofs ---------------------------
(***************************************************************************)
(* Proofs about the review executor, for any number of calls, dimensions,  *)
(* actors and candidates.                                                  *)
(*                                                                         *)
(* The inductive invariant follows a call from its checks to its record:   *)
(* the candidate it reads cannot change under it, because a terminated     *)
(* attempt never does (HistoryIsImmutable of the reducer), and the intent  *)
(* it commits stays its own.                                               *)
(***************************************************************************)
EXTENDS Reviews, ReducerProofs

CallRecord ==
  [pc : {"new", "next", "prepared", "intending", "intended", "session",
         "closing", "ended"},
   task : TaskIds \cup {None}, attempt : AttemptIds \cup {None},
   commit : Commits \cup {None}, wp : WorkPackageIds \cup {None},
   todo : SUBSET Dimensions, dim : Dimensions \cup {None},
   reviewer : Actors \cup {None},
   outcome : InvocationOutcomes \cup {"none"},
   verdict : Verdicts \cup {"none"}]

IntentRecord == [review : ReviewIds \cup {None}, commit : Commits \cup {None},
                 reviewer : Actors \cup {None}]

InvocationRecord == [outcome : InvocationOutcomes \cup {"none"},
                     verdict : Verdicts \cup {"none"},
                     attempt : AttemptIds \cup {None},
                     commit : Commits \cup {None}]

TypeReviews ==
  /\ TypeOK
  /\ calls \in [Calls -> CallRecord]
  /\ intents \in [AttemptIds \X Dimensions -> IntentRecord]
  /\ invocations \in [Calls \X Dimensions -> InvocationRecord]
  /\ authors \in [AttemptIds -> Actors \cup {None}]
  /\ sessions \in [AttemptIds \X Dimensions -> Nat]

(* The attempt a is a candidate, and its commit is c.                      *)
Candidate(a, c) ==
  /\ a \in AttemptIds
  /\ attempts[a].status = "candidate_produced"
  /\ attempts[a].commit = c

(* A call under way reviews a candidate that cannot change.                *)
HasCandidate(k) ==
  calls[k].pc \notin {"new", "ended"} =>
    calls[k].task \in TaskIds /\ Candidate(calls[k].attempt, calls[k].commit)

(* The reviewer of a dimension is not the candidate's author.              *)
Independent(k) ==
  calls[k].pc \in {"prepared", "intending", "intended", "session", "closing"} =>
    /\ calls[k].dim \in Dimensions
    /\ calls[k].reviewer # authors[calls[k].attempt]

(* The intent a call committed is still its own; until its session starts  *)
(* no model has been asked.                                                *)
Intended(k) ==
  calls[k].pc \in {"intended", "session", "closing"} =>
    /\ intents[<<calls[k].attempt, calls[k].dim>>] = IntentOf(k)
    /\ calls[k].pc = "intended" =>
         sessions[<<calls[k].attempt, calls[k].dim>>] = 0

(* The outcome of a session that has ended.                                *)
Judged(k) ==
  calls[k].pc \in {"session", "closing"} =>
    /\ calls[k].outcome \in InvocationOutcomes
    /\ calls[k].outcome # "completed" => calls[k].verdict = "unable_to_verify"

CallInv(k) == HasCandidate(k) /\ Independent(k) /\ Intended(k) /\ Judged(k)

(* What a recorded invocation rests on.                                    *)
Announced(k, d) ==
  LET inv == invocations[<<k, d>>]
  IN  inv # NoInvocation =>
        /\ Candidate(inv.attempt, inv.commit)
        /\ intents[<<inv.attempt, d>>].review = <<k, d>>
        /\ intents[<<inv.attempt, d>>].commit = inv.commit
        /\ intents[<<inv.attempt, d>>].reviewer # authors[inv.attempt]
        /\ reviews[<<k, d>>].scope = "attempt"
        /\ reviews[<<k, d>>].attempt = inv.attempt
        /\ reviews[<<k, d>>].commit = inv.commit
        /\ inv.outcome # "completed" => inv.verdict = "unable_to_verify"

ReviewsInv ==
  /\ TypeReviews
  /\ OneSessionPerDimension
  /\ \A k \in Calls : CallInv(k)
  /\ \A k \in Calls, d \in Dimensions : Announced(k, d)

-----------------------------------------------------------------------------
(* Facts used throughout.                                                  *)

(* Records of calls, intents and invocations.                              *)
LEMMA ReviewRecords ==
  /\ NoCall \in CallRecord /\ NoCall.pc = "new"
  /\ [NoCall EXCEPT !.pc = "ended"] \in CallRecord
  /\ [NoCall EXCEPT !.pc = "ended"].pc = "ended"
  /\ NoIntent \in IntentRecord /\ NoIntent.review = None
  /\ NoInvocation \in InvocationRecord
  BY DEF NoCall, CallRecord, NoIntent, IntentRecord, NoInvocation,
     InvocationRecord

(* A review id names its call and dimension, and is not "".                *)
LEMMA ReviewIdsDiffer ==
  ASSUME NEW k \in Calls, NEW d \in Dimensions
  PROVE  <<k, d>> \in ReviewIds /\ <<k, d>> # None
<1>1. <<k, d>> \in Calls \X Dimensions
  OBVIOUS
<1> QED BY <1>1, ReviewIdAssumption

(* One call's record is replaced.                                          *)
LEMMA OneCallMoves ==
  ASSUME TypeReviews, NEW k \in Calls, NEW r \in CallRecord,
         calls' = [calls EXCEPT ![k] = r]
  PROVE  /\ calls' \in [Calls -> CallRecord] /\ calls'[k] = r
         /\ \A j \in Calls \ {k} : calls'[j] = calls[j]
  BY DEF TypeReviews

(* What a call relies on while neither it nor what it read changes.        *)
LEMMA CallQuiet ==
  ASSUME ReviewsInv, NEW k \in Calls, calls'[k] = calls[k],
         UNCHANGED <<attempts, authors, intents, sessions>>
  PROVE  CallInv(k)'
<1>1. CallInv(k)
  BY DEF ReviewsInv
<1> QED
  BY <1>1 DEF CallInv, HasCandidate, Candidate, Independent, Intended, IntentOf,
     Judged

(* A call that is over, or has not begun, relies on nothing.               *)
LEMMA CallOver ==
  ASSUME NEW k \in Calls, calls'[k].pc \in {"new", "ended"}
  PROVE  CallInv(k)'
  BY DEF CallInv, HasCandidate, Independent, Intended, Judged

(* A step of one call that writes nothing shared: it is enough that the    *)
(* call itself still has what it relies on.                                *)
LEMMA CallAlone ==
  ASSUME ReviewsInv, NEW k \in Calls, NEW r \in CallRecord,
         calls' = [calls EXCEPT ![k] = r],
         UNCHANGED <<vars, intents, invocations, authors, sessions>>,
         CallInv(k)'
  PROVE  ReviewsInv'
<1>1. TypeReviews
  BY DEF ReviewsInv
<1>2. /\ calls' \in [Calls -> CallRecord]
      /\ \A j \in Calls \ {k} : calls'[j] = calls[j]
  BY <1>1, OneCallMoves
<1>3. TypeReviews'
  BY <1>1, <1>2 DEF TypeReviews, TypeOK, vars
<1>4. OneSessionPerDimension'
  BY DEF ReviewsInv, OneSessionPerDimension
<1>5. UNCHANGED attempts
  BY DEF vars
<1>6. ASSUME NEW j \in Calls PROVE CallInv(j)'
  BY <1>2, <1>5, CallQuiet
<1>7. \A j \in Calls, d \in Dimensions : Announced(j, d)'
  BY DEF ReviewsInv, Announced, Candidate, vars
<1> QED
  BY <1>3, <1>4, <1>6, <1>7 DEF ReviewsInv

-----------------------------------------------------------------------------
(* Events of others.                                                       *)

(* A journal event of another client does not touch a candidate, recorded  *)
(* evidence, or the provenance of a candidate.                             *)
LEMMA OthersStep ==
  ASSUME ReviewsInv, [Next]_vars,
         UNCHANGED <<calls, intents, invocations, sessions>>,
         authors' \in [AttemptIds -> Actors \cup {None}],
         \A a \in AttemptIds : attempts[a].status = "candidate_produced" =>
           authors'[a] = authors[a]
  PROVE  ReviewsInv'
<1>1. TypeReviews /\ TypeOK
  BY DEF ReviewsInv, TypeReviews
<1>2. TypeReviews'
  <2>1. TypeOK'
    BY <1>1, TypeStep
  <2> QED BY <1>1, <2>1 DEF TypeReviews
<1>3. OneSessionPerDimension'
  BY DEF ReviewsInv, OneSessionPerDimension
<1>4. ASSUME NEW a, NEW c, Candidate(a, c)
      PROVE  /\ attempts'[a].status = "candidate_produced"
             /\ attempts'[a].commit = c
             /\ authors'[a] = authors[a]
  <2>1. a \in AttemptIds /\ attempts[a].status \in AttemptTerminal
    BY <1>4 DEF Candidate, AttemptTerminal
  <2>2. attempts'[a] = attempts[a]
    BY <1>1, <2>1, AttemptsKept
  <2> QED BY <1>4, <2>1, <2>2 DEF Candidate
<1>5. ASSUME NEW k \in Calls PROVE CallInv(k)'
  <2>1. CallInv(k)
    BY DEF ReviewsInv
  <2>2. CASE calls[k].pc \in {"new", "ended"}
    BY <2>2, CallOver
  <2>3. CASE calls[k].pc \notin {"new", "ended"}
    <3>1. /\ calls[k].task \in TaskIds
          /\ Candidate(calls[k].attempt, calls[k].commit)
      BY <2>1, <2>3 DEF CallInv, HasCandidate
    <3>2. /\ attempts'[calls[k].attempt].status = "candidate_produced"
          /\ attempts'[calls[k].attempt].commit = calls[k].commit
          /\ authors'[calls[k].attempt] = authors[calls[k].attempt]
          /\ calls[k].attempt \in AttemptIds
      BY <1>4, <3>1 DEF Candidate
    <3> QED
      BY <2>1, <3>1, <3>2 DEF CallInv, HasCandidate, Candidate, Independent,
         Intended, IntentOf, Judged
  <2> QED BY <2>2, <2>3
<1>6. ASSUME NEW k \in Calls, NEW d \in Dimensions PROVE Announced(k, d)'
  <2>1. CASE invocations[<<k, d>>] = NoInvocation
    BY <2>1 DEF Announced
  <2>2. CASE invocations[<<k, d>>] # NoInvocation
    <3> DEFINE inv == invocations[<<k, d>>]
    <3>1. /\ Candidate(inv.attempt, inv.commit)
          /\ reviews[<<k, d>>].scope = "attempt"
          /\ Announced(k, d)
      BY <2>2 DEF ReviewsInv, Announced
    <3>2. /\ attempts'[inv.attempt].status = "candidate_produced"
          /\ attempts'[inv.attempt].commit = inv.commit
          /\ authors'[inv.attempt] = authors[inv.attempt]
          /\ inv.attempt \in AttemptIds
      BY <1>4, <3>1 DEF Candidate
    <3>3. reviews'[<<k, d>>] = reviews[<<k, d>>]
      <4>1. <<k, d>> \in ReviewIds
        BY ReviewIdsDiffer
      <4> QED BY <1>1, <3>1, <4>1, EvidenceKept
    <3> QED
      BY <2>2, <3>1, <3>2, <3>3 DEF Announced, Candidate
  <2> QED BY <2>1, <2>2
<1> QED
  BY <1>2, <1>3, <1>5, <1>6 DEF ReviewsInv

(* A call that begins claims no candidate, intent or session yet.          *)
LEMMA StartStep ==
  ASSUME ReviewsInv, Start
  PROVE  ReviewsInv'
<1>1. Next
  BY DEF Start, Next
<1>2. UNCHANGED <<calls, intents, invocations, sessions, authors>>
  BY DEF Start
<1>3. authors' \in [AttemptIds -> Actors \cup {None}]
  BY <1>2 DEF ReviewsInv, TypeReviews
<1> QED
  BY <1>1, <1>2, <1>3, OthersStep

(* OtherClient.  Only the event that produces a candidate names an author, *)
(* and it finds the attempt running.                                       *)
LEMMA OtherClientStep ==
  ASSUME ReviewsInv, NEW t \in TaskIds, OtherClient(t)
  PROVE  ReviewsInv'
<1>1. UNCHANGED <<calls, intents, invocations, sessions>>
  BY DEF OtherClient
<1>2. authors \in [AttemptIds -> Actors \cup {None}]
  BY DEF ReviewsInv, TypeReviews
<1>3. ASSUME NEW a \in AttemptIds, NEW c \in Commits, NEW x \in Actors,
             CandidateProduced(t, a, c), authors' = [authors EXCEPT ![a] = x]
      PROVE  ReviewsInv'
  <2>1. Next
    BY <1>3 DEF Next, AttemptNext
  <2>2. attempts[a].status = "running"
    BY <1>3 DEF CandidateProduced, CanFinish, CanFinishAttempt
  <2>3. /\ authors' \in [AttemptIds -> Actors \cup {None}]
        /\ \A b \in AttemptIds : attempts[b].status = "candidate_produced" =>
             authors'[b] = authors[b]
    BY <1>2, <1>3, <2>2
  <2> QED BY <1>1, <2>1, <2>3, OthersStep
<1>4. CASE UNCHANGED authors
  <2>1. ASSUME NEW w \in WorkPackageIds, NEW v \in Versions,
               WorkPackageApproved(t, w, v)
        PROVE  Next
    BY <2>1 DEF Next, PlanningNext
  <2>2. ASSUME NEW a \in AttemptIds, NEW w \in WorkPackageIds,
               NEW v \in Versions, AttemptStarted(t, a, w, v)
        PROVE  Next
    BY <2>2 DEF Next, AttemptNext
  <2>3. ASSUME NEW a \in AttemptIds, NEW c \in Commits,
               NEW id \in ValidationIds, NEW o \in {"pass", "fail"},
               ValidationCompletedAttempt(t, a, c, id, o)
        PROVE  Next
    BY <2>3 DEF Next, DecisionNext, Outcomes
  <2>4. ASSUME NEW a \in AttemptIds, NEW c \in Commits,
               NEW w \in WorkPackageIds, NEW v \in ValidationIds,
               NEW r \in ReviewIds, ChangeAccepted(t, a, c, w, {v}, {r})
        PROVE  Next
    <3>1. /\ {v} \in (SUBSET ValidationIds) \ {{}}
          /\ {r} \in (SUBSET ReviewIds) \ {{}}
      OBVIOUS
    <3> QED BY <2>4, <3>1, Zenon DEF Next, DecisionNext
  <2>5. ASSUME NEW w \in WorkPackageIds, TaskDelegated(t, w) PROVE Next
    BY <2>5 DEF Next, PlanningNext
  <2>6. TaskCreated(t) \/ TaskDesignStarted(t) => Next
    BY DEF Next, PlanningNext
  <2>7. ASSUME NEW a \in AttemptIds, ChangeRejected(t, a) PROVE Next
    BY <2>7 DEF Next, DecisionNext
  <2>8. EscalationRaised(t, None) => Next
    BY DEF Next, DecisionNext
  <2>9. CASE Next
    BY <1>1, <1>2, <1>4, <2>9, OthersStep
  <2> QED
    BY <1>3, <2>1, <2>2, <2>3, <2>4, <2>5, <2>6, <2>7, <2>8, <2>9, Zenon
    DEF OtherClient
<1> QED
  BY <1>3, <1>4, Zenon DEF OtherClient

-----------------------------------------------------------------------------
(* The steps of a call that write nothing shared.                          *)

(* A call that ends, whatever the reason.                                  *)
LEMMA EndCallStep ==
  ASSUME ReviewsInv, NEW k \in Calls, EndCall(k),
         UNCHANGED <<vars, intents, invocations, authors, sessions>>
  PROVE  ReviewsInv'
<1> DEFINE r == [NoCall EXCEPT !.pc = "ended"]
<1>1. r \in CallRecord /\ r.pc = "ended"
  BY ReviewRecords
<1>2. calls' = [calls EXCEPT ![k] = r]
  BY DEF EndCall
<1> HIDE DEF r
<1>3. TypeReviews
  BY DEF ReviewsInv
<1>4. calls'[k] = r
  BY <1>1, <1>2, <1>3, OneCallMoves
<1>5. CallInv(k)'
  BY <1>1, <1>4, CallOver
<1> QED
  BY <1>1, <1>2, <1>5, CallAlone

(* Executor.Review: the candidate it read is a terminated attempt.         *)
LEMMA ReviewCallStep ==
  ASSUME ReviewsInv, NEW k \in Calls, NEW t \in TaskIds, NEW a \in AttemptIds,
         NEW dims \in SUBSET Dimensions, Review(k, t, a, dims)
  PROVE  ReviewsInv'
<1> DEFINE r == [NoCall EXCEPT !.pc = "next", !.task = t, !.attempt = a,
                      !.commit = attempts[a].commit, !.wp = tasks[t].wp,
                      !.todo = dims]
<1>1. TypeReviews /\ TypeOK
  BY DEF ReviewsInv, TypeReviews
<1>2. attempts[a] \in Attempt /\ tasks[t] \in Task
  BY <1>1 DEF TypeOK
<1>3. attempts[a].commit \in Commits \cup {None}
  BY <1>2 DEF Attempt
<1>4. tasks[t].wp \in WorkPackageIds \cup {None}
  BY <1>2 DEF Task
<1>5. r \in CallRecord
  BY <1>3, <1>4 DEF NoCall, CallRecord
<1>6. r.pc = "next" /\ r.task = t /\ r.attempt = a /\ r.commit = attempts[a].commit
  BY DEF NoCall
<1>7. /\ calls' = [calls EXCEPT ![k] = r]
      /\ UNCHANGED <<vars, intents, invocations, authors, sessions>>
      /\ attempts[a].status = "candidate_produced"
  BY DEF Review
<1> HIDE DEF r
<1>8. calls'[k] = r
  BY <1>1, <1>5, <1>7, OneCallMoves
<1>9. CallInv(k)'
  BY <1>6, <1>7, <1>8 DEF CallInv, HasCandidate, Candidate, Independent,
     Intended, Judged, vars
<1> QED
  BY <1>5, <1>7, <1>9, CallAlone

(* The checks of independence come before a dimension is prepared.         *)
LEMMA PrepareStep ==
  ASSUME ReviewsInv, NEW k \in Calls, NEW d \in Dimensions, NEW x \in Actors,
         PrepareDimension(k, d, x)
  PROVE  ReviewsInv'
<1> DEFINE r == [[calls[k] EXCEPT !.dim = d, !.reviewer = x,
                    !.todo = calls[k].todo \ {d}] EXCEPT !.pc = "prepared"]
<1>1. TypeReviews /\ CallInv(k)
  BY DEF ReviewsInv
<1>2. calls[k] \in CallRecord
  BY <1>1 DEF TypeReviews
<1>3. r \in CallRecord
  BY <1>2 DEF CallRecord
<1>4. /\ r.pc = "prepared" /\ r.task = calls[k].task /\ r.dim = d
      /\ r.attempt = calls[k].attempt /\ r.commit = calls[k].commit
      /\ r.reviewer = x
  BY <1>2 DEF CallRecord
<1>5. /\ calls' = [calls EXCEPT ![k] = r]
      /\ UNCHANGED <<vars, intents, invocations, authors, sessions>>
      /\ calls[k].pc = "next" /\ x # authors[calls[k].attempt]
  BY DEF PrepareDimension, Step
<1> HIDE DEF r
<1>6. calls'[k] = r
  BY <1>1, <1>3, <1>5, OneCallMoves
<1>7. CallInv(k)'
  BY <1>1, <1>4, <1>5, <1>6 DEF CallInv, HasCandidate, Candidate, Independent,
     Intended, Judged, vars
<1> QED
  BY <1>3, <1>5, <1>7, CallAlone

(* A read of the revision moves the call on and keeps all it relies on.    *)
LEMMA ReadRevisionStep ==
  ASSUME ReviewsInv, NEW k \in Calls, NEW from, NEW to,
         <<from, to>> \in {<<"prepared", "intending">>, <<"session", "closing">>},
         ReadRevision(k, from, to)
  PROVE  ReviewsInv'
<1> DEFINE r == [calls[k] EXCEPT !.pc = to]
<1>1. TypeReviews /\ CallInv(k)
  BY DEF ReviewsInv
<1>2. calls[k] \in CallRecord
  BY <1>1 DEF TypeReviews
<1>3. \/ from = "prepared" /\ to = "intending"
      \/ from = "session" /\ to = "closing"
  OBVIOUS
<1>4. r \in CallRecord
  BY <1>2, <1>3 DEF CallRecord
<1>5. /\ r.pc = to /\ r.task = calls[k].task /\ r.dim = calls[k].dim
      /\ r.attempt = calls[k].attempt /\ r.commit = calls[k].commit
      /\ r.reviewer = calls[k].reviewer /\ r.outcome = calls[k].outcome
      /\ r.verdict = calls[k].verdict
  BY <1>2 DEF CallRecord
<1>6. /\ calls' = [calls EXCEPT ![k] = r]
      /\ UNCHANGED <<vars, intents, invocations, authors, sessions>>
      /\ calls[k].pc = from
  BY DEF ReadRevision, Step
<1> HIDE DEF r
<1>7. calls'[k] = r
  BY <1>1, <1>4, <1>6, OneCallMoves
<1>8. CallInv(k)'
  BY <1>1, <1>3, <1>5, <1>6, <1>7 DEF CallInv, HasCandidate, Candidate,
     Independent, Intended, IntentOf, Judged, vars
<1> QED
  BY <1>4, <1>6, <1>8, CallAlone

(* Limits that are not positive: the call has an outcome and no session.   *)
LEMMA BadLimitsStep ==
  ASSUME ReviewsInv, NEW k \in Calls, BadLimits(k)
  PROVE  ReviewsInv'
<1> DEFINE r == [[calls[k] EXCEPT !.outcome = "unfinished",
                    !.verdict = "unable_to_verify"] EXCEPT !.pc = "session"]
<1>1. TypeReviews /\ CallInv(k)
  BY DEF ReviewsInv
<1>2. calls[k] \in CallRecord
  BY <1>1 DEF TypeReviews
<1>3. r \in CallRecord
  BY <1>2 DEF CallRecord, InvocationOutcomes, Verdicts
<1>4. /\ r.pc = "session" /\ r.task = calls[k].task /\ r.dim = calls[k].dim
      /\ r.attempt = calls[k].attempt /\ r.commit = calls[k].commit
      /\ r.reviewer = calls[k].reviewer /\ r.outcome = "unfinished"
      /\ r.verdict = "unable_to_verify"
  BY <1>2 DEF CallRecord
<1>5. /\ calls' = [calls EXCEPT ![k] = r]
      /\ UNCHANGED <<vars, intents, invocations, authors, sessions>>
      /\ calls[k].pc = "intended"
  BY DEF BadLimits, Step
<1> HIDE DEF r
<1>6. calls'[k] = r
  BY <1>1, <1>3, <1>5, OneCallMoves
<1>7. CallInv(k)'
  BY <1>1, <1>4, <1>5, <1>6 DEF CallInv, HasCandidate, Candidate, Independent,
     Intended, IntentOf, Judged, vars, InvocationOutcomes
<1> QED
  BY <1>3, <1>5, <1>7, CallAlone

-----------------------------------------------------------------------------
(* The three steps that write what calls share.                            *)

(* The intent of a dimension is committed where there was none, so no      *)
(* other call's intent and no recorded review is touched.                  *)
LEMMA CommitIntentStep ==
  ASSUME ReviewsInv, NEW k \in Calls, CommitIntent(k)
  PROVE  ReviewsInv'
<1> DEFINE r == [calls[k] EXCEPT !.pc = "intended"]
           p == <<calls[k].attempt, calls[k].dim>>
           i == IntentOf(k)
<1>1. TypeReviews /\ CallInv(k) /\ OneSessionPerDimension
  BY DEF ReviewsInv
<1>2. calls[k] \in CallRecord
  BY <1>1 DEF TypeReviews
<1>3. r \in CallRecord
  BY <1>2 DEF CallRecord
<1>4. /\ r.pc = "intended" /\ r.task = calls[k].task /\ r.dim = calls[k].dim
      /\ r.attempt = calls[k].attempt /\ r.commit = calls[k].commit
      /\ r.reviewer = calls[k].reviewer
  BY <1>2 DEF CallRecord
<1>5. /\ calls' = [calls EXCEPT ![k] = r] /\ calls[k].pc = "intending"
      /\ intents[p] = NoIntent /\ intents' = [intents EXCEPT ![p] = i]
      /\ UNCHANGED <<vars, invocations, authors, sessions>>
  BY DEF CommitIntent, Step, intentAbsentGuard
<1>6. /\ calls[k].dim \in Dimensions /\ calls[k].attempt \in AttemptIds
      /\ calls[k].task \in TaskIds /\ Candidate(calls[k].attempt, calls[k].commit)
      /\ calls[k].reviewer # authors[calls[k].attempt]
  BY <1>1, <1>5 DEF CallInv, HasCandidate, Candidate, Independent
<1>7. p \in AttemptIds \X Dimensions
  BY <1>6
<1>8. /\ i.review = <<k, calls[k].dim>> /\ i.commit = calls[k].commit
      /\ i.reviewer = calls[k].reviewer
      /\ i = [review |-> <<k, calls[k].dim>>, commit |-> calls[k].commit,
              reviewer |-> calls[k].reviewer]
  BY DEF IntentOf
<1>9. i \in IntentRecord
  <2>1. <<k, calls[k].dim>> \in ReviewIds
    BY <1>6, ReviewIdsDiffer
  <2>2. /\ calls[k].commit \in Commits \cup {None}
        /\ calls[k].reviewer \in Actors \cup {None}
    BY <1>2 DEF CallRecord
  <2> QED BY <1>8, <2>1, <2>2 DEF IntentRecord
<1>10. i # NoIntent
  BY <1>6, <1>8, ReviewIdsDiffer, ReviewRecords
<1>11. sessions[p] = 0
  BY <1>1, <1>5, <1>7 DEF OneSessionPerDimension, TypeReviews
<1> HIDE DEF r, i
<1>12. /\ calls' \in [Calls -> CallRecord] /\ calls'[k] = r
       /\ \A j \in Calls \ {k} : calls'[j] = calls[j]
  BY <1>1, <1>3, <1>5, OneCallMoves
<1>13. /\ intents' \in [AttemptIds \X Dimensions -> IntentRecord]
       /\ intents'[p] = i
       /\ \A q \in AttemptIds \X Dimensions : q # p => intents'[q] = intents[q]
  BY <1>1, <1>5, <1>7, <1>9 DEF TypeReviews
<1> HIDE DEF p
<1>14. TypeReviews'
  BY <1>1, <1>5, <1>12, <1>13 DEF TypeReviews, TypeOK, vars
<1>15. OneSessionPerDimension'
  <2>1. ASSUME NEW q \in AttemptIds \X Dimensions
        PROVE  sessions'[q] <= IF intents'[q] = NoIntent THEN 0 ELSE 1
    <3>1. sessions[q] <= IF intents[q] = NoIntent THEN 0 ELSE 1
      BY <1>1 DEF OneSessionPerDimension
    <3>2. CASE q = p
      BY <1>5, <1>10, <1>11, <1>13, <3>2
    <3>3. CASE q # p
      BY <1>5, <1>13, <3>1, <3>3
    <3> QED BY <3>2, <3>3
  <2> QED BY <2>1 DEF OneSessionPerDimension
<1>16. ASSUME NEW j \in Calls PROVE CallInv(j)'
  <2>1. CASE j = k
    <3>1. /\ intents'[<<calls'[k].attempt, calls'[k].dim>>] = IntentOf(k)'
      BY <1>4, <1>8, <1>12, <1>13 DEF IntentOf, p
    <3>2. sessions'[<<calls'[k].attempt, calls'[k].dim>>] = 0
      BY <1>4, <1>5, <1>11, <1>12 DEF p
    <3> QED
      BY <1>4, <1>5, <1>6, <1>12, <2>1, <3>1, <3>2 DEF CallInv, HasCandidate,
         Candidate, Independent, Intended, Judged, vars
  <2>2. CASE j # k
    <3>1. CallInv(j) /\ calls'[j] = calls[j]
      BY <1>12, <2>2 DEF ReviewsInv
    <3>2. CASE calls[j].pc \in {"intended", "session", "closing"}
      <4>1. /\ calls[j].dim \in Dimensions /\ calls[j].attempt \in AttemptIds
            /\ intents[<<calls[j].attempt, calls[j].dim>>] = IntentOf(j)
        BY <3>1, <3>2 DEF CallInv, Independent, HasCandidate, Candidate, Intended
      <4>2. IntentOf(j) # NoIntent
        BY <4>1, ReviewIdsDiffer, ReviewRecords DEF IntentOf
      <4>3. intents'[<<calls[j].attempt, calls[j].dim>>] = IntentOf(j)
        BY <1>5, <1>13, <4>1, <4>2
      <4> QED
        BY <1>5, <3>1, <4>3 DEF CallInv, HasCandidate, Candidate, Independent,
           Intended, IntentOf, Judged, vars
    <3>3. CASE calls[j].pc \notin {"intended", "session", "closing"}
      BY <1>5, <3>1, <3>3 DEF CallInv, HasCandidate, Candidate, Independent,
         Intended, Judged, vars
    <3> QED BY <3>2, <3>3
  <2> QED BY <2>1, <2>2
<1>17. ASSUME NEW j \in Calls, NEW d \in Dimensions PROVE Announced(j, d)'
  <2>1. Announced(j, d) /\ UNCHANGED <<invocations, reviews, attempts, authors>>
    BY <1>5 DEF ReviewsInv, vars
  <2>2. CASE invocations[<<j, d>>] = NoInvocation
    BY <2>1, <2>2 DEF Announced
  <2>3. CASE invocations[<<j, d>>] # NoInvocation
    <3> DEFINE q == <<invocations[<<j, d>>].attempt, d>>
    <3>1. intents[q].review = <<j, d>> /\ q \in AttemptIds \X Dimensions
      BY <2>1, <2>3 DEF Announced, Candidate
    <3>2. intents[q] # NoIntent
      BY <3>1, ReviewIdsDiffer, ReviewRecords
    <3>3. intents'[q] = intents[q]
      BY <1>5, <1>13, <3>1, <3>2
    <3> QED BY <2>1, <3>3 DEF Announced, Candidate
  <2> QED BY <2>2, <2>3
<1> QED
  BY <1>14, <1>15, <1>16, <1>17 DEF ReviewsInv

(* The session of a dimension is started by the one call whose intent is   *)
(* in the journal, and for the first time.                                 *)
LEMMA RunSessionStep ==
  ASSUME ReviewsInv, NEW k \in Calls, NEW o \in InvocationOutcomes,
         NEW v \in Verdicts, RunSession(k, o, v)
  PROVE  ReviewsInv'
<1> DEFINE r == [[calls[k] EXCEPT !.outcome = o, !.verdict = v]
                   EXCEPT !.pc = "session"]
           p == <<calls[k].attempt, calls[k].dim>>
<1>1. TypeReviews /\ CallInv(k) /\ OneSessionPerDimension
  BY DEF ReviewsInv
<1>2. calls[k] \in CallRecord
  BY <1>1 DEF TypeReviews
<1>3. r \in CallRecord
  BY <1>2 DEF CallRecord
<1>4. /\ r.pc = "session" /\ r.task = calls[k].task /\ r.dim = calls[k].dim
      /\ r.attempt = calls[k].attempt /\ r.commit = calls[k].commit
      /\ r.reviewer = calls[k].reviewer /\ r.outcome = o /\ r.verdict = v
  BY <1>2 DEF CallRecord
<1>5. /\ calls' = [calls EXCEPT ![k] = r] /\ calls[k].pc = "intended"
      /\ v \in VerdictOf(o) /\ sessions' = [sessions EXCEPT ![p] = @ + 1]
      /\ UNCHANGED <<vars, intents, invocations, authors>>
  BY DEF RunSession, Step
<1>6. /\ calls[k].dim \in Dimensions /\ calls[k].attempt \in AttemptIds
      /\ intents[p] = IntentOf(k) /\ sessions[p] = 0
  BY <1>1, <1>5 DEF CallInv, HasCandidate, Candidate, Independent, Intended
<1>7. p \in AttemptIds \X Dimensions
  BY <1>6
<1>8. intents[p].review = <<k, calls[k].dim>>
  BY <1>6 DEF IntentOf
<1>9. intents[p] # NoIntent
  BY <1>6, <1>8, ReviewIdsDiffer, ReviewRecords
<1> HIDE DEF r
<1>10. /\ calls' \in [Calls -> CallRecord] /\ calls'[k] = r
       /\ \A j \in Calls \ {k} : calls'[j] = calls[j]
  BY <1>1, <1>3, <1>5, OneCallMoves
<1>11. /\ sessions' \in [AttemptIds \X Dimensions -> Nat] /\ sessions'[p] = 1
       /\ \A q \in AttemptIds \X Dimensions : q # p => sessions'[q] = sessions[q]
  BY <1>1, <1>5, <1>6, <1>7 DEF TypeReviews
<1> HIDE DEF p
<1>12. TypeReviews'
  BY <1>1, <1>5, <1>10, <1>11 DEF TypeReviews, TypeOK, vars
<1>13. OneSessionPerDimension'
  <2>1. ASSUME NEW q \in AttemptIds \X Dimensions
        PROVE  sessions'[q] <= IF intents'[q] = NoIntent THEN 0 ELSE 1
    <3>1. sessions[q] <= IF intents[q] = NoIntent THEN 0 ELSE 1
      BY <1>1 DEF OneSessionPerDimension
    <3>2. CASE q = p
      BY <1>5, <1>9, <1>11, <3>2
    <3>3. CASE q # p
      BY <1>5, <1>11, <3>1, <3>3
    <3> QED BY <3>2, <3>3
  <2> QED BY <2>1 DEF OneSessionPerDimension
<1>14. ASSUME NEW j \in Calls PROVE CallInv(j)'
  <2>1. CASE j = k
    <3>1. intents'[<<calls'[k].attempt, calls'[k].dim>>] = IntentOf(k)'
      BY <1>4, <1>5, <1>6, <1>10 DEF IntentOf, p
    <3>2. o # "completed" => v = "unable_to_verify"
      BY <1>5 DEF VerdictOf
    <3> QED
      BY <1>1, <1>4, <1>5, <1>10, <2>1, <3>1, <3>2 DEF CallInv, HasCandidate,
         Candidate, Independent, Intended, Judged, vars
  <2>2. CASE j # k
    <3>1. CallInv(j) /\ calls'[j] = calls[j]
      BY <1>10, <2>2 DEF ReviewsInv
    <3>2. CASE calls[j].pc = "intended"
      <4>1. /\ calls[j].dim \in Dimensions /\ calls[j].attempt \in AttemptIds
            /\ intents[<<calls[j].attempt, calls[j].dim>>] = IntentOf(j)
            /\ sessions[<<calls[j].attempt, calls[j].dim>>] = 0
        BY <3>1, <3>2 DEF CallInv, Independent, HasCandidate, Candidate, Intended
      <4>2. <<calls[j].attempt, calls[j].dim>> # p
        <5>1. IntentOf(j).review = <<j, calls[j].dim>>
          BY DEF IntentOf
        <5> QED BY <1>8, <2>2, <4>1, <5>1
      <4>3. sessions'[<<calls[j].attempt, calls[j].dim>>] = 0
        BY <1>11, <4>1, <4>2
      <4> QED
        BY <1>5, <3>1, <4>3 DEF CallInv, HasCandidate, Candidate, Independent,
           Intended, IntentOf, Judged, vars
    <3>3. CASE calls[j].pc # "intended"
      BY <1>5, <3>1, <3>3 DEF CallInv, HasCandidate, Candidate, Independent,
         Intended, IntentOf, Judged, vars
    <3> QED BY <3>2, <3>3
  <2> QED BY <2>1, <2>2
<1>15. \A j \in Calls, d \in Dimensions : Announced(j, d)'
  BY <1>5 DEF ReviewsInv, Announced, Candidate, vars
<1> QED
  BY <1>12, <1>13, <1>14, <1>15 DEF ReviewsInv

(* The record of the outcome is written under the intent the call          *)
(* committed, and under an id nothing was recorded for.                    *)
LEMMA PersistStep ==
  ASSUME ReviewsInv, NEW k \in Calls, PersistReview(k)
  PROVE  ReviewsInv'
<1> DEFINE c == calls[k]
           p == <<k, calls[k].dim>>
           e == AttemptEvidence(calls[k].task, calls[k].attempt)
           n == [outcome |-> calls[k].outcome, verdict |-> calls[k].verdict,
                 attempt |-> calls[k].attempt, commit |-> calls[k].commit]
<1>1. TypeReviews /\ TypeOK /\ CallInv(k) /\ c \in CallRecord
  BY DEF ReviewsInv, TypeReviews
<1>2. /\ c.pc = "closing" /\ invocations' = [invocations EXCEPT ![p] = n]
      /\ reviews' = [reviews EXCEPT ![p] = e] /\ reviews[p].scope = "none"
      /\ UNCHANGED <<initialised, tasks, attempts, proposals, validations,
                     baseline, passing, intents, authors, sessions>>
  BY DEF PersistReview, ReviewCompleted, Unrecorded, journalFacts
<1>3. /\ c.task \in TaskIds /\ c.attempt \in AttemptIds /\ c.dim \in Dimensions
      /\ attempts[c.attempt].status = "candidate_produced"
      /\ attempts[c.attempt].commit = c.commit
      /\ c.reviewer # authors[c.attempt]
      /\ intents[<<c.attempt, c.dim>>] = IntentOf(k)
      /\ c.outcome # "completed" => c.verdict = "unable_to_verify"
  BY <1>1, <1>2 DEF CallInv, HasCandidate, Candidate, Independent, Intended,
     Judged
<1>4. /\ e.scope = "attempt" /\ e.attempt = c.attempt /\ e.commit = c.commit
      /\ e \in Evidence
  <2>1. /\ e.scope = "attempt" /\ e.attempt = c.attempt /\ e.commit = c.commit
        /\ e = [scope |-> "attempt", task |-> c.task, attempt |-> c.attempt,
                commit |-> c.commit]
    BY <1>3 DEF AttemptEvidence
  <2>2. c.commit \in Commits \cup {None}
    BY <1>1 DEF CallRecord
  <2> QED BY <1>3, <2>1, <2>2 DEF Evidence
<1>5. /\ n.attempt = c.attempt /\ n.commit = c.commit /\ n.outcome = c.outcome
      /\ n.verdict = c.verdict /\ n \in InvocationRecord
  BY <1>1 DEF CallRecord, InvocationRecord
<1>6. p \in ReviewIds /\ p \in Calls \X Dimensions
  BY <1>3, ReviewIdsDiffer
<1>7. /\ intents[<<c.attempt, c.dim>>].review = p
      /\ intents[<<c.attempt, c.dim>>].commit = c.commit
      /\ intents[<<c.attempt, c.dim>>].reviewer = c.reviewer
  BY <1>3 DEF IntentOf
<1> HIDE DEF e, n
<1>8. /\ reviews' \in [ReviewIds -> Evidence] /\ reviews'[p] = e
      /\ \A i \in ReviewIds : i # p => reviews'[i] = reviews[i]
  BY <1>1, <1>2, <1>4, <1>6 DEF TypeOK
<1>9. /\ invocations' \in [Calls \X Dimensions -> InvocationRecord]
      /\ invocations'[p] = n
      /\ \A i \in Calls \X Dimensions : i # p => invocations'[i] = invocations[i]
  BY <1>1, <1>2, <1>5, <1>6 DEF TypeReviews
<1>10. \E r \in CallRecord :
         /\ calls' = [calls EXCEPT ![k] = r]
         /\ \/ r.pc = "ended"
            \/ /\ r.pc = "next" /\ r.task = c.task
               /\ r.attempt = c.attempt /\ r.commit = c.commit
  <2>1. CASE c.outcome = "completed"
    <3> DEFINE r == [[c EXCEPT !.dim = None, !.reviewer = None,
                        !.outcome = "none", !.verdict = "none"]
                       EXCEPT !.pc = "next"]
    <3>1. calls' = [calls EXCEPT ![k] = r]
      BY <2>1 DEF PersistReview, Step
    <3>2. /\ r \in CallRecord /\ r.pc = "next" /\ r.task = c.task
          /\ r.attempt = c.attempt /\ r.commit = c.commit
      BY <1>1 DEF CallRecord
    <3> HIDE DEF r
    <3> QED BY <3>1, <3>2
  <2>2. CASE c.outcome # "completed"
    <3> DEFINE r == [NoCall EXCEPT !.pc = "ended"]
    <3>1. calls' = [calls EXCEPT ![k] = r]
      BY <2>2 DEF PersistReview
    <3>2. r \in CallRecord /\ r.pc = "ended"
      BY ReviewRecords
    <3> HIDE DEF r
    <3> QED BY <3>1, <3>2
  <2> QED BY <2>1, <2>2
<1>11. PICK r \in CallRecord :
         /\ calls' = [calls EXCEPT ![k] = r]
         /\ \/ r.pc = "ended"
            \/ /\ r.pc = "next" /\ r.task = c.task
               /\ r.attempt = c.attempt /\ r.commit = c.commit
  BY <1>10
<1>12. /\ calls' \in [Calls -> CallRecord] /\ calls'[k] = r
       /\ \A j \in Calls \ {k} : calls'[j] = calls[j]
  BY <1>1, <1>11, OneCallMoves
<1>13. TypeReviews'
  BY <1>1, <1>2, <1>8, <1>9, <1>12 DEF TypeReviews, TypeOK
<1>14. OneSessionPerDimension'
  BY <1>2 DEF ReviewsInv, OneSessionPerDimension
<1>15. ASSUME NEW j \in Calls PROVE CallInv(j)'
  <2>1. CASE j = k
    BY <1>2, <1>3, <1>11, <1>12, <2>1 DEF CallInv, HasCandidate, Candidate,
       Independent, Intended, Judged
  <2>2. CASE j # k
    BY <1>2, <1>12, <2>2, CallQuiet
  <2> QED BY <2>1, <2>2
<1>16. ASSUME NEW j \in Calls, NEW d \in Dimensions PROVE Announced(j, d)'
  <2>1. CASE <<j, d>> = p
    BY <1>2, <1>3, <1>4, <1>5, <1>7, <1>8, <1>9, <2>1 DEF Announced, Candidate
  <2>2. CASE <<j, d>> # p
    <3>1. /\ invocations'[<<j, d>>] = invocations[<<j, d>>]
          /\ reviews'[<<j, d>>] = reviews[<<j, d>>] /\ Announced(j, d)
      BY <1>8, <1>9, <2>2, ReviewIdsDiffer DEF ReviewsInv
    <3> QED BY <1>2, <3>1 DEF Announced, Candidate
  <2> QED BY <2>1, <2>2
<1> QED
  BY <1>13, <1>14, <1>15, <1>16 DEF ReviewsInv

-----------------------------------------------------------------------------
(* The process dies and starts again: the calls are gone, and with them    *)
(* every claim of a call; what was announced stays.                        *)
LEMMA CrashStep ==
  ASSUME ReviewsInv, Crash
  PROVE  ReviewsInv'
<1>1. TypeReviews
  BY DEF ReviewsInv
<1>2. UNCHANGED <<vars, intents, invocations, authors, sessions>>
  BY DEF Crash
<1>3. /\ calls' \in [Calls -> CallRecord]
      /\ \A k \in Calls : calls'[k].pc \in {"new", "ended"}
  BY ReviewRecords DEF Crash
<1>4. TypeReviews'
  BY <1>1, <1>2, <1>3 DEF TypeReviews, TypeOK, vars
<1>5. OneSessionPerDimension'
  BY <1>2 DEF ReviewsInv, OneSessionPerDimension
<1>6. \A k \in Calls : CallInv(k)'
  BY <1>3, CallOver
<1>7. \A j \in Calls, d \in Dimensions : Announced(j, d)'
  BY <1>2 DEF ReviewsInv, Announced, Candidate, vars
<1> QED
  BY <1>4, <1>5, <1>6, <1>7 DEF ReviewsInv

(* A step that changes nothing the invariant speaks of.                    *)
LEMMA ReviewsQuiet ==
  ASSUME ReviewsInv,
         UNCHANGED <<vars, calls, intents, invocations, authors, sessions>>
  PROVE  ReviewsInv'
<1>1. TypeReviews'
  BY DEF ReviewsInv, TypeReviews, TypeOK, vars
<1>2. OneSessionPerDimension'
  BY DEF ReviewsInv, OneSessionPerDimension
<1>3. \A k \in Calls : CallInv(k)'
  BY CallQuiet DEF vars
<1>4. \A j \in Calls, d \in Dimensions : Announced(j, d)'
  BY DEF ReviewsInv, Announced, Candidate, vars
<1> QED
  BY <1>1, <1>2, <1>3, <1>4 DEF ReviewsInv

-----------------------------------------------------------------------------
(* The invariant, and the properties it carries.                           *)

(* Nothing is under way and nothing is recorded.                           *)
LEMMA ReviewsInit == InitReviews => ReviewsInv
<1> SUFFICES ASSUME InitReviews PROVE ReviewsInv
  OBVIOUS
<1>1. TypeOK
  BY TypeInit DEF InitReviews
<1>2. TypeReviews
  BY <1>1, ReviewRecords DEF InitReviews, TypeReviews
<1>3. OneSessionPerDimension
  BY DEF InitReviews, OneSessionPerDimension
<1>4. \A k \in Calls : CallInv(k)
  BY ReviewRecords DEF InitReviews, CallInv, HasCandidate, Independent, Intended,
     Judged
<1>5. ASSUME NEW k \in Calls, NEW d \in Dimensions PROVE Announced(k, d)
  <2>1. invocations[<<k, d>>] = NoInvocation
    BY DEF InitReviews
  <2> QED BY <2>1 DEF Announced
<1> QED
  BY <1>2, <1>3, <1>4, <1>5 DEF ReviewsInv

(* Every step of the executor, of its callers and of the other clients of  *)
(* the journal keeps the invariant.                                        *)
LEMMA ReviewsStep ==
  ASSUME ReviewsInv, [NextReviews]_allReviewVars
  PROVE  ReviewsInv'
<1>1. CASE UNCHANGED allReviewVars
  <2>1. UNCHANGED <<vars, calls, intents, invocations, authors, sessions>>
    BY <1>1 DEF allReviewVars, reviewVars
  <2> QED BY <2>1, ReviewsQuiet
<1>2. CASE cleanupOrphanWorktrees
  <2>1. UNCHANGED <<vars, calls, intents, invocations, authors, sessions>>
    BY <1>2 DEF cleanupOrphanWorktrees
  <2> QED BY <2>1, ReviewsQuiet
<1>3. ASSUME NEW k \in Calls, NextCall(k) PROVE ReviewsInv'
  <2>1. CASE PrepareFails(k) \/ ReviewDone(k) \/ IntentUnrecorded(k)
             \/ OutcomeUnrecorded(k)
    <3>1. /\ EndCall(k)
          /\ UNCHANGED <<vars, intents, invocations, authors, sessions>>
      BY <2>1, Zenon DEF PrepareFails, ReviewDone, IntentUnrecorded,
         OutcomeUnrecorded
    <3> QED BY <3>1, EndCallStep
  <2>2. CASE \/ ReadRevision(k, "prepared", "intending")
             \/ ReadRevision(k, "session", "closing")
    BY <2>2, ReadRevisionStep
  <2>3. CASE \E t \in TaskIds, a \in AttemptIds, dims \in SUBSET Dimensions :
               Review(k, t, a, dims)
    BY <2>3, ReviewCallStep
  <2>4. CASE \E d \in Dimensions, x \in Actors : PrepareDimension(k, d, x)
    BY <2>4, PrepareStep
  <2>5. CASE \E o \in InvocationOutcomes, v \in Verdicts : RunSession(k, o, v)
    BY <2>5, RunSessionStep
  <2>6. CASE CommitIntent(k) \/ BadLimits(k) \/ PersistReview(k)
    BY <2>6, CommitIntentStep, BadLimitsStep, PersistStep
  <2> QED
    BY <1>3, <2>1, <2>2, <2>3, <2>4, <2>5, <2>6, Zenon DEF NextCall
<1> QED
  BY <1>1, <1>2, <1>3, StartStep, OtherClientStep, CrashStep, Zenon
  DEF NextReviews

(* The invariant holds in every state the executor can reach.              *)
THEOREM ReviewsInvariant == SpecReviews => []ReviewsInv
  BY ReviewsInit, ReviewsStep, PTL DEF SpecReviews

(* Whatever calls overlap and wherever the process dies, a model is asked  *)
(* at most once about a dimension of a candidate, and never before the     *)
(* intent is in the journal (intentAbsentGuard).                           *)
THEOREM OneSession == SpecReviews => []OneSessionPerDimension
<1>1. ReviewsInv => OneSessionPerDimension
  BY DEF ReviewsInv
<1> QED BY <1>1, ReviewsInvariant, PTL

(* A recorded review is the announced one, of the commit its attempt still *)
(* has, by a reviewer who is not the author, with a verdict of a session   *)
(* that completed (terminalPersistenceGuard).                              *)
THEOREM AnnouncedReviews == SpecReviews => []ReviewsAreAnnounced
<1>1. ReviewsInv => ReviewsAreAnnounced
  BY DEF ReviewsInv, Announced, Candidate, ReviewsAreAnnounced
<1> QED BY <1>1, ReviewsInvariant, PTL

=============================================================================
