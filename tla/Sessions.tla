------------------------------ MODULE Sessions ------------------------------
(***************************************************************************)
(* One model session of a worker or of a reviewer: the turn loop, the      *)
(* metered session around the driver, the driver that runs the model's     *)
(* tool calls through the mediator, and the semantic loop detector.        *)
(*                                                                         *)
(* A tool call is the tool with its canonical arguments (a key); its id is *)
(* its position in the answer, because the client numbers the calls of     *)
(* each answer from call_0 on.  The loop detector keeps edits for each     *)
(* path by itself, so one path is enough.  Total tokens, tool calls and    *)
(* durations are the limits the executors set.  Sizes, prompts and texts   *)
(* are left out; what they can cause is a choice.                          *)
(***************************************************************************)
EXTENDS Naturals, Sequences, SequencesExt, FiniteSets

CONSTANTS ToolKeys,           \* a tool and its arguments
          EditContents,       \* what an edit may write
          TurnTokens,         \* input and output of one turn, when known
          UnknownTokens,      \* what a turn without usage reports
          MaxCallsPerTurn,    \* bound on the calls of one answer
          MaxTurns, MaxTotalTokens, MaxToolCalls,      \* the policy's limits
          MaxConsecutiveFailedCalls, MaxOscillatingEdits,
          MaxRepair           \* repair rounds after a failed post-check

ASSUME SessionAssumption ==
  /\ MaxTurns \in Nat \ {0} /\ MaxToolCalls \in Nat \ {0}
  /\ MaxTotalTokens \in Nat \ {0} /\ TurnTokens \subseteq Nat
  /\ UnknownTokens \notin Nat
  /\ MaxConsecutiveFailedCalls \in Nat \ {0}
  /\ MaxOscillatingEdits \in Nat \ {0} /\ MaxCallsPerTurn \in Nat

VARIABLES terms,      \* whose session it is, and what the policy allows
          turnLoop,   \* the executor's loop and the turn under way
          meter,      \* SilentMeter with its loop detector
          used        \* history: what the model really did

sessionVars == <<terms, turnLoop, meter, used>>

CallIds == 1 .. MaxCallsPerTurn
NoKey == "none"

NewSilentMeter ==
  [paused |-> FALSE, why |-> "", tokens |-> 0, calls |-> 0,
   processed |-> {}, recent |-> [i \in CallIds |-> NoKey],
   failedKey |-> NoKey, failedCount |-> 0, edits |-> << >>,
   oscillations |-> 0]

NoRuns == [i \in CallIds |-> 0]

Terms == [host : {"worker", "reviewer"}, allowUnknown : BOOLEAN,
          local : BOOLEAN]
NoTerms == [host |-> "none", allowUnknown |-> FALSE, local |-> FALSE]

InitSessions ==
  /\ terms = NoTerms
  /\ turnLoop = [pc |-> "new", turn |-> 1, input |-> << >>,
                 answer |-> << >>, usage |-> 0, next |-> 1,
                 driverExecuted |-> NoRuns, already |-> NoRuns,
                 results |-> << >>, rounds |-> 0]
  /\ meter = NewSilentMeter
  /\ used = [tokens |-> 0, calls |-> 0, runs |-> NoRuns, key |-> NoKey,
             streak |-> 0, longest |-> 0]

-----------------------------------------------------------------------------
(* The meter.                                                              *)

(* A sum is known only if both parts are.                                  *)
addMeasurement(a, b) ==
  IF a = UnknownTokens \/ b = UnknownTokens THEN UnknownTokens ELSE a + b

tripPause(m, dimension) == [m EXCEPT !.paused = TRUE, !.why = dimension]

(* Any success ends a streak of failures.                                  *)
RecordToolCall(m, key, failed) ==
  [m EXCEPT
     !.failedKey   = IF failed THEN key ELSE NoKey,
     !.failedCount = IF ~failed THEN 0
                     ELSE IF m.failedKey = key THEN @ + 1 ELSE 1]
LoopDetected(m) == m.failedCount >= MaxConsecutiveFailedCalls

(* A call is counted when its id is new to the session.                    *)
CountCalls(m, ids) ==
  [m EXCEPT !.processed = @ \cup ids,
            !.calls = @ + Cardinality(ids \ m.processed)]

TooManyCalls(m) ==
  IF m.calls > MaxToolCalls THEN tripPause(m, "max_tool_calls") ELSE m

LoopOrCalls(m) ==
  IF LoopDetected(m) THEN tripPause(m, "semantic_loop") ELSE TooManyCalls(m)
RecordToolResult(m, i, key, failed) ==
  LoopOrCalls(RecordToolCall([CountCalls(m, {i}) EXCEPT !.recent[i] = key],
                             key, failed))

(* A file goes back to what it was before the last edit.                   *)
Oscillates(m, content) ==
  LET n == Len(m.edits)
  IN  n >= 2 /\ m.edits[n - 1] = content /\ m.edits[n] # content
RecordFileEdit(m, content) ==
  LET count == m.oscillations + IF Oscillates(m, content) THEN 1 ELSE 0
      n == Len(m.edits)
  IN  IF Oscillates(m, content) /\ count >= MaxOscillatingEdits
      THEN tripPause([m EXCEPT !.oscillations = count], "oscillating_edits")
      ELSE [m EXCEPT !.oscillations = count,
                     !.edits = Append(IF n < 2 THEN @ ELSE Tail(@), content)]

(* Results that come in with a turn are recorded until one shows a loop;   *)
(* an id stands for the last call that had it.                             *)
RecordResult(s, r) ==
  LET d == RecordToolCall(s.meter, s.meter.recent[r.id], r.failed)
  IN  IF s.loop THEN s ELSE [loop |-> LoopDetected(d), meter |-> d]
ResultsSeen(m, results) ==
  FoldLeft(RecordResult, [loop |-> FALSE, meter |-> m], results)

(* Mutation: a turn is compared with the limit before it is added.         *)
OverTokensBefore(m, tokens) ==
  m.tokens # UnknownTokens /\ m.tokens > MaxTotalTokens

OverTokens(m, tokens) ==
  LET sum == addMeasurement(m.tokens, tokens)
  IN  sum # UnknownTokens /\ sum > MaxTotalTokens

RecordOperationEnd(m, tokens, keys, results, slow) ==
  LET sum == addMeasurement(m.tokens, tokens)
      counted == CountCalls([m EXCEPT !.tokens = sum], DOMAIN keys)
      seen == ResultsSeen(counted, results)
      detected == [counted EXCEPT !.failedKey = seen.meter.failedKey,
                                  !.failedCount = seen.meter.failedCount]
      noted == [detected EXCEPT !.recent = [i \in CallIds |->
                  IF i \in DOMAIN keys THEN keys[i] ELSE @[i]]]
  IN  CASE seen.loop -> tripPause(detected, "semantic_loop")
        [] ~seen.loop /\ slow -> tripPause(noted, "max_duration")
        [] ~seen.loop /\ ~slow /\ sum = UnknownTokens
             /\ ~terms.allowUnknown -> tripPause(noted, "usage_unknown")
        [] ~seen.loop /\ ~slow /\ OverTokens(m, tokens) ->
             tripPause(noted, "max_total_tokens")
        [] OTHER -> TooManyCalls(noted)

(* What the listeners of the mediator tell the meter of one execution.     *)
Mediated(m, i, key, failed, edit) ==
  RecordToolResult(IF failed \/ edit = << >> THEN m
                   ELSE RecordFileEdit(m, edit[1]),
                   i, key, failed)

-----------------------------------------------------------------------------
(* The turn loop of runDelegate and of the review session.                 *)

Ends(how) == turnLoop' = [turnLoop EXCEPT !.pc = how]

(* An executor sets the limits and opens the session, or cannot.           *)
OpenSession(t) ==
  /\ turnLoop.pc = "new"
  /\ terms' = t
  /\ \/ Ends("turn") \/ Ends("driver_error")
  /\ UNCHANGED <<meter, used>>

(* MaxTurns, the size of the request, and a meter that paused meanwhile.   *)
BeginTurn ==
  /\ turnLoop.pc = "turn"
  /\ \/ /\ turnLoop.turn > MaxTurns \/ meter.paused
        /\ Ends("limit")
     \/ /\ turnLoop.turn <= MaxTurns /\ ~meter.paused
        /\ \/ Ends("limit")
           \/ Ends("model")
  /\ UNCHANGED <<terms, meter, used>>

(* The client answers; its calls are not yet executed.                     *)
ModelAnswers(keys, tokens) ==
  /\ turnLoop.pc = "model"
  /\ turnLoop' = [turnLoop EXCEPT !.pc = "driver", !.answer = keys,
                                  !.usage = tokens, !.next = 1]
  /\ used' = [used EXCEPT !.tokens = addMeasurement(@, tokens),
                          !.calls = @ + Len(keys), !.runs = NoRuns]
  /\ UNCHANGED <<terms, meter>>

(* An error, a timeout or the end of the context: usage is not known.      *)
ModelFails(how, slow) ==
  /\ turnLoop.pc = "model"
  /\ Ends(how)
  /\ meter' = RecordOperationEnd(meter, UnknownTokens, << >>,
                                 turnLoop.input, slow)
  /\ used' = [used EXCEPT !.tokens = UnknownTokens]
  /\ UNCHANGED terms

(* One call of the answer is executed; a worker counts executions by id.   *)
CountRun(failed, key) ==
  LET n == IF ~failed THEN 0
           ELSE IF used.key = key THEN used.streak + 1 ELSE 1
  IN  used' = [used EXCEPT
        !.runs[turnLoop.next] = @ + 1,
        !.key = IF failed THEN key ELSE NoKey,
        !.streak = n, !.longest = IF n > @ THEN n ELSE @]
Listened(runs, i) ==
  IF terms.host = "worker" THEN [runs EXCEPT ![i] = @ + 1] ELSE runs

DriverRunsCall(failed, edit) ==
  /\ turnLoop.pc = "driver" /\ turnLoop.next <= Len(turnLoop.answer)
  /\ edit # << >> => ~failed /\ terms.host = "worker"
  /\ LET i == turnLoop.next
         key == turnLoop.answer[i]
     IN  /\ meter' = Mediated(meter, i, key, failed, edit)
         /\ turnLoop' = [turnLoop EXCEPT !.next = i + 1,
              !.driverExecuted = Listened(@, i)]
         /\ CountRun(failed, key)
  /\ UNCHANGED terms

(* ExecuteTurn returns, and the loop looks at the meter, at the usage and  *)
(* at the calls, in this order.                                            *)
EndTurn(slow) ==
  /\ turnLoop.pc = "driver" /\ turnLoop.next > Len(turnLoop.answer)
  /\ meter' = RecordOperationEnd(meter, turnLoop.usage, turnLoop.answer,
                                 turnLoop.input, slow)
  /\ LET unknown == turnLoop.usage = UnknownTokens
     IN  IF \/ meter'.paused
            \/ unknown /\ ~(terms.allowUnknown /\ terms.local)
         THEN Ends("limit")
         ELSE IF turnLoop.answer = << >>
         THEN Ends(IF terms.host = "worker" THEN "check" ELSE "stopped")
         ELSE turnLoop' = [turnLoop EXCEPT
                !.pc = "loop", !.next = 1, !.results = << >>,
                !.already = turnLoop.driverExecuted,
                !.driverExecuted = NoRuns]
  /\ UNCHANGED <<terms, used>>

(* A worker's post-check; without a profile the attempt just goes on.      *)
PostCheckPasses ==
  /\ turnLoop.pc = "check" /\ Ends("stopped")
  /\ UNCHANGED <<terms, meter, used>>
PostCheckFails ==
  /\ turnLoop.pc = "check"
  /\ turnLoop' =
       IF turnLoop.rounds >= MaxRepair
       THEN [turnLoop EXCEPT !.pc = "validation_failed"]
       ELSE [turnLoop EXCEPT !.pc = "turn", !.turn = @ + 1,
                             !.input = << >>, !.rounds = @ + 1]
  /\ UNCHANGED <<terms, meter, used>>
PostCheckErrs ==
  /\ turnLoop.pc = "check" /\ Ends("validation_error")
  /\ UNCHANGED <<terms, meter, used>>

(* Mutation: the loop does not know what the driver ran.                   *)
AlreadyRunForgotten(i) == FALSE

(* A worker's loop leaves out what the driver ran already.                 *)
AlreadyRun(i) == turnLoop.already[i] > 0

LoopSkipsCall ==
  /\ turnLoop.pc = "loop" /\ turnLoop.next <= Len(turnLoop.answer)
  /\ AlreadyRun(turnLoop.next)
  /\ turnLoop' = [turnLoop EXCEPT !.already[turnLoop.next] = @ - 1,
                                  !.next = @ + 1]
  /\ UNCHANGED <<terms, meter, used>>
LoopRunsCall(failed) ==
  /\ turnLoop.pc = "loop" /\ turnLoop.next <= Len(turnLoop.answer)
  /\ ~AlreadyRun(turnLoop.next)
  /\ LET i == turnLoop.next
     IN  /\ meter' = Mediated(meter, i, turnLoop.answer[i], failed, << >>)
         /\ turnLoop' = [turnLoop EXCEPT !.next = i + 1,
              !.driverExecuted = Listened(@, i),
              !.results = Append(@, [id |-> i, failed |-> failed])]
         /\ used' = [used EXCEPT !.runs[i] = @ + 1]
  /\ UNCHANGED terms
NextTurn ==
  /\ turnLoop.pc = "loop" /\ turnLoop.next > Len(turnLoop.answer)
  /\ turnLoop' = [turnLoop EXCEPT !.pc = "turn", !.turn = @ + 1,
                                  !.input = turnLoop.results]
  /\ UNCHANGED <<terms, meter, used>>

(* The caller's context ends; it is looked at before each of these steps.  *)
CancelSession ==
  /\ turnLoop.pc \in {"turn", "check", "loop"}
  /\ Ends("cancelled")
  /\ UNCHANGED <<terms, meter, used>>

AnswerLists == UNION {[1 .. n -> ToolKeys] : n \in 0 .. MaxCallsPerTurn}

NextSessions ==
  \/ \E t \in Terms : OpenSession(t)
  \/ BeginTurn
  \/ \E keys \in AnswerLists, tokens \in TurnTokens \cup {UnknownTokens} :
       ModelAnswers(keys, tokens)
  \/ \E how \in {"driver_error", "cancelled"}, slow \in BOOLEAN :
       ModelFails(how, slow)
  \/ \E failed \in BOOLEAN,
        edit \in {<< >>} \cup {<<c>> : c \in EditContents} :
       DriverRunsCall(failed, edit)
  \/ \E slow \in BOOLEAN : EndTurn(slow)
  \/ PostCheckPasses \/ PostCheckFails \/ PostCheckErrs
  \/ LoopSkipsCall
  \/ \E failed \in BOOLEAN : LoopRunsCall(failed)
  \/ NextTurn \/ CancelSession

SpecSessions == InitSessions /\ [][NextSessions]_sessionVars

-----------------------------------------------------------------------------
(* An answer that is taken as the result of the session was paid for       *)
(* within the limits: the meter did not stop the session in its last turn  *)
(* either, the turns are not used up, and the tokens of all its turns are  *)
(* within the limit, or unknown where the policy and the locality allow it *)
(* (taskexec/delegate.go, reviewexec/review.go, metering.go).              *)
ResultWithinLimits ==
  turnLoop.pc = "stopped" =>
    /\ ~meter.paused
    /\ turnLoop.turn <= MaxTurns
    /\ IF used.tokens = UnknownTokens
       THEN terms.allowUnknown /\ terms.local
       ELSE used.tokens <= MaxTotalTokens

(* No call of a worker's model runs twice, although both the driver and    *)
(* the loop of runDelegate execute calls, and the semantic loop detector   *)
(* stops a worker only after as many equal failures as it must see.        *)
WorkIsCountedOnce ==
  terms.host = "worker" =>
    /\ \A i \in CallIds : used.runs[i] <= 1
    /\ meter.why = "semantic_loop" =>
         used.longest >= MaxConsecutiveFailedCalls

(* The documented limit: a session that ends with a result made no more    *)
(* tool calls than max_tool_calls allows, over all its turns.              *)
ToolCallsWithinLimit ==
  turnLoop.pc = "stopped" => used.calls <= MaxToolCalls

=============================================================================
