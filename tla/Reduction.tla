----------------------------- MODULE Reduction -----------------------------
(***************************************************************************)
(* What the journal and the control plane need to know of the reducer:     *)
(* an event is legal or not in the projection so far, and the projection   *)
(* is a fold of the journal.  Three events stand for all of them: the one  *)
(* that must come first, one that needs a free slot and one that needs a   *)
(* taken slot.  Module Reducer has every event in full.                    *)
(***************************************************************************)
EXTENDS Integers, Sequences

Kinds == {"ProjectInitialized", "AttemptStarted", "AttemptFailed"}

(* state.New(): the projection of the empty journal.                       *)
Empty == [initialised |-> FALSE, running |-> FALSE]

ProjectionState == [initialised : BOOLEAN, running : BOOLEAN]

(* Projection.Apply refuses an event that is not legal.                    *)
Legal(p, kind) ==
  CASE kind = "ProjectInitialized" -> ~p.initialised
    [] kind = "AttemptStarted" -> p.initialised /\ ~p.running
    [] kind = "AttemptFailed" -> p.initialised /\ p.running

ApplyEvent(p, kind) ==
  [initialised |-> TRUE, running |-> kind = "AttemptStarted"]

(* state.Reduce: the fold of a stream of events, each tagged with its call. *)
Reduce(stream) ==
  LET after[n \in 0 .. Len(stream)] ==
        IF n = 0 THEN Empty ELSE ApplyEvent(after[n - 1], stream[n].kind)
  IN  after[Len(stream)]

(* Every event of the stream was legal when it was applied.                *)
Replayable(stream) ==
  \A n \in DOMAIN stream :
    Legal(Reduce(SubSeq(stream, 1, n - 1)), stream[n].kind)

(* The events of one call, tagged with it.                                 *)
Tagged(c, body) == [i \in DOMAIN body |-> [call |-> c, kind |-> body[i]]]

=============================================================================
