----------------------------- MODULE MCReducer -----------------------------
(***************************************************************************)
(* Instances of the reducer for TLC.                                       *)
(***************************************************************************)
EXTENDS Reducer, TLC

(* Ids carry no order and no meaning, so their permutations are symmetries *)
(* of the specification and of every property checked with them.           *)
IdSymmetry ==
  Permutations(TaskIds) \cup Permutations(AttemptIds)
    \cup Permutations(ValidationIds) \cup Permutations(Commits)

=============================================================================
