---------------------------- MODULE MCDelegation ----------------------------
(***************************************************************************)
(* Instances of the task executor for TLC.                                 *)
(***************************************************************************)
EXTENDS Delegation, TLC

(* Attempts and calls are interchangeable.                                 *)
DelegationSymmetry == Permutations(AttemptIds) \cup Permutations(Requests)

=============================================================================
