--------------------------- MODULE MCControlPlane ---------------------------
(***************************************************************************)
(* Instances of the control plane for TLC.                                 *)
(***************************************************************************)
EXTENDS ControlPlane, TLC

(* Single events, and batches whose second member depends on the first; no *)
(* body but <<"ProjectInitialized">> is a prefix of another.               *)
MCBodies ==
  { <<"ProjectInitialized">>,
    <<"AttemptFailed">>,
    <<"ProjectInitialized", "AttemptStarted">>,
    <<"AttemptStarted", "AttemptFailed">> }

CallSymmetry == Permutations(Calls) \cup Permutations(Processes)

=============================================================================
