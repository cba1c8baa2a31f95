----------------------------- MODULE MCReviews -----------------------------
(***************************************************************************)
(* Instances of the review executor for TLC.                               *)
(***************************************************************************)
EXTENDS Reviews, TLC

MCReviewIds == Calls \X Dimensions

(* Calls are interchangeable, and so are dimensions and actors.            *)
ReviewSymmetry ==
  Permutations(Calls) \cup Permutations(Dimensions) \cup Permutations(Actors)

=============================================================================
