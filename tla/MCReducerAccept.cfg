\* A candidate whose own validation failed is accepted.
SPECIFICATION Spec
CONSTANTS
  TaskIds = {t1}
  AttemptIds = {a1, a2}
  WorkPackageIds = {w1}
  Commits = {c1, c2}
  ValidationIds = {v1, v2}
  ReviewIds = {r1}
  MaxVersion = 1
  None = None
SYMMETRY IdSymmetry
INVARIANTS
  AcceptedCandidatePassed
