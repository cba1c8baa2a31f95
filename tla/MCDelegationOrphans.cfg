\* An attempt that a block hides from recovery.
SPECIFICATION SpecDelegation
CONSTANTS
  TaskIds = {t1}
  AttemptIds = {a1, a2}
  WorkPackageIds = {w1}
  Commits = {c1}
  ValidationIds = {v1}
  ReviewIds = {r1}
  MaxVersion = 1
  None = None
  Requests = {d1}
  MaxAttemptsPerTask = 2
SYMMETRY DelegationSymmetry
PROPERTIES
  RecoveryClosesOrphans
