\* One task, three calls of Delegate, three attempts.
SPECIFICATION SpecDelegation
CONSTANTS
  TaskIds = {t1}
  AttemptIds = {a1, a2, a3}
  WorkPackageIds = {w1}
  Commits = {c1}
  ValidationIds = {v1}
  ReviewIds = {r1}
  MaxVersion = 2
  None = None
  Requests = {d1, d2, d3}
  MaxAttemptsPerTask = 2
SYMMETRY DelegationSymmetry
INVARIANTS
  BudgetKept
  WorkersAreJournalled
PROPERTIES
  NoSilentRetry
