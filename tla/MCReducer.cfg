\* One task, its attempts, and plans that replace one another.
SPECIFICATION Spec
CONSTANTS
  TaskIds = {t1}
  AttemptIds = {a1, a2}
  WorkPackageIds = {w1}
  Commits = {c1, c2}
  ValidationIds = {v1, v2}
  ReviewIds = {r1}
  MaxVersion = 2
  None = None
SYMMETRY IdSymmetry
INVARIANTS
  TypeOK
  AcceptanceLineage
  RunningAttemptIsCurrent
  EvidenceNamesCandidate
  ReviewRestsOnPass
PROPERTIES
  BaselineMovesOnIntegration
  HistoryIsImmutable
