\* Three calls from two processes.
SPECIFICATION Spec
CONSTANTS
  Calls = {c1, c2, c3}
  Processes = {p1, p2}
  Bodies <- MCBodies
  MaxContentionAttempts = 2
  None = None
SYMMETRY CallSymmetry
INVARIANTS
  ProjectionIsReduction
  AnswersAreTrue
  BatchFollowsPrefix
  ReadsAreCurrent
PROPERTIES
  ImplementsJournal
