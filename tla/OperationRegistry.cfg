\* Two processes, three operations, two at a time, one kept.
SPECIFICATION Spec
CONSTANTS
  Clients = {k1}
  MaxStarts = 3
  MaxTotalStarts = 3
  MaxInstances = 2
  MaxActiveOperations = 2
  MaxCompletedOperations = 1
INVARIANTS
  TypeOK
  ActiveIsKept
  AnswersAreOwn
  ShutdownIsQuiet
PROPERTIES
  EveryOperationEnds
