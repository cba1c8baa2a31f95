SPECIFICATION SpecServices
CHECK_DEADLOCK FALSE
CONSTANTS
  WorktreeIds = {i1, i2}
  SupervisedServices = {s1, s2}
  NumChecks = 2
  Models = {m1, m2}
  Ambiguities = {a1}
  Decisions = {d1, d2}
  MaxRevision = 2
  NoName = NoName
  MaxSegmentFrames = 4
  QueueSize = 1
  MaxSegments = 3
  MaxSequence = 5
  MaxDropped = 1
  MaxFaults = 1
  MaxExecutions = 2
  MaxAppendFaults = 1
  MaxStops = 1
  NumDevices = 2
  MaxDoctors = 2
  MaxDoctorRuns = 3
  MaxVerified = 1
  MaxDoctorTime = 1
  CacheTTL = 1
  Candidates <- SampleCandidates
  FactSamples <- SampleFacts
  Callers = {c1}
  MaxActivations = 2
  MaxFileFaults = 2
  MaxReboots = 1
  Tasks <- SampleTasks
  PlanPortfolios <- SamplePlanPortfolios
  PlanPolicies <- SamplePlanPolicies
  PlanBudgets <- SamplePlanBudgets
  ModelPlans <- SampleModelPlans
  PlanFacts <- SamplePlanFacts
  DriverSets <- SampleDriverSets
  IntentSets <- SampleIntentSets
  ModelPortfolios <- SampleModelPortfolios
  ReceiptFiles <- SampleReceiptFiles
  AuthorityRequests <- SampleRequests
  AnchorDocs <- SampleAnchorDocs
  Consumers = {u1, u2}
  TrustedOwners = {"root", "operator"}
  OperatorOwner = "operator"
  CustodyChanges <- SampleCustodyChanges
  MaxSpent = 2
  MaxScanned = 2
  MaxReceiptTime = 1
  MaxFileDrops = 2
  MaxOperatorActs = 1
  ToolKeys = {"k1", "k2"}
  EditContents = {"x", "y"}
  TurnTokens = {1, 2}
  UnknownTokens = UnknownTokens
  MaxCallsPerTurn = 2
  MaxTurns = 2
  MaxTotalTokens = 2
  MaxToolCalls = 1
  MaxConsecutiveFailedCalls = 2
  MaxOscillatingEdits = 1
  MaxRepair = 1
PROPERTIES
  WorkIsKept
INVARIANTS
  FinishedIsFinished
  PassIsEarned
  FoldsAgree
  ReadinessIsCurrent
  AcknowledgedSurvives
  SequencesAdvance
  EffectsAreSettled
  ModelSuccessIsReal
  PlanIsSound
  EvidenceIsEarned
  LineageIsWhole
  AdviceIsOnlyAdvice
  OnceMeansOnce
  AuthorityIsHuman
  ResultWithinLimits
  WorkIsCountedOnce
