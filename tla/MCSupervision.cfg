SPECIFICATION Spec
CHECK_DEADLOCK FALSE
CONSTANTS
  None = None
  Contents <- MCContents
  Configs <- MCConfigs
  Sessions <- MCSessions
  MaxBytesPerPoll = 4
  MaxRecordBytes = 2
  ChanCap = 1
  MaxFaults = 1
  MaxFiles = 2
  Requests <- MCRequests
  Versions = 2
  Policies <- MCPolicies
  ToolRequests <- MCToolRequests
  MaxCalls = 2
  Observations <- MCObservations
  Adjudications <- MCAdjudications
  Fingerprints <- MCFingerprints
  Threshold = 2
  MaxTools = 2
  MaxObservations = 4
INVARIANTS
  CloseDrains
  AppendAtomic
  GateHolds
  SignalsMatchHistory
  SignalEarned
  NothingSkipped
PROPERTIES
  TailCatchesUp
