SPECIFICATION Spec
CONSTANTS
  MaxRecentEvents = 2
  MaxRelatedEvents = 1
  MaxTrajectoryBytes = 7
  MaxEvidenceIDs = 2
  MaxRetryCount = 2
  DefaultMaxInputBytes = 40
  Configs <- MCConfigs
  Responses <- MCResponses
  Inputs <- MCInputs
  Contexts <- MCContexts
  Actions <- MCActions
  BlockClasses = {"", "EXPLICIT_DENY", "PAYMENT", "EVIDENCE_GAP", "TYPO"}
  PolicyClasses = {"", "SECURITY", "SECURTY"}
  ClaimLists <- MCClaimLists
  Justifications <- MCJustifications
  KnownEvidence = {1}
INVARIANTS
  GrantEarned
  AbortKeepsIdentity
  EvidenceWasShown
PROPERTIES
  AssessEnds
