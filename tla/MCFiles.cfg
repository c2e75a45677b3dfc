SPECIFICATION Spec
CHECK_DEADLOCK FALSE
CONSTANTS
  RouterConfigs <- MCRouterConfigs
  RouteRequests <- MCRouteRequests
  FallbackOptions <- MCFallbackOptions
  Catalogs <- MCCatalogs
  AuthSnapshots <- MCAuthSnapshots
  MaxUpdates = 2
  Callers = {"c1", "c2"}
  Auths <- MCAuths
  Responses <- MCResponses
  MaxFetches = 3
  Clients = {"p1", "p2"}
  ThreadCalls <- MCThreadCalls
  ThreadIDs = {"t1", "t2"}
  Models = {"m1", "m2"}
  Notices <- MCNotices
  ApprovalMessages <- MCApprovalMessages
  HookPolicies <- MCHookPolicies
  RpcErrors = {{}, {"request_timeout", "rate_limited"}}
  EventsQueueDepth = 1
  MaxNotices = 2
  MaxThreadCalls = 3
  Managers = {"claude", "codex", "grok"}
  Commands = {"new", "next"}
  HookEvents <- MCEvents
  InitialFiles <- MCInitialFiles
  MaxSaves = 2
  MaxOps = 3
  Paths = {"w1", "w2"}
  Outside = {"home"}
  WorkSessions = {"s1", "s2", ""}
  MaxWork = 2
  MaxRequests = 4
INVARIANTS
  RouteIsolated
  CatalogEntitled
  ServerGrounded
  InstallSound
  RollbackSound
