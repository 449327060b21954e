CONSTANTS
  Procs = {1, 2, 3}
  NoProc = 0
  MaxInodes = 2
  FieldWords <- FieldOf1
  MaxDeliveries = 2
  MaxMeddling = 1
  PortalRuns = 2
  PortalText = 2
  MaxCalls = 2
  MaxTyping = 1
  Systems = {"macos", "linux", "windows"}
  MaxListed = 2
  TextLen = 2
  MaxStirs = 1
  MaxElements = 3
SPECIFICATION DaemonSpec
INVARIANTS DaemonsExclude DeliveryIsExact TypesWithConsent EveryRouteIsFaithful DiagIsRight
PROPERTIES StaleFilesNeverBlock
\* Every process ends and none starts twice; deliveries are bounded.
CHECK_DEADLOCK FALSE
