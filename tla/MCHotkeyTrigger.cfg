CONSTANTS
  TapThreshold = 2
  WatchdogTimeout = 3
  PollInterval = 2
  PollDelay = 1
  NoTime = NoTime
  CanPause = TRUE
  CanToggle = TRUE
  MaxInFlight = 2
  MaxQueue = 3
  MaxClock = 7
  MaxHeld = 3
  HookChords <- Bound
  MaxTokens = 3
  TrustPollFrames = 2
  MaxEdits = 2
  MaxRestores = 2
  Refused = Refused
SPECIFICATION MCSpec
INVARIANTS TypeOK StuckPressRecovers CapturesPaired CaptureIsTold BoundChordsFire ProcessIsOrderly
\* MaxClock, MaxTokens and the end of a process end every behaviour.
CHECK_DEADLOCK FALSE
