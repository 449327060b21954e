SPECIFICATION Spec
CONSTANTS
  Device = {d1}
  NoDevice = NoDevice
  Nil = Nil
  MaxGestures = 2
  MaxAnswers = 1
  MaxQueue = 3
  HasMic = TRUE
  MayMute = FALSE
  MayStream = FALSE
  WarmHold = TRUE
  AutoEndpoint = FALSE
  OnceAfter = 0
INVARIANTS FinalizeMatches OverlayTruthful OwnWordsOnce
CHECK_DEADLOCK FALSE
