SPECIFICATION FairSpec
CONSTANTS
  Device = {d1}
  NoDevice = NoDevice
  Nil = Nil
  MaxGestures = 1
  MaxAnswers = 1
  MaxQueue = 1
  HasMic = TRUE
  MayMute = FALSE
  MayStream = TRUE
  WarmHold = TRUE
  AutoEndpoint = TRUE
  OnceAfter = 1
CHECK_DEADLOCK FALSE
PROPERTIES OnceReturns
