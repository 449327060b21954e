SPECIFICATION FairSpec
CONSTANTS
  Device = {d1}
  NoDevice = NoDevice
  Nil = Nil
  MaxGestures = 2
  MaxAnswers = 1
  MaxQueue = 1
  HasMic = TRUE
  MayMute = TRUE
  MayStream = FALSE
  WarmHold = TRUE
  AutoEndpoint = FALSE
  OnceAfter = 0
INVARIANTS MicTimed
PROPERTIES ComesToRest
CHECK_DEADLOCK FALSE
