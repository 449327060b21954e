SPECIFICATION Spec
CONSTANTS
  Device = {d1}
  NoDevice = NoDevice
  Nil = Nil
  MaxGestures = 2
  MaxAnswers = 1
  MaxQueue = 1
  HasMic = FALSE
  MayMute = FALSE
  MayStream = TRUE
  WarmHold = FALSE
  AutoEndpoint = FALSE
  OnceAfter = 0
CHECK_DEADLOCK FALSE
INVARIANT NoDoubleInsert
