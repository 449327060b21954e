CONSTANTS
  QueueDepth = 2
  Nil = Nil
  MaxGestures = 2
  MaxAnswers = 1
  FrameSamples = 2
  MinSpeech = 2
  Hangover = 2
  PreRoll = 1
  MaxFrames = 8
  Mics = {m1, m2}
  NoMic = NoMic
  RingCapacity = 2
  MaxSamples = 4
  MaxChanges = 2
  MaxFed = 4
  MaxFinals = 3
  MaxFaults = 2
  WindowSamples = 1
  Whole = 2
  MaxStarts = 3
  MaxTrouble = 2
  MaxUserFiles = 1
SPECIFICATION AudioSpec
INVARIANTS TypeOK CounterExact UtterancesAreWhole TranscriptIsTheUtterance
PROPERTIES ImplementsRecognizer EveryWaitEnds CaptureKeepsUp ModelIsTheRightOne
\* The recognizer thread ends with the supervisor, and the audio tried is bounded.
CHECK_DEADLOCK FALSE
