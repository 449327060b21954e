CONSTANTS
  Space = " "
  Graphemes = {"a", "b", "x", "y", " "}
  Texts <- MCTexts
  Stability = 2
  Lookback = 1
  Interval = 1
  NoText = NoText
  Hypotheses <- MCHypotheses
  Snapshots <- MCSnapshots
  MaxPartials = 4
  MaxFailures = 1
SPECIFICATION StreamFairSpec
INVARIANTS TranscriptInPlace
PROPERTIES OnlyExtends CommittedIsWritten
CHECK_DEADLOCK FALSE
