CONSTANTS
  Chars = {a, b, w}
  Wide = {w}
  MaxLine = 2
  Ttl = 1
  MaxSpoken = 2
  NoIntent = NoIntent
  NoLine = NoLine
  UndoCapacity = 2
  MaxField = 2
  NoUnit = NoUnit
  Keys = {k1}
  Values = {v1, v2}
  Default = v1
  Unset = Unset
  Bad = Bad
  Broken = Broken
  Loaders = {d, o}
  DaemonProc = d
  Settable = {"k1", "k2"}
  Levels = {"v1", "v2"}
  MaxSaves = 2
  MaxCrashes = 1
  Absent = Absent
  Vocabulary <- Spoken
  Common <- SpokenOften
  MaxWords = 3
  MaxCommon = 5
  Alphabet = {"a", "A", ".", " ", "nl"}
  MaxText = 5
  Abbreviations <- Abbr
  NoEditMade = NoEditMade
  MaxPhrase = 4
  MaxPhraseWords = 4
  MaxAnswer = 4
  MaxInstructionWords = 3
  MaxRatio = 2
  MaxLengthRatio = 1
  MinRetained = 1
  MaxSaid = 3
  MaxSetLines = 2
  MaxLetters = 4
SPECIFICATION HostSpec
INVARIANTS FileIsTheUsers SpokenEditsAreExact CommandsDoWhatTheySay WordListIsHonoured
PROPERTIES EditReachesItsLine UndoIsExact LayersAgree
\* A settings file nobody opens rests.
CHECK_DEADLOCK FALSE
