CONSTANTS
  TokenByte = {0, 3, 255}
  Json = 123
  BufferSize = 6
  WordBase = 40
  Counters = {0, 70000, 2559999}
  Delays = {1000, 1000000}
  Bandwidths = {31250, 125000, 1625000}
  Seconds = {3}
  Nanos = {0, 999999999}
  Char = {"A", "B"}
  MaxText = 4
  MaxFiles = 2
  Name <- MCName
  Value <- MCValue
  Files <- MCFiles
SPECIFICATION SeqSpec
CHECK_DEADLOCK FALSE
INVARIANTS
  PartsTypeOK
  HandledIsReceived
  TokenEchoed
  OnTime
  SameModulation
  AnswersAccepted
  ReferencesReplaced
