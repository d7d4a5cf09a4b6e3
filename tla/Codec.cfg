SPECIFICATION CodecSpec
CONSTANTS
  Width32 = 2
  Width64 = 3
  kResourceCount = 2
  kMaxLen = 2
  kMaxCount = 2
  kMaxOverrides = 2
  Alterations = {0, 2, 3, 255}
INVARIANTS NeverPastEnd RoundTrip CutRefused
PROPERTY FailureFinal
