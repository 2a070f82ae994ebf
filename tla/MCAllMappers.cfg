CONSTANTS
  Count <- MCCount
  RowLevel = 4
  PrefetchSize = 2
  ChannelWidth = 8
  Scheme = "ChRaBaRoCo"
  MaxAddr = 2048
  PageBytes = 16

INIT MInit
NEXT MNext

INVARIANT AllCoordinatesInRange
INVARIANT AllRoundTrip
INVARIANT MOPColumnLowBits
INVARIANT AllDecodeInjective
INVARIANT ChRaBaRoCoChannelMatches
