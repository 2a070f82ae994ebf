CONSTANTS
  Count <- MCCount
  RowLevel = 4
  PrefetchSize = 2
  ChannelWidth = 8
  Scheme = "RoBaRaCoCh"
  MaxAddr = 2048
  PageBytes = 16

SPECIFICATION Spec



INVARIANT ChannelMatchesPartition
