CONSTANTS
  VPNs <- MCVPNs
  Cores <- MCCores
  Traces <- MCTraces
  MaxCount = 3
  PagesPerChannel = 1
  HotThreshold = 2
  WindowSize = 3
  CooldownWindows = 2
  PageSizeKB = 4
  BandwidthGBps = 4096

INIT SysInit
NEXT SysNext

 
INVARIANT TopCacheWellFormed
PROPERTY TopCacheRefinesSet

CHECK_DEADLOCK FALSE
