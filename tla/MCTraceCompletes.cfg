CONSTANTS
  VPNs <- MCVPNs
  Cores <- MCCores
  Traces <- MCTraces
  MaxCount = 3
  PagesPerChannel = 1
  HotThreshold = 2
  WindowSize = 3
  CooldownWindows = 2
  PageSizeKB = 4
  BandwidthGBps = 4096

SPECIFICATION SysSpec


CHECK_DEADLOCK FALSE
PROPERTY TraceCompletes
