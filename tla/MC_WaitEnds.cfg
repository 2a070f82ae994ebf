CONSTANTS
  VPNs <- MCVPNs
  Cores <- MCCores
  Traces <- MCTraces
  TraceClocks <- MCClocks
  ClockBound <- MCClockBound
  MaxCount = 3
  PagesPerChannel = 1
  HotThreshold = 2
  WindowSize = 3
  CooldownWindows = 2
  PageSizeKB = 4
  BandwidthGBps = 4096

SPECIFICATION Spec2

PROPERTY WaitEnds

CHECK_DEADLOCK FALSE
