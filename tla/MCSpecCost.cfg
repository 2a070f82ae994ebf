CONSTANTS
  VPNs <- MCVPNs
  Cores <- MCCores
  PagesPerChannel = 1
  HotThreshold = 2
  WindowSize = 3
  CooldownWindows = 2
  PageSizeKB = 4
  BandwidthGBps = 153

SPECIFICATION Spec

PROPERTY SpecMigrationDecision
