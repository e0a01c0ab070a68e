SPECIFICATION FairSpec
CONSTANTS
  SnMod = 16
  IKCP_WND_SND = 2
  IKCP_WND_RCV = 2
  SegsPerPacket = 2
  Writers <- Slave
  FirstSn = 14
  MaxWrites = 3
  MaxAcks = 2
  MaxNet <- Net
  MaxFaults = 2
PROPERTY
  WindowReopens
CHECK_DEADLOCK FALSE
