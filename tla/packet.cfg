SPECIFICATION LayersSpec
CONSTANTS
  Wrap = 32
  dataShards = 2
  parityShards = 1
  rxFECMulti = 1
  Starts <- MCStarts
  maxAutoTuneSamples = 16
  MaxPackets = 7
  MaxNet = 3
  MaxFaults = 2
  Cipher <- Permute
  Stream <- Follow
  Table <- Key32
  BlockLen <- Lens
  Unroll = 4
  Messages <- Inputs
INVARIANTS
  Recovered
  CipherFeedback
  Restored
PROPERTIES
  InTune
  KeepsWindow
CHECK_DEADLOCK FALSE
