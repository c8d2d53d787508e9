SPECIFICATION FairSpec
CONSTANTS
  Load <- DropLoads
  FrameSizes = {1}
  Credits = {40}
  MaxFrames = 1
  RecvWindow = 50
  Packet <- IpPackets
  SendWindow = 67
  MinMtu = 576
  MaxMtu = 1280
  DatagramSizes <- Sizes
  QuicDatagram <- Dgs
  Script <- Scripts
  PacketSizes = {40}
PROPERTY DropTearsDown
CHECK_DEADLOCK FALSE
