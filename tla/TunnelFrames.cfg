SPECIFICATION FairSpec
CONSTANTS
  Load <- Loads
  FrameSizes = {1, 40}
  Credits = {20, 40}
  MaxFrames = 2
  RecvWindow = 50
  Packet <- IpPackets
  SendWindow = 67
  MinMtu = 576
  MaxMtu = 1280
  DatagramSizes <- Sizes
  QuicDatagram <- Dgs
  Script <- Scripts
  PacketSizes = {40}
INVARIANTS TypeOK Reassembled WholeCapsules Filtered Fits
PROPERTIES KeepsReceiving KeepsSending TornDown DropTearsDownH3 DeathSeen
CHECK_DEADLOCK FALSE
