SPECIFICATION FairSpec
CONSTANTS
  PacketSize = 2
  MaxSongs = 2
  Lengths <- MCLengths
PROPERTIES
  UnderrunStops
CHECK_DEADLOCK FALSE
