SPECIFICATION FairSpec
CONSTANTS
  PacketSize = 2
  MaxSongs = 2
  Lengths <- MCLengths
INVARIANTS
  TypeOK
  ReadsInOrder
  HalvesApart
  UnderrunNeedsBurst
  EndedSongIsNotFed
  OldEventIsLast
PROPERTIES
  PlaysToTheEnd
  SongEnds
CHECK_DEADLOCK FALSE
