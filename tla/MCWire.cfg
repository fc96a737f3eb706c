CONSTANTS
  Cells = 1
  None = None
  ByteBase = 4
  ServerLimit = 8
  ClientLimit = 100
  SocketBuffer = 2
  Announcements <- MCAnnouncements
  Requests <- MCRequests
  MaxMessages = 3
SPECIFICATION FairSpec
CHECK_DEADLOCK FALSE
INVARIANT
  NothingForgotten
PROPERTIES
  ImplementsStreams
  EverythingArrives
  LastWordArrives
