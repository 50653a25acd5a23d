CONSTANTS
  c1 = c1  c2 = c2  n1 = n1  n2 = n2  t1 = t1  t2 = t2  t3 = t3
  Conn <- MCConn
  Nickname <- MCNickname
  Text <- MCText
  ClientPacket <- ClientPackets
  Chatters <- NoChatters
  NoName = NoName  NULL = NULL  FREED = FREED
  LISTEN = LISTEN  INVALID_SOCKET = INVALID_SOCKET
  MaxId = 0
  Backlog = 1
  SockBuf = 3
  MaxFds = 3
  BufSize = 3
  RespondSize = 2
  MaxCycles = 2
  MemSize = 4
  HeapReuse = FALSE
SPECIFICATION SystemSpec
INVARIANT ClientTypeOK AtMostOnce  ClientsInStep
PROPERTY ServerSpecHolds
SYMMETRY MCSymmetry
CHECK_DEADLOCK FALSE
