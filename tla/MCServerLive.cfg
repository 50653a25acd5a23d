CONSTANTS
  c1 = c1  c2 = c2  n1 = n1  n2 = n2  t1 = t1
  MaxSent = 2
  Conn <- MCConn
  Nickname <- MCNickname
  Text <- MCText
  ClientPacket <- MCPackets
  NoName = NoName  NULL = NULL
  LISTEN = LISTEN  INVALID_SOCKET = INVALID_SOCKET
  MaxId = 0
  Backlog = 1
  SockBuf = 3
  MaxFds = 3
  BufSize = 4
  RespondSize = 2
  MaxCycles = 2
SPECIFICATION MCFairSpec
PROPERTY DepartedClientRemoved

CHECK_DEADLOCK FALSE
