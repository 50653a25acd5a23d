CONSTANTS
  c1 = c1  c2 = c2  n1 = n1  n2 = n2  t1 = t1  t2 = t2  t3 = t3
  Conn <- MCConn
  Nickname <- MCNickname
  Text <- MCText
  ClientPacket <- ClientPackets
  Chatters <- OneChatter
  NoName = NoName  NULL = NULL  FREED = FREED
  LISTEN = LISTEN  INVALID_SOCKET = INVALID_SOCKET
  MaxId = 1
  Backlog = 1
  SockBuf = 6
  MaxFds = 3
  BufSize = 6
  RespondSize = 4
  MaxCycles = 2
  MemSize = 6
  HeapReuse = FALSE
SPECIFICATION ChatSpec
INVARIANT OneChatPerNickname
CHECK_DEADLOCK FALSE
