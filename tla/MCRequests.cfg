CONSTANTS
  m = m  s1 = s1  x = x  y = y
  Thread <- MCThread
  Main <- MCMain
  Address <- MCAddress
  MaxId = 1
  MaxDeliveries = 1
  LOGIN = LOGIN  LATE = LATE  NULL = NULL  NOBODY = NOBODY  SOCKET = SOCKET
SPECIFICATION FairRequests
INVARIANT RequestsTypeOK OwnRespond WritesToLive OneOwner
 
CHECK_DEADLOCK FALSE
