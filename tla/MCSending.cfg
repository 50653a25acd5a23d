CONSTANTS
  s1 = s1
  MAIN = MAIN  SOCKET = SOCKET  NOBODY = NOBODY
  Thread <- MCThread
  HeaderSize = 2
  PayloadSize = 1
  MaxCalls = 4
SPECIFICATION FairSending
INVARIANT SendingTypeOK PacketsWhole
PROPERTY PacketsAppended EveryoneSends
CHECK_DEADLOCK FALSE
