CONSTANTS
  a = a  b = b
  NULL = NULL  NOBODY = NOBODY  BLANK = BLANK  BORDER = BORDER  NOTICE = NOTICE
  Contact <- MCContact
  Known <- KnowA
  MaxMessages = 2
  MaxRedraws = 1
  Height = 1
SPECIFICATION ChatsSpec
INVARIANT ChatsTypeOK   ShownIsCurrent WillBeDrawn
CONSTRAINT NoRace
CHECK_DEADLOCK FALSE
