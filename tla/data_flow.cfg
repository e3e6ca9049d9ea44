SPECIFICATION Spec
CONSTANTS
  d1 = d1
  d2 = d2
  d3 = d3
  d4 = d4
  Data = {d1, d2, d3, d4}
  AppStream <- Stream2
  GBN_WINDOW = 2
  UINT = 4
  SipMayFail = TRUE
  RECEIVE_BUF_SIZE = 1
  RecvLengths = {1}
  UNSET = UNSET
CHECK_DEADLOCK FALSE
INVARIANTS TimerCovers IInv
PROPERTY ImplementsStream
