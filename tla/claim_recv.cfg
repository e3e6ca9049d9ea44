SPECIFICATION Spec
CONSTANTS
  d1 = d1
  d2 = d2
  d3 = d3
  d4 = d4
  Data = {d1, d2, d3, d4}
  AppStream <- Stream3
  GBN_WINDOW = 2
  UINT = 4
  SipMayFail = FALSE
  RECEIVE_BUF_SIZE = 2
  RecvLengths = {1}
  UNSET = UNSET
CHECK_DEADLOCK FALSE
INVARIANT DeliveredIsPrefix
