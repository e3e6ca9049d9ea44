SPECIFICATION FairSpec
CONSTANTS
  d1 = d1
  d2 = d2
  d3 = d3
  d4 = d4
  Data = {d1, d2, d3, d4}
  AppStream <- Stream2
  GBN_WINDOW = 1
  UINT = 2
  SipMayFail = FALSE
  RECEIVE_BUF_SIZE = 2
  RecvLengths = {}
  UNSET = UNSET
CHECK_DEADLOCK FALSE
PROPERTY SendReturns
