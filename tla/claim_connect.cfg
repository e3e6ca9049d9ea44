SPECIFICATION Spec
CONSTANTS
  c1 = c1
  c2 = c2
  Conn = {c1, c2}
  NoConn = NoConn
  SYN_MAX_RETRY = 2
  FIN_MAX_RETRY = 1
  SipMayFail = FALSE
CHECK_DEADLOCK FALSE
PROPERTY SynackWins
