SPECIFICATION Spec
CONSTANTS
  Node = {1, 2, 3}
  Nbr <- Star
  MaxStarts = 4
  MaxPkts = 1
  Listener = {"l1", "l2"}
  MaxSips = 2
  MaxFrames = 3
  Calls <- LengthThenFile
  GBN_WINDOW = 2
  RECEIVE_BUF_SIZE = 2
  SYN_MAX_RETRY = 1
  FIN_MAX_RETRY = 1
  MaxResends = 1
  MaxRetry = 5
CHECK_DEADLOCK FALSE
INVARIANTS MeshOnce CloseAnnounced LoneFrameArrives KilledExplained StreamKept WindowTrue StarvedExplained HandshakeAgrees
PROPERTIES ImplementsTransfer ImplementsSockets
