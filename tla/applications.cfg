SPECIFICATION Spec
CONSTANTS
  User = {1, 2}
  Answer = {1, 2}
  WIN = 1
  MaxGames = 2
  MaxRound = 2
  MaxOut = 1
  MaxExits = 1
  k1 = k1
  k2 = k2
  Conn = {k1, k2}
  p1 = p1
  p2 = p2
  Peer = {p1, p2}
  Pieces = 2
  Blocks = 2
  None = None
  MaxPeers = 2
  MaxBad = 1
  MaxExpired = 1
  Message <- Messages
  City = {"nanjing", "beijng"}
  Known = {"nanjing"}
  MaxPackets = 5
SYMMETRY Symmetric
CHECK_DEADLOCK FALSE
INVARIANTS TypeOK PointersValid RoundsAgree PiecePartition FileIsGood AbortsExplained NoLostBlock LayoutExact HashRight MenuOfKnownCity
