---------------------------- MODULE PeerConnection ----------------------------
(***************************************************************************)
(* The connection threads of the BitTorrent client of Exp5 around one      *)
(* PieceManager: each takes a peer from the shared queue, shakes hands,    *)
(* reads messages and requests one block at a time.  Who fills the queue   *)
(* and the peers themselves are not in the source: they may put any peer,  *)
(* answer with good or bad data, choke, or vanish.                         *)
(***************************************************************************)
EXTENDS PieceManager

CONSTANTS
  Peer,
  MaxPeers,      \* bound: peers put in the queue
  MaxBad,        \* bound: blocks with wrong data, or that were not asked for
  MaxExpired     \* bound: requests repeated

VARIABLES
  queue,         \* the SharedQueue
  peer,          \* the peer a thread talks to, or None
  choked, requestPending,
  hasBitField,   \* peerBitField is not empty
  wire,          \* the block the peer has been asked for and not sent
  added,         \* how many peers were put in the queue
  bad,           \* how many blocks had wrong data or were not asked for, or not any more
  twice          \* history: a peer was added that was known already

connVars == <<queue, peer, choked, requestPending, hasBitField, wire, added, bad, twice>>
pieceVars == <<managerVars, pc, block, connVars>>

PeerInit ==
  /\ ManagerInit
  /\ pc = [c \in Conn |-> "loop"] /\ block = [c \in Conn |-> None]
  /\ queue = <<>> /\ peer = [c \in Conn |-> None]
  /\ choked = [c \in Conn |-> TRUE] /\ requestPending = [c \in Conn |-> FALSE]
  /\ hasBitField = [c \in Conn |-> FALSE] /\ wire = [c \in Conn |-> None]
  /\ added = 0 /\ bad = 0 /\ twice = FALSE

\* push_back, from outside.
PushPeer ==
  /\ added < MaxPeers /\ added' = added + 1
  /\ \E u \in Peer : queue' = Append(queue, u)
  /\ UNCHANGED <<managerVars, pc, block, peer, choked, requestPending, hasBitField, wire, bad, twice>>

Loop(c) ==
  /\ pc[c] = "loop" /\ Goto(c, IF IsComplete THEN "done" ELSE "pop")
  /\ UNCHANGED <<managerVars, block, connVars>>

PopPeer(c) ==
  /\ pc[c] = "pop" /\ queue # <<>>
  /\ peer' = [peer EXCEPT ![c] = Head(queue)] /\ queue' = Tail(queue)
  /\ Goto(c, "establish")
  /\ UNCHANGED <<managerVars, block, choked, requestPending, hasBitField, wire, added, bad, twice>>

\* The handshake and the bit field have come; sendInterested may still throw,
\* and then the peer stays in peers although its connection is given up.
Establish(c) ==
  /\ pc[c] = "establish"
  /\ \E has \in SUBSET Piece : AddPeer(peer[c], has)
  /\ hasBitField' = [hasBitField EXCEPT ![c] = TRUE]
  /\ twice' = (twice \/ peer[c] \in DOMAIN peers)
  /\ wire' = [wire EXCEPT ![c] = None]
  /\ Goto(c, "run") \/ Goto(c, "loop")
  /\ UNCHANGED <<block, queue, peer, choked, requestPending, added, bad>>

EstablishFails(c) ==
  /\ pc[c] = "establish" /\ Goto(c, "loop")
  /\ UNCHANGED <<managerVars, block, connVars>>

LeaveLoop(c) ==
  /\ pc[c] = "run" /\ IsComplete /\ Goto(c, "loop")
  /\ UNCHANGED <<managerVars, block, connVars>>

\* A peer that chokes forgets the request; requestPending stays as it is.
Choke(c) ==
  /\ pc[c] = "run" /\ Goto(c, "ask")
  /\ choked' = [choked EXCEPT ![c] = TRUE] /\ wire' = [wire EXCEPT ![c] = None]
  /\ UNCHANGED <<managerVars, block, queue, peer, requestPending, hasBitField, added, bad, twice>>

Unchoke(c) ==
  /\ pc[c] = "run" /\ Goto(c, "ask")
  /\ choked' = [choked EXCEPT ![c] = FALSE]
  /\ UNCHANGED <<managerVars, block, queue, peer, requestPending, hasBitField, wire, added, bad, twice>>

Have(c) ==
  /\ pc[c] = "run" /\ Goto(c, "ask")
  /\ \E p \in Piece : UpdatePeer(peer[c], p)
  /\ UNCHANGED <<block, connVars>>

\* A block, which need not be the one asked for: a peer may still answer what
\* was asked before it choked, and index and begin are not compared with anything.
PieceArrives(c) ==
  /\ pc[c] = "run"
  /\ \E b \in Block, q \in {"good", "bad"} :
       /\ block' = [block EXCEPT ![c] = [b |-> b, q |-> q]]
       /\ bad' = bad + (IF q = "good" /\ b = wire[c] THEN 0 ELSE 1) /\ bad' <= MaxBad
       /\ wire' = [wire EXCEPT ![c] = IF b = wire[c] THEN None ELSE @]
  /\ requestPending' = [requestPending EXCEPT ![c] = FALSE]
  /\ Goto(c, "take")
  /\ UNCHANGED <<managerVars, queue, peer, choked, hasBitField, added, twice>>

\* After every message: requestPiece when nothing forbids it.
RequestPiece(c) ==
  /\ pc[c] = "ask" /\ ~choked[c] /\ ~requestPending[c]
  /\ \E b \in Block \cup {None} :
       /\ NextRequest(peer[c], b)
       /\ wire' = [wire EXCEPT ![c] = b]
       /\ requestPending' = [requestPending EXCEPT ![c] = (b # None)]
  /\ expired' <= MaxExpired
  /\ Goto(c, "run") /\ block' = [block EXCEPT ![c] = None]
  /\ UNCHANGED <<queue, peer, choked, hasBitField, added, bad, twice>>

NoRequest(c) ==
  /\ pc[c] = "ask" /\ (choked[c] \/ requestPending[c])
  /\ Goto(c, "run") /\ block' = [block EXCEPT ![c] = None]
  /\ UNCHANGED <<managerVars, connVars>>

\* closeSock, after an exception: a timeout, a closed connection, a corrupt
\* message, a have of an unknown peer, a block of a piece not in progress.
\* choked is left as it was.
Close(c) ==
  /\ pc[c] \in {"run", "thrown"}
  /\ requestPending' = [requestPending EXCEPT ![c] = FALSE]
  /\ hasBitField' = [hasBitField EXCEPT ![c] = FALSE]
  /\ wire' = [wire EXCEPT ![c] = None] /\ block' = [block EXCEPT ![c] = None]
  /\ IF hasBitField[c] THEN RemovePeer(peer[c]) ELSE UNCHANGED managerVars
  /\ Goto(c, "loop")
  /\ UNCHANGED <<queue, peer, choked, added, bad, twice>>

Connection(c) ==
  \/ Loop(c) \/ PopPeer(c) \/ Establish(c) \/ EstablishFails(c) \/ LeaveLoop(c)
  \/ Choke(c) \/ Unchoke(c) \/ Have(c) \/ PieceArrives(c) \/ RequestPiece(c)
  \/ NoRequest(c) \/ Close(c)
  \/ BlockReceived(c) /\ UNCHANGED <<block, connVars>>

PieceNext == broken = "no" /\ (PushPeer \/ \E c \in Conn : Connection(c))

PieceSpec == PeerInit /\ [][PieceNext]_pieceVars
-----------------------------------------------------------------------------
PieceTypeOK ==
  /\ missingPieces \subseteq Piece
  /\ Range(ongoingPieces) \cup Range(havePieces) \subseteq Piece
  /\ Range(pendingRequests) \subseteq Block
  /\ status \in [Block -> {"missing", "pending", "retrieved"}]
  /\ data \in [Block -> {None, "good", "bad"}]
  /\ file \in [Place -> {None, "good", "bad"}] /\ position \in Place
  /\ DOMAIN peers \subseteq Peer /\ \A u \in DOMAIN peers : peers[u] \subseteq Piece
  /\ pc \in [Conn -> {"loop", "done", "pop", "establish", "run", "take", "thrown", "ask"} \cup Working]
  /\ \A c \in Conn : pc[c] \in Working \cup {"take"} => block[c].b \in Block
  /\ broken \in {"no", "rarest", "terminate", "assert"}

\* No piece is ever lost or handled twice over: it is missing, in progress or
\* had, whatever the order in which the threads hand over its blocks.
PiecePartition ==
  /\ missingPieces \cup Range(ongoingPieces) \cup Range(havePieces) = Piece
  /\ missingPieces \cap (Range(ongoingPieces) \cup Range(havePieces)) = {}
  /\ Range(ongoingPieces) \cap Range(havePieces) = {}
  /\ Len(ongoingPieces) = Cardinality(Range(ongoingPieces))

\* A download that isComplete() calls complete is the file: every piece is
\* counted once and is in its place on disk with the hash of the torrent, and
\* there is nothing behind the last, unless two threads were inside
\* blockReceived with blocks of one piece at a time, or one moved the put
\* position of the stream between the seekp and the << of another.
FileIsGood ==
  ~raced /\ ~mixed =>
    /\ Len(havePieces) = Cardinality(Range(havePieces))
    /\ \A p \in Range(havePieces) : file[p] = "good"
    /\ file[Pieces + 1] = None

\* The process is ended by the assertion of getData only after such a race,
\* and by an unknown peer in removePeer only after a peer was added twice.
AbortsExplained ==
  /\ broken = "assert" => raced
  /\ broken = "terminate" => twice

\* A block of a piece in progress that was requested and is in no thread's
\* hands (its answer may be lost) can be requested again after five seconds,
\* unless it is the first block of its piece.
NoLostBlock ==
  \A b \in Block :
    /\ status[b] = "pending" /\ b[2] # 1 /\ b[1] \in Range(ongoingPieces)
    /\ \A c \in Conn : pc[c] \in Working => block[c].b # b
    => b \in Range(pendingRequests)
=============================================================================
