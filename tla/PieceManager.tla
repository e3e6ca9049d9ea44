----------------------------- MODULE PieceManager -----------------------------
(***************************************************************************)
(* The piece manager of the BitTorrent client of Exp5.  A piece is a       *)
(* number, a block the pair of its piece and its position.  Every          *)
(* connection thread asks for the next block to request and hands over the *)
(* blocks it receives; lock guards the lists, but blockReceived stores the *)
(* data, checks the piece and writes it to the file without the lock, so   *)
(* it is a sequence of steps: pc "store" to "move" or "reset".  All        *)
(* threads share the stream downloadedFile and its one put position.       *)
(*                                                                         *)
(* Data is "good" or "bad" and the hash of a piece matches when all its    *)
(* blocks are good.  Time is left out: any pending request may be five     *)
(* seconds old.  All pieces are of one length, and a place in the file is  *)
(* where one belongs, or what is behind the last.                          *)
(***************************************************************************)
EXTENDS Integers, Sequences, FiniteSetsExt, SequencesExt

CONSTANTS
  Conn,          \* the connection threads
  Pieces,        \* how many pieces the file has
  Blocks,        \* how many blocks a piece has
  None

ASSUME PieceAssumption ==
  /\ Pieces \in Nat \ {0} /\ Blocks \in Nat \ {0}
  /\ None \notin (1..Pieces) \X (1..Blocks)

VARIABLES
  missingPieces, ongoingPieces, havePieces,
  pendingRequests,      \* the blocks of the list, in its order
  status, data,         \* of every block
  file,                 \* what is on disk, per place
  position,             \* where downloadedFile writes next
  peers,                \* peerId -> the pieces it has
  pc,                   \* where a connection thread is
  block,                \* the block in its hands, [b, q]
  broken,               \* "no", or what ended the process
  raced,                \* history: two threads worked on one piece at a time
  mixed,                \* history: a seekp came between the seekp and the << of another thread
  expired               \* how many requests were repeated

lists == <<missingPieces, ongoingPieces, havePieces, pendingRequests>>
stream == <<file, position, mixed>>
managerVars == <<lists, status, data, stream, peers, broken, raced, expired>>

Piece == 1..Pieces
Place == 1..(Pieces + 1)
Block == Piece \X (1..Blocks)
BlocksOf(p) == {b \in Block : b[1] = p}
Working == {"store", "check", "hash", "seek", "write", "move", "reset"}

ManagerInit ==
  /\ missingPieces = Piece /\ ongoingPieces = <<>> /\ havePieces = <<>>
  /\ pendingRequests = <<>>
  /\ status = [b \in Block |-> "missing"] /\ data = [b \in Block |-> None]
  /\ file = [i \in Place |-> None] /\ position = Pieces + 1 /\ mixed = FALSE
  /\ peers = <<>>
  /\ broken = "no" /\ raced = FALSE /\ expired = 0

IsComplete == Len(havePieces) = Pieces
PieceComplete(p) == \A b \in BlocksOf(p) : status[b] = "retrieved"
Quality(p) == IF \A b \in BlocksOf(p) : data[b] = "good" THEN "good" ELSE "bad"
Goto(c, there) == pc' = [pc EXCEPT ![c] = there]
-----------------------------------------------------------------------------
(* nextRequest(peerId): the operators below say that it returns block b    *)

\* Piece::nextRequest: the first missing block of a piece.
FirstMissing(p) ==
  LET ks == {k \in 1..Blocks : status[<<p, k>>] = "missing"} IN
  IF ks = {} THEN None ELSE <<p, Min(ks)>>

\* expiredRequest: an old request for a piece the peer has is repeated.
Expired(peer, b) ==
  /\ b \in Range(pendingRequests) /\ b[1] \in peers[peer]
  /\ expired' = expired + 1
  /\ UNCHANGED <<lists, status, broken>>

\* The places of the started pieces nextOngoing can take a block of; it takes
\* the first.
Candidates(peer) ==
  {i \in DOMAIN ongoingPieces : ongoingPieces[i] \in peers[peer] /\ FirstMissing(ongoingPieces[i]) # None}

FaultyNextOngoing(peer, b) ==
  /\ Candidates(peer) # {}
  /\ b = FirstMissing(ongoingPieces[Min(Candidates(peer))])
  /\ status' = [status EXCEPT ![b] = "pending"]
  /\ UNCHANGED <<lists, expired, broken>>

NextOngoing(peer, b) ==
  /\ Candidates(peer) # {}
  /\ b = FirstMissing(ongoingPieces[Min(Candidates(peer))])
  /\ status' = [status EXCEPT ![b] = "pending"]
  /\ pendingRequests' = Append(pendingRequests, b)
  /\ UNCHANGED <<missingPieces, ongoingPieces, havePieces, expired, broken>>

\* getRarestPiece counts only this peer, so it starts the lowest missing piece
\* the peer has, and no PendingRequest is made for its first block.  Without
\* such a piece the pointer rarest is used uninitialised.
StartPiece(peer, b) ==
  /\ Candidates(peer) = {}
  /\ missingPieces \cap peers[peer] # {}
  /\ LET p == Min(missingPieces \cap peers[peer]) IN
       /\ missingPieces' = missingPieces \ {p}
       /\ ongoingPieces' = Append(ongoingPieces, p)
       /\ b = FirstMissing(p)
       /\ status' = [status EXCEPT ![b] = "pending"]
  /\ UNCHANGED <<havePieces, pendingRequests, expired, broken>>

NothingRare(peer, b) ==
  /\ Candidates(peer) = {} /\ missingPieces \cap peers[peer] = {}
  /\ b = None /\ broken' = "rarest"
  /\ UNCHANGED <<lists, status, expired>>

\* While no piece is missing, or for an unknown peer, it returns null.
NextRequest(peer, b) ==
  /\ IF missingPieces = {} \/ peer \notin DOMAIN peers
     THEN b = None /\ UNCHANGED <<lists, status, expired, broken>>
     ELSE \/ Expired(peer, b) \/ NextOngoing(peer, b)
          \/ StartPiece(peer, b) \/ NothingRare(peer, b)
  /\ UNCHANGED <<data, stream, peers, raced>>
-----------------------------------------------------------------------------
(* addPeer, updatePeer, removePeer                                         *)

AddPeer(peer, has) ==
  /\ peers' = [u \in DOMAIN peers \cup {peer} |-> IF u = peer THEN has ELSE peers[u]]
  /\ UNCHANGED <<lists, status, data, stream, broken, raced, expired>>

UpdatePeer(peer, p) ==
  /\ peer \in DOMAIN peers
  /\ peers' = [peers EXCEPT ![peer] = @ \cup {p}]
  /\ UNCHANGED <<lists, status, data, stream, broken, raced, expired>>

\* To remove an unknown peer throws out of the thread and ends the process.
RemovePeer(peer) ==
  /\ IF IsComplete \/ peer \in DOMAIN peers THEN UNCHANGED broken ELSE broken' = "terminate"
  /\ peers' = IF IsComplete THEN peers ELSE [u \in DOMAIN peers \ {peer} |-> peers[u]]
  /\ UNCHANGED <<lists, status, data, stream, raced, expired>>
-----------------------------------------------------------------------------
(* blockReceived, by thread c with block[c] in its hands                   *)

Others(c, p) == {d \in Conn \ {c} : pc[d] \in Working /\ block[d].b[1] = p}

\* Locked: the first such request leaves the list, the piece is looked up; one
\* that is not in progress ends the call with an exception.
TakeBlock(c) ==
  /\ pc[c] = "take"
  /\ pendingRequests' = RemoveFirst(pendingRequests, block[c].b)
  /\ IF block[c].b[1] \in Range(ongoingPieces)
     THEN Goto(c, "store") /\ raced' = (raced \/ Others(c, block[c].b[1]) # {})
     ELSE Goto(c, "thrown") /\ UNCHANGED raced
  /\ UNCHANGED <<missingPieces, ongoingPieces, havePieces, status, data, stream, peers, broken, expired>>

Store(c) ==
  /\ pc[c] = "store"
  /\ status' = [status EXCEPT ![block[c].b] = "retrieved"]
  /\ data' = [data EXCEPT ![block[c].b] = block[c].q]
  /\ Goto(c, "check")
  /\ UNCHANGED <<lists, stream, peers, broken, raced, expired>>

FaultyCheck(c) == pc[c] = "check" /\ Goto(c, "hash") /\ UNCHANGED managerVars

Check(c) ==
  /\ pc[c] = "check"
  /\ Goto(c, IF PieceComplete(block[c].b[1]) THEN "hash" ELSE "ask")
  /\ UNCHANGED managerVars

\* isHashMatching and write call getData, which asserts a complete piece.
Asserted(c, there) ==
  IF PieceComplete(block[c].b[1])
  THEN Goto(c, there) /\ UNCHANGED broken
  ELSE broken' = "assert" /\ UNCHANGED pc

FaultyHash(c) ==
  /\ pc[c] = "hash" /\ Asserted(c, "seek")
  /\ UNCHANGED <<lists, status, data, stream, peers, raced, expired>>

Hash(c) ==
  /\ pc[c] = "hash"
  /\ Asserted(c, IF Quality(block[c].b[1]) = "good" THEN "seek" ELSE "reset")
  /\ UNCHANGED <<lists, status, data, stream, peers, raced, expired>>

\* write: the put position is set, and whoever sets it next takes it away.
Seek(c) ==
  /\ pc[c] = "seek" /\ Goto(c, "write")
  /\ position' = block[c].b[1]
  /\ mixed' = (mixed \/ \E d \in Conn \ {c} : pc[d] = "write")
  /\ UNCHANGED <<lists, status, data, file, peers, broken, raced, expired>>

\* The piece goes where the position is by now, and spoils what belongs there.
Write(c) ==
  /\ pc[c] = "write" /\ Asserted(c, "move")
  /\ IF PieceComplete(block[c].b[1])
     THEN /\ file' = [file EXCEPT ![position] =
                 IF position = block[c].b[1] THEN Quality(position) ELSE "bad"]
          /\ position' = Min({position + 1, Pieces + 1})
     ELSE UNCHANGED <<file, position>>
  /\ UNCHANGED <<lists, status, data, peers, mixed, raced, expired>>

FaultyMove(c) ==
  /\ pc[c] = "move" /\ Goto(c, "ask")
  /\ havePieces' = Append(havePieces, block[c].b[1])
  /\ UNCHANGED <<missingPieces, ongoingPieces, pendingRequests, status, data, stream, peers, broken, raced, expired>>

\* The piece is erased from ongoingPieces, where it is once at most (PiecePartition).
Move(c) ==
  /\ pc[c] = "move"
  /\ ongoingPieces' = RemoveFirst(ongoingPieces, block[c].b[1])
  /\ havePieces' = Append(havePieces, block[c].b[1])
  /\ Goto(c, "ask")
  /\ UNCHANGED <<missingPieces, pendingRequests, status, data, stream, peers, broken, raced, expired>>

Reset(c) ==
  /\ pc[c] = "reset"
  /\ status' = [b \in Block |-> IF b[1] = block[c].b[1] THEN "missing" ELSE status[b]]
  /\ Goto(c, "ask")
  /\ UNCHANGED <<lists, data, stream, peers, broken, raced, expired>>

BlockReceived(c) ==
  TakeBlock(c) \/ Store(c) \/ Check(c) \/ Hash(c) \/ Seek(c) \/ Write(c) \/ Move(c) \/ Reset(c)
-----------------------------------------------------------------------------
(* initiatePieces, as a function of the lengths                            *)

FaultyBlockCount(length, pieceLen, size, p, count) == pieceLen \div size

\* ceil is taken of an integer quotient, so the quotient is rounded down.
BlockCount(length, pieceLen, size, p, count) ==
  IF p < count THEN pieceLen \div size
  ELSE Max({(length % pieceLen) \div size, 1})

BlockLength(length, pieceLen, size, p, k, count) ==
  IF p = count /\ k = BlockCount(length, pieceLen, size, p, count)
  THEN (length % pieceLen) % size
  ELSE size

\* The bytes all blocks together ask for.
LayoutLength(length, pieceLen, size) ==
  LET count == (length + pieceLen - 1) \div pieceLen
      ofPiece(p) == LET n == BlockCount(length, pieceLen, size, p, count) IN
                    IF n = 0 THEN 0
                    ELSE (n - 1) * size + BlockLength(length, pieceLen, size, p, n, count)
  IN FoldSet(LAMBDA p, sum : sum + ofPiece(p), 0, 1..count)
=============================================================================
