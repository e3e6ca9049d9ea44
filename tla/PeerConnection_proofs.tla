------------------------- MODULE PeerConnection_proofs -------------------------
(***************************************************************************)
(* Proofs about PieceManager and PeerConnection, for any number of         *)
(* connection threads, peers, pieces and blocks, and for any bounds.       *)
(***************************************************************************)
EXTENDS PeerConnection, FiniteSetTheorems, WellFoundedInduction, TLAPS

InTouch == {"run", "ask", "take", "thrown"} \cup Working
Handed == [b : Block, q : {"good", "bad"}]

ManagerTypes ==
  /\ missingPieces \in SUBSET Piece /\ ongoingPieces \in Seq(Piece) /\ havePieces \in Seq(Piece)
  /\ pendingRequests \in Seq(Block)
  /\ status \in [Block -> {"missing", "pending", "retrieved"}] /\ data \in [Block -> {None, "good", "bad"}]
  /\ file \in [Place -> {None, "good", "bad"}] /\ position \in Place
  /\ DOMAIN peers \subseteq Peer /\ peers \in [DOMAIN peers -> SUBSET Piece]
  /\ broken \in {"no", "rarest", "terminate", "assert"} /\ raced \in BOOLEAN /\ mixed \in BOOLEAN /\ twice \in BOOLEAN

ConnTypes ==
  /\ pc \in [Conn -> {"loop", "done", "pop", "establish"} \cup InTouch]
  /\ block \in [Conn -> Handed \cup {None}] /\ wire \in [Conn -> Block \cup {None}]
  /\ peer \in [Conn -> Peer \cup {None}] /\ queue \in Seq(Peer)
  /\ \A c \in Conn : pc[c] \in Working \cup {"take"} => block[c] \in Handed
  /\ \A c \in Conn : pc[c] \in InTouch \cup {"establish"} => peer[c] \in Peer

\* Every piece is in one of the three, and a piece in progress is there once.
Partition ==
  /\ missingPieces \cup Range(ongoingPieces) \cup Range(havePieces) = Piece
  /\ missingPieces \cap (Range(ongoingPieces) \cup Range(havePieces)) = {}
  /\ Range(ongoingPieces) \cap Range(havePieces) = {}
  /\ IsInjective(ongoingPieces)

\* A thread in blockReceived works on a piece that was started, and nobody
\* touches a piece that was not.
Started ==
  /\ \A c \in Conn : pc[c] \in Working => block[c].b[1] \notin missingPieces
  /\ \A b \in Block : b[1] \in missingPieces => status[b] = "missing"

\* Without a race, what a thread has found out about its piece stays true.
Alone ==
  ~raced =>
    /\ \A c, d \in Conn : c # d /\ pc[c] \in Working /\ pc[d] \in Working => block[c].b[1] # block[d].b[1]
    /\ \A c \in Conn : pc[c] \in Working => block[c].b[1] \in Range(ongoingPieces)
    /\ \A c \in Conn : pc[c] \in {"hash", "seek", "write", "move"} => PieceComplete(block[c].b[1])
    /\ \A c \in Conn : pc[c] \in {"seek", "write", "move"} => Quality(block[c].b[1]) = "good"

\* Without a race, every piece that is had is there once.
Good == ~raced => IsInjective(havePieces)

\* If the put position was not taken from a thread either, one thread at most
\* is between its seekp and its <<, and the position is that of its piece; what
\* has been written is in its place, and good.
OnDisk ==
  ~raced /\ ~mixed =>
    /\ \A c, d \in Conn : pc[c] = "write" /\ pc[d] = "write" => c = d
    /\ \A c \in Conn : pc[c] = "write" => position = block[c].b[1]
    /\ \A c \in Conn : pc[c] = "move" => file[block[c].b[1]] = "good"
    /\ \A p \in Range(havePieces) : file[p] = "good"
    /\ file[Pieces + 1] = None

\* Two threads never talk to one peer, unless it was added twice.
Known ==
  ~twice => \A c \in Conn : pc[c] \in InTouch =>
              /\ peer[c] \in DOMAIN peers
              /\ \A d \in Conn : d # c /\ pc[d] \in InTouch => peer[d] # peer[c]

\* NoLostBlock, where only a thread that has not stored the block yet excuses it.
Requested ==
  \A b \in Block :
    /\ status[b] = "pending" /\ b[2] # 1 /\ b[1] \in Range(ongoingPieces)
    /\ \A c \in Conn : pc[c] = "store" => block[c].b # b
    => b \in Range(pendingRequests)

PieceInv ==
  /\ ManagerTypes /\ ConnTypes /\ Partition /\ Started /\ Alone /\ Good /\ OnDisk /\ Known /\ Requested /\ AbortsExplained


USE DEF lists, stream, managerVars, connVars, Goto

-----------------------------------------------------------------------------
(* Sequences and sets                                                      *)

\* A set of natural numbers has a least element, and Min returns it.
LEMMA MinOfNats ==
  ASSUME NEW S \in SUBSET Nat, S # {}
  PROVE  Min(S) \in S /\ \A x \in S : Min(S) =< x
<1>1. PICK x \in S : \A y \in S : ~(<<y, x>> \in OpToRel(<, Nat))
  BY NatLessThanWellFounded, WFMin, Zenon
<1>2. \A y \in S : <<y, x>> \in OpToRel(<, Nat) <=> y < x
  BY DEF OpToRel
<1>3. \A y \in S : ~(y < x)
  BY <1>1, <1>2, Zenon
<1>4. \A y \in S : x =< y
  BY <1>3
<1>5. QED
  BY <1>4 DEF Min

\* What Append adds.
LEMMA Appended ==
  ASSUME NEW S, NEW s \in Seq(S), NEW e \in S
  PROVE  /\ Append(s, e) \in Seq(S) /\ Range(Append(s, e)) = Range(s) \cup {e}
         /\ IsInjective(s) /\ e \notin Range(s) => IsInjective(Append(s, e))
<1> DEFINE t == Append(s, e)
<1>1. /\ t \in Seq(S) /\ DOMAIN t = 1..(Len(s) + 1) /\ DOMAIN s = 1..Len(s) /\ Len(s) \in Nat
      /\ t[Len(s) + 1] = e /\ \A k \in DOMAIN s : t[k] = s[k]
  OBVIOUS
<1> HIDE DEF t
<1>2. Len(s) + 1 \in DOMAIN t /\ \A k \in DOMAIN t : k \in DOMAIN s \/ k = Len(s) + 1
  BY <1>1
<1>3. \A k \in DOMAIN s : k \in DOMAIN t
  BY <1>1
<1>4. Range(t) = Range(s) \cup {e}
  BY <1>1, <1>2, <1>3 DEF Range
<1>5. IsInjective(s) /\ e \notin Range(s) => IsInjective(t)
  BY <1>1, <1>2 DEF IsInjective, Range
<1>6. QED
  BY <1>1, <1>4, <1>5 DEF t

\* What RemoveFirst removes.
LEMMA Removed ==
  ASSUME NEW S, NEW s \in Seq(S), NEW e
  PROVE  /\ RemoveFirst(s, e) \in Seq(S)
         /\ Range(RemoveFirst(s, e)) \subseteq Range(s) /\ Range(s) \ {e} \subseteq Range(RemoveFirst(s, e))
         /\ IsInjective(s) => IsInjective(RemoveFirst(s, e)) /\ e \notin Range(RemoveFirst(s, e))
<1>1. CASE \E i \in 1..Len(s) : s[i] = e
  <2> DEFINE places == {i \in 1..Len(s) : s[i] = e}
  <2>1. PICK n : n = Min(places)
    OBVIOUS
  <2>2. n \in 1..Len(s) /\ s[n] = e
    <3>1. places \in SUBSET Nat /\ places # {}
      BY <1>1
    <3>2. QED
      BY <2>1, <3>1, MinOfNats
  <2>3. RemoveFirst(s, e) = RemoveAt(s, n)
    <3>1. SelectInSeq(s, LAMBDA v : v = e) = n
      BY <1>1, <2>1 DEF SelectInSeq
    <3>2. QED
      BY <1>1, <3>1 DEF RemoveFirst
  <2>4. PICK front : front = SubSeq(s, 1, n - 1)
    OBVIOUS
  <2>5. PICK back : back = SubSeq(s, n + 1, Len(s))
    OBVIOUS
  <2>6. Len(s) \in Nat /\ DOMAIN s = 1..Len(s)
    OBVIOUS
  <2>7. front \in Seq(S) /\ Len(front) = n - 1 /\ \A k \in 1..(n - 1) : front[k] = s[k]
    BY <2>2, <2>4, <2>6
  <2>8. back \in Seq(S) /\ Len(back) = Len(s) - n /\ \A k \in 1..(Len(s) - n) : back[k] = s[k + n]
    <3>1. back \in Seq(S) /\ Len(back) = Len(s) - n
      <4>1. PICK m \in Nat : m = n + 1 /\ m >= 1 /\ m <= Len(s) + 1 /\ Len(s) - m + 1 = Len(s) - n
        BY <2>2, <2>6
      <4>2. back = SubSeq(s, m, Len(s))
        BY <2>5, <4>1
      <4>3. back \in Seq(S)
        BY <2>6, <4>1, <4>2
      <4>4. Len(back) = Len(s) - m + 1
        BY <2>6, <4>1, <4>2
      <4>5. QED
        BY <4>1, <4>3, <4>4
    <3>2. \A k \in 1..(Len(s) - n) : back[k] = s[(n + 1) + k - 1] /\ (n + 1) + k - 1 = k + n
      BY <2>2, <2>5, <2>6
    <3>3. QED
      BY <3>1, <3>2
  <2>9. PICK t : t = front \o back
    OBVIOUS
  <2>10. RemoveFirst(s, e) = t
    BY <2>3, <2>4, <2>5, <2>9 DEF RemoveAt
  <2>11. t \in Seq(S) /\ Len(t) = Len(s) - 1 /\ DOMAIN t = 1..(Len(s) - 1)
    <3>1. t \in Seq(S) /\ Len(t) = Len(front) + Len(back)
      <4>1. front \in Seq(S) /\ back \in Seq(S)
        BY <2>7, <2>8
      <4>2. QED
        BY <2>9, <4>1
    <3>2. Len(t) = Len(s) - 1
      BY <2>2, <2>6, <2>7, <2>8, <3>1
    <3>3. QED
      BY <3>1, <3>2
  <2>12. \A k \in 1..(n - 1) : t[k] = s[k]
    BY <2>2, <2>6, <2>7, <2>8, <2>9
  <2>13. \A k \in n..(Len(s) - 1) : t[k] = s[k + 1]
    <3>1. \A k \in n..(Len(s) - 1) : k > n - 1 /\ k <= (n - 1) + (Len(s) - n) /\ k - (n - 1) \in 1..(Len(s) - n) /\ k - (n - 1) + n = k + 1
      BY <2>2, <2>6
    <3>2. \A k \in n..(Len(s) - 1) : t[k] = back[k - (n - 1)]
      BY <2>2, <2>6, <2>7, <2>8, <2>9, <3>1
    <3>3. QED
      BY <2>8, <3>1, <3>2
  <2>14. /\ \A k \in DOMAIN t : k \in 1..(n - 1) \/ (k \in n..(Len(s) - 1) /\ k + 1 \in DOMAIN s)
         /\ \A k \in 1..(n - 1) : k \in DOMAIN s /\ k \in DOMAIN t /\ k # n
         /\ \A k \in DOMAIN s : k # n => k \in 1..(n - 1) \/ (k - 1 \in n..(Len(s) - 1) /\ k - 1 \in DOMAIN t /\ (k - 1) + 1 = k)
    BY <2>2, <2>6, <2>11
  <2>15. Range(t) \subseteq Range(s)
    <3>1. \A k \in DOMAIN t : \E m \in DOMAIN s : t[k] = s[m]
      BY <2>12, <2>13, <2>14
    <3>2. QED
      BY <3>1 DEF Range
  <2>16. Range(s) \ {e} \subseteq Range(t)
    <3>1. \A k \in DOMAIN s : s[k] # e => \E m \in DOMAIN t : t[m] = s[k]
      BY <2>2, <2>12, <2>13, <2>14
    <3>2. QED
      BY <3>1 DEF Range
  <2>17. ASSUME IsInjective(s) PROVE IsInjective(t) /\ e \notin Range(t)
    <3> DEFINE from(k) == IF k < n THEN k ELSE k + 1
    <3>1. \A k \in DOMAIN t : from(k) \in DOMAIN s /\ from(k) # n /\ t[k] = s[from(k)]
      BY <2>2, <2>6, <2>11, <2>12, <2>13
    <3>2. \A k, m \in DOMAIN t : from(k) = from(m) => k = m
      BY <2>2, <2>6, <2>11
    <3> HIDE DEF from
    <3>3. \A k, m \in DOMAIN t : t[k] = t[m] => k = m
      BY <2>17, <3>1, <3>2 DEF IsInjective
    <3>4. \A k \in DOMAIN t : t[k] # e
      BY <2>2, <2>6, <2>17, <3>1 DEF IsInjective
    <3>5. QED
      BY <3>3, <3>4 DEF IsInjective, Range
  <2>18. QED
    BY <2>10, <2>11, <2>15, <2>16, <2>17
<1>2. CASE ~(\E i \in 1..Len(s) : s[i] = e)
  <2>1. RemoveFirst(s, e) = s
    BY <1>2 DEF RemoveFirst
  <2>2. e \notin Range(s)
    BY <1>2 DEF Range
  <2>3. QED
    BY <2>1, <2>2
<1>3. QED
  BY <1>1, <1>2

\* A sequence without repetitions is as long as its range is large.
LEMMA LengthOfInjective ==
  ASSUME NEW S, NEW s \in Seq(S), IsInjective(s)
  PROVE  Len(s) = Cardinality(Range(s))
<1>1. Len(s) \in Nat /\ DOMAIN s = 1..Len(s) /\ s \in [1..Len(s) -> Range(s)]
  BY DEF Range
<1>2. s \in Bijection(1..Len(s), Range(s))
  BY <1>1 DEF Bijection, Injection, Surjection, IsInjective, Range
<1>3. ExistsBijection(1..Len(s), Range(s))
  BY <1>2 DEF ExistsBijection
<1>4. QED
  BY <1>1, <1>3, FS_CountingElements

\* Piece::nextRequest returns a missing block of the piece, the first one.
LEMMA FirstMissingBlock ==
  ASSUME NEW p \in Piece, status \in [Block -> {"missing", "pending", "retrieved"}]
  PROVE  /\ FirstMissing(p) = None \/ (FirstMissing(p) \in Block /\ FirstMissing(p)[1] = p /\ status[FirstMissing(p)] = "missing")
         /\ (\A b \in BlocksOf(p) : status[b] = "missing") => FirstMissing(p) = <<p, 1>>
         /\ <<p, 1>> \in BlocksOf(p)
<1>1. Blocks \in Nat \ {0}
  BY PieceAssumption
<1> DEFINE ks == {k \in 1..Blocks : status[<<p, k>>] = "missing"}
<1>2. ks \in SUBSET Nat
  OBVIOUS
<1>3. ks # {} => Min(ks) \in ks /\ \A k \in ks : Min(ks) =< k
  BY <1>2, MinOfNats
<1>4. FirstMissing(p) = IF ks = {} THEN None ELSE <<p, Min(ks)>>
  BY DEF FirstMissing
<1>5. \A k \in 1..Blocks : <<p, k>> \in Block /\ <<p, k>> \in BlocksOf(p) /\ <<p, k>>[1] = p
  BY DEF Block, BlocksOf
<1>6. ks # {} => FirstMissing(p) \in Block /\ FirstMissing(p)[1] = p /\ status[FirstMissing(p)] = "missing"
  BY <1>3, <1>4, <1>5
<1>7. (\A b \in BlocksOf(p) : status[b] = "missing") => 1 \in ks
  BY <1>1, <1>5
<1>8. 1 \in ks => Min(ks) = 1
  <2>1. \A k \in ks : k \in Nat /\ k >= 1
    OBVIOUS
  <2> HIDE DEF ks
  <2>2. QED
    BY <1>3, <2>1
<1>9. (\A b \in BlocksOf(p) : status[b] = "missing") => FirstMissing(p) = <<p, 1>>
  BY <1>4, <1>7, <1>8
<1>10. QED
  BY <1>1, <1>4, <1>5, <1>6, <1>9

-----------------------------------------------------------------------------
(* Steps outside blockReceived                                             *)

\* Nothing is started, nobody is connected.
LEMMA InitInv == PeerInit => PieceInv
<1> SUFFICES ASSUME PeerInit PROVE PieceInv
  OBVIOUS
<1> USE DEF PeerInit, ManagerInit
<1>1. Range(ongoingPieces) = {} /\ Range(havePieces) = {} /\ DOMAIN <<>> = {}
  BY DEF Range
<1>2. ManagerTypes
  <2>1. peers \in [DOMAIN peers -> SUBSET Piece] /\ DOMAIN peers \subseteq Peer
    BY <1>1
  <2>2. <<>> \in Seq(Piece) /\ <<>> \in Seq(Block)
    OBVIOUS
  <2>3. position \in Place
    BY PieceAssumption DEF Place
  <2>4. QED
    BY <2>1, <2>2, <2>3 DEF ManagerTypes
<1>3. ConnTypes
  <2>1. \A c \in Conn : pc[c] = "loop"
    OBVIOUS
  <2>2. queue \in Seq(Peer)
    OBVIOUS
  <2>3. QED
    BY <2>1, <2>2 DEF ConnTypes, InTouch, Working
<1>4. Partition
  BY <1>1 DEF Partition, IsInjective
<1>5. Started /\ Alone /\ Known
  BY DEF Started, Alone, Known, InTouch, Working
<1>6. Good
  BY <1>1 DEF Good, IsInjective
<1>7. OnDisk /\ Requested /\ AbortsExplained
  BY <1>1, PieceAssumption DEF OnDisk, Requested, AbortsExplained, Place
<1>8. QED
  BY <1>2, <1>3, <1>4, <1>5, <1>6, <1>7 DEF PieceInv

\* A step that neither writes nor starts to, and adds nothing to havePieces.
LEMMA OnDiskKept ==
  ASSUME OnDisk, UNCHANGED <<stream, havePieces>>, raced => raced',
         \A d \in Conn : pc'[d] \in {"write", "move"} => pc'[d] = pc[d] /\ block'[d] = block[d]
  PROVE  OnDisk'
<1> SUFFICES ASSUME ~raced' /\ ~mixed PROVE OnDisk'
  BY DEF OnDisk
<1>1. ~raced
  BY Zenon
<1>2. QED
  BY <1>1 DEF OnDisk

\* A step that leaves the pieces alone, and threads inside blockReceived too.
LEMMA Elsewhere ==
  ASSUME PieceInv, UNCHANGED <<lists, status, data, stream, raced>>,
         \A d \in Conn : \/ pc'[d] = pc[d] /\ block'[d] = block[d]
                         \/ pc[d] \notin Working /\ pc'[d] \notin Working
  PROVE  Partition' /\ Started' /\ Alone' /\ Good' /\ OnDisk' /\ Requested'
<1> USE DEF PieceInv
<1>1. Partition' /\ Good'
  BY DEF Partition, Good
<1>2. \A d \in Conn : pc'[d] \in Working => pc'[d] = pc[d] /\ block'[d] = block[d]
  OBVIOUS
<1>3. Started'
  BY <1>2 DEF Started
<1>4. Alone'
  BY <1>2 DEF Alone, PieceComplete, Quality, BlocksOf, Working
<1>5. Requested'
  <2>1. \A b, d : d \in Conn /\ pc[d] = "store" => pc'[d] = "store" /\ block'[d] = block[d]
    BY DEF Working
  <2>2. QED
    BY <2>1 DEF Requested
<1>6. OnDisk'
  <2>1. \A d \in Conn : pc'[d] \in {"write", "move"} => pc'[d] = pc[d] /\ block'[d] = block[d]
    BY <1>2 DEF Working
  <2>2. QED
    BY <2>1, OnDiskKept
<1>7. QED
  BY <1>1, <1>3, <1>4, <1>5, <1>6

\* A step that connects nobody and disconnects nobody.
LEMMA KnownKept ==
  ASSUME PieceInv, UNCHANGED twice, DOMAIN peers' = DOMAIN peers,
         \A d \in Conn : pc'[d] \in InTouch => pc[d] \in InTouch /\ peer'[d] = peer[d]
  PROVE  Known'
  BY DEF PieceInv, Known

\* The steps of the threads between the calls of the piece manager.
LEMMA ThreadInv ==
  ASSUME PieceInv, NEW c \in Conn,
         Loop(c) \/ PopPeer(c) \/ EstablishFails(c) \/ LeaveLoop(c) \/ Choke(c) \/ Unchoke(c) \/ PieceArrives(c) \/ NoRequest(c)
  PROVE  PieceInv'
<1> USE DEF PieceInv
<1>1. UNCHANGED <<managerVars, twice>>
  BY DEF Loop, PopPeer, EstablishFails, LeaveLoop, Choke, Unchoke, PieceArrives, NoRequest
<1>2. ManagerTypes' /\ AbortsExplained'
  BY <1>1 DEF ManagerTypes, AbortsExplained
<1>3. ConnTypes'
  <2>1. CASE Loop(c) \/ EstablishFails(c) \/ LeaveLoop(c)
    BY <2>1 DEF Loop, EstablishFails, LeaveLoop, ConnTypes, InTouch, Working
  <2>2. CASE PopPeer(c)
    <3>1. Head(queue) \in Peer /\ queue' \in Seq(Peer)
      BY <2>2 DEF PopPeer, ConnTypes
    <3>2. QED
      BY <2>2, <3>1 DEF PopPeer, ConnTypes, InTouch, Working
  <2>3. CASE Choke(c) \/ Unchoke(c) \/ NoRequest(c)
    BY <2>3 DEF Choke, Unchoke, NoRequest, ConnTypes, InTouch, Working
  <2>4. CASE PieceArrives(c)
    <3>1. PICK b \in Block, q \in {"good", "bad"} :
             /\ block' = [block EXCEPT ![c] = [b |-> b, q |-> q]]
             /\ wire' = [wire EXCEPT ![c] = IF b = wire[c] THEN None ELSE @]
      BY <2>4 DEF PieceArrives
    <3>2. [b |-> b, q |-> q] \in Handed
      BY DEF Handed
    <3>3. wire' \in [Conn -> Block \cup {None}]
      BY <3>1 DEF ConnTypes
    <3>4. QED
      BY <2>4, <3>1, <3>2, <3>3 DEF PieceArrives, ConnTypes, InTouch, Working
  <2>5. QED
    BY <2>1, <2>2, <2>3, <2>4
<1>4. \A d \in Conn : \/ pc'[d] = pc[d] /\ block'[d] = block[d]
                      \/ pc[d] \notin Working /\ pc'[d] \notin Working
  BY DEF Loop, PopPeer, EstablishFails, LeaveLoop, Choke, Unchoke, PieceArrives, NoRequest, ConnTypes, Working
<1>5. Partition' /\ Started' /\ Alone' /\ Good' /\ OnDisk' /\ Requested'
  <2>1. UNCHANGED <<lists, status, data, stream, raced>>
    BY <1>1
  <2>2. QED
    BY <1>4, <2>1, Elsewhere
<1>6. Known'
  <2>1. \A d \in Conn : pc'[d] \in InTouch => pc[d] \in InTouch /\ peer'[d] = peer[d]
    BY DEF Loop, PopPeer, EstablishFails, LeaveLoop, Choke, Unchoke, PieceArrives, NoRequest, ConnTypes, InTouch, Working
  <2>2. QED
    BY <1>1, <2>1, KnownKept
<1>7. QED
  BY <1>2, <1>3, <1>5, <1>6

\* A peer is put in the queue.
LEMMA PushInv == ASSUME PieceInv, PushPeer PROVE PieceInv'
<1> USE DEF PieceInv, PushPeer
<1>1. UNCHANGED <<managerVars, twice, pc, block, peer, wire>>
  OBVIOUS
<1>2. ManagerTypes' /\ AbortsExplained'
  BY <1>1 DEF ManagerTypes, AbortsExplained
<1>3. ConnTypes'
  <2>1. queue' \in Seq(Peer)
    BY DEF ConnTypes
  <2>2. QED
    BY <1>1, <2>1 DEF ConnTypes
<1>4. Partition' /\ Started' /\ Alone' /\ Good' /\ OnDisk' /\ Requested'
  <2>1. UNCHANGED <<lists, status, data, stream, raced>>
    BY <1>1
  <2>2. QED
    BY <1>1, <2>1, Elsewhere
<1>5. Known'
  BY <1>1, KnownKept
<1>6. QED
  BY <1>2, <1>3, <1>4, <1>5

\* A peer is made known, told to have another piece, or forgotten.
LEMMA PeersInv ==
  ASSUME PieceInv, broken = "no", NEW c \in Conn, Establish(c) \/ Have(c) \/ Close(c)
  PROVE  PieceInv'
<1> USE DEF PieceInv
<1>1. /\ UNCHANGED <<lists, status, data, stream, raced, queue, peer>>
      /\ \A d \in Conn : \/ pc'[d] = pc[d] /\ block'[d] = block[d]
                         \/ pc[d] \notin Working /\ pc'[d] \notin Working
  <2>1. CASE Establish(c)
    BY <2>1 DEF Establish, AddPeer, ConnTypes, Working
  <2>2. CASE Have(c)
    BY <2>2 DEF Have, UpdatePeer, ConnTypes, Working
  <2>3. CASE Close(c)
    BY <2>3 DEF Close, RemovePeer, ConnTypes, Working
  <2>4. QED
    BY <2>1, <2>2, <2>3
<1>2. Partition' /\ Started' /\ Alone' /\ Good' /\ OnDisk' /\ Requested'
  BY <1>1, Elsewhere
<1>3. ConnTypes'
  <2>1. CASE Establish(c)
    BY <2>1 DEF Establish, ConnTypes, InTouch, Working
  <2>2. CASE Have(c)
    BY <2>2 DEF Have, ConnTypes, InTouch, Working
  <2>3. CASE Close(c)
    BY <2>3 DEF Close, ConnTypes, InTouch, Working
  <2>4. QED
    BY <2>1, <2>2, <2>3
<1>4. CASE Establish(c)
  <2>1. PICK has \in SUBSET Piece : AddPeer(peer[c], has)
    BY <1>4 DEF Establish
  <2>2. peer[c] \in Peer /\ pc[c] = "establish" /\ twice' = (twice \/ peer[c] \in DOMAIN peers) /\ UNCHANGED <<broken, raced>>
    BY <1>4, <2>1 DEF Establish, ConnTypes, AddPeer
  <2>3. DOMAIN peers' = DOMAIN peers \cup {peer[c]} /\ peers' \in [DOMAIN peers' -> SUBSET Piece]
    BY <2>1 DEF AddPeer, ManagerTypes
  <2>4. twice' \in BOOLEAN
    BY <2>2
  <2>5. ManagerTypes'
    BY <1>1, <2>2, <2>3, <2>4 DEF ManagerTypes
  <2>6. AbortsExplained'
    BY <2>2 DEF AbortsExplained
  <2>7. Known'
    <3> SUFFICES ASSUME ~twice' PROVE Known'
      BY DEF Known
    <3>1. ~twice /\ peer[c] \notin DOMAIN peers
      BY <2>2, Zenon
    <3>2. \A d \in Conn : pc[d] \in InTouch => peer[d] # peer[c] /\ peer[d] \in DOMAIN peers
      BY <3>1 DEF Known
    <3>3. \A d \in Conn : d # c => pc'[d] = pc[d] /\ peer'[d] = peer[d]
      BY <1>1, <1>4 DEF Establish, ConnTypes
    <3>4. QED
      BY <1>1, <2>3, <3>1, <3>2, <3>3 DEF Known
  <2>8. QED
    BY <1>2, <1>3, <2>5, <2>6, <2>7
<1>5. CASE Have(c)
  <2>1. PICK p \in Piece : UpdatePeer(peer[c], p)
    BY <1>5 DEF Have
  <2>2. DOMAIN peers' = DOMAIN peers /\ peers' \in [DOMAIN peers -> SUBSET Piece] /\ UNCHANGED <<broken, raced, twice>>
    BY <1>5, <2>1 DEF Have, UpdatePeer, ManagerTypes
  <2>3. ManagerTypes' /\ AbortsExplained'
    BY <1>1, <2>2 DEF ManagerTypes, AbortsExplained
  <2>4. Known'
    <3>1. \A d \in Conn : pc'[d] \in InTouch => pc[d] \in InTouch /\ peer'[d] = peer[d]
      BY <1>1, <1>5 DEF Have, ConnTypes, InTouch
    <3>2. QED
      BY <2>2, <3>1, KnownKept
  <2>5. QED
    BY <1>2, <1>3, <2>3, <2>4
<1>6. CASE Close(c)
  <2>1. pc[c] \in InTouch /\ pc'[c] \notin InTouch /\ (\A d \in Conn : d # c => pc'[d] = pc[d]) /\ UNCHANGED twice
    BY <1>6 DEF Close, ConnTypes, InTouch, Working
  <2>2. /\ UNCHANGED peers \/ (DOMAIN peers' = DOMAIN peers \ {peer[c]} /\ \A u \in DOMAIN peers' : peers'[u] = peers[u] /\ peers' \in [DOMAIN peers' -> SUBSET Piece])
        /\ UNCHANGED broken \/ (broken' = "terminate" /\ peer[c] \notin DOMAIN peers)
    BY <1>6 DEF Close, RemovePeer, ManagerTypes
  <2>3. peers' \in [DOMAIN peers' -> SUBSET Piece] /\ DOMAIN peers' \subseteq DOMAIN peers
    <3>1. CASE UNCHANGED peers
      BY <3>1 DEF ManagerTypes
    <3>2. CASE peers' = [u \in DOMAIN peers \ {peer[c]} |-> peers[u]]
      BY <3>2 DEF ManagerTypes
    <3>3. QED
      BY <1>6, <3>1, <3>2 DEF Close, RemovePeer
  <2>4. ManagerTypes'
    BY <1>1, <2>1, <2>2, <2>3 DEF ManagerTypes
  <2>5. AbortsExplained'
    BY <1>1, <2>1, <2>2 DEF AbortsExplained, Known
  <2>6. Known'
    <3> SUFFICES ASSUME ~twice PROVE Known'
      BY <2>1 DEF Known
    <3>1. \A d \in Conn : d # c /\ pc[d] \in InTouch => peer[d] # peer[c] /\ peer[d] \in DOMAIN peers'
      BY <2>1, <2>2 DEF Known
    <3>2. QED
      BY <1>1, <2>1, <3>1 DEF Known
  <2>7. QED
    BY <1>2, <1>3, <2>4, <2>5, <2>6
<1>7. QED
  BY <1>4, <1>5, <1>6

-----------------------------------------------------------------------------
(* nextRequest                                                             *)

\* A missing block becomes a pending one: whatever the threads have found out
\* about their pieces is not about that block.
LEMMA MarkedPending ==
  ASSUME PieceInv, UNCHANGED <<havePieces, data, stream, raced>>, Range(ongoingPieces) \subseteq Range(ongoingPieces'),
         NEW b \in Block, status[b] = "missing", status' = [status EXCEPT ![b] = "pending"],
         \A d \in Conn : \/ pc'[d] = pc[d] /\ block'[d] = block[d]
                         \/ pc[d] \notin Working /\ pc'[d] \notin Working
  PROVE  Alone' /\ Good' /\ OnDisk' /\ (\A a \in Block : a # b => status'[a] = status[a]) /\ status'[b] = "pending"
<1> USE DEF PieceInv
<1>1. (\A a \in Block : a # b => status'[a] = status[a]) /\ status'[b] = "pending"
  BY DEF ManagerTypes
<1>2. Good' /\ OnDisk'
  <2>1. \A d \in Conn : pc'[d] \in {"write", "move"} => pc'[d] = pc[d] /\ block'[d] = block[d]
    BY DEF Working
  <2>2. QED
    BY <2>1, OnDiskKept DEF Good
<1>3. \A d \in Conn : pc'[d] \in Working => pc'[d] = pc[d] /\ block'[d] = block[d]
  OBVIOUS
<1>4. \A a \in Block : status[a] = "retrieved" => status'[a] = "retrieved"
  BY <1>1
<1>5. Alone'
  <2> SUFFICES ASSUME ~raced PROVE Alone'
    BY DEF Alone
  <2>1. \A d \in Conn : pc'[d] \in {"hash", "seek", "write", "move"} => \A a \in BlocksOf(block'[d].b[1]) : status'[a] = "retrieved"
    BY <1>3, <1>4 DEF Alone, PieceComplete, BlocksOf, Working
  <2>2. \A d \in Conn : pc'[d] \in {"seek", "write", "move"} => \A a \in BlocksOf(block'[d].b[1]) : data'[a] = "good"
    BY <1>3 DEF Alone, Quality, Working
  <2>3. \A d, e \in Conn : d # e /\ pc'[d] \in Working /\ pc'[e] \in Working => block'[d].b[1] # block'[e].b[1]
    BY <1>3 DEF Alone
  <2>4. \A d \in Conn : pc'[d] \in Working => block'[d].b[1] \in Range(ongoingPieces')
    BY <1>3 DEF Alone
  <2>5. QED
    BY <2>1, <2>2, <2>3, <2>4 DEF Alone, PieceComplete, Quality, BlocksOf
<1>6. QED
  BY <1>1, <1>2, <1>5

\* A thread asks for the next block: an old request again, a block of a piece
\* in progress, or the first block of a missing piece.
LEMMA RequestInv ==
  ASSUME PieceInv, broken = "no", NEW c \in Conn, RequestPiece(c)
  PROVE  PieceInv'
<1> USE DEF PieceInv
<1>1. PICK b \in Block \cup {None} : NextRequest(peer[c], b) /\ wire' = [wire EXCEPT ![c] = b]
  BY DEF RequestPiece
<1>2. /\ UNCHANGED <<data, stream, peers, raced, queue, peer, twice>> /\ peer[c] \in Peer /\ pc[c] = "ask"
      /\ \A d \in Conn : \/ pc'[d] = pc[d] /\ block'[d] = block[d]
                         \/ pc[d] \notin Working /\ pc'[d] \notin Working
  BY <1>1 DEF RequestPiece, NextRequest, ConnTypes, InTouch, Working
<1>3. ConnTypes'
  BY <1>1, <1>2 DEF RequestPiece, ConnTypes, InTouch, Working
<1>4. Known'
  <2>1. \A d \in Conn : pc'[d] \in InTouch => pc[d] \in InTouch /\ peer'[d] = peer[d]
    BY <1>2 DEF RequestPiece, ConnTypes, InTouch, Working
  <2>2. QED
    BY <1>2, <2>1, KnownKept
<1>5. CASE UNCHANGED <<lists, status>> /\ broken' \in {broken, "rarest"}
  <2>1. ManagerTypes' /\ AbortsExplained'
    BY <1>2, <1>5 DEF ManagerTypes, AbortsExplained
  <2>2. Partition' /\ Started' /\ Alone' /\ Good' /\ OnDisk' /\ Requested'
    BY <1>2, <1>5, Elsewhere
  <2>3. QED
    BY <1>3, <1>4, <2>1, <2>2
<1>6. CASE NextOngoing(peer[c], b)
  <2>1. Candidates(peer[c]) \in SUBSET Nat /\ Candidates(peer[c]) # {}
    <3>1. DOMAIN ongoingPieces \subseteq Nat
      BY DEF ManagerTypes
    <3>2. QED
      BY <1>6, <3>1 DEF NextOngoing, Candidates
  <2>2. PICK i \in DOMAIN ongoingPieces : b = FirstMissing(ongoingPieces[i]) /\ b # None
    BY <1>6, <2>1, MinOfNats DEF NextOngoing, Candidates
  <2>3. PICK p \in Piece : p = ongoingPieces[i] /\ p \in Range(ongoingPieces) /\ p \notin missingPieces
    BY <2>2 DEF ManagerTypes, Partition, Range
  <2>4. b \in Block /\ b[1] = p /\ status[b] = "missing"
    BY <2>2, <2>3, FirstMissingBlock DEF ManagerTypes
  <2>5. /\ UNCHANGED <<missingPieces, ongoingPieces, havePieces, broken>> /\ status' = [status EXCEPT ![b] = "pending"]
        /\ pendingRequests' = Append(pendingRequests, b)
    BY <1>6 DEF NextOngoing
  <2>6. Alone' /\ Good' /\ OnDisk' /\ (\A a \in Block : a # b => status'[a] = status[a]) /\ status'[b] = "pending"
    BY <1>2, <2>4, <2>5, MarkedPending
  <2>7. pendingRequests' \in Seq(Block) /\ Range(pendingRequests') = Range(pendingRequests) \cup {b}
    BY <2>4, <2>5, Appended DEF ManagerTypes
  <2>8. ManagerTypes' /\ AbortsExplained'
    BY <1>2, <2>4, <2>5, <2>7 DEF ManagerTypes, AbortsExplained
  <2>9. Partition'
    BY <2>5 DEF Partition
  <2>10. Started'
    BY <1>2, <2>3, <2>4, <2>5, <2>6 DEF Started
  <2>11. Requested'
    <3>1. \A a, d : d \in Conn /\ pc[d] = "store" => pc'[d] = "store" /\ block'[d] = block[d]
      BY <1>2 DEF Working
    <3>2. \A a \in Block : a # b => status'[a] = status[a] /\ (a \in Range(pendingRequests) => a \in Range(pendingRequests'))
      BY <2>6, <2>7
    <3>3. b \in Range(pendingRequests')
      BY <2>7
    <3>4. QED
      BY <2>5, <3>1, <3>2, <3>3 DEF Requested
  <2>12. QED
    BY <1>3, <1>4, <2>6, <2>8, <2>9, <2>10, <2>11
<1>7. CASE StartPiece(peer[c], b) /\ peer[c] \in DOMAIN peers
  <2>1. PICK p : p = Min(missingPieces \cap peers[peer[c]])
    OBVIOUS
  <2>2. p \in missingPieces /\ p \in Piece
    <3>1. missingPieces \cap peers[peer[c]] \in SUBSET Nat /\ missingPieces \cap peers[peer[c]] # {}
      BY <1>7 DEF StartPiece, ManagerTypes, Piece
    <3>2. QED
      BY <2>1, <3>1, MinOfNats DEF ManagerTypes
  <2>3. /\ missingPieces' = missingPieces \ {p} /\ ongoingPieces' = Append(ongoingPieces, p) /\ b = FirstMissing(p)
        /\ status' = [status EXCEPT ![b] = "pending"] /\ UNCHANGED <<havePieces, pendingRequests, broken>>
    BY <1>7, <2>1 DEF StartPiece
  <2>4. \A a \in BlocksOf(p) : a \in Block /\ a[1] = p /\ status[a] = "missing"
    BY <2>2 DEF Started, BlocksOf
  <2>5. b = <<p, 1>> /\ b \in Block /\ b[1] = p /\ b[2] = 1 /\ status[b] = "missing"
    <3>1. b = <<p, 1>> /\ <<p, 1>> \in BlocksOf(p)
      BY <2>2, <2>3, <2>4, FirstMissingBlock DEF ManagerTypes
    <3>2. QED
      BY <2>4, <3>1
  <2>6. /\ ongoingPieces' \in Seq(Piece) /\ Range(ongoingPieces') = Range(ongoingPieces) \cup {p} /\ p \notin Range(ongoingPieces)
        /\ IsInjective(ongoingPieces')
    BY <2>2, <2>3, Appended DEF ManagerTypes, Partition
  <2>7. Alone' /\ Good' /\ OnDisk' /\ (\A a \in Block : a # b => status'[a] = status[a]) /\ status'[b] = "pending"
    BY <1>2, <2>3, <2>5, <2>6, MarkedPending
  <2>8. ManagerTypes' /\ AbortsExplained'
    BY <1>2, <2>3, <2>5, <2>6 DEF ManagerTypes, AbortsExplained
  <2>9. Partition'
    BY <2>2, <2>3, <2>6 DEF Partition
  <2>10. Started'
    BY <1>2, <2>3, <2>5, <2>7 DEF Started
  <2>11. Requested'
    <3>1. \A a, d : d \in Conn /\ pc[d] = "store" => pc'[d] = "store" /\ block'[d] = block[d]
      BY <1>2 DEF Working
    <3>2. \A a \in Block : a[1] = p /\ a # b => status'[a] = "missing"
      BY <2>4, <2>7 DEF BlocksOf
    <3>3. \A a \in Block : a[1] # p /\ a[1] \in Range(ongoingPieces') => a # b /\ a[1] \in Range(ongoingPieces) /\ status'[a] = status[a]
      BY <2>5, <2>6, <2>7
    <3>4. QED
      BY <2>3, <2>5, <3>1, <3>2, <3>3 DEF Requested
  <2>12. QED
    BY <1>3, <1>4, <2>7, <2>8, <2>9, <2>10, <2>11
<1>8. QED
  BY <1>1, <1>5, <1>6, <1>7 DEF NextRequest, Expired, NothingRare

-----------------------------------------------------------------------------
(* blockReceived                                                           *)

\* What a thread does to its own piece is nothing to the others, and what it
\* has found out about that piece is so.
LEMMA AloneKept ==
  ASSUME PieceInv, ~raced, NEW c \in Conn, NEW p \in Piece, p = block[c].b[1], UNCHANGED block,
         \A d \in Conn : d # c => pc'[d] = pc[d] /\ (pc[d] \in Working => block[d].b[1] # p),
         \A a \in Block : a[1] # p => status'[a] = status[a] /\ data'[a] = data[a],
         \A o \in Piece : o # p /\ o \in Range(ongoingPieces) => o \in Range(ongoingPieces'),
         pc'[c] \in Working => p \in Range(ongoingPieces'),
         pc'[c] \in {"hash", "seek", "write", "move"} => \A a \in BlocksOf(p) : status'[a] = "retrieved",
         pc'[c] \in {"seek", "write", "move"} => \A a \in BlocksOf(p) : data'[a] = "good"
  PROVE  Alone'
<1> USE DEF PieceInv
<1>1. \A d, e \in Conn : d # e /\ pc'[d] \in Working /\ pc'[e] \in Working => block'[d].b[1] # block'[e].b[1]
  BY DEF Alone
<1>2. \A d \in Conn : d # c /\ pc'[d] \in Working => block[d].b[1] \in Piece /\ block[d].b[1] # p /\ block[d].b[1] \in Range(ongoingPieces)
  BY DEF ConnTypes, Handed, Alone, Block
<1>3. \A d \in Conn : pc'[d] \in Working => block'[d].b[1] \in Range(ongoingPieces')
  BY <1>2
<1>4. \A d \in Conn : pc'[d] \in {"hash", "seek", "write", "move"} => \A a \in BlocksOf(block'[d].b[1]) : status'[a] = "retrieved"
  <2> SUFFICES ASSUME NEW d \in Conn, d # c, pc'[d] \in {"hash", "seek", "write", "move"}, NEW a \in BlocksOf(block[d].b[1])
               PROVE  status'[a] = "retrieved"
    OBVIOUS
  <2>1. a \in Block /\ a[1] # p
    BY <1>2 DEF BlocksOf, Working
  <2>2. status[a] = "retrieved"
    BY DEF Alone, PieceComplete
  <2>3. QED
    BY <2>1, <2>2
<1>5. \A d \in Conn : pc'[d] \in {"seek", "write", "move"} => \A a \in BlocksOf(block'[d].b[1]) : data'[a] = "good"
  <2> SUFFICES ASSUME NEW d \in Conn, d # c, pc'[d] \in {"seek", "write", "move"}, NEW a \in BlocksOf(block[d].b[1])
               PROVE  data'[a] = "good"
    OBVIOUS
  <2>1. a \in Block /\ a[1] # p
    BY <1>2 DEF BlocksOf, Working
  <2>2. data[a] = "good"
    BY DEF Alone, Quality
  <2>3. QED
    BY <2>1, <2>2
<1>6. QED
  BY <1>1, <1>3, <1>4, <1>5 DEF Alone, PieceComplete, Quality, BlocksOf

\* The block in the hands of a thread, and what the call leaves alone.
LEMMA InHands ==
  ASSUME PieceInv, NEW c \in Conn, BlockReceived(c), UNCHANGED <<block, connVars>>
  PROVE  /\ block[c] \in Handed /\ block[c].b \in Block /\ block[c].b[1] \in Piece
         /\ \A d \in Conn : d # c => pc'[d] = pc[d]
         /\ UNCHANGED <<missingPieces, peers, block, twice>>
         /\ ConnTypes' /\ Known'
<1> USE DEF PieceInv
<1>1. /\ pc[c] \in Working \cup {"take"} /\ UNCHANGED <<missingPieces, peers>>
      /\ UNCHANGED pc \/ \E there \in InTouch : pc' = [pc EXCEPT ![c] = there] /\ there # "take"
  BY DEF BlockReceived, TakeBlock, Store, Check, Hash, Seek, Write, Move, Reset, Asserted, Working, InTouch
<1>2. block[c] \in Handed /\ block[c].b \in Block /\ block[c].b[1] \in Piece
  BY <1>1 DEF ConnTypes, Handed, Block
<1>3. \A d \in Conn : d # c => pc'[d] = pc[d]
  BY <1>1 DEF ConnTypes
<1>4. ConnTypes'
  BY <1>1, <1>2 DEF ConnTypes, InTouch
<1>5. Known'
  <2>1. \A d \in Conn : pc'[d] \in InTouch => pc[d] \in InTouch /\ peer'[d] = peer[d]
    BY <1>1 DEF ConnTypes, InTouch
  <2>2. QED
    BY <1>1, <2>1, KnownKept
<1>6. QED
  BY <1>1, <1>2, <1>3, <1>4, <1>5

\* The block leaves the pending requests, and its piece is looked up.
LEMMA TakeInv ==
  ASSUME PieceInv, broken = "no", NEW c \in Conn, TakeBlock(c), UNCHANGED <<block, connVars>>
  PROVE  PieceInv'
<1> USE DEF PieceInv
<1>1. PICK b \in Block : b = block[c].b /\ b[1] \in Piece
  BY InHands DEF BlockReceived
<1>2. /\ (\A d \in Conn : d # c => pc'[d] = pc[d]) /\ UNCHANGED <<missingPieces, peers, block, twice>> /\ ConnTypes' /\ Known'
  BY InHands DEF BlockReceived
<1>3. /\ pc[c] = "take" /\ pendingRequests' = RemoveFirst(pendingRequests, b)
      /\ UNCHANGED <<ongoingPieces, havePieces, status, data, stream, broken>>
  BY <1>1 DEF TakeBlock
<1>4. /\ b[1] \in Range(ongoingPieces) => pc'[c] = "store" /\ raced' = (raced \/ Others(c, b[1]) # {})
      /\ b[1] \notin Range(ongoingPieces) => pc'[c] = "thrown" /\ UNCHANGED raced
  BY <1>1 DEF TakeBlock, ConnTypes
<1>5. raced' \in BOOLEAN /\ (raced => raced')
  <2>1. raced \in BOOLEAN
    BY DEF ManagerTypes
  <2>2. CASE b[1] \in Range(ongoingPieces)
    BY <1>4, <2>1, <2>2, Zenon
  <2>3. CASE b[1] \notin Range(ongoingPieces)
    BY <1>4, <2>1, <2>3
  <2>4. QED
    BY <2>2, <2>3, Zenon
<1>6. /\ pendingRequests' \in Seq(Block) /\ Range(pendingRequests) \ {b} \subseteq Range(pendingRequests')
  BY <1>3, Removed DEF ManagerTypes
<1>7. ManagerTypes' /\ AbortsExplained'
  BY <1>2, <1>3, <1>5, <1>6 DEF ManagerTypes, AbortsExplained
<1>8. Partition' /\ Good' /\ OnDisk'
  <2>1. \A d \in Conn : pc'[d] \in {"write", "move"} => pc'[d] = pc[d] /\ block'[d] = block[d]
    BY <1>2, <1>4
  <2>2. QED
    BY <1>2, <1>3, <1>5, <2>1, OnDiskKept DEF Partition, Good
<1>9. Started'
  BY <1>1, <1>2, <1>3, <1>4 DEF Started, Partition, Working
<1>10. Alone'
  <2> SUFFICES ASSUME ~raced' PROVE Alone'
    BY DEF Alone
  <2>1. ~raced
    BY <1>5
  <2>2. CASE b[1] \in Range(ongoingPieces)
    <3>1. Others(c, b[1]) = {}
      BY <1>4, <2>2, Zenon
    <3>2. \A d \in Conn : d # c => pc'[d] = pc[d] /\ (pc[d] \in Working => block[d].b[1] # b[1])
      BY <1>2, <3>1 DEF Others
    <3>3. QED
      BY <1>1, <1>2, <1>3, <1>4, <2>1, <2>2, <3>2, AloneKept
  <2>3. CASE b[1] \notin Range(ongoingPieces)
    <3>1. \A d \in Conn : d # c => pc'[d] = pc[d] /\ (pc[d] \in Working => block[d].b[1] # b[1])
      BY <1>2, <2>1, <2>3 DEF Alone
    <3>2. pc'[c] \notin Working
      BY <1>4, <2>3 DEF Working
    <3>3. pc'[c] \notin {"hash", "seek", "write", "move"} /\ pc'[c] \notin {"seek", "write", "move"}
      BY <1>4, <2>3
    <3>4. QED
      BY <1>1, <1>2, <1>3, <2>1, <3>1, <3>2, <3>3, AloneKept
  <2>4. QED
    BY <2>2, <2>3
<1>11. Requested'
  <2>1. \A a \in Block : a # b /\ a \in Range(pendingRequests) => a \in Range(pendingRequests')
    BY <1>6
  <2>2. \A d \in Conn : pc[d] = "store" => pc'[d] = "store"
    BY <1>2, <1>3
  <2>3. QED
    BY <1>1, <1>2, <1>3, <1>4, <2>1, <2>2 DEF Requested
<1>12. QED
  BY <1>2, <1>7, <1>8, <1>9, <1>10, <1>11

\* The data is stored; the piece is found complete or not.
LEMMA StoreInv ==
  ASSUME PieceInv, broken = "no", NEW c \in Conn, Store(c) \/ Check(c), UNCHANGED <<block, connVars>>
  PROVE  PieceInv'
<1> USE DEF PieceInv
<1>1. PICK b \in Block : b = block[c].b /\ b[1] \in Piece
  BY InHands DEF BlockReceived
<1>2. PICK p \in Piece : p = b[1]
  BY <1>1
<1>3. /\ (\A d \in Conn : d # c => pc'[d] = pc[d]) /\ UNCHANGED <<missingPieces, peers, block, twice>> /\ ConnTypes' /\ Known'
      /\ UNCHANGED <<lists, stream, broken, raced>> /\ pc[c] \in Working
      /\ pc'[c] \in {"check", "hash", "ask"} /\ block[c] \in Handed
  BY InHands DEF BlockReceived, Store, Check, ConnTypes, Working
<1>4. p \notin missingPieces /\ (~raced => p \in Range(ongoingPieces))
  BY <1>1, <1>2, <1>3 DEF Started, Alone
<1>5. ~raced => \A d \in Conn : d # c => pc'[d] = pc[d] /\ (pc[d] \in Working => block[d].b[1] # p)
  BY <1>1, <1>2, <1>3 DEF Alone
<1>6. Partition' /\ Good' /\ OnDisk' /\ AbortsExplained'
  <2>1. \A d \in Conn : pc'[d] \in {"write", "move"} => pc'[d] = pc[d] /\ block'[d] = block[d]
    BY <1>3
  <2>2. QED
    BY <1>3, <2>1, OnDiskKept DEF Partition, Good, AbortsExplained
<1>7. CASE Store(c)
  <2>1. /\ pc[c] = "store" /\ pc'[c] = "check"
        /\ status' = [status EXCEPT ![b] = "retrieved"] /\ data' = [data EXCEPT ![b] = block[c].q]
    BY <1>1, <1>7 DEF Store, ConnTypes
  <2>2. (\A a \in Block : a # b => status'[a] = status[a] /\ data'[a] = data[a]) /\ status'[b] = "retrieved"
    BY <2>1 DEF ManagerTypes
  <2>3. ManagerTypes'
    BY <1>3, <2>1 DEF ManagerTypes, Handed
  <2>4. Started'
    BY <1>1, <1>2, <1>3, <1>4, <2>1, <2>2 DEF Started, Working
  <2>5. Alone'
    <3> SUFFICES ASSUME ~raced PROVE Alone'
      BY <1>3 DEF Alone
    <3>1. \A a \in Block : a[1] # p => status'[a] = status[a] /\ data'[a] = data[a]
      BY <1>2, <2>2
    <3>2. QED
      BY <1>1, <1>2, <1>3, <1>4, <1>5, <2>1, <3>1, AloneKept
  <2>6. Requested'
    <3>1. \A d \in Conn : pc[d] = "store" => d = c \/ pc'[d] = "store"
      BY <1>3
    <3>2. QED
      BY <1>1, <1>3, <2>2, <3>1 DEF Requested
  <2>7. QED
    BY <1>3, <1>6, <2>3, <2>4, <2>5, <2>6
<1>8. CASE Check(c)
  <2>1. pc[c] = "check" /\ pc'[c] = (IF PieceComplete(p) THEN "hash" ELSE "ask") /\ UNCHANGED <<status, data>>
    BY <1>1, <1>2, <1>8 DEF Check, ConnTypes
  <2>2. ManagerTypes'
    BY <1>3, <2>1 DEF ManagerTypes
  <2>3. Started'
    BY <1>3, <2>1 DEF Started, Working
  <2>4. Alone'
    <3> SUFFICES ASSUME ~raced PROVE Alone'
      BY <1>3 DEF Alone
    <3>1. pc'[c] = "hash" => \A a \in BlocksOf(p) : status'[a] = "retrieved"
      BY <2>1 DEF PieceComplete
    <3>2. pc'[c] \in {"hash", "ask"}
      BY <2>1
    <3>3. QED
      BY <1>1, <1>2, <1>3, <1>4, <1>5, <2>1, <3>1, <3>2, AloneKept
  <2>5. Requested'
    <3>1. \A d \in Conn : pc[d] = "store" => pc'[d] = "store"
      BY <1>3, <2>1
    <3>2. QED
      BY <1>3, <2>1, <3>1 DEF Requested
  <2>6. QED
    BY <1>3, <1>6, <2>2, <2>3, <2>4, <2>5
<1>9. QED
  BY <1>7, <1>8

\* The hash is compared and the piece written, or an assertion fails; a piece
\* with a wrong hash is started again.
LEMMA CheckedInv ==
  ASSUME PieceInv, broken = "no", NEW c \in Conn, Hash(c) \/ Seek(c) \/ Write(c) \/ Reset(c),
         UNCHANGED <<block, connVars>>
  PROVE  PieceInv'
<1> USE DEF PieceInv
<1>1. PICK b \in Block : b = block[c].b /\ b[1] \in Piece
  BY InHands DEF BlockReceived
<1>2. PICK p \in Piece : p = b[1]
  BY <1>1
<1>3. /\ (\A d \in Conn : d # c => pc'[d] = pc[d]) /\ UNCHANGED <<missingPieces, peers, block, twice>> /\ ConnTypes' /\ Known'
      /\ UNCHANGED <<lists, data, raced>> /\ pc[c] \in {"hash", "seek", "write", "reset"}
  BY InHands DEF BlockReceived, Hash, Seek, Write, Reset
<1>4. p \notin missingPieces /\ (~raced => p \in Range(ongoingPieces))
  BY <1>1, <1>2, <1>3 DEF Started, Alone, Working
<1>5. ~raced => \A d \in Conn : d # c => pc'[d] = pc[d] /\ (pc[d] \in Working => block[d].b[1] # p)
  BY <1>1, <1>2, <1>3 DEF Alone, Working
<1>6. Partition' /\ Good'
  BY <1>3 DEF Partition, Good
<1>7. pc[c] # "store" /\ \A d \in Conn : pc[d] = "store" => pc'[d] = "store"
  BY <1>3
<1>8. /\ ~raced /\ pc[c] \in {"hash", "seek", "write"} => PieceComplete(p)
      /\ ~raced /\ pc[c] \in {"seek", "write"} => Quality(p) = "good"
  BY <1>1, <1>2 DEF Alone
<1>9. p \in Place /\ Pieces + 1 \in Place /\ p # Pieces + 1
  BY PieceAssumption DEF Piece, Place
<1>10. CASE Hash(c)
  <2>1. UNCHANGED <<status, stream>> /\ Asserted(c, IF Quality(p) = "good" THEN "seek" ELSE "reset") /\ pc[c] = "hash"
    BY <1>1, <1>2, <1>10 DEF Hash
  <2>2. /\ PieceComplete(p) => pc'[c] = (IF Quality(p) = "good" THEN "seek" ELSE "reset") /\ UNCHANGED broken
        /\ ~PieceComplete(p) => UNCHANGED pc /\ broken' = "assert"
    BY <1>1, <1>2, <2>1 DEF Asserted, ConnTypes
  <2>3. ManagerTypes' /\ AbortsExplained'
    BY <1>3, <1>8, <2>1, <2>2 DEF ManagerTypes, AbortsExplained
  <2>4. Started'
    BY <1>1, <1>2, <1>3, <1>4, <2>1 DEF Started
  <2>5. Alone'
    <3> SUFFICES ASSUME ~raced PROVE Alone'
      BY <1>3 DEF Alone
    <3>1. pc'[c] \in {"seek", "reset"} /\ (pc'[c] = "seek" => Quality(p) = "good") /\ PieceComplete(p)
      BY <1>8, <2>1, <2>2
    <3>2. \A a \in BlocksOf(p) : status'[a] = "retrieved" /\ (pc'[c] = "seek" => data'[a] = "good")
      BY <1>3, <2>1, <3>1 DEF PieceComplete, Quality
    <3>3. QED
      BY <1>1, <1>2, <1>3, <1>4, <1>5, <2>1, <3>1, <3>2, AloneKept
  <2>6. OnDisk'
    <3>1. \A d \in Conn : pc'[d] \in {"write", "move"} => pc'[d] = pc[d] /\ block'[d] = block[d]
      BY <1>3, <2>1, <2>2
    <3>2. QED
      BY <1>3, <2>1, <3>1, OnDiskKept
  <2>7. Requested'
    BY <1>3, <1>7, <2>1 DEF Requested
  <2>8. QED
    BY <1>3, <1>6, <2>3, <2>4, <2>5, <2>6, <2>7
<1>11. CASE Seek(c)
  <2>1. /\ UNCHANGED <<status, file, broken>> /\ pc[c] = "seek" /\ pc'[c] = "write" /\ position' = p
        /\ mixed' = (mixed \/ \E d \in Conn \ {c} : pc[d] = "write")
    BY <1>1, <1>2, <1>11 DEF Seek, ConnTypes
  <2>2. mixed' \in BOOLEAN /\ (~mixed' => ~mixed /\ \A d \in Conn : d # c => pc[d] # "write")
    BY <2>1
  <2>3. ManagerTypes' /\ AbortsExplained'
    BY <1>3, <1>9, <2>1, <2>2 DEF ManagerTypes, AbortsExplained
  <2>4. Started'
    BY <1>1, <1>2, <1>3, <1>4, <2>1 DEF Started
  <2>5. Alone'
    <3> SUFFICES ASSUME ~raced PROVE Alone'
      BY <1>3 DEF Alone
    <3>1. \A a \in BlocksOf(p) : status'[a] = "retrieved" /\ data'[a] = "good"
      BY <1>3, <1>8, <2>1 DEF PieceComplete, Quality
    <3>2. QED
      BY <1>1, <1>2, <1>3, <1>4, <1>5, <2>1, <3>1, AloneKept
  <2>6. OnDisk'
    <3> SUFFICES ASSUME ~raced, ~mixed' PROVE OnDisk'
      BY <1>3 DEF OnDisk
    <3>1. ~mixed /\ \A d \in Conn : pc'[d] \in {"write", "move"} => d = c \/ (d # c /\ pc'[d] = "move" /\ pc[d] = "move")
      BY <1>3, <2>2
    <3>2. QED
      BY <1>1, <1>2, <1>3, <2>1, <3>1 DEF OnDisk
  <2>7. Requested'
    BY <1>3, <1>7, <2>1 DEF Requested
  <2>8. QED
    BY <1>3, <1>6, <2>3, <2>4, <2>5, <2>6, <2>7
<1>12. CASE Write(c)
  <2>1. UNCHANGED <<status, mixed>> /\ Asserted(c, "move") /\ pc[c] = "write"
    BY <1>12 DEF Write
  <2>2. /\ PieceComplete(p) => pc'[c] = "move" /\ UNCHANGED broken
        /\ ~PieceComplete(p) => UNCHANGED pc /\ broken' = "assert"
    BY <1>1, <1>2, <2>1 DEF Asserted, ConnTypes
  <2>3. PICK q \in {"good", "bad"} :
           /\ position = p => q = Quality(p)
           /\ \/ UNCHANGED <<file, position>> /\ ~PieceComplete(p)
              \/ file' = [file EXCEPT ![position] = q] /\ position' = Min({position + 1, Pieces + 1})
    <3>1. Quality(p) \in {"good", "bad"}
      BY DEF Quality
    <3>2. QED
      BY <1>1, <1>2, <1>12, <3>1 DEF Write
  <2>4. Min({position + 1, Pieces + 1}) \in Place
    <3>1. position + 1 \in 1..(Pieces + 2) /\ Pieces \in Nat /\ {position + 1, Pieces + 1} \in SUBSET Nat
      BY PieceAssumption DEF ManagerTypes, Place
    <3>2. PICK m : m = Min({position + 1, Pieces + 1})
      OBVIOUS
    <3>3. m \in {position + 1, Pieces + 1} /\ m =< Pieces + 1
      BY <3>1, <3>2, MinOfNats
    <3>4. QED
      BY <3>1, <3>2, <3>3 DEF Place
  <2>5. ManagerTypes' /\ AbortsExplained'
    <3>1. file' \in [Place -> {None, "good", "bad"}] /\ position' \in Place
      BY <2>3, <2>4 DEF ManagerTypes
    <3>2. QED
      BY <1>3, <1>8, <2>1, <2>2, <3>1 DEF ManagerTypes, AbortsExplained
  <2>6. Started'
    BY <1>1, <1>2, <1>3, <1>4, <2>1 DEF Started
  <2>7. Alone'
    <3> SUFFICES ASSUME ~raced PROVE Alone'
      BY <1>3 DEF Alone
    <3>1. PieceComplete(p) /\ Quality(p) = "good" /\ pc'[c] = "move"
      BY <1>8, <2>1, <2>2
    <3>2. \A a \in BlocksOf(p) : status'[a] = "retrieved" /\ data'[a] = "good"
      BY <1>3, <2>1, <3>1 DEF PieceComplete, Quality
    <3>3. QED
      BY <1>1, <1>2, <1>3, <1>4, <1>5, <2>1, <3>1, <3>2, AloneKept
  <2>8. OnDisk'
    <3> SUFFICES ASSUME ~raced, ~mixed PROVE OnDisk'
      BY <1>3, <2>1 DEF OnDisk
    <3>1. PieceComplete(p) /\ Quality(p) = "good" /\ position = p
      BY <1>1, <1>2, <1>8, <2>1 DEF OnDisk
    <3>2. file' = [file EXCEPT ![p] = "good"] /\ pc'[c] = "move"
      BY <2>2, <2>3, <3>1
    <3>3. file'[p] = "good" /\ \A o \in Place : o # p => file'[o] = file[o]
      BY <1>9, <3>2 DEF ManagerTypes
    <3>4. \A d \in Conn : d # c => pc'[d] # "write" /\ (pc'[d] = "move" => pc[d] = "move" /\ block[d].b[1] \in Piece)
      BY <1>3, <2>1 DEF OnDisk, ConnTypes, Handed, Block, Working
    <3>5. Piece \subseteq Place /\ Range(havePieces) \subseteq Piece
      BY PieceAssumption DEF Piece, Place, Partition
    <3>6. \A o \in Piece : file[o] = "good" => file'[o] = "good"
      BY <3>3, <3>5
    <3>7. QED
      BY <1>1, <1>2, <1>3, <1>9, <3>2, <3>3, <3>4, <3>5, <3>6 DEF OnDisk
  <2>9. Requested'
    BY <1>3, <1>7, <2>1 DEF Requested
  <2>10. QED
    BY <1>3, <1>6, <2>5, <2>6, <2>7, <2>8, <2>9
<1>13. CASE Reset(c)
  <2>1. /\ pc'[c] = "ask" /\ UNCHANGED <<stream, broken>>
        /\ status' = [a \in Block |-> IF a[1] = p THEN "missing" ELSE status[a]]
    BY <1>1, <1>2, <1>13 DEF Reset, ConnTypes
  <2>2. ManagerTypes' /\ AbortsExplained'
    BY <1>3, <2>1 DEF ManagerTypes, AbortsExplained
  <2>3. \A a \in Block : status'[a] = IF a[1] = p THEN "missing" ELSE status[a]
    BY <2>1
  <2>4. Started'
    BY <1>3, <2>1, <2>3 DEF Started, Working
  <2>5. Alone'
    <3> SUFFICES ASSUME ~raced PROVE Alone'
      BY <1>3 DEF Alone
    <3>1. pc'[c] \notin Working /\ pc'[c] \notin {"hash", "seek", "write", "move"} /\ pc'[c] \notin {"seek", "write", "move"}
      BY <2>1 DEF Working
    <3>2. QED
      BY <1>1, <1>2, <1>3, <1>5, <2>1, <2>3, <3>1, AloneKept
  <2>6. OnDisk'
    <3>1. \A d \in Conn : pc'[d] \in {"write", "move"} => pc'[d] = pc[d] /\ block'[d] = block[d]
      BY <1>3, <2>1
    <3>2. QED
      BY <1>3, <2>1, <3>1, OnDiskKept
  <2>7. Requested'
    BY <1>3, <1>7, <2>3 DEF Requested
  <2>8. QED
    BY <1>3, <1>6, <2>2, <2>4, <2>5, <2>6, <2>7
<1>14. QED
  BY <1>10, <1>11, <1>12, <1>13

\* The piece goes from ongoingPieces to havePieces.
LEMMA MoveInv ==
  ASSUME PieceInv, broken = "no", NEW c \in Conn, Move(c), UNCHANGED <<block, connVars>>
  PROVE  PieceInv'
<1> USE DEF PieceInv
<1>1. PICK b \in Block : b = block[c].b /\ b[1] \in Piece
  BY InHands DEF BlockReceived
<1>2. PICK p \in Piece : p = b[1]
  BY <1>1
<1>3. (\A d \in Conn : d # c => pc'[d] = pc[d]) /\ UNCHANGED <<missingPieces, peers, block, twice>> /\ ConnTypes' /\ Known'
  BY InHands DEF BlockReceived
<1>4. /\ pc[c] = "move" /\ pc'[c] = "ask" /\ UNCHANGED <<pendingRequests, status, data, stream, broken, raced>>
      /\ ongoingPieces' = RemoveFirst(ongoingPieces, p) /\ havePieces' = Append(havePieces, p)
  BY <1>1, <1>2 DEF Move, ConnTypes
<1>5. p \notin missingPieces /\ (~raced => p \in Range(ongoingPieces)) /\ (~raced /\ ~mixed => file[p] = "good")
  BY <1>1, <1>2, <1>4 DEF Started, Alone, OnDisk, Working
<1>6. /\ ongoingPieces' \in Seq(Piece) /\ Range(ongoingPieces') = Range(ongoingPieces) \ {p} /\ IsInjective(ongoingPieces')
  BY <1>4, Removed DEF ManagerTypes, Partition
<1>7. /\ havePieces' \in Seq(Piece) /\ Range(havePieces') = Range(havePieces) \cup {p}
      /\ IsInjective(havePieces) /\ p \notin Range(havePieces) => IsInjective(havePieces')
  BY <1>4, Appended DEF ManagerTypes
<1>8. ManagerTypes' /\ AbortsExplained'
  BY <1>3, <1>4, <1>6, <1>7 DEF ManagerTypes, AbortsExplained
<1>9. Partition'
  BY <1>3, <1>5, <1>6, <1>7 DEF Partition
<1>10. Good' /\ OnDisk'
  <2>1. Good'
    BY <1>4, <1>5, <1>7 DEF Good, Partition
  <2>2. \A d \in Conn : pc'[d] \in {"write", "move"} => d # c /\ pc[d] = pc'[d]
    BY <1>3, <1>4
  <2>3. OnDisk'
    BY <1>3, <1>4, <1>5, <1>7, <2>2 DEF OnDisk
  <2>4. QED
    BY <2>1, <2>3
<1>11. Started'
  BY <1>3, <1>4 DEF Started, Working
<1>12. Alone'
  <2> SUFFICES ASSUME ~raced PROVE Alone'
    BY <1>4 DEF Alone
  <2>1. \A d \in Conn : d # c => pc'[d] = pc[d] /\ (pc[d] \in Working => block[d].b[1] # p)
    BY <1>1, <1>2, <1>3, <1>4 DEF Alone, Working
  <2>2. pc'[c] \notin Working /\ pc'[c] \notin {"hash", "seek", "write", "move"} /\ pc'[c] \notin {"seek", "write", "move"}
    BY <1>4 DEF Working
  <2>3. \A o \in Piece : o # p /\ o \in Range(ongoingPieces) => o \in Range(ongoingPieces')
    BY <1>6
  <2>4. QED
    BY <1>1, <1>2, <1>3, <1>4, <2>1, <2>2, <2>3, AloneKept
<1>13. Requested'
  <2>1. \A d \in Conn : pc[d] = "store" => pc'[d] = "store"
    BY <1>3, <1>4
  <2>2. \A o : o \in Range(ongoingPieces') => o \in Range(ongoingPieces)
    BY <1>6
  <2>3. QED
    BY <1>3, <1>4, <2>1, <2>2 DEF Requested
<1>14. QED
  BY <1>3, <1>8, <1>9, <1>10, <1>11, <1>12, <1>13

-----------------------------------------------------------------------------
(* The theorems                                                            *)

\* A step that changes nothing keeps the invariant.
LEMMA StutterInv == ASSUME PieceInv, UNCHANGED pieceVars PROVE PieceInv'
<1>1. UNCHANGED <<missingPieces, ongoingPieces, havePieces, pendingRequests, status, data, stream, peers, broken, raced,
                  pc, block, queue, peer, wire, twice>>
  BY DEF pieceVars
<1>2. ManagerTypes' /\ ConnTypes'
  BY <1>1 DEF PieceInv, ManagerTypes, ConnTypes
<1>3. Partition' /\ Started' /\ Good' /\ OnDisk' /\ AbortsExplained'
  BY <1>1 DEF PieceInv, Partition, Started, Good, OnDisk, AbortsExplained
<1>4. Alone'
  BY <1>1 DEF PieceInv, Alone, PieceComplete, Quality
<1>5. Known' /\ Requested'
  BY <1>1 DEF PieceInv, Known, Requested
<1>6. QED
  BY <1>2, <1>3, <1>4, <1>5 DEF PieceInv

\* In every state the invariant holds: what each thread knows of the piece it
\* works on while it holds no lock.
THEOREM PieceInvariance == PieceSpec => []PieceInv
<1>1. PieceInv /\ [PieceNext]_pieceVars => PieceInv'
  <2> SUFFICES ASSUME PieceInv, [PieceNext]_pieceVars PROVE PieceInv'
    OBVIOUS
  <2>1. CASE UNCHANGED pieceVars
    BY <2>1, StutterInv
  <2>2. CASE PushPeer
    BY <2>2, PushInv
  <2>3. ASSUME NEW c \in Conn, broken = "no", Connection(c) PROVE PieceInv'
    <3>1. CASE Loop(c) \/ PopPeer(c) \/ EstablishFails(c) \/ LeaveLoop(c) \/ Choke(c) \/ Unchoke(c) \/ PieceArrives(c) \/ NoRequest(c)
      BY <3>1, ThreadInv
    <3>2. CASE Establish(c) \/ Have(c) \/ Close(c)
      BY <2>3, <3>2, PeersInv
    <3>3. CASE RequestPiece(c)
      BY <2>3, <3>3, RequestInv
    <3>4. CASE BlockReceived(c) /\ UNCHANGED <<block, connVars>>
      <4>1. CASE TakeBlock(c)
        BY <2>3, <3>4, <4>1, TakeInv
      <4>2. CASE Store(c) \/ Check(c)
        BY <2>3, <3>4, <4>2, StoreInv
      <4>3. CASE Hash(c) \/ Seek(c) \/ Write(c) \/ Reset(c)
        BY <2>3, <3>4, <4>3, CheckedInv
      <4>4. CASE Move(c)
        BY <2>3, <3>4, <4>4, MoveInv
      <4>5. QED
        BY <3>4, <4>1, <4>2, <4>3, <4>4 DEF BlockReceived
    <3>5. QED
      BY <2>3, <3>1, <3>2, <3>3, <3>4 DEF Connection
  <2>4. QED
    BY <2>1, <2>2, <2>3 DEF PieceNext
<1>2. QED
  BY InitInv, <1>1, PTL DEF PieceSpec

\* The variables of the piece manager and of its threads have their types.
THEOREM PieceTypes == PieceSpec => []PieceTypeOK
<1>1. PieceInv => PieceTypeOK
  <2> SUFFICES ASSUME PieceInv PROVE PieceTypeOK
    OBVIOUS
  <2>1. ManagerTypes /\ ConnTypes
    BY DEF PieceInv
  <2>2. Range(ongoingPieces) \subseteq Piece /\ Range(havePieces) \subseteq Piece /\ Range(pendingRequests) \subseteq Block
    BY <2>1 DEF ManagerTypes, Range
  <2>3. pc \in [Conn -> {"loop", "done", "pop", "establish", "run", "take", "thrown", "ask"} \cup Working]
    BY <2>1 DEF ConnTypes, InTouch
  <2>4. \A c \in Conn : pc[c] \in Working \cup {"take"} => block[c].b \in Block
    BY <2>1 DEF ConnTypes, Handed
  <2>5. QED
    BY <2>1, <2>2, <2>3, <2>4 DEF ManagerTypes, PieceTypeOK
<1>2. QED
  BY PieceInvariance, <1>1, PTL

\* No interleaving of the threads in nextRequest and blockReceived loses a
\* piece, has it in two of the three lists, or has it in progress twice.
THEOREM PiecesPartitioned == PieceSpec => []PiecePartition
<1>1. PieceInv => PiecePartition
  BY LengthOfInjective DEF PieceInv, ManagerTypes, Partition, PiecePartition
<1>2. QED
  BY PieceInvariance, <1>1, PTL

\* As long as no two threads were inside blockReceived with blocks of one piece
\* at a time, and none moved the put position of downloadedFile between the
\* seekp and the << of another, each piece in havePieces is counted once and is
\* in its place on disk with the right hash, with nothing behind the last: a
\* download isComplete() calls complete is the file.
THEOREM DownloadedFile == PieceSpec => []FileIsGood
<1>1. PieceInv => FileIsGood
  BY LengthOfInjective DEF PieceInv, ManagerTypes, Good, OnDisk, FileIsGood
<1>2. QED
  BY PieceInvariance, <1>1, PTL

\* The assertion of Piece::getData fails only after such a race, and
\* removePeer throws for an unknown peer only after a peer was added twice.
THEOREM AbortsAccounted == PieceSpec => []AbortsExplained
<1>1. PieceInv => AbortsExplained
  BY DEF PieceInv
<1>2. QED
  BY PieceInvariance, <1>1, PTL

\* A requested block of a piece in progress, other than its first, that no
\* thread is handing over has its pending request, so it can be asked again.
THEOREM BlocksRequested == PieceSpec => []NoLostBlock
<1>1. PieceInv => NoLostBlock
  BY DEF PieceInv, Requested, NoLostBlock, Working
<1>2. QED
  BY PieceInvariance, <1>1, PTL
=============================================================================
