--------------------------- MODULE StcpData_proofs ---------------------------
(***************************************************************************)
(* Proofs about StcpData: the inductive invariant, the safety properties   *)
(* that follow from it, and the refinement of StcpStream.                  *)
(***************************************************************************)
EXTENDS StcpDataInv, SequenceTheorems, TLAPS

USE SenderAssumption, ReceiverAssumption

\* The initial state satisfies the invariant: the buffers are empty, nothing
\* is in flight and every thread is at its start.
LEMMA InitInv == Init => IInv
<1> SUFFICES ASSUME Init PROVE IInv
  OBVIOUS
<1> USE DEF Init, SenderInit, ReceiverInit, NetInit
<1>1. TypeOK
  BY DEF TypeOK, SenderTypeOK, NetTypeOK, ReceiverTypeOK, Segs, Node, sendBufTail, NULL, Slots
<1>2. BufferInv /\ SenderControl /\ ReceiverControl /\ FlightInv
  BY DEF BufferInv, SenderControl, ReceiverControl, FlightInv, Node, sendBufTail, NULL
<1>3. AcceptedInv /\ FreedInv /\ RoomInv /\ TimerCovers
  BY DEF AcceptedInv, AcceptedIsPrefix, FreedInv, RoomInv, TimerCovers, Freed, sendBufTail, NULL
<1>4. QED
  BY <1>1, <1>2, <1>3 DEF IInv

USE DEF senderVars, receiverVars, netVars, bufVars, appVars, hdlVars, timerVars, srvVars, rcvVars

-----------------------------------------------------------------------------
(* Steps of the client process                                             *)

\* A step of the client process leaves what the invariant says of the server
\* alone.
LEMMA ServerSide ==
  ASSUME IInv, UNCHANGED receiverVars
  PROVE  ReceiverTypeOK' /\ ReceiverControl' /\ RoomInv'
<1> USE DEF IInv
<1>1. ReceiverTypeOK'
  BY DEF TypeOK, ReceiverTypeOK, Slots
<1>2. ReceiverControl' /\ RoomInv'
  BY DEF ReceiverControl, RoomInv
<1>3. QED
  BY <1>1, <1>2

\* Most steps of the client threads change neither the buffer list nor what
\* is in flight; only types, control state and the timers are at stake.
LEMMA QuietStep ==
  ASSUME IInv, UNCHANGED receiverVars,
         UNCHANGED <<sendSegs, next_seqNum, toQueue, sendBufHead, hdlAck, netVars>>,
         SenderTypeOK', SenderControl', TimerCovers'
  PROVE  IInv'
<1>1. ReceiverTypeOK' /\ ReceiverControl' /\ RoomInv'
  BY ServerSide
<1>2. NetTypeOK' /\ BufferInv'
  BY DEF IInv, TypeOK, NetTypeOK, BufferInv, Node, sendBufTail
<1>3. FlightInv'
  BY DEF IInv, FlightInv, Node, sendBufTail
<1>4. AcceptedInv' /\ FreedInv'
  BY DEF IInv, AcceptedInv, AcceptedIsPrefix, FreedInv, Freed, sendBufTail
<1>5. QED
  BY <1>1, <1>2, <1>3, <1>4 DEF IInv, TypeOK

\* An append keeps the invariant: the new node is the next segment of the
\* stream, and an empty buffer gets a timer thread.
LEMMA EnqueueInv == ASSUME IInv, Enqueue, UNCHANGED receiverVars PROVE IInv'
<1> DEFINE node == Len(sendSegs) + 1
           new == [seq |-> next_seqNum, data |-> AppStream[node]]
<1> USE DEF IInv, sendBufTail, Node, NULL
<1>1. node \in 1..Len(AppStream) /\ new \in Segs
  BY DEF Enqueue, Segs, TypeOK, SenderTypeOK, BufferInv, SenderControl
<1>2. /\ sendSegs' \in Seq(Segs)
      /\ Len(sendSegs') = node
      /\ \A i \in 1..Len(sendSegs) : sendSegs'[i] = sendSegs[i]
      /\ sendSegs'[node] = new
  BY <1>1 DEF Enqueue, TypeOK, SenderTypeOK
<1> HIDE DEF new
<1>3. SenderTypeOK'
  BY <1>2 DEF Enqueue, TypeOK, SenderTypeOK, SenderControl
<1>4. BufferInv'
  BY <1>2 DEF Enqueue, TypeOK, SenderTypeOK, SenderControl, BufferInv, new
<1>5. SenderControl' /\ TimerCovers'
  BY <1>2 DEF Enqueue, TypeOK, SenderTypeOK, SenderControl, TimerCovers, TimerAlive
<1>6. NetTypeOK' /\ FlightInv'
  BY <1>2 DEF Enqueue, TypeOK, NetTypeOK, SenderTypeOK, FlightInv
<1>7. AcceptedInv' /\ FreedInv'
  BY <1>2 DEF Enqueue, TypeOK, SenderTypeOK, ReceiverTypeOK, AcceptedInv, AcceptedIsPrefix,
              FreedInv, Freed
<1>8. ReceiverTypeOK' /\ ReceiverControl' /\ RoomInv'
  BY ServerSide
<1>9. QED
  BY <1>3, <1>4, <1>5, <1>6, <1>7, <1>8 DEF TypeOK

\* Handing a segment of the buffer to the network keeps what is in flight a
\* part of the buffer, whether the application or a timer thread does it.
LEMMA SendKeepsFlight ==
  ASSUME IInv, NEW i \in Node, c2s' \in {c2s, Sent(c2s, sendSegs[i])},
         UNCHANGED <<sendSegs, srvPc, srvSeg, s2c, expect_seqNum, hdlAck>>
  PROVE  NetTypeOK' /\ FlightInv'
<1>1. sendSegs[i] \in Segs
  BY DEF IInv, TypeOK, SenderTypeOK, Node, sendBufTail
<1>2. NetTypeOK'
  BY <1>1 DEF IInv, TypeOK, NetTypeOK, Sent
<1>3. FlightInv'
  BY DEF IInv, FlightInv, Node, sendBufTail, Sent
<1>4. QED
  BY <1>2, <1>3

\* Freeing an acknowledged head frees a segment the server has counted.
LEMMA FreeHeadInv == ASSUME IInv, FreeHead, UNCHANGED receiverVars PROVE IInv'
<1> USE DEF IInv, sendBufTail, Node, NULL
<1>1. /\ sendBufHead \in 1..Len(sendSegs)
      /\ sendSegs[sendBufHead].seq < hdlAck
      /\ Len(sendSegs) \in Nat
  BY DEF FreeHead, HeadAcked, TypeOK, SenderTypeOK
<1>2. sendBufHead - 1 < expect_seqNum
  <2>1. sendSegs[sendBufHead].seq = sendBufHead - 1
    <3>1. sendSegs[sendBufHead] = [seq |-> sendBufHead - 1, data |-> AppStream[sendBufHead]]
      BY <1>1 DEF BufferInv
    <3>2. QED
      BY <3>1
  <2>2. hdlAck <= expect_seqNum
    BY DEF FlightInv
  <2>3. QED
    BY <1>1, <2>1, <2>2 DEF TypeOK, SenderTypeOK, ReceiverTypeOK
<1>3. sendBufHead' = IF sendBufHead < Len(sendSegs) THEN sendBufHead + 1 ELSE 0
  BY DEF FreeHead, NextNode
<1>4. UNCHANGED <<sendSegs, expect_seqNum, next_seqNum, toQueue, accepted, srvPc, srvSeg, netVars, hdlAck>>
  BY DEF FreeHead
<1>5. FreedInv'
  BY <1>1, <1>2, <1>3, <1>4 DEF FreedInv, Freed, TypeOK, ReceiverTypeOK
<1>6. SenderTypeOK'
  BY <1>1, <1>3 DEF FreeHead, TypeOK, SenderTypeOK
<1>7. SenderControl' /\ TimerCovers'
  BY <1>1 DEF FreeHead, SenderControl, TimerCovers, TimerAlive
<1>8. NetTypeOK' /\ BufferInv'
  BY <1>4 DEF TypeOK, NetTypeOK, BufferInv
<1>9. FlightInv' /\ AcceptedInv'
  BY <1>4 DEF FlightInv, AcceptedInv, AcceptedIsPrefix
<1>10. ReceiverTypeOK' /\ ReceiverControl' /\ RoomInv'
  BY ServerSide
<1>11. QED
  BY <1>5, <1>6, <1>7, <1>8, <1>9, <1>10 DEF TypeOK
\* The buffer list, or a DATAACK taken out of the network or finished with:
\* what seghandler of the client holds and what is in flight change, the rest
\* of the buffer does not.
LEMMA AckStep ==
  ASSUME IInv, UNCHANGED receiverVars,
         UNCHANGED <<bufVars, toQueue, c2s>>,
         s2c' \subseteq s2c,
         hdlAck' \in s2c \cup {0, hdlAck},
         SenderTypeOK', SenderControl', TimerCovers'
  PROVE  IInv'
<1> USE DEF sendBufTail, Node
<1>1. ReceiverTypeOK' /\ ReceiverControl' /\ RoomInv'
  BY ServerSide
<1>2. NetTypeOK' /\ BufferInv'
  BY DEF IInv, TypeOK, NetTypeOK, BufferInv
<1>3. FlightInv'
  BY DEF IInv, TypeOK, ReceiverTypeOK, FlightInv
<1>4. AcceptedInv' /\ FreedInv'
  BY DEF IInv, AcceptedInv, AcceptedIsPrefix, FreedInv, Freed
<1>5. QED
  BY <1>1, <1>2, <1>3, <1>4 DEF IInv, TypeOK

\* A call of stcp_client_send leaves its segments within the stream.
LEMMA SendCallInv ==
  ASSUME IInv, NEW n \in 1..Len(AppStream), SendCall(n), UNCHANGED receiverVars
  PROVE  IInv'
<1> USE DEF sendBufTail, Node
<1>1. ReceiverTypeOK' /\ ReceiverControl' /\ RoomInv'
  BY ServerSide
<1>2. SenderTypeOK' /\ SenderControl' /\ TimerCovers'
  BY DEF SendCall, IInv, TypeOK, SenderTypeOK, SenderControl, TimerCovers, TimerAlive
<1>3. NetTypeOK' /\ BufferInv'
  BY DEF SendCall, IInv, TypeOK, NetTypeOK, BufferInv
<1>4. FlightInv'
  BY DEF SendCall, IInv, FlightInv
<1>5. AcceptedInv' /\ FreedInv'
  BY DEF SendCall, IInv, AcceptedInv, AcceptedIsPrefix, FreedInv, Freed
<1>6. QED
  BY <1>1, <1>2, <1>3, <1>4, <1>5 DEF IInv, TypeOK

\* Every step of a thread of the client process keeps the invariant.
LEMMA SenderInv == ASSUME IInv, SenderStep PROVE IInv'
<1> USE DEF sendBufTail, Node, NULL
<1>0. UNCHANGED receiverVars
  BY DEF SenderStep
<1>1. ASSUME NEW n \in 1..Len(AppStream), SendCall(n) PROVE IInv'
  BY <1>0, <1>1, SendCallInv
<1>2. CASE Enqueue
  BY <1>0, <1>2, EnqueueInv
<1>3. CASE FreeHead
  BY <1>0, <1>3, FreeHeadInv
<1>4. CASE SendFirstUnsent
  <2>1. sendBufunSent \in Node
    BY <1>4 DEF SendFirstUnsent, IInv, TypeOK, SenderTypeOK
  <2>2. NetTypeOK' /\ FlightInv'
    BY <1>0, <1>4, <2>1, SendKeepsFlight DEF SendFirstUnsent
  <2>3. SenderTypeOK' /\ SenderControl' /\ TimerCovers'
    BY <1>4 DEF SendFirstUnsent, IInv, TypeOK, SenderTypeOK, SenderControl, TimerCovers, TimerAlive
  <2>4. BufferInv' /\ AcceptedInv' /\ FreedInv'
    BY <1>0, <1>4 DEF SendFirstUnsent, IInv, BufferInv, AcceptedInv, AcceptedIsPrefix, FreedInv, Freed
  <2>5. QED
    BY <1>0, <2>2, <2>3, <2>4, ServerSide DEF IInv, TypeOK
<1>5. CASE TimerResend
  <2>1. walk \in Node
    BY <1>5 DEF TimerResend, IInv, TypeOK, SenderTypeOK
  <2>2. NetTypeOK' /\ FlightInv'
    BY <1>0, <1>5, <2>1, SendKeepsFlight DEF TimerResend
  <2>3. SenderTypeOK' /\ SenderControl' /\ TimerCovers'
    BY <1>5, <2>1 DEF TimerResend, NextNode, IInv, TypeOK, SenderTypeOK, SenderControl, TimerCovers, TimerAlive
  <2>4. BufferInv' /\ AcceptedInv' /\ FreedInv'
    BY <1>0, <1>5 DEF TimerResend, IInv, BufferInv, AcceptedInv, AcceptedIsPrefix, FreedInv, Freed
  <2>5. QED
    BY <1>0, <2>2, <2>3, <2>4, ServerSide DEF IInv, TypeOK
<1>6. ASSUME NEW a \in s2c, RecvAck(a) \/ LoseAck(a) PROVE IInv'
  <2>1. s2c' \subseteq s2c /\ hdlAck' \in s2c \cup {0, hdlAck}
    BY <1>6 DEF RecvAck, LoseAck, Received, Lost
  <2>2. a \in Nat
    BY <1>6 DEF IInv, TypeOK, NetTypeOK
  <2>3. SenderTypeOK' /\ SenderControl' /\ TimerCovers'
    BY <1>6, <2>2 DEF RecvAck, LoseAck, IInv, TypeOK, SenderTypeOK, SenderControl, TimerCovers, TimerAlive
  <2>4. QED
    BY <1>0, <1>6, <2>1, <2>3, AckStep DEF RecvAck, LoseAck
<1>7. CASE AckDone
  <2>1. SenderTypeOK' /\ SenderControl' /\ TimerCovers'
    BY <1>7 DEF AckDone, IInv, TypeOK, SenderTypeOK, SenderControl, TimerCovers, TimerAlive
  <2>2. QED
    BY <1>0, <1>7, <2>1, AckStep DEF AckDone
<1>8. CASE WindowOpen
  <2>1. SenderTypeOK' /\ SenderControl' /\ TimerCovers'
    BY <1>8 DEF WindowOpen, IInv, TypeOK, SenderTypeOK, SenderControl, TimerCovers, TimerAlive
  <2>2. QED
    BY <1>0, <1>8, <2>1, QuietStep DEF WindowOpen
<1>9. CASE SendReturn
  <2>1. SenderTypeOK' /\ SenderControl' /\ TimerCovers'
    BY <1>9 DEF SendReturn, IInv, TypeOK, SenderTypeOK, SenderControl, TimerCovers, TimerAlive
  <2>2. QED
    BY <1>0, <1>9, <2>1, QuietStep DEF SendReturn
<1>10. CASE SendFails
  <2>1. SenderTypeOK' /\ SenderControl' /\ TimerCovers'
    BY <1>10 DEF SendFails, IInv, TypeOK, SenderTypeOK, SenderControl, TimerCovers, TimerAlive
  <2>2. QED
    BY <1>0, <1>10, <2>1, QuietStep DEF SendFails
<1>11. CASE AdvanceUnsent
  <2>1. SenderTypeOK' /\ SenderControl' /\ TimerCovers'
    BY <1>11 DEF AdvanceUnsent, NextNode, IInv, TypeOK, SenderTypeOK, SenderControl, TimerCovers, TimerAlive
  <2>2. QED
    BY <1>0, <1>11, <2>1, QuietStep DEF AdvanceUnsent
<1>12. CASE LoadUnAck
  <2>1. SenderTypeOK' /\ SenderControl' /\ TimerCovers'
    BY <1>12 DEF LoadUnAck, IInv, TypeOK, SenderTypeOK, SenderControl, TimerCovers, TimerAlive
  <2>2. QED
    BY <1>0, <1>12, <2>1, QuietStep DEF LoadUnAck
<1>13. CASE StoreUnAck
  <2>1. SenderTypeOK' /\ SenderControl' /\ TimerCovers'
    BY <1>13 DEF StoreUnAck, IInv, TypeOK, SenderTypeOK, SenderControl, TimerCovers, TimerAlive
  <2>2. QED
    BY <1>0, <1>13, <2>1, QuietStep DEF StoreUnAck
<1>14. CASE LockForAck
  <2>1. SenderTypeOK' /\ SenderControl' /\ TimerCovers'
    BY <1>14 DEF LockForAck, IInv, TypeOK, SenderTypeOK, SenderControl, TimerCovers, TimerAlive
  <2>2. QED
    BY <1>0, <1>14, <2>1, QuietStep DEF LockForAck
<1>15. CASE StoreUnAckDown
  <2>1. SenderTypeOK' /\ SenderControl' /\ TimerCovers'
    BY <1>15 DEF StoreUnAckDown, IInv, TypeOK, SenderTypeOK, SenderControl, TimerCovers, TimerAlive
  <2>2. QED
    BY <1>0, <1>15, <2>1, QuietStep DEF StoreUnAckDown
<1>16. CASE HandlerEnds
  <2>1. SenderTypeOK' /\ SenderControl' /\ TimerCovers'
    BY <1>16 DEF HandlerEnds, IInv, TypeOK, SenderTypeOK, SenderControl, TimerCovers, TimerAlive
  <2>2. QED
    BY <1>0, <1>16, <2>1, QuietStep DEF HandlerEnds
<1>17. CASE TimerExit
  <2>1. SenderTypeOK' /\ SenderControl' /\ TimerCovers'
    BY <1>17 DEF TimerExit, IInv, TypeOK, SenderTypeOK, SenderControl, TimerCovers, TimerAlive
  <2>2. QED
    BY <1>0, <1>17, <2>1, QuietStep DEF TimerExit
<1>18. CASE TimerPoll
  <2>1. SenderTypeOK' /\ SenderControl' /\ TimerCovers'
    BY <1>18 DEF TimerPoll, IInv, TypeOK, SenderTypeOK, SenderControl, TimerCovers, TimerAlive
  <2>2. QED
    BY <1>0, <1>18, <2>1, QuietStep DEF TimerPoll
<1>19. CASE TimerYoung
  <2>1. SenderTypeOK' /\ SenderControl' /\ TimerCovers'
    BY <1>19 DEF TimerYoung, IInv, TypeOK, SenderTypeOK, SenderControl, TimerCovers, TimerAlive
  <2>2. QED
    BY <1>0, <1>19, <2>1, QuietStep DEF TimerYoung
<1>20. CASE TimerExpire
  <2>1. SenderTypeOK' /\ SenderControl' /\ TimerCovers'
    BY <1>20 DEF TimerExpire, IInv, TypeOK, SenderTypeOK, SenderControl, TimerCovers, TimerAlive
  <2>2. QED
    BY <1>0, <1>20, <2>1, QuietStep DEF TimerExpire
<1>21. CASE TimerDone
  <2>1. SenderTypeOK' /\ SenderControl' /\ TimerCovers'
    BY <1>21 DEF TimerDone, IInv, TypeOK, SenderTypeOK, SenderControl, TimerCovers, TimerAlive
  <2>2. QED
    BY <1>0, <1>21, <2>1, QuietStep DEF TimerDone
<1>22. CASE TimerFails
  <2>1. SenderTypeOK' /\ SenderControl' /\ TimerCovers'
    BY <1>22 DEF TimerFails, IInv, TypeOK, SenderTypeOK, SenderControl, TimerCovers, TimerAlive
  <2>2. QED
    BY <1>0, <1>22, <2>1, QuietStep DEF TimerFails
<1>23. CASE SipCloses
  <2>1. SenderTypeOK' /\ SenderControl' /\ TimerCovers'
    BY <1>23 DEF SipCloses, IInv, TypeOK, SenderTypeOK, SenderControl, TimerCovers, TimerAlive
  <2>2. QED
    BY <1>0, <1>23, <2>1, QuietStep DEF SipCloses
<1>24. QED
  BY <1>1, <1>2, <1>3, <1>4, <1>5, <1>6, <1>7, <1>8, <1>9, <1>10, <1>11, <1>12, <1>13, <1>14, <1>15, <1>16, <1>17, <1>18, <1>19, <1>20, <1>21, <1>22, <1>23
     DEF SenderStep, SenderNext, AppStep, HandlerStep, TimerLook, TimerWalk

-----------------------------------------------------------------------------
(* Steps of the server process                                             *)

\* A step of the server process leaves what the invariant says of the client
\* alone; expect_seqNum never goes back.
LEMMA ClientSide ==
  ASSUME IInv, UNCHANGED senderVars, expect_seqNum' \in {expect_seqNum, expect_seqNum + 1}
  PROVE  SenderTypeOK' /\ BufferInv' /\ SenderControl' /\ FreedInv' /\ TimerCovers'
<1> USE DEF IInv, sendBufTail, Node
<1>1. SenderTypeOK'
  BY DEF TypeOK, SenderTypeOK
<1>2. BufferInv' /\ SenderControl' /\ TimerCovers'
  BY DEF BufferInv, SenderControl, TimerCovers, TimerAlive
<1>3. FreedInv'
  <2>1. Freed' = Freed
    BY DEF Freed
  <2>2. Freed \in Nat /\ expect_seqNum \in Nat
    BY DEF Freed, NULL, TypeOK, SenderTypeOK, ReceiverTypeOK
  <2>3. QED
    BY <2>1, <2>2 DEF FreedInv
<1>4. QED
  BY <1>1, <1>2, <1>3

\* Every step of a thread of the server process keeps the invariant.
LEMMA ReceiverInv == ASSUME IInv, ReceiverStep PROVE IInv'
<1> USE DEF sendBufTail, Node
<1>0. UNCHANGED senderVars
  BY DEF ReceiverStep
<1>1. ASSUME NEW m \in c2s, RecvSeg(m) PROVE IInv'
  <2>1. c2s' \subseteq c2s /\ m \in Segs
    BY <1>1 DEF RecvSeg, Received, IInv, TypeOK, NetTypeOK
  <2>2. NetTypeOK' /\ ReceiverTypeOK'
    BY <1>1, <2>1 DEF RecvSeg, IInv, TypeOK, NetTypeOK, ReceiverTypeOK, Slots
  <2>3. FlightInv'
    BY <1>0, <1>1, <2>1 DEF RecvSeg, IInv, FlightInv
  <2>4. ReceiverControl' /\ AcceptedInv' /\ RoomInv'
    BY <1>0, <1>1, <2>1 DEF RecvSeg, IInv, ReceiverControl, AcceptedInv, AcceptedIsPrefix, RoomInv
  <2>5. QED
    BY <1>0, <1>1, <2>2, <2>3, <2>4, ClientSide DEF RecvSeg, IInv, TypeOK
<1>2. ASSUME NEW m \in c2s, LoseSeg(m) PROVE IInv'
  <2>1. c2s' \subseteq c2s
    BY <1>2 DEF LoseSeg, Lost
  <2>2. NetTypeOK' /\ ReceiverTypeOK'
    BY <1>2, <2>1 DEF LoseSeg, IInv, TypeOK, NetTypeOK, ReceiverTypeOK, Slots
  <2>3. FlightInv'
    BY <1>0, <1>2, <2>1 DEF LoseSeg, IInv, FlightInv
  <2>4. ReceiverControl' /\ AcceptedInv' /\ RoomInv'
    BY <1>0, <1>2 DEF LoseSeg, IInv, ReceiverControl, AcceptedInv, AcceptedIsPrefix, RoomInv
  <2>5. QED
    BY <1>0, <1>2, <2>2, <2>3, <2>4, ClientSide DEF LoseSeg, IInv, TypeOK
<1>3. CASE OutOfOrder
  <2>1. NetTypeOK' /\ ReceiverTypeOK'
    BY <1>3 DEF OutOfOrder, NextSeg, Sent, IInv, TypeOK, NetTypeOK, ReceiverTypeOK, Slots
  <2>2. FlightInv'
    BY <1>0, <1>3 DEF OutOfOrder, NextSeg, Sent, IInv, TypeOK, ReceiverTypeOK, FlightInv
  <2>3. ReceiverControl' /\ AcceptedInv' /\ RoomInv'
    BY <1>0, <1>3 DEF OutOfOrder, NextSeg, IInv, ReceiverControl, AcceptedInv, AcceptedIsPrefix, RoomInv
  <2>4. QED
    BY <1>0, <1>3, <2>1, <2>2, <2>3, ClientSide DEF OutOfOrder, IInv, TypeOK
<1>4. CASE BufferFull
  <2>1. NetTypeOK' /\ ReceiverTypeOK'
    BY <1>4 DEF BufferFull, NextSeg, IInv, TypeOK, NetTypeOK, ReceiverTypeOK, Slots
  <2>2. FlightInv'
    BY <1>0, <1>4 DEF BufferFull, NextSeg, IInv, FlightInv
  <2>3. ReceiverControl' /\ AcceptedInv' /\ RoomInv'
    BY <1>0, <1>4 DEF BufferFull, NextSeg, IInv, ReceiverControl, AcceptedInv, AcceptedIsPrefix, RoomInv
  <2>4. QED
    BY <1>0, <1>4, <2>1, <2>2, <2>3, ClientSide DEF BufferFull, IInv, TypeOK
<1>5. CASE AcceptSeg
  <2>1. PICK i \in Node : srvSeg = sendSegs[i]
    BY <1>5 DEF AcceptSeg, IInv, FlightInv
  <2>2. srvSeg = [seq |-> i - 1, data |-> AppStream[i]] /\ srvSeg \in Segs
    BY <1>5, <2>1 DEF AcceptSeg, IInv, BufferInv, ReceiverControl
  <2>3. srvSeg.data = AppStream[i] /\ i = expect_seqNum + 1 /\ srvSeg.data \in Data
    <3>1. i \in Nat /\ expect_seqNum \in Nat
      BY DEF IInv, TypeOK, SenderTypeOK, ReceiverTypeOK
    <3>2. srvSeg.seq = i - 1 /\ srvSeg.data = AppStream[i]
      BY <2>2
    <3>3. QED
      BY <1>5, <2>2, <3>1, <3>2 DEF AcceptSeg, Segs
  <2>4. Len(accepted) = expect_seqNum /\ accepted \in Seq(Data)
    BY <1>5 DEF AcceptSeg, IInv, TypeOK, ReceiverTypeOK, AcceptedInv
  <2>5. /\ accepted' \in Seq(Data)
        /\ Len(accepted') = i
        /\ accepted'[i] = AppStream[i]
        /\ \A j \in 1..Len(accepted) : accepted'[j] = accepted[j]
    BY <1>5, <2>3, <2>4 DEF AcceptSeg
  <2>6. AcceptedInv'
    BY <1>0, <1>5, <2>1, <2>3, <2>4, <2>5
       DEF AcceptSeg, IInv, TypeOK, ReceiverTypeOK, SenderTypeOK, AcceptedInv, AcceptedIsPrefix
  <2>7. NetTypeOK' /\ ReceiverTypeOK'
    BY <1>5, <2>3, <2>5 DEF AcceptSeg, IInv, TypeOK, NetTypeOK, ReceiverTypeOK, Slots
  <2>8. FlightInv'
    BY <1>0, <1>5 DEF AcceptSeg, IInv, FlightInv
  <2>9. ReceiverControl' /\ RoomInv'
    BY <1>5 DEF AcceptSeg, IInv, TypeOK, ReceiverTypeOK, ReceiverControl, RoomInv
  <2>10. QED
    BY <1>0, <1>5, <2>6, <2>7, <2>8, <2>9, ClientSide DEF AcceptSeg, IInv, TypeOK
<1>6. CASE LoadUsed
  <2>1. NetTypeOK' /\ ReceiverTypeOK'
    BY <1>6 DEF LoadUsed, IInv, TypeOK, NetTypeOK, ReceiverTypeOK, Slots
  <2>2. FlightInv'
    BY <1>0, <1>6 DEF LoadUsed, IInv, FlightInv
  <2>3. ReceiverControl' /\ AcceptedInv' /\ RoomInv'
    BY <1>0, <1>6 DEF LoadUsed, IInv, ReceiverControl, AcceptedInv, AcceptedIsPrefix, RoomInv
  <2>4. QED
    BY <1>0, <1>6, <2>1, <2>2, <2>3, ClientSide DEF LoadUsed, IInv, TypeOK
<1>7. CASE StoreUsed
  <2>1. NetTypeOK' /\ ReceiverTypeOK'
    BY <1>7 DEF StoreUsed, NextSeg, Sent, IInv, TypeOK, NetTypeOK, ReceiverTypeOK, RoomInv, Slots
  <2>2. FlightInv'
    BY <1>0, <1>7 DEF StoreUsed, NextSeg, Sent, IInv, TypeOK, NetTypeOK, SenderTypeOK, ReceiverTypeOK, FlightInv
  <2>3. ReceiverControl' /\ AcceptedInv' /\ RoomInv'
    BY <1>0, <1>7 DEF StoreUsed, NextSeg, IInv, TypeOK, ReceiverTypeOK, ReceiverControl,
                      AcceptedInv, AcceptedIsPrefix, RoomInv
  <2>4. QED
    BY <1>0, <1>7, <2>1, <2>2, <2>3, ClientSide DEF StoreUsed, IInv, TypeOK
<1>8. ASSUME NEW n \in RecvLengths, RecvCall(n) PROVE IInv'
  <2>1. NetTypeOK' /\ ReceiverTypeOK'
    BY <1>8 DEF RecvCall, IInv, TypeOK, NetTypeOK, ReceiverTypeOK, Slots
  <2>2. ReceiverControl' /\ RoomInv'
    BY <1>8 DEF RecvCall, IInv, ReceiverControl, RoomInv
  <2>3. FlightInv' /\ AcceptedInv'
    BY <1>0, <1>8 DEF RecvCall, IInv, FlightInv, AcceptedInv, AcceptedIsPrefix
  <2>4. QED
    BY <1>0, <1>8, <2>1, <2>2, <2>3, ClientSide DEF RecvCall, IInv, TypeOK
<1>9. CASE CopyOut
  <2>1. rcvLen \in Slots /\ rcvLen <= usedBufLen
    BY <1>9 DEF CopyOut, IInv, TypeOK, ReceiverTypeOK, ReceiverControl, Slots
  <2>2. [i \in 1..rcvLen |-> recvBuf[i]] \in Seq(Data \cup {UNSET})
    BY <2>1 DEF IInv, TypeOK, ReceiverTypeOK, Slots
  <2>3. delivered' \in Seq(Data \cup {UNSET})
    BY <1>9, <2>2 DEF CopyOut, IInv, TypeOK, ReceiverTypeOK
  <2>4. NetTypeOK' /\ ReceiverTypeOK'
    BY <1>9, <2>3 DEF CopyOut, IInv, TypeOK, NetTypeOK, ReceiverTypeOK, Slots
  <2>5. ReceiverControl' /\ RoomInv'
    BY <1>9, <2>1 DEF CopyOut, IInv, ReceiverControl, RoomInv
  <2>6. FlightInv' /\ AcceptedInv'
    BY <1>0, <1>9 DEF CopyOut, IInv, FlightInv, AcceptedInv, AcceptedIsPrefix
  <2>7. QED
    BY <1>0, <1>9, <2>4, <2>5, <2>6, ClientSide DEF CopyOut, IInv, TypeOK
<1>10. CASE StoreUsedDown
  <2>1. /\ usedBufLen' \in 0..RECEIVE_BUF_SIZE
        /\ srvPc = "load" => usedBufLen' < RECEIVE_BUF_SIZE
    BY <1>10 DEF StoreUsedDown, IInv, TypeOK, ReceiverTypeOK, ReceiverControl, RoomInv
  <2>2. NetTypeOK' /\ ReceiverTypeOK'
    BY <1>10, <2>1 DEF StoreUsedDown, IInv, TypeOK, NetTypeOK, ReceiverTypeOK, Slots
  <2>3. ReceiverControl' /\ RoomInv'
    BY <1>10, <2>1 DEF StoreUsedDown, IInv, ReceiverControl, RoomInv
  <2>4. FlightInv' /\ AcceptedInv'
    BY <1>0, <1>10 DEF StoreUsedDown, IInv, FlightInv, AcceptedInv, AcceptedIsPrefix
  <2>5. QED
    BY <1>0, <1>10, <2>2, <2>3, <2>4, ClientSide DEF StoreUsedDown, IInv, TypeOK
<1>11. CASE MoveDown
  <2>1. recvBuf' \in [Slots -> Data \cup {UNSET}]
    BY <1>11 DEF MoveDown, Byte, IInv, TypeOK, ReceiverTypeOK
  <2>2. NetTypeOK' /\ ReceiverTypeOK'
    BY <1>11, <2>1 DEF MoveDown, IInv, TypeOK, NetTypeOK, ReceiverTypeOK
  <2>3. ReceiverControl' /\ RoomInv'
    BY <1>11 DEF MoveDown, IInv, ReceiverControl, RoomInv
  <2>4. FlightInv' /\ AcceptedInv'
    BY <1>0, <1>11 DEF MoveDown, IInv, FlightInv, AcceptedInv, AcceptedIsPrefix
  <2>5. QED
    BY <1>0, <1>11, <2>2, <2>3, <2>4, ClientSide DEF MoveDown, IInv, TypeOK
<1>12. QED
  BY <1>1, <1>2, <1>3, <1>4, <1>5, <1>6, <1>7, <1>8, <1>9, <1>10, <1>11
     DEF ReceiverStep, ReceiverNext, HandleStep, RecvStep

-----------------------------------------------------------------------------
(* The safety properties                                                   *)

\* Stuttering keeps the invariant.
LEMMA StutterInv == ASSUME IInv, UNCHANGED vars PROVE IInv'
<1> USE DEF vars, sendBufTail, Node
<1>1. UNCHANGED receiverVars /\ UNCHANGED <<sendSegs, next_seqNum, toQueue, sendBufHead, hdlAck, netVars>>
  OBVIOUS
<1>2. SenderTypeOK' /\ SenderControl' /\ TimerCovers'
  BY DEF IInv, TypeOK, SenderTypeOK, SenderControl, TimerCovers, TimerAlive
<1>3. QED
  BY <1>1, <1>2, QuietStep

\* The inductive invariant holds in every reachable state.
THEOREM Invariance == Spec => []IInv
<1>1. IInv /\ [Next]_vars => IInv'
  BY SenderInv, ReceiverInv, StutterInv DEF Next
<1>2. QED
  BY InitInv, <1>1, PTL DEF Spec

\* The types are kept: in particular usedBufLen stays within the receive
\* buffer (stcp_server.c 225-233 and 96-100), for every stream, window and
\* buffer size.
THEOREM TypeCorrect == Spec => []TypeOK
<1>1. IInv => TypeOK
  BY DEF IInv
<1>2. QED
  BY Invariance, <1>1, PTL

\* The server accepts a prefix of the stream (stcp_server.c 216-247).
THEOREM AcceptedPrefix == Spec => []AcceptedIsPrefix
<1>1. IInv => AcceptedIsPrefix
  BY DEF IInv, AcceptedInv
<1>2. QED
  BY Invariance, <1>1, PTL

\* The client frees only what the server holds (stcp_client.c 350-366).
THEOREM FreedAccepted == Spec => []NoPrematureFree
<1>1. IInv => NoPrematureFree
  BY DEF IInv, TypeOK, SenderTypeOK, ReceiverTypeOK, Node, sendBufTail, NULL,
         FreedInv, AcceptedInv, Freed, NoPrematureFree
<1>2. QED
  BY Invariance, <1>1, PTL

\* A non-empty send buffer is watched by a timer thread (stcp_client.c
\* 145-155 and 383-402).
THEOREM TimerWatches == Spec => []TimerCovers
<1>1. IInv => TimerCovers
  BY DEF IInv
<1>2. QED
  BY Invariance, <1>1, PTL

-----------------------------------------------------------------------------
(* The refinement of StcpStream                                            *)

\* The data the application has put into the send buffer.
Queued == [i \in 1..sendBufTail |-> sendSegs[i].data]

\* A step that changes neither the list of nodes, nor its head, nor what the
\* server has accepted, is a stuttering step of the stream.
LEMMA StreamStutter ==
  ASSUME UNCHANGED <<sendSegs, sendBufHead, accepted>>
  PROVE  UNCHANGED Stream!streamVars
<1>1. Queued' = Queued /\ Freed' = Freed
  BY DEF Queued, Freed, sendBufTail
<1>2. QED
  BY <1>1 DEF Stream!streamVars, Queued

\* An append to the send buffer is a Write.
LEMMA EnqueueWrites == ASSUME IInv, Enqueue, UNCHANGED receiverVars PROVE Stream!Write
<1> DEFINE n == Len(sendSegs)
           d == AppStream[n + 1]
<1>1. /\ sendSegs \in Seq(Segs) /\ n \in Nat
      /\ sendSegs' = Append(sendSegs, [seq |-> next_seqNum, data |-> d])
  BY DEF Enqueue, sendBufTail, IInv, TypeOK, SenderTypeOK
<1>2. n + 1 \in 1..Len(AppStream) /\ d \in Data
  BY <1>1 DEF Enqueue, IInv, TypeOK, SenderTypeOK, BufferInv, SenderControl, sendBufTail
<1>3. /\ Len(sendSegs') = n + 1
      /\ \A i \in 1..n : sendSegs'[i] = sendSegs[i]
      /\ sendSegs'[n + 1] = [seq |-> next_seqNum, data |-> d]
  BY <1>1, <1>2 DEF Segs, IInv, TypeOK, SenderTypeOK
<1>4. sendSegs'[n + 1].data = d
  BY <1>3
<1>5. \A i \in 1..n : sendSegs[i].data \in Data
  <2> TAKE i \in 1..n
  <2>1. sendSegs[i] \in Segs
    BY <1>1
  <2>2. QED
    BY <2>1 DEF Segs
<1> HIDE DEF d
<1>6. Queued \in Seq(Data) /\ Len(Queued) = n /\ \A i \in 1..n : Queued[i] = sendSegs[i].data
  BY <1>1, <1>5 DEF Queued, sendBufTail
<1>7. Queued' = [i \in 1..n+1 |-> sendSegs'[i].data]
  BY <1>3 DEF Queued, sendBufTail
<1>8. /\ Append(Queued, d) \in Seq(Data)
      /\ Len(Append(Queued, d)) = n + 1
      /\ \A i \in 1..n : Append(Queued, d)[i] = Queued[i]
      /\ Append(Queued, d)[n + 1] = d
  BY <1>1, <1>2, <1>6
<1>9. Queued' = Append(Queued, d)
  <2>1. /\ Queued' \in Seq(Data)
        /\ Len(Queued') = n + 1
        /\ \A i \in 1..n+1 : Queued'[i] = Append(Queued, d)[i]
    BY <1>1, <1>2, <1>3, <1>4, <1>5, <1>6, <1>7, <1>8
  <2>2. QED
    BY <1>8, <2>1, SeqEqual
<1>10. Freed' = Freed
  BY <1>1, <1>3 DEF Enqueue, Freed, NULL, sendBufTail, Node, IInv, TypeOK, SenderTypeOK
<1>11. accepted' = accepted
  OBVIOUS
<1>12. QED
  BY <1>2, <1>9, <1>10, <1>11 DEF Stream!Write, Queued

\* Freeing a head is a Release.
LEMMA FreeHeadReleases == ASSUME IInv, FreeHead, UNCHANGED receiverVars PROVE Stream!Release
<1> USE DEF sendBufTail, NULL
<1>1. sendBufHead \in 1..Len(sendSegs) /\ Len(sendSegs) \in Nat
  BY DEF FreeHead, HeadAcked, IInv, TypeOK, SenderTypeOK, Node
<1>2. Freed' = Freed + 1
  BY <1>1 DEF FreeHead, NextNode, Freed
<1>3. Freed' <= Len(accepted)
  <2>1. FreedInv' /\ expect_seqNum' = expect_seqNum
    BY FreeHeadInv DEF IInv
  <2>2. Len(accepted) >= expect_seqNum /\ expect_seqNum \in Nat
    BY DEF IInv, TypeOK, ReceiverTypeOK, AcceptedInv
  <2>3. Freed' \in Nat
    BY <1>1, <1>2 DEF Freed
  <2>4. Len(accepted) \in Nat
    BY DEF IInv, TypeOK, ReceiverTypeOK
  <2>5. QED
    BY <2>1, <2>2, <2>3, <2>4 DEF FreedInv
<1>4. Freed < Len(accepted)
  <2>1. Freed \in Nat /\ Len(accepted) \in Nat
    BY <1>1 DEF Freed, IInv, TypeOK, ReceiverTypeOK
  <2>2. QED
    BY <1>2, <1>3, <2>1
<1>5. Queued' = Queued /\ accepted' = accepted
  BY DEF FreeHead, Queued
<1>6. Freed \in Nat /\ Len(accepted) \in Nat
  BY <1>1 DEF Freed, IInv, TypeOK, ReceiverTypeOK
<1>7. Freed + 1 \in (Freed + 1)..Len(accepted)
  BY <1>4, <1>6
<1>8. QED
  BY <1>2, <1>5, <1>7 DEF Stream!Release, Queued

\* Accepting a segment is a Take.
LEMMA AcceptTakes == ASSUME IInv, AcceptSeg, UNCHANGED senderVars PROVE Stream!Take
<1> USE DEF sendBufTail, Node
<1>1. PICK i \in Node : srvSeg = sendSegs[i]
  BY DEF AcceptSeg, IInv, FlightInv
<1>2. sendSegs[i] = [seq |-> i - 1, data |-> AppStream[i]]
  BY <1>1 DEF IInv, BufferInv
<1>3. srvSeg.seq = i - 1
  BY <1>1, <1>2
<1>4. i \in 1..Len(sendSegs) /\ Len(sendSegs) \in Nat /\ Len(accepted) = i - 1
  BY <1>1, <1>3 DEF AcceptSeg, IInv, TypeOK, SenderTypeOK, ReceiverTypeOK, AcceptedInv
<1>5. Len(Queued) = Len(sendSegs) /\ Queued[i] = srvSeg.data
  BY <1>1, <1>4 DEF Queued
<1>6. Len(accepted) < Len(Queued) /\ accepted' = Append(accepted, Queued[Len(accepted) + 1])
  <2>1. Len(accepted) + 1 = i
    BY <1>4
  <2>2. accepted' = Append(accepted, srvSeg.data)
    BY DEF AcceptSeg
  <2>3. QED
    BY <1>4, <1>5, <2>1, <2>2
<1>7. Queued' = Queued /\ Freed' = Freed
  BY DEF Queued, Freed
<1>8. QED
  BY <1>6, <1>7 DEF Stream!Take, Queued

\* Every step of the client process maps to a step or a stutter of the stream.
LEMMA SenderMaps ==
  ASSUME IInv, SenderStep
  PROVE  Stream!Write \/ Stream!Release \/ UNCHANGED Stream!streamVars
<1>1. UNCHANGED receiverVars
  BY DEF SenderStep
<1>2. CASE Enqueue
  BY <1>1, <1>2, EnqueueWrites
<1>3. CASE FreeHead
  BY <1>1, <1>3, FreeHeadReleases
<1>4. CASE ~Enqueue /\ ~FreeHead
  <2>1. UNCHANGED <<sendSegs, sendBufHead>>
    BY <1>4 DEF SenderStep, SenderNext, AppStep, HandlerStep, TimerLook, TimerWalk,
       SendCall, RecvAck, LoseAck,
       WindowOpen, SendReturn, SendFirstUnsent, SendFails, AdvanceUnsent,
       LoadUnAck, StoreUnAck, LockForAck, StoreUnAckDown, AckDone, HandlerEnds,
       TimerExit, TimerPoll, TimerYoung, TimerExpire, TimerResend, TimerDone,
       TimerFails, SipCloses
  <2>2. QED
    BY <1>1, <2>1, StreamStutter
<1>5. QED
  BY <1>2, <1>3, <1>4

\* Every step of the server process maps to a step or a stutter of the stream.
LEMMA ReceiverMaps ==
  ASSUME IInv, ReceiverStep
  PROVE  Stream!Take \/ UNCHANGED Stream!streamVars
<1>1. UNCHANGED senderVars
  BY DEF ReceiverStep
<1>2. CASE AcceptSeg
  BY <1>1, <1>2, AcceptTakes
<1>3. CASE ~AcceptSeg
  <2>1. accepted' = accepted
    BY <1>3 DEF ReceiverStep, ReceiverNext, HandleStep, RecvStep, RecvSeg, LoseSeg,
       OutOfOrder, BufferFull, LoadUsed, StoreUsed, RecvCall, CopyOut, StoreUsedDown, MoveDown
  <2>2. QED
    BY <1>1, <2>1, StreamStutter
<1>4. QED
  BY <1>2, <1>3

\* The data transfer implements the stream: the server takes over what the
\* application wrote, once and in order, and the client discards only what
\* has been taken over.
THEOREM StreamRefinement == Spec => ImplementsStream
<1>1. Init => Stream!StreamInit
  <2> SUFFICES ASSUME Init PROVE Stream!StreamInit
    OBVIOUS
  <2>1. sendSegs = <<>> /\ accepted = <<>> /\ Freed = 0
    BY DEF Init, SenderInit, ReceiverInit, Freed, NULL, sendBufTail
  <2>2. Queued = <<>>
    BY <2>1 DEF Queued, sendBufTail
  <2>3. QED
    BY <2>1, <2>2 DEF Stream!StreamInit, Queued
<1>2. IInv /\ [Next]_vars => [Stream!StreamNext]_(Stream!streamVars)
  <2> SUFFICES ASSUME IInv, [Next]_vars PROVE [Stream!StreamNext]_(Stream!streamVars)
    OBVIOUS
  <2>1. CASE SenderStep
    BY <2>1, SenderMaps DEF Stream!StreamNext
  <2>2. CASE ReceiverStep
    BY <2>2, ReceiverMaps DEF Stream!StreamNext
  <2>3. CASE UNCHANGED vars
    BY <2>3, StreamStutter DEF vars
  <2>4. QED
    BY <2>1, <2>2, <2>3 DEF Next
<1>3. QED
  BY Invariance, <1>1, <1>2, PTL DEF Spec, ImplementsStream, Stream!StreamSpec
=============================================================================
