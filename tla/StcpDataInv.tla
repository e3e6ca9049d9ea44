----------------------------- MODULE StcpDataInv -----------------------------
(***************************************************************************)
(* The inductive invariant of StcpData.  It needs no fact about            *)
(* unAck_segNum, sendBufunSent or the contents of recvBuf beyond their     *)
(* types: what they say may be wrong, and the transfer up to the receive   *)
(* buffer is right nevertheless.                                           *)
(***************************************************************************)
EXTENDS StcpData

\* Node i of the send buffer holds segment i of the stream.
BufferInv ==
  /\ next_seqNum = sendBufTail
  /\ sendBufTail + toQueue <= Len(AppStream)
  /\ \A i \in Node : sendSegs[i] = [seq |-> i - 1, data |-> AppStream[i]]

\* Where the threads are, and who holds which mutex.
SenderControl ==
  /\ appPc = "queue" => toQueue > 0
  /\ appPc = "advance" => sendBufunSent # NULL
  /\ hdlPc \in {"free", "store"} <=> bufMutex = "handler"
  /\ walk # NULL => bufMutex = "timer"

ReceiverControl ==
  /\ srvPc # "recv" => srvSeg \in Segs
  /\ rcvPc \in {"store", "move"} <=> srvMutex = "app"
  /\ rcvPc # "idle" => rcvLen \in RecvLengths

\* What is in flight, or in the hands of a seghandler, was put there by the
\* other side: a segment of the buffer, an acknowledgement of no more than
\* the server has counted.
FlightInv ==
  /\ \A m \in c2s : \E i \in Node : m = sendSegs[i]
  /\ srvPc = "handle" => \E i \in Node : srvSeg = sendSegs[i]
  /\ \A a \in s2c : a <= expect_seqNum
  /\ hdlAck <= expect_seqNum

\* The server has accepted the segments before expect_seqNum, and the one it
\* is in the middle of accepting.
AcceptedInv ==
  /\ Len(accepted) = IF srvPc \in {"load", "store"} THEN expect_seqNum + 1 ELSE expect_seqNum
  /\ AcceptedIsPrefix

\* The client has freed only segments the server has counted.
FreedInv == Freed <= expect_seqNum

\* While seghandler is about to add to usedBufLen there is room for one more
\* segment, and stcp_server_recv subtracts no more than it saw.
RoomInv ==
  /\ srvPc = "load" => usedBufLen < RECEIVE_BUF_SIZE
  /\ srvPc = "store" => srvReg < RECEIVE_BUF_SIZE
  /\ rcvPc = "store" => rcvLen <= rcvReg

\* The inductive invariant.
IInv ==
  /\ TypeOK
  /\ BufferInv
  /\ SenderControl
  /\ ReceiverControl
  /\ FlightInv
  /\ AcceptedInv
  /\ FreedInv
  /\ RoomInv
  /\ TimerCovers
=============================================================================
