----------------------------- MODULE StcpReceiver ----------------------------
(***************************************************************************)
(* The server side of one CONNECTED STCP connection: the receive buffer of *)
(* a server_tcb, the seghandler thread that fills it and the application   *)
(* thread inside stcp_server_recv that drains it.                          *)
(*                                                                         *)
(* seghandler copies a segment into the buffer under bufMutex but adds to  *)
(* usedBufLen after it has unlocked, so that addition is a load and a      *)
(* store of its own; so is the subtraction of stcp_server_recv, which      *)
(* excludes the copy but not the addition.                                 *)
(*                                                                         *)
(* The buffer holds whole segments: RECEIVE_BUF_SIZE, usedBufLen and the   *)
(* lengths asked of stcp_server_recv count segments.  UNSET is the content *)
(* of memory nobody has written, inside the buffer or past its end.  A     *)
(* local variable of a thread is 0 or UNSET while it is out of scope.      *)
(***************************************************************************)
EXTENDS Naturals, Sequences, StcpNet

CONSTANTS
  RECEIVE_BUF_SIZE,
  RecvLengths,       \* the lengths the server application asks for
  UNSET

ASSUME ReceiverAssumption ==
  /\ RECEIVE_BUF_SIZE \in Nat \ {0}
  /\ RecvLengths \subseteq 1..RECEIVE_BUF_SIZE

VARIABLES
  expect_seqNum,
  recvBuf,
  usedBufLen,
  srvMutex,      \* holder of the bufMutex of the server_tcb: "free" or "app"
  srvPc,         \* where seghandler is
  srvSeg,        \* the DATA segment seghandler works on
  srvReg,        \* usedBufLen as seghandler loaded it
  rcvPc,         \* where stcp_server_recv is
  rcvLen,        \* the length it was asked for
  rcvReg,        \* usedBufLen as it loaded it
  accepted,      \* history: the data copied into recvBuf, in order
  delivered      \* history: the data stcp_server_recv returned, in order

srvVars == <<srvPc, srvSeg, srvReg>>
rcvVars == <<rcvPc, rcvLen, rcvReg>>
receiverVars == <<expect_seqNum, recvBuf, usedBufLen, srvMutex, srvVars, rcvVars, accepted, delivered>>

Slots == 1..RECEIVE_BUF_SIZE
Byte(i) == IF i \in Slots THEN recvBuf[i] ELSE UNSET

ReceiverInit ==
  /\ expect_seqNum = 0
  /\ recvBuf = [i \in Slots |-> UNSET]
  /\ usedBufLen = 0
  /\ srvMutex = "free"
  /\ srvPc = "recv" /\ srvSeg = UNSET /\ srvReg = 0
  /\ rcvPc = "idle" /\ rcvLen = 0 /\ rcvReg = 0
  /\ accepted = <<>>
  /\ delivered = <<>>
-----------------------------------------------------------------------------
(* seghandler, in state CONNECTED                                          *)

\* sip_recvseg delivers a DATA segment.
RecvSeg(m) ==
  /\ srvPc = "recv"
  /\ m \in c2s
  /\ c2s' \in Received(c2s, m)
  /\ srvSeg' = m
  /\ srvPc' = "handle"
  /\ UNCHANGED <<expect_seqNum, recvBuf, usedBufLen, srvMutex, srvReg, rcvVars, accepted, delivered, s2c>>

\* sip_recvseg drops one.
LoseSeg(m) ==
  /\ srvPc = "recv"
  /\ m \in c2s
  /\ c2s' = Lost(c2s, m)
  /\ UNCHANGED <<receiverVars, s2c>>

\* The iteration of seghandler's loop ends.
NextSeg ==
  /\ srvPc' = "recv"
  /\ srvSeg' = UNSET

\* Faulty variant of the next action: a repeated segment is dropped silently.
OutOfOrder_Silent ==
  /\ srvPc = "handle"
  /\ srvSeg.seq # expect_seqNum
  /\ NextSeg
  /\ UNCHANGED <<expect_seqNum, recvBuf, usedBufLen, srvMutex, srvReg, rcvVars,
                 accepted, delivered, netVars>>

\* Not the segment expected: acknowledge again what has arrived so far.
OutOfOrder ==
  /\ srvPc = "handle"
  /\ srvSeg.seq # expect_seqNum
  /\ s2c' = Sent(s2c, expect_seqNum)
  /\ NextSeg
  /\ UNCHANGED <<expect_seqNum, recvBuf, usedBufLen, srvMutex, srvReg, rcvVars,
                 accepted, delivered, c2s>>

\* No room: the segment is dropped and nothing is acknowledged.
BufferFull ==
  /\ srvPc = "handle"
  /\ srvSeg.seq = expect_seqNum
  /\ srvMutex = "free"
  /\ usedBufLen + 1 > RECEIVE_BUF_SIZE
  /\ NextSeg
  /\ UNCHANGED <<expect_seqNum, recvBuf, usedBufLen, srvMutex, srvReg, rcvVars,
                 accepted, delivered, netVars>>

\* Faulty variants of the next action: no test for room,
AcceptSeg_NoRoomTest ==
  /\ srvPc = "handle"
  /\ srvSeg.seq = expect_seqNum
  /\ srvMutex = "free"
  /\ recvBuf' = [recvBuf EXCEPT ![usedBufLen + 1] = srvSeg.data]
  /\ accepted' = Append(accepted, srvSeg.data)
  /\ srvPc' = "load"
  /\ UNCHANGED <<expect_seqNum, usedBufLen, srvMutex, srvSeg, srvReg, rcvVars, delivered, netVars>>

\* and any later segment taken for the one expected.
AcceptSeg_Later ==
  /\ srvPc = "handle"
  /\ srvSeg.seq >= expect_seqNum
  /\ srvMutex = "free"
  /\ usedBufLen + 1 <= RECEIVE_BUF_SIZE
  /\ recvBuf' = [recvBuf EXCEPT ![usedBufLen + 1] = srvSeg.data]
  /\ accepted' = Append(accepted, srvSeg.data)
  /\ srvPc' = "load"
  /\ UNCHANGED <<expect_seqNum, usedBufLen, srvMutex, srvSeg, srvReg, rcvVars, delivered, netVars>>

\* The segment expected is copied behind the data in the buffer.
AcceptSeg ==
  /\ srvPc = "handle"
  /\ srvSeg.seq = expect_seqNum
  /\ srvMutex = "free"
  /\ usedBufLen + 1 <= RECEIVE_BUF_SIZE
  /\ recvBuf' = [recvBuf EXCEPT ![usedBufLen + 1] = srvSeg.data]
  /\ accepted' = Append(accepted, srvSeg.data)
  /\ srvPc' = "load"
  /\ UNCHANGED <<expect_seqNum, usedBufLen, srvMutex, srvSeg, srvReg, rcvVars, delivered, netVars>>

\* usedBufLen += length, without bufMutex: the load,
LoadUsed ==
  /\ srvPc = "load"
  /\ srvReg' = usedBufLen
  /\ srvPc' = "store"
  /\ UNCHANGED <<expect_seqNum, recvBuf, usedBufLen, srvMutex, srvSeg, rcvVars, accepted, delivered, netVars>>

\* (Faulty variant of the next action: expect_seqNum stays.)
StoreUsed_Stays ==
  /\ srvPc = "store"
  /\ usedBufLen' = srvReg + 1
  /\ s2c' = Sent(s2c, expect_seqNum)
  /\ srvReg' = 0
  /\ NextSeg
  /\ UNCHANGED <<expect_seqNum, recvBuf, srvMutex, rcvVars, accepted, delivered, c2s>>

\* and the store; then expect_seqNum moves on and the DATAACK is sent.
StoreUsed ==
  /\ srvPc = "store"
  /\ usedBufLen' = srvReg + 1
  /\ expect_seqNum' = expect_seqNum + 1
  /\ s2c' = Sent(s2c, expect_seqNum')
  /\ srvReg' = 0
  /\ NextSeg
  /\ UNCHANGED <<recvBuf, srvMutex, rcvVars, accepted, delivered, c2s>>
-----------------------------------------------------------------------------
(* stcp_server_recv                                                        *)

RecvCall(n) ==
  /\ rcvPc = "idle"
  /\ rcvLen' = n
  /\ rcvPc' = "poll"
  /\ UNCHANGED <<expect_seqNum, recvBuf, usedBufLen, srvMutex, srvVars, rcvReg, accepted, delivered, netVars>>

\* Enough data: it is copied out under bufMutex, and usedBufLen -= length loads.
CopyOut ==
  /\ rcvPc = "poll"
  /\ srvMutex = "free"
  /\ usedBufLen >= rcvLen
  /\ delivered' = delivered \o [i \in 1..rcvLen |-> recvBuf[i]]
  /\ rcvReg' = usedBufLen
  /\ srvMutex' = "app"
  /\ rcvPc' = "store"
  /\ UNCHANGED <<expect_seqNum, recvBuf, usedBufLen, srvVars, rcvLen, accepted, netVars>>

StoreUsedDown ==
  /\ rcvPc = "store"
  /\ usedBufLen' = rcvReg - rcvLen
  /\ rcvReg' = 0
  /\ rcvPc' = "move"
  /\ UNCHANGED <<expect_seqNum, recvBuf, srvMutex, srvVars, rcvLen, accepted, delivered, netVars>>

\* memmove of usedBufLen segments to the front; the call returns 1.
MoveDown ==
  /\ rcvPc = "move"
  /\ recvBuf' = [i \in Slots |-> IF i <= usedBufLen THEN Byte(i + rcvLen) ELSE recvBuf[i]]
  /\ srvMutex' = "free"
  /\ rcvLen' = 0
  /\ rcvPc' = "idle"
  /\ UNCHANGED <<expect_seqNum, usedBufLen, srvVars, rcvReg, accepted, delivered, netVars>>
-----------------------------------------------------------------------------
HandleStep == OutOfOrder \/ BufferFull \/ AcceptSeg \/ LoadUsed \/ StoreUsed

RecvStep ==
  \/ \E n \in RecvLengths : RecvCall(n)
  \/ CopyOut \/ StoreUsedDown \/ MoveDown

ReceiverNext ==
  \/ \E m \in c2s : RecvSeg(m) \/ LoseSeg(m)
  \/ HandleStep
  \/ RecvStep

ReceiverTypeOK ==
  /\ expect_seqNum \in Nat
  /\ recvBuf \in [Slots -> Data \cup {UNSET}]
  /\ usedBufLen \in 0..RECEIVE_BUF_SIZE
  /\ srvMutex \in {"free", "app"}
  /\ srvPc \in {"recv", "handle", "load", "store"}
  /\ srvSeg \in Segs \cup {UNSET}
  /\ srvReg \in 0..RECEIVE_BUF_SIZE
  /\ rcvPc \in {"idle", "poll", "store", "move"}
  /\ rcvLen \in 0..RECEIVE_BUF_SIZE
  /\ rcvReg \in 0..RECEIVE_BUF_SIZE
  /\ accepted \in Seq(Data)
  /\ delivered \in Seq(Data \cup {UNSET})
=============================================================================
