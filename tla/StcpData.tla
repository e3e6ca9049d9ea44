------------------------------- MODULE StcpData ------------------------------
(***************************************************************************)
(* Data transfer over one established STCP connection: the threads of the  *)
(* client process, the threads of the server process and the network       *)
(* between them.                                                           *)
(***************************************************************************)
EXTENDS StcpSender, StcpReceiver

vars == <<senderVars, receiverVars, netVars>>

Init == SenderInit /\ ReceiverInit /\ NetInit

SenderStep == SenderNext /\ UNCHANGED receiverVars
ReceiverStep == ReceiverNext /\ UNCHANGED senderVars

Next == SenderStep \/ ReceiverStep

Spec == Init /\ [][Next]_vars

(***************************************************************************)
(* Fairness.  Threads are scheduled, so a step that stays possible is      *)
(* taken.  Steps that acquire a mutex are strongly fair: every other user  *)
(* of that mutex sleeps in select between two critical sections.  A        *)
(* segment sent again and again is not lost for ever: seglost drops one in *)
(* ten.  A head that stays unacknowledged is found to have timed out.  The *)
(* server application keeps calling stcp_server_recv; nothing makes the    *)
(* client application write or the SIP process fail.                       *)
(***************************************************************************)
ClientFair ==
  /\ SF_vars(AppStep /\ UNCHANGED receiverVars)
  /\ SF_vars((\E a \in s2c : a > Freed /\ RecvAck(a)) /\ UNCHANGED receiverVars)
  /\ SF_vars(HandlerStep /\ UNCHANGED receiverVars)
  /\ SF_vars(TimerLook /\ UNCHANGED receiverVars)
  /\ SF_vars(TimerExpire /\ UNCHANGED receiverVars)
  /\ WF_vars(TimerWalk /\ UNCHANGED receiverVars)

ServerFair ==
  /\ \A i \in 1..Len(AppStream) :
       SF_vars((\E m \in c2s : m.seq = i - 1 /\ RecvSeg(m)) /\ UNCHANGED senderVars)
  /\ SF_vars(HandleStep /\ UNCHANGED senderVars)
  /\ SF_vars(RecvStep /\ UNCHANGED senderVars)

FairSpec == Spec /\ ClientFair /\ ServerFair
-----------------------------------------------------------------------------
(* Properties                                                              *)

\* The variables hold values of their types.  usedBufLen is a natural number
\* that never exceeds the buffer although two threads update it without a
\* common lock (stcp_server.c 233 and 98): no copy of seghandler runs past
\* the end of recvBuf, and the unsigned subtraction never wraps.
TypeOK ==
  /\ SenderTypeOK
  /\ NetTypeOK
  /\ ReceiverTypeOK

\* What the server has copied into its buffer is a prefix of what the client
\* application has written, whatever is lost, repeated or overtaken on the
\* way and however the timer threads interleave with the application.
AcceptedIsPrefix ==
  /\ Len(accepted) <= sendBufTail
  /\ \A i \in 1..Len(accepted) : accepted[i] = AppStream[i]

\* seghandler of the client frees a segment only when the server holds it:
\* nothing that could still have to be sent again is discarded.
NoPrematureFree == Freed <= Len(accepted)

\* A buffer that is not empty has a sendBuf_timer thread that will look at it
\* again, although a thread decides to end at the moment another thread may
\* be appending; only a thread that died with bufMutex locked breaks this.
TimerCovers == sendBufHead # NULL => TimerAlive \/ bufMutex = "dead"

\* Every step of the transfer is a step of the stream it promises.
Stream == INSTANCE StcpStream WITH
            written <- [i \in 1..sendBufTail |-> sendSegs[i].data],
            taken <- accepted,
            released <- Freed
ImplementsStream == Stream!StreamSpec

\* Again and again everything the application thread has handed to the network
\* is acknowledged and freed: no segment that is lost, and no acknowledgement
\* that is lost, is forgotten by the timer threads and the two seghandlers.
LaunchedFreed == []<>(Freed >= Launched)
=============================================================================
