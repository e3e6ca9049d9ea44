------------------------------ MODULE StcpSender -----------------------------
(***************************************************************************)
(* The client side of one CONNECTED STCP connection: the send buffer of a  *)
(* client_tcb and the threads that share it,                               *)
(*   - the application thread inside stcp_client_send,                     *)
(*   - the seghandler thread that consumes DATAACKs,                       *)
(*   - the sendBuf_timer threads, one started by every append to an empty  *)
(*     buffer.                                                             *)
(* A step is what a thread does between two points where another thread    *)
(* can change or see the same data: a critical section of bufMutex, or one *)
(* load or store of a field the code touches without it.  The program is   *)
(* compiled without optimisation, so unAck_segNum++ and unAck_segNum-- are *)
(* a load and a store.                                                     *)
(*                                                                         *)
(* The nodes of the buffer list are numbered in the order they are linked, *)
(* from 1, and NULL is 0; sendSegs[i] is the segment of node i and         *)
(* sendBufTail is the last node.  A freed node keeps its next pointer (the *)
(* allocator overwrites the first bytes of a block, the header of the      *)
(* segment).  Every segment counts one unit of sequence number, and time   *)
(* is abstracted: a segment may have timed out whenever a timer looks.     *)
(* A local variable of a thread is 0 or UNSET while it is out of scope.    *)
(***************************************************************************)
EXTENDS Naturals, Sequences, StcpNet

CONSTANTS
  AppStream,     \* the segments the application writes, in order
  GBN_WINDOW,    \* segments that may be sent and not acknowledged
  UINT,          \* number of values of an unsigned int (2^32 in the program)
  SipMayFail     \* whether the SIP process may close the connection

ASSUME SenderAssumption ==
  /\ AppStream \in Seq(Data)
  /\ GBN_WINDOW \in Nat \ {0}
  /\ UINT \in Nat
  /\ GBN_WINDOW < UINT
  /\ SipMayFail \in BOOLEAN

VARIABLES
  sendSegs,       \* every segment linked so far, freed ones included
  next_seqNum,
  sendBufHead,
  sendBufunSent,
  unAck_segNum,
  bufMutex,       \* holder of bufMutex: "free", "handler", "timer", "dead"
  appPc,          \* where the application thread is in stcp_client_send
  toQueue,        \* segments of the current call still to be appended
  appReg,         \* unAck_segNum as the application thread loaded it
  hdlPc,          \* where the seghandler thread is
  hdlAck,         \* seq_num of the DATAACK seghandler works on
  hdlReg,         \* unAck_segNum as seghandler loaded it
  polling,        \* timer threads sleeping before the next look at the head
  checking,       \* timer threads that saw a head and look at its sentTime
  walk,           \* node the timer thread that holds bufMutex has reached
  sipConn         \* the connection to the SIP process: "open" or "closed"

bufVars == <<sendSegs, next_seqNum, sendBufHead, sendBufunSent>>
appVars == <<appPc, toQueue, appReg>>
hdlVars == <<hdlPc, hdlAck, hdlReg>>
timerVars == <<polling, checking, walk>>
senderVars == <<bufVars, unAck_segNum, bufMutex, appVars, hdlVars, timerVars, sipConn>>

NULL == 0
sendBufTail == Len(sendSegs)
Node == 1..sendBufTail
NextNode(p) == IF p < sendBufTail THEN p + 1 ELSE NULL

\* Nodes seghandler has freed: those before the head.
Freed == IF sendBufHead = NULL THEN sendBufTail ELSE sendBufHead - 1
\* Nodes the application thread has passed: those before sendBufunSent.
Launched == IF sendBufunSent = NULL THEN sendBufTail ELSE sendBufunSent - 1
TimerAlive == polling + checking > 0 \/ bufMutex = "timer"

SenderInit ==
  /\ sendSegs = <<>>
  /\ next_seqNum = 0
  /\ sendBufHead = NULL
  /\ sendBufunSent = NULL
  /\ unAck_segNum = 0
  /\ bufMutex = "free"
  /\ appPc = "idle" /\ toQueue = 0 /\ appReg = 0
  /\ hdlPc = "recv" /\ hdlAck = 0 /\ hdlReg = 0
  /\ polling = 0 /\ checking = 0 /\ walk = NULL
  /\ sipConn = "open"
-----------------------------------------------------------------------------
(* stcp_client_send                                                        *)

\* The application writes its next n segments.
SendCall(n) ==
  /\ appPc = "idle"
  /\ sendBufTail + n <= Len(AppStream)
  /\ appPc' = "queue"
  /\ toQueue' = n
  /\ UNCHANGED <<bufVars, unAck_segNum, bufMutex, appReg, hdlVars, timerVars, sipConn, netVars>>

\* One segment is built and appended under bufMutex; an empty buffer gets a
\* new timer thread.
Enqueue ==
  /\ appPc = "queue"
  /\ bufMutex = "free"
  /\ LET node == sendBufTail + 1 IN
       /\ sendSegs' = Append(sendSegs, [seq |-> next_seqNum, data |-> AppStream[node]])
       /\ sendBufHead' = IF sendBufHead = NULL THEN node ELSE sendBufHead
       /\ sendBufunSent' = IF NULL \in {sendBufHead, sendBufunSent} THEN node ELSE sendBufunSent
       /\ polling' = IF sendBufHead = NULL THEN polling + 1 ELSE polling
  /\ next_seqNum' = next_seqNum + 1
  /\ toQueue' = toQueue - 1
  /\ appPc' = IF toQueue = 1 THEN "window" ELSE "queue"
  /\ UNCHANGED <<unAck_segNum, bufMutex, appReg, hdlVars, checking, walk, sipConn, netVars>>

\* The window test, made without bufMutex.
WindowOpen ==
  /\ appPc = "window"
  /\ unAck_segNum < GBN_WINDOW
  /\ appPc' = "copy"
  /\ UNCHANGED <<bufVars, unAck_segNum, bufMutex, toQueue, appReg, hdlVars, timerVars, sipConn, netVars>>

\* Everything has been sent: the call returns 1.
SendReturn ==
  /\ appPc = "copy"
  /\ bufMutex = "free"
  /\ sendBufunSent = NULL
  /\ appPc' = "idle"
  /\ UNCHANGED <<bufVars, unAck_segNum, bufMutex, toQueue, appReg, hdlVars, timerVars, sipConn, netVars>>

\* The first unsent segment is copied under bufMutex and handed to SIP.  The
\* copy of a freed node has a damaged header, which the checksum exposes at
\* the server, unless the allocator left the block alone.
SendFirstUnsent ==
  /\ appPc = "copy"
  /\ bufMutex = "free"
  /\ sendBufunSent # NULL
  /\ sipConn = "open"
  /\ \/ c2s' = Sent(c2s, sendSegs[sendBufunSent])
     \/ sendBufunSent <= Freed /\ c2s' = c2s
  /\ appPc' = "advance"
  /\ UNCHANGED <<bufVars, unAck_segNum, bufMutex, toQueue, appReg, hdlVars, timerVars, sipConn, s2c>>

\* sip_sendseg failed: the call returns -1.
SendFails ==
  /\ appPc = "copy"
  /\ bufMutex = "free"
  /\ sendBufunSent # NULL
  /\ sipConn = "closed"
  /\ appPc' = "idle"
  /\ UNCHANGED <<bufVars, unAck_segNum, bufMutex, toQueue, appReg, hdlVars, timerVars, sipConn, netVars>>

\* sendBufunSent = sendBufunSent->next, without bufMutex.
AdvanceUnsent ==
  /\ appPc = "advance"
  /\ sendBufunSent' = NextNode(sendBufunSent)
  /\ appPc' = "load"
  /\ UNCHANGED <<sendSegs, next_seqNum, sendBufHead, unAck_segNum, bufMutex, toQueue, appReg,
                 hdlVars, timerVars, sipConn, netVars>>

\* unAck_segNum++, without bufMutex: the load,
LoadUnAck ==
  /\ appPc = "load"
  /\ appReg' = unAck_segNum
  /\ appPc' = "store"
  /\ UNCHANGED <<bufVars, unAck_segNum, bufMutex, toQueue, hdlVars, timerVars, sipConn, netVars>>

\* and the store.
StoreUnAck ==
  /\ appPc = "store"
  /\ unAck_segNum' = (appReg + 1) % UINT
  /\ appReg' = 0
  /\ appPc' = "window"
  /\ UNCHANGED <<bufVars, bufMutex, toQueue, hdlVars, timerVars, sipConn, netVars>>
-----------------------------------------------------------------------------
(* seghandler, in state CONNECTED                                          *)

\* sip_recvseg delivers a DATAACK.
RecvAck(a) ==
  /\ hdlPc = "recv"
  /\ sipConn = "open"
  /\ a \in s2c
  /\ s2c' \in Received(s2c, a)
  /\ hdlAck' = a
  /\ hdlPc' = "lock"
  /\ UNCHANGED <<bufVars, unAck_segNum, bufMutex, appVars, hdlReg, timerVars, sipConn, c2s>>

\* sip_recvseg drops one.
LoseAck(a) ==
  /\ hdlPc = "recv"
  /\ sipConn = "open"
  /\ a \in s2c
  /\ s2c' = Lost(s2c, a)
  /\ UNCHANGED <<senderVars, c2s>>

LockForAck ==
  /\ hdlPc = "lock"
  /\ bufMutex = "free"
  /\ bufMutex' = "handler"
  /\ hdlPc' = "free"
  /\ UNCHANGED <<bufVars, unAck_segNum, appVars, hdlAck, hdlReg, timerVars, sipConn, netVars>>

\* Faulty variant of the next definition: an acknowledgement taken to cover
\* the segment the server expects.
HeadAcked_Inclusive == sendBufHead # NULL /\ sendSegs[sendBufHead].seq <= hdlAck

HeadAcked == sendBufHead # NULL /\ sendSegs[sendBufHead].seq < hdlAck

\* The head is acknowledged: it is freed, and unAck_segNum-- loads.
FreeHead ==
  /\ hdlPc = "free"
  /\ HeadAcked
  /\ sendBufHead' = NextNode(sendBufHead)
  /\ hdlReg' = unAck_segNum
  /\ hdlPc' = "store"
  /\ UNCHANGED <<sendSegs, next_seqNum, sendBufunSent, unAck_segNum, bufMutex, appVars, hdlAck,
                 timerVars, sipConn, netVars>>

\* unAck_segNum-- stores; the field is unsigned and wraps.
StoreUnAckDown ==
  /\ hdlPc = "store"
  /\ unAck_segNum' = (hdlReg + UINT - 1) % UINT
  /\ hdlReg' = 0
  /\ hdlPc' = "free"
  /\ UNCHANGED <<bufVars, bufMutex, appVars, hdlAck, timerVars, sipConn, netVars>>

\* The head, if there is one, is not acknowledged: the loop ends.
AckDone ==
  /\ hdlPc = "free"
  /\ ~HeadAcked
  /\ bufMutex' = "free"
  /\ hdlAck' = 0
  /\ hdlPc' = "recv"
  /\ UNCHANGED <<bufVars, unAck_segNum, appVars, hdlReg, timerVars, sipConn, netVars>>

\* sip_recvseg failed: the thread ends.
HandlerEnds ==
  /\ hdlPc = "recv"
  /\ sipConn = "closed"
  /\ hdlPc' = "ended"
  /\ UNCHANGED <<bufVars, unAck_segNum, bufMutex, appVars, hdlAck, hdlReg, timerVars, sipConn, netVars>>
-----------------------------------------------------------------------------
(* sendBuf_timer                                                           *)

\* The buffer is empty: the thread ends.
TimerExit ==
  /\ polling > 0
  /\ bufMutex = "free"
  /\ sendBufHead = NULL
  /\ polling' = polling - 1
  /\ UNCHANGED <<bufVars, unAck_segNum, bufMutex, appVars, hdlVars, checking, walk, sipConn, netVars>>

\* The buffer has a head, whose sentTime the thread reads after the unlock.
TimerPoll ==
  /\ polling > 0
  /\ bufMutex = "free"
  /\ sendBufHead # NULL
  /\ polling' = polling - 1
  /\ checking' = checking + 1
  /\ UNCHANGED <<bufVars, unAck_segNum, bufMutex, appVars, hdlVars, walk, sipConn, netVars>>

\* No timeout yet (or the head was freed and the word read looks recent).
TimerYoung ==
  /\ checking > 0
  /\ checking' = checking - 1
  /\ polling' = polling + 1
  /\ UNCHANGED <<bufVars, unAck_segNum, bufMutex, appVars, hdlVars, walk, sipConn, netVars>>

\* A timeout: the thread takes bufMutex and starts from the present head.
TimerExpire ==
  /\ checking > 0
  /\ bufMutex = "free"
  /\ checking' = checking - 1
  /\ bufMutex' = "timer"
  /\ walk' = sendBufHead
  /\ UNCHANGED <<bufVars, unAck_segNum, appVars, hdlVars, polling, sipConn, netVars>>

\* One segment of the list is sent again.
TimerResend ==
  /\ bufMutex = "timer"
  /\ walk \notin {NULL, sendBufunSent}
  /\ sipConn = "open"
  /\ c2s' = Sent(c2s, sendSegs[walk])
  /\ walk' = NextNode(walk)
  /\ UNCHANGED <<bufVars, unAck_segNum, bufMutex, appVars, hdlVars, polling, checking, sipConn, s2c>>

\* Faulty variant of the next action: the thread ends after one timeout.
TimerDone_Once ==
  /\ bufMutex = "timer"
  /\ walk \in {NULL, sendBufunSent}
  /\ bufMutex' = "free"
  /\ walk' = NULL
  /\ UNCHANGED <<bufVars, unAck_segNum, appVars, hdlVars, polling, checking, sipConn, netVars>>

\* The end of the list, or the first unsent segment, is reached.
TimerDone ==
  /\ bufMutex = "timer"
  /\ walk \in {NULL, sendBufunSent}
  /\ bufMutex' = "free"
  /\ polling' = polling + 1
  /\ walk' = NULL
  /\ UNCHANGED <<bufVars, unAck_segNum, appVars, hdlVars, checking, sipConn, netVars>>

\* sip_sendseg failed: the thread ends and leaves bufMutex locked.
TimerFails ==
  /\ bufMutex = "timer"
  /\ walk \notin {NULL, sendBufunSent}
  /\ sipConn = "closed"
  /\ bufMutex' = "dead"
  /\ walk' = NULL
  /\ UNCHANGED <<bufVars, unAck_segNum, appVars, hdlVars, polling, checking, sipConn, netVars>>
-----------------------------------------------------------------------------
\* The SIP process exits, or closes the connection after a framing error.
SipCloses ==
  /\ SipMayFail
  /\ sipConn = "open"
  /\ sipConn' = "closed"
  /\ UNCHANGED <<bufVars, unAck_segNum, bufMutex, appVars, hdlVars, timerVars, netVars>>

AppStep ==
  \/ Enqueue \/ WindowOpen \/ SendFirstUnsent \/ SendReturn \/ SendFails
  \/ AdvanceUnsent \/ LoadUnAck \/ StoreUnAck

HandlerStep == LockForAck \/ FreeHead \/ StoreUnAckDown \/ AckDone \/ HandlerEnds

TimerLook == TimerExit \/ TimerPoll
TimerWalk == TimerResend \/ TimerDone \/ TimerFails

SenderNext ==
  \/ \E n \in 1..Len(AppStream) : SendCall(n)
  \/ AppStep
  \/ \E a \in s2c : RecvAck(a) \/ LoseAck(a)
  \/ HandlerStep
  \/ TimerLook \/ TimerYoung \/ TimerExpire \/ TimerWalk
  \/ SipCloses

SenderTypeOK ==
  /\ sendSegs \in Seq(Segs)
  /\ next_seqNum \in Nat
  /\ sendBufHead \in Node \cup {NULL}
  /\ sendBufunSent \in Node \cup {NULL}
  /\ unAck_segNum \in 0..UINT-1
  /\ bufMutex \in {"free", "handler", "timer", "dead"}
  /\ appPc \in {"idle", "queue", "window", "copy", "advance", "load", "store"}
  /\ toQueue \in Nat
  /\ appReg \in 0..UINT-1
  /\ hdlPc \in {"recv", "lock", "free", "store", "ended"}
  /\ hdlAck \in Nat
  /\ hdlReg \in 0..UINT-1
  /\ polling \in Nat
  /\ checking \in Nat
  /\ walk \in Node \cup {NULL}
  /\ sipConn \in {"open", "closed"}
=============================================================================
