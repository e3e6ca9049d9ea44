------------------------------ MODULE StcpTransfer ------------------------------
(***************************************************************************)
(* STCP of Exp4-2: a client that connects, sends and closes as             *)
(* app_stress_client does, and a server that accepts, receives and closes, *)
(* over one TCP connection whose receivers lose segments on purpose.       *)
(* Segments carry one unit of data each; unit n has sequence number n.     *)
(* The list from sendBufHead to sendBufTail is the range sendBufHead ..    *)
(* sendBufTail, and a pointer behind its end is NULL.  What is done under  *)
(* one lock is one step; what the locks leave out is not.  Time is open:   *)
(* sleeps and timeouts end at any moment.                                  *)
(***************************************************************************)
EXTENDS Integers, Sequences, FiniteSetsExt

CONSTANTS
  Calls,           \* the last unit of each call of stcp_client_send
  GBN_WINDOW, RECEIVE_BUF_SIZE, SYN_MAX_RETRY, FIN_MAX_RETRY,
  MaxResends       \* bound: expiries of the resend timer

ASSUME TransferAssumption ==
  /\ Calls \in Seq(Nat \ {0}) \ {<<>>} /\ \A i, j \in DOMAIN Calls : i < j => Calls[i] < Calls[j]
  /\ {GBN_WINDOW, RECEIVE_BUF_SIZE} \subseteq Nat \ {0}
  /\ {SYN_MAX_RETRY, FIN_MAX_RETRY, MaxResends} \subseteq Nat

VARIABLES
  cstate,          \* state of the client's entry, "NULL" after stcp_client_close
  capp, retry,     \* where the client's application is; retry of connect and disconnect
  call,            \* the call of stcp_client_send it is in
  sendBufHead, sendBufunSent, sendBufTail,
  unAck_segNum,    \* unsigned: below 0 it is greater than any window
  loaded,          \* what the application read of unAck_segNum for its ++
  timers,          \* sendBuf_timer threads
  resends,
  chandler,        \* the client's seghandler: "on", "gone"
  sstate, sapp,    \* the server's entry and application
  expect_seqNum, recvBuf, usedBufLen,
  shandler,        \* the server's seghandler: "on", "copied", "gone"
  copied,          \* where it copied to
  delivered,       \* the units stcp_server_recv has returned
  toServer, toClient,    \* segments on their way
  clientUp, serverUp,    \* FALSE: the process has ended
  hasty,           \* history: FIN was sent while data was not acknowledged
  discarded,       \* history: units that timer_thread threw away
  bufRaced, countRaced   \* history: usedBufLen, unAck_segNum were written at once by two threads

clientApp == <<capp, retry, call, hasty>>
sendBuf == <<sendBufHead, sendBufunSent, sendBufTail, unAck_segNum, loaded, timers, resends, countRaced>>
clientVars == <<cstate, clientApp, sendBuf, chandler>>
recvState == <<expect_seqNum, recvBuf, usedBufLen, shandler, copied, delivered, discarded, bufRaced>>
serverVars == <<sstate, sapp, recvState>>
links == <<toServer, toClient>>
ups == <<clientUp, serverUp>>
transferVars == <<clientVars, serverVars, links, ups>>

Seg(type, seq) == [type |-> type, seq |-> seq]
Units == Calls[Len(Calls)]

TransferInit ==
  /\ cstate = "CLOSED" /\ capp = "connect" /\ retry = 0 /\ call = 1 /\ hasty = FALSE
  /\ sendBufHead = 1 /\ sendBufunSent = 1 /\ sendBufTail = 0 /\ unAck_segNum = 0 /\ loaded = 0
  /\ timers = 0 /\ resends = 0 /\ countRaced = FALSE /\ chandler = "on"
  /\ sstate = "CLOSED" /\ sapp = "accept" /\ expect_seqNum = 0
  /\ recvBuf = [i \in 1..RECEIVE_BUF_SIZE |-> 0] /\ usedBufLen = 0
  /\ shandler = "on" /\ copied = 0 /\ delivered = <<>> /\ discarded = 0 /\ bufRaced = FALSE
  /\ toServer = <<>> /\ toClient = <<>> /\ clientUp = TRUE /\ serverUp = TRUE
-----------------------------------------------------------------------------
(* The client's application: connect, send, disconnect, close              *)

\* sip_sendseg; what is sent to a process that has ended is lost.
ToServer(segs) ==
  /\ toServer' = IF serverUp THEN toServer \o segs ELSE toServer
  /\ UNCHANGED toClient

\* Or SIGPIPE ends the sender.
ClientKilled ==
  /\ clientUp /\ ~serverUp /\ (capp \in {"connect", "connecting", "sending", "disconnect", "closing"} \/ timers > 0)
  /\ clientUp' = FALSE /\ UNCHANGED <<clientVars, serverVars, links, serverUp>>

Goto(from, to) == clientUp /\ capp = from /\ capp' = to

\* SYN or FIN goes out before the state says so: an answer in between is ignored.
SendFirst ==
  \/ /\ Goto("connect", "synsent") /\ ToServer(<<Seg("SYN", 1)>>)
     /\ UNCHANGED <<cstate, retry, call, hasty, sendBuf, chandler, serverVars, ups>>
  \/ /\ Goto("disconnect", "finsent") /\ ToServer(<<Seg("FIN", sendBufTail + 1)>>)
     /\ hasty' = (sendBufHead <= sendBufTail)
     /\ UNCHANGED <<cstate, retry, call, sendBuf, chandler, serverVars, ups>>

SetState ==
  /\ \/ Goto("synsent", "connecting") /\ cstate' = "SYNSENT"
     \/ Goto("finsent", "closing") /\ cstate' = "FINWAIT"
  /\ retry' = 0
  /\ UNCHANGED <<call, hasty, sendBuf, chandler, serverVars, links, ups>>

\* The loop of connect and of disconnect after a timeout.
Retry(at, wanted, next, seg, maxRetry) ==
  \/ /\ cstate = wanted /\ Goto(at, next)
     /\ retry' = 0 /\ UNCHANGED <<cstate, links>>
  \/ /\ cstate # wanted /\ retry < maxRetry /\ Goto(at, at)
     /\ ToServer(<<seg>>) /\ retry' = retry + 1 /\ UNCHANGED cstate
  \/ /\ retry = maxRetry /\ Goto(at, "failed")
     /\ cstate' = "CLOSED" /\ UNCHANGED <<retry, links>>

Retries ==
  /\ \/ Retry("connecting", "CONNECTED", "queue", Seg("SYN", 1), SYN_MAX_RETRY)
     \/ Retry("closing", "CLOSED", "close", Seg("FIN", sendBufTail + 1), FIN_MAX_RETRY)
  /\ UNCHANGED <<call, hasty, sendBuf, chandler, serverVars, ups>>

\* The next segment of this call; one in an empty buffer gets a timer thread.
Enqueue ==
  /\ Goto("queue", IF sendBufTail + 1 = Calls[call] THEN "launch" ELSE "queue")
  /\ sendBufTail' = sendBufTail + 1
  /\ timers' = IF sendBufHead > sendBufTail THEN timers + 1 ELSE timers
  /\ UNCHANGED <<cstate, retry, call, hasty, sendBufHead, sendBufunSent, unAck_segNum, loaded,
                 resends, countRaced, chandler, serverVars, links, ups>>

\* The first segment not sent is copied; if there is none the call returns,
\* and after the last one the application sleeps and disconnects.
Launch ==
  /\ 0 <= unAck_segNum /\ unAck_segNum < GBN_WINDOW
  /\ \/ /\ sendBufunSent <= sendBufTail /\ Goto("launch", "sending") /\ UNCHANGED call
     \/ /\ sendBufunSent > sendBufTail
        /\ IF call < Len(Calls) THEN Goto("launch", "queue") /\ call' = call + 1
           ELSE Goto("launch", "disconnect") /\ UNCHANGED call
  /\ UNCHANGED <<cstate, retry, hasty, sendBuf, chandler, serverVars, links, ups>>

SendData ==
  /\ Goto("sending", "sent") /\ ToServer(<<Seg("DATA", sendBufunSent)>>)
  /\ UNCHANGED <<cstate, retry, call, hasty, sendBuf, chandler, serverVars, ups>>

\* sendBufunSent = sendBufunSent->next, without a lock: the segment may be
\* acknowledged and freed by now, and anything may be read then.
Advance ==
  /\ Goto("sent", "count")
  /\ sendBufunSent' = sendBufunSent + 1 /\ loaded' = unAck_segNum
  /\ clientUp' \in (IF sendBufunSent < sendBufHead THEN BOOLEAN ELSE {TRUE})
  /\ UNCHANGED <<cstate, retry, call, hasty, sendBufHead, sendBufTail, unAck_segNum, timers,
                 resends, countRaced, chandler, serverVars, links, serverUp>>

Count ==
  /\ Goto("count", "launch") /\ unAck_segNum' = loaded + 1 /\ loaded' = 0
  /\ countRaced' = (countRaced \/ unAck_segNum # loaded)
  /\ UNCHANGED <<cstate, retry, call, hasty, sendBufHead, sendBufunSent, sendBufTail,
                 timers, resends, chandler, serverVars, links, ups>>

\* stcp_client_close frees the buffer and the entry; the process goes on for a while.
CloseClient ==
  /\ Goto("close", "done") /\ cstate' = "NULL"
  /\ UNCHANGED <<retry, call, hasty, sendBuf, chandler, serverVars, links, ups>>

\* exit(1) after a failed call, the end of main, or a timer thread that
\* finds no entry and dies of it.
ClientEnds ==
  /\ clientUp /\ (capp \in {"failed", "done"} \/ (cstate = "NULL" /\ timers > 0))
  /\ clientUp' = FALSE /\ toClient' = <<>>
  /\ UNCHANGED <<clientVars, serverVars, toServer, serverUp>>
-----------------------------------------------------------------------------
(* sendBuf_timer and the client's seghandler                               *)

TimerEnds ==
  /\ clientUp /\ timers > 0 /\ cstate # "NULL" /\ sendBufHead > sendBufTail
  /\ timers' = timers - 1
  /\ UNCHANGED <<cstate, clientApp, sendBufHead, sendBufunSent, sendBufTail, unAck_segNum, loaded,
                 resends, countRaced, chandler, serverVars, links, ups>>

\* Everything from sendBufHead to before sendBufunSent, or to the end if that
\* points to a segment that is freed.  If the application is sending too, the
\* frames may be torn.
Resend ==
  /\ clientUp /\ timers > 0 /\ cstate # "NULL" /\ sendBufHead <= sendBufTail
  /\ resends < MaxResends /\ resends' = resends + 1
  /\ LET end == IF sendBufunSent < sendBufHead THEN sendBufTail ELSE sendBufunSent - 1
         again == [i \in 1..(end - sendBufHead + 1) |-> Seg("DATA", sendBufHead + i - 1)]
     IN \/ ToServer(again) /\ UNCHANGED <<capp, retry, hasty>>
        \/ /\ again # <<>> /\ ToServer(<<Seg("torn", 0)>>)
           /\ \/ Goto("sending", "sent") /\ UNCHANGED <<retry, hasty>>
              \/ Goto("disconnect", "finsent") /\ hasty' = TRUE /\ UNCHANGED retry
              \/ /\ cstate # "CLOSED" /\ retry < FIN_MAX_RETRY /\ Goto("closing", "closing")
                 /\ retry' = retry + 1 /\ UNCHANGED hasty
  /\ UNCHANGED <<cstate, call, sendBufHead, sendBufunSent, sendBufTail, unAck_segNum,
                 loaded, timers, countRaced, chandler, serverVars, ups>>

FaultyFreed(seq) == Min({Max({sendBufHead, seq + 1}), sendBufTail + 1})
Freed(seq) == Max({sendBufHead, seq})

FaultyAcked(count) == IF count = 0 THEN unAck_segNum ELSE unAck_segNum - 1
Acked(count) == unAck_segNum - count

\* sip_recvseg and the handler for the segment, if seglost does not take it.
ClientGets ==
  /\ clientUp /\ chandler = "on" /\ toClient # <<>> /\ toClient' = Tail(toClient)
  /\ LET seg == Head(toClient) IN
     \/ UNCHANGED <<clientVars, serverVars>>
     \/ /\ cstate = "NULL" /\ chandler' = "gone"
        /\ UNCHANGED <<cstate, clientApp, sendBuf, serverVars>>
     \/ /\ \/ cstate = "SYNSENT" /\ seg.type = "SYNACK" /\ cstate' = "CONNECTED"
           \/ cstate = "FINWAIT" /\ seg.type = "FINACK" /\ cstate' = "CLOSED"
        /\ UNCHANGED <<clientApp, sendBuf, chandler, serverVars>>
     \/ /\ cstate = "CONNECTED" /\ seg.type = "DATAACK"
        /\ sendBufHead' = Freed(seg.seq)
        /\ unAck_segNum' = Acked(sendBufHead' - sendBufHead)
        /\ \/ UNCHANGED <<capp, countRaced>>
           \/ /\ sendBufHead' # sendBufHead /\ Goto("count", "launch")    \* its ++ is overwritten
              /\ countRaced' = TRUE
        /\ UNCHANGED <<cstate, retry, call, hasty, sendBufunSent, sendBufTail, loaded, timers, resends,
                       chandler, serverVars>>
  /\ UNCHANGED <<toServer, ups>>
-----------------------------------------------------------------------------
(* The server's application: accept, recv, close                           *)

ServerApp(from, to) == serverUp /\ sapp = from /\ sapp' = to

Listens ==
  /\ ServerApp("accept", "accepting") /\ sstate' = "LISTENING"
  /\ UNCHANGED <<recvState, clientVars, links, ups>>

\* pthread_cond_wait returns, and only CONNECTED counts.
Accepted ==
  /\ sstate = "CONNECTED" /\ ServerApp("accepting", "recv")
  /\ UNCHANGED <<sstate, recvState, clientVars, links, ups>>

\* There is a unit, bufMutex is held ...
RecvLooks ==
  /\ usedBufLen >= 1 /\ ServerApp("recv", "taking")
  /\ UNCHANGED <<sstate, recvState, clientVars, links, ups>>

\* ... and is taken, unless timer_thread has set usedBufLen to 0, when the
\* length of the memmove wraps around.
RecvTakes ==
  /\ IF usedBufLen = 0 THEN ServerApp("taking", "recv") /\ serverUp' = FALSE /\ UNCHANGED <<delivered, usedBufLen, recvBuf>>
     ELSE /\ ServerApp("taking", IF Len(delivered) + 1 = Units THEN "close" ELSE "recv")
          /\ delivered' = Append(delivered, recvBuf[1])
          /\ usedBufLen' = usedBufLen - 1
          /\ recvBuf' = [i \in DOMAIN recvBuf |-> IF i < usedBufLen THEN recvBuf[i + 1] ELSE recvBuf[i]]
          /\ UNCHANGED serverUp
  /\ UNCHANGED <<sstate, expect_seqNum, shandler, copied, discarded, bufRaced, clientVars, links, clientUp>>

\* stcp_server_close, -1 unless CLOSED; the process ends in both cases.
CloseServer ==
  /\ ServerApp("close", IF sstate = "CLOSED" THEN "done" ELSE "failed") /\ serverUp' = FALSE /\ toServer' = <<>>
  /\ UNCHANGED <<sstate, recvState, clientVars, toClient, clientUp>>

\* CLOSEWAIT_TIMEOUT; st_mutex is held, bufMutex is not.
TimerThread ==
  /\ serverUp /\ sstate = "CLOSEWAIT" /\ shandler # "copied"
  /\ sstate' = "CLOSED" /\ usedBufLen' = 0 /\ discarded' = discarded + usedBufLen
  /\ UNCHANGED <<sapp, expect_seqNum, recvBuf, shandler, copied, delivered, bufRaced, clientVars, links, ups>>
-----------------------------------------------------------------------------
(* The server's seghandler                                                 *)

ToClient(type, seq) == toClient' = IF clientUp THEN Append(toClient, Seg(type, seq)) ELSE toClient

FaultySequel(seg) == seg.seq >= expect_seqNum
Sequel(seg) == seg.seq = expect_seqNum

Room == usedBufLen + 1 <= RECEIVE_BUF_SIZE

\* The segment is handled in one step, or, DATA, up to the unlock of bufMutex.
Handles(seg) ==
  \/ /\ seg.type = "torn" /\ shandler' = "gone"
     /\ UNCHANGED <<sstate, expect_seqNum, recvBuf, copied, toClient>>
  \/ /\ sstate \in {"LISTENING", "CONNECTED"} /\ seg.type = "SYN"
     /\ sstate' = "CONNECTED" /\ expect_seqNum' = seg.seq
     /\ ToClient("SYNACK", seg.seq) /\ UNCHANGED <<recvBuf, shandler, copied>>
  \/ /\ sstate \in {"CONNECTED", "CLOSEWAIT"} /\ seg.type = "FIN"
     /\ sstate' = "CLOSEWAIT" /\ ToClient("FINACK", expect_seqNum)
     /\ UNCHANGED <<expect_seqNum, recvBuf, shandler, copied>>
  \/ /\ sstate = "CONNECTED" /\ seg.type = "DATA" /\ ~Sequel(seg)
     /\ ToClient("DATAACK", expect_seqNum)
     /\ UNCHANGED <<sstate, expect_seqNum, recvBuf, shandler, copied>>
  \/ /\ sstate = "CONNECTED" /\ seg.type = "DATA" /\ Sequel(seg)
     /\ sapp # "taking" /\ Room
     /\ recvBuf' = [recvBuf EXCEPT ![usedBufLen + 1] = seg.seq]
     /\ shandler' = "copied" /\ copied' = usedBufLen
     /\ UNCHANGED <<sstate, expect_seqNum, toClient>>

\* A segment is lost, or the state or a full buffer makes nothing of it.
ServerGets ==
  /\ serverUp /\ shandler = "on" /\ toServer # <<>> /\ toServer' = Tail(toServer)
  /\ Handles(Head(toServer)) \/ UNCHANGED <<sstate, expect_seqNum, recvBuf, shandler, copied, toClient>>
  /\ UNCHANGED <<sapp, usedBufLen, delivered, discarded, bufRaced, clientVars, ups>>

\* usedBufLen += length after the unlock: if stcp_server_recv has changed it
\* since the copy, one of the two changes may be lost.
ServerAdds ==
  /\ serverUp /\ shandler = "copied" /\ shandler' = "on" /\ copied' = 0
  /\ usedBufLen' \in (IF usedBufLen = copied THEN {copied + 1} ELSE {usedBufLen, usedBufLen + 1, copied + 1})
  /\ bufRaced' = (bufRaced \/ usedBufLen # copied)
  /\ expect_seqNum' = expect_seqNum + 1 /\ ToClient("DATAACK", expect_seqNum + 1)
  /\ UNCHANGED <<sstate, sapp, recvBuf, delivered, discarded, toServer, clientVars, ups>>

\* SIGPIPE, when the client has ended.
ServerKilled ==
  /\ serverUp /\ ~clientUp /\ (shandler = "copied" \/ (shandler = "on" /\ toServer # <<>>))
  /\ serverUp' = FALSE /\ toServer' = <<>>
  /\ UNCHANGED <<clientVars, serverVars, toClient, clientUp>>

TransferNext ==
  \/ SendFirst \/ SetState \/ Retries \/ Enqueue \/ Launch \/ SendData \/ Advance \/ Count
  \/ CloseClient \/ ClientEnds \/ ClientKilled \/ TimerEnds \/ Resend \/ ClientGets
  \/ Listens \/ Accepted \/ RecvLooks \/ RecvTakes \/ CloseServer \/ TimerThread
  \/ ServerGets \/ ServerAdds \/ ServerKilled

TransferSpec == TransferInit /\ [][TransferNext]_transferVars
-----------------------------------------------------------------------------
TransferTypeOK ==
  /\ cstate \in {"CLOSED", "SYNSENT", "CONNECTED", "FINWAIT", "NULL"}
  /\ sstate \in {"CLOSED", "LISTENING", "CONNECTED", "CLOSEWAIT"}
  /\ sendBufHead \in 1..(Units + 1) /\ sendBufunSent \in 1..(sendBufTail + 1) /\ sendBufTail \in 0..Units
  /\ unAck_segNum \in Int /\ timers \in 0..Units
  /\ usedBufLen \in 0..RECEIVE_BUF_SIZE /\ expect_seqNum \in 0..(Units + 1)
  /\ chandler \in {"on", "gone"} /\ shandler \in {"on", "copied", "gone"}

\* As long as usedBufLen was not changed by two threads at once, what the
\* application has received and what waits in the buffer are the units up to
\* the expected one, in order (after a timeout: what was received is their
\* beginning); and the client has freed nothing that was not accepted.
StreamKept ==
  /\ ~bufRaced =>
       LET all == delivered \o SubSeq(recvBuf, 1, usedBufLen) IN
       /\ \A i \in DOMAIN all : all[i] = i
       /\ expect_seqNum > 0 => Len(all) + discarded = expect_seqNum - 1
  /\ sendBufHead > 1 => sendBufHead <= expect_seqNum

\* unAck_segNum is the number of segments sent and not acknowledged, and within
\* the window, as long as the application's ++ and seghandler's -- did not collide.
WindowTrue ==
  ~countRaced =>
    LET counted == IF capp = "count" THEN 1 ELSE 0 IN
    unAck_segNum = sendBufunSent - sendBufHead - counted /\ unAck_segNum <= GBN_WINDOW

\* A server whose connection is closed, and whose application still waits for
\* data, was left by a client that sent FIN too early, or lost data to
\* timer_thread or to a collision.
StarvedExplained ==
  sstate = "CLOSED" /\ sapp = "recv" /\ usedBufLen = 0 => hasty \/ discarded > 0 \/ bufRaced

\* Every step is a step of the stream that STCP promises: the server takes over
\* the units the client has queued, one by one and in order, and no SYN that is
\* late or repeated starts the count again; what is freed was taken over.
Promise == INSTANCE StcpStream WITH
             Data <- 1..Units,
             written <- [i \in 1..sendBufTail |-> i],
             taken <- [i \in 1..(expect_seqNum - 1) |-> i],
             released <- sendBufHead - 1

\* And it is a step in the life of the one connection there is, or none.  A
\* failed call of connect left nothing in the send buffer.
Established == capp \notin {"connect", "synsent", "connecting"} /\ ~(capp = "failed" /\ sendBufTail = 0)
FinSent == capp \in {"finsent", "closing", "close", "done"} \/ (capp = "failed" /\ sendBufTail > 0)
FinSeen == sstate = "CLOSEWAIT" \/ (sstate = "CLOSED" /\ sapp # "accept")
SynSeen == sstate = "CONNECTED" \/ FinSeen
One(stage) == IF stage THEN {1} ELSE {}
Lifetime == INSTANCE StcpConnection WITH
              Connections <- {1},
              opened <- One(SynSeen),
              established <- One(Established),
              finned <- One(FinSent),
              finTaken <- One(FinSeen),
              disconnected <- One(capp \in {"close", "done"})

ImplementsTransfer == Promise!StreamSpec /\ Lifetime!ConnectionSpec
=============================================================================
