------------------------------ MODULE StcpHandshake -----------------------------
(***************************************************************************)
(* STCP of Exp4-1: connection management alone.  The client application    *)
(* connects on its two sockets, sleeps, and closes one after the other;    *)
(* the server application accepts the two, sleeps and closes them.  All    *)
(* segments share one TCP connection, where the receivers drop some.       *)
(* Socket i of the client talks to socket i of the server.  The client's   *)
(* seghandler shares no lock with the application, and ends for good at    *)
(* the first segment for a port that has no entry.  Sleeps and timeouts    *)
(* end at any moment.                                                      *)
(***************************************************************************)
EXTENDS Integers, Sequences

CONSTANTS MaxRetry     \* SYN_MAX_RETRY and FIN_MAX_RETRY

ASSUME HandshakeAssumption == MaxRetry \in Nat

Sock == 1..2

VARIABLES
  clTcb, svTcb,        \* states of the entries of tcb_list, or "NULL"
  clAt, svAt,          \* what the applications are doing, and with which socket
  tries,
  clSeg, svSeg,        \* the threads seghandler: "on", "gone"; "closewait" after ret -2
  svIn, clIn,          \* segments on their way
  clUp, svUp,          \* FALSE: the process has ended
  reset,               \* the TCP connection was reset, not closed
  connected, finned, disconnected, closed   \* history: sockets of which the call succeeded, or FIN went out

clVars == <<clTcb, clAt, tries, connected, finned, disconnected>>
svVars == <<svTcb, svAt, closed>>
tcp == <<svIn, clIn, clUp, svUp, reset>>
handshakeVars == <<clVars, svVars, clSeg, svSeg, tcp>>

At(op, i) == [op |-> op, sock |-> i]
Msg(type, i) == [type |-> type, sock |-> i]
Set(tcb, i, state) == [tcb EXCEPT ![i] = state]

HandshakeInit ==
  /\ clTcb = [i \in Sock |-> "NULL"] /\ svTcb = [i \in Sock |-> "NULL"]
  /\ clAt = At("sock", 1) /\ svAt = At("sock", 1) /\ tries = 0
  /\ clSeg = "on" /\ svSeg = "on" /\ svIn = <<>> /\ clIn = <<>>
  /\ clUp = TRUE /\ svUp = TRUE /\ reset = FALSE
  /\ connected = {} /\ finned = {} /\ disconnected = {} /\ closed = {}
-----------------------------------------------------------------------------
(* The client application                                                  *)

DoesCl(op, i) == clUp /\ clAt = At(op, i)

SendCl(type, i) ==
  /\ svIn' = IF svUp THEN Append(svIn, Msg(type, i)) ELSE svIn
  /\ UNCHANGED <<clIn, clUp, svUp, reset>>

\* stcp_client_sock, then connect or disconnect sends its first segment ...
Sends(i) ==
  /\ \/ /\ DoesCl("sock", i) /\ clAt' = At("sent", i)
        /\ clTcb' = Set(clTcb, i, "CLOSED") /\ SendCl("SYN", i) /\ UNCHANGED finned
     \/ /\ DoesCl("disconnect", i) /\ clAt' = At("finished", i)
        /\ finned' = finned \cup {i} /\ SendCl("FIN", i) /\ UNCHANGED clTcb
  /\ UNCHANGED <<tries, connected, disconnected, svVars, clSeg, svSeg>>

\* ... and only then sets the state in which the answer counts.
Awaits(i) ==
  /\ \/ DoesCl("sent", i) /\ clAt' = At("connecting", i) /\ clTcb' = Set(clTcb, i, "SYNSENT")
     \/ DoesCl("finished", i) /\ clAt' = At("closing", i) /\ clTcb' = Set(clTcb, i, "FINWAIT")
  /\ tries' = 0
  /\ UNCHANGED <<connected, finned, disconnected, svVars, clSeg, svSeg, tcp>>

\* After a timeout: the answer has come, and the application goes on,
AnswerCame(i) ==
  /\ \/ /\ DoesCl("connecting", i) /\ clTcb[i] = "CONNECTED"
        /\ clAt' = IF i = 1 THEN At("sock", 2) ELSE At("disconnect", 1)
        /\ connected' = connected \cup {i} /\ UNCHANGED <<clTcb, disconnected>>
     \/ /\ DoesCl("closing", i) /\ clTcb[i] = "CLOSED"    \* and stcp_client_close
        /\ clTcb' = Set(clTcb, i, "NULL")
        /\ clAt' = IF i = 1 THEN At("disconnect", 2) ELSE At("exit", 2)
        /\ disconnected' = disconnected \cup {i} /\ UNCHANGED connected
  /\ UNCHANGED <<tries, finned, svVars, clSeg, svSeg, tcp>>

\* or the segment is sent again,
SendsAgain(i) ==
  /\ tries < MaxRetry /\ tries' = tries + 1
  /\ \/ DoesCl("connecting", i) /\ clTcb[i] # "CONNECTED" /\ SendCl("SYN", i)
     \/ DoesCl("closing", i) /\ clTcb[i] # "CLOSED" /\ SendCl("FIN", i)
  /\ UNCHANGED <<clTcb, clAt, connected, finned, disconnected, svVars, clSeg, svSeg>>

\* or the call has failed.
Fails(i) ==
  /\ (DoesCl("connecting", i) \/ DoesCl("closing", i)) /\ tries = MaxRetry
  /\ clAt' = At("exit", i) /\ clTcb' = Set(clTcb, i, "CLOSED")
  /\ UNCHANGED <<tries, connected, finned, disconnected, svVars, clSeg, svSeg, tcp>>

\* exit, or SIGPIPE when the server has ended.  What is not read by then
\* resets the connection.
ClEnds ==
  /\ clUp /\ (clAt.op = "exit" \/ (~svUp /\ clAt.op \in {"sock", "connecting", "disconnect", "closing"}))
  /\ clUp' = FALSE /\ clIn' = <<>> /\ reset' = (reset \/ clIn # <<>>)
  /\ UNCHANGED <<clVars, svVars, clSeg, svSeg, svIn, svUp>>
-----------------------------------------------------------------------------
(* The client's seghandler                                                 *)

Answers(i, msg) ==
  \/ clTcb[i] = "SYNSENT" /\ msg.type = "SYNACK" /\ clTcb' = Set(clTcb, i, "CONNECTED")
  \/ clTcb[i] = "FINWAIT" /\ msg.type = "FINACK" /\ clTcb' = Set(clTcb, i, "CLOSED")

\* Without an effect if the segment is lost or its type is not waited for.
ClGets ==
  /\ clUp /\ clSeg = "on" /\ clIn # <<>> /\ clIn' = Tail(clIn)
  /\ LET msg == Head(clIn) IN
     \/ UNCHANGED <<clTcb, clSeg>>
     \/ clTcb[msg.sock] = "NULL" /\ clSeg' = "gone" /\ UNCHANGED clTcb
     \/ Answers(msg.sock, msg) /\ UNCHANGED clSeg
  /\ UNCHANGED <<clAt, tries, connected, finned, disconnected, svVars, svSeg, svIn, clUp, svUp, reset>>
-----------------------------------------------------------------------------
(* The server                                                              *)

DoesSv(op, i) == svUp /\ svAt = At(op, i)

\* stcp_server_sock, and stcp_server_accept up to the wait: before, and between
\* the two, a segment for the socket is ignored.
AcceptBegins(i) ==
  /\ DoesSv("sock", i) /\ svTcb' = Set(svTcb, i, "LISTENING") /\ svAt' = At("accepting", i)
  /\ UNCHANGED <<closed, clVars, clSeg, svSeg, tcp>>

\* The condition is looked at when the thread runs again: a state that has
\* moved on to CLOSEWAIT by then keeps it waiting.
AcceptReturns(i) ==
  /\ DoesSv("accepting", i) /\ svTcb[i] = "CONNECTED"
  /\ svAt' = IF i = 1 THEN At("sock", 2) ELSE At("close", 1)
  /\ UNCHANGED <<svTcb, closed, clVars, clSeg, svSeg, tcp>>

\* After the sleep; -1 makes the application exit.
CloseSv(i) ==
  /\ DoesSv("close", i)
  /\ IF svTcb[i] = "CLOSED"
     THEN /\ svTcb' = Set(svTcb, i, "NULL") /\ closed' = closed \cup {i}
          /\ svAt' = IF i = 1 THEN At("close", 2) ELSE At("exit", 2)
     ELSE svAt' = At("exit", i) /\ UNCHANGED <<svTcb, closed>>
  /\ UNCHANGED <<clVars, clSeg, svSeg, tcp>>

SvEnds ==
  /\ svUp /\ (svAt.op = "exit" \/ (~clUp /\ svSeg = "on" /\ svIn # <<>>))
  /\ svUp' = FALSE /\ svIn' = <<>>
  /\ UNCHANGED <<clVars, svVars, clSeg, svSeg, clIn, clUp, reset>>

FaultyReplies(i, msg) ==
  {r \in {[in |-> "LISTENING", on |-> "SYN", state |-> "CONNECTED", answer |-> "SYNACK"],
          [in |-> "CONNECTED", on |-> "SYN", state |-> "CONNECTED", answer |-> "SYNACK"],
          [in |-> "CONNECTED", on |-> "FIN", state |-> "CONNECTED", answer |-> "FINACK"]} :
     r.in = svTcb[i] /\ r.on = msg.type}

\* What the server makes of a segment: the next state and the answer.
Replies(i, msg) ==
  {r \in {[in |-> "LISTENING", on |-> "SYN", state |-> "CONNECTED", answer |-> "SYNACK"],
          [in |-> "CONNECTED", on |-> "SYN", state |-> "CONNECTED", answer |-> "SYNACK"],
          [in |-> "CONNECTED", on |-> "FIN", state |-> "CLOSEWAIT", answer |-> "FINACK"],
          [in |-> "CLOSEWAIT", on |-> "FIN", state |-> "CLOSEWAIT", answer |-> "FINACK"]} :
     r.in = svTcb[i] /\ r.on = msg.type}

SvGets ==
  /\ svUp /\ svSeg = "on" /\ svIn # <<>> /\ svIn' = Tail(svIn)
  /\ LET msg == Head(svIn) i == msg.sock IN
     \/ UNCHANGED <<svTcb, clIn, reset>>
     \/ \E r \in Replies(i, msg) :
          /\ svTcb' = Set(svTcb, i, r.state)
          /\ clIn' = IF clUp THEN Append(clIn, Msg(r.answer, i)) ELSE clIn
          /\ reset' = (reset \/ ~clUp)
  /\ UNCHANGED <<clVars, svAt, closed, clSeg, svSeg, clUp, svUp>>

\* The client has closed the TCP connection: ret is -2, or -1 if it is reset.
SvEof ==
  /\ svUp /\ svSeg = "on" /\ svIn = <<>> /\ ~clUp
  /\ svSeg' \in {"closewait"} \cup (IF reset THEN {"gone"} ELSE {})
  /\ UNCHANGED <<clVars, svVars, clSeg, tcp>>

FaultyCloseWaitEnds ==
  /\ svUp /\ \E i \in Sock : svTcb[i] = "CLOSEWAIT"
  /\ svTcb' = [i \in Sock |-> IF svTcb[i] = "CLOSEWAIT" THEN "CLOSED" ELSE svTcb[i]]
  /\ UNCHANGED <<svAt, closed, clVars, clSeg, svSeg, tcp>>

\* From then on every CLOSEWAIT_TIMEOUT.
CloseWaitEnds ==
  /\ svUp /\ svSeg = "closewait" /\ \E i \in Sock : svTcb[i] = "CLOSEWAIT"
  /\ svTcb' = [i \in Sock |-> IF svTcb[i] = "CLOSEWAIT" THEN "CLOSED" ELSE svTcb[i]]
  /\ UNCHANGED <<svAt, closed, clVars, clSeg, svSeg, tcp>>

HandshakeNext ==
  \/ \E i \in Sock :
       \/ Sends(i) \/ Awaits(i) \/ AnswerCame(i) \/ SendsAgain(i) \/ Fails(i)
       \/ AcceptBegins(i) \/ AcceptReturns(i) \/ CloseSv(i)
  \/ ClEnds \/ ClGets \/ SvEnds \/ SvGets \/ SvEof \/ CloseWaitEnds

HandshakeSpec == HandshakeInit /\ [][HandshakeNext]_handshakeVars
-----------------------------------------------------------------------------
HandshakeTypeOK ==
  /\ \A i \in Sock :
       /\ clTcb[i] \in {"NULL", "CLOSED", "SYNSENT", "CONNECTED", "FINWAIT"}
       /\ svTcb[i] \in {"NULL", "CLOSED", "LISTENING", "CONNECTED", "CLOSEWAIT"}
  /\ tries \in 0..MaxRetry /\ clSeg \in {"on", "gone"} /\ svSeg \in {"on", "gone", "closewait"}

\* What the server has taken of socket i.
Opened(i) == svTcb[i] \in {"CONNECTED", "CLOSEWAIT", "CLOSED"} \/ i \in closed
FinTaken(i) == svTcb[i] \in {"CLOSEWAIT", "CLOSED"} \/ i \in closed

\* What one side believes the other side has done: a connect that succeeded
\* means the server has taken the connection; a disconnect that succeeded, that
\* it has seen FIN; and a socket closed by the server was given up by the
\* client, which has ended by then.
HandshakeAgrees ==
  /\ \A i \in connected : Opened(i)
  /\ \A i \in disconnected : FinTaken(i)
  /\ \A i \in Sock : svTcb[i] = "CLOSED" \/ i \in closed => i \in finned /\ ~clUp

\* Each socket goes through SYN, SYNACK, FIN and FINACK in that order at both
\* ends, whatever the receivers drop and whichever call gives up.
Socket == INSTANCE StcpConnection WITH
            Connections <- Sock,
            opened <- {i \in Sock : Opened(i)},
            established <- connected,
            finned <- finned,
            finTaken <- {i \in Sock : FinTaken(i)},
            disconnected <- disconnected
ImplementsSockets == Socket!ConnectionSpec
=============================================================================
