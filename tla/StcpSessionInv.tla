---------------------------- MODULE StcpSessionInv ----------------------------
(***************************************************************************)
(* The inductive invariant of StcpSession.                                 *)
(***************************************************************************)
EXTENDS StcpSession

\* The client has sent a FIN for the connection.
FinSent(c) == cliApp[c] \in {"disconnecting", "shut", "done"}

\* The call the client's application thread is in, how often it has repeated
\* its segment, and that its seghandler has an entry in hand.
ClientControl ==
  /\ cliPc \in {"synsent", "synwait", "syngiveup"} =>
       cliConn \in Conn /\ cliApp[cliConn] = "connecting"
  /\ cliPc \in {"finsent", "finwait", "fingiveup"} =>
       cliConn \in Conn /\ cliApp[cliConn] = "disconnecting"
  /\ cliPc = "synwait" => retry < SYN_MAX_RETRY
  /\ cliPc = "finwait" => retry < FIN_MAX_RETRY
  /\ hdlPc \in {"found", "write"} => hdlConn \in Conn /\ hdlType \in {"SYNACK", "FINACK"}

ServerControl ==
  /\ srvPc \in {"accept", "woken"} => srvConn \in Conn /\ srvApp[srvConn] = "accepting"
  /\ shdPc = "found" => shdConn \in Conn /\ shdType \in {"SYN", "FIN"}
  /\ \A c \in Conn :
       /\ srvApp[c] = "unused" => srvState[c] = "NULL"
       /\ srvApp[c] = "sock" => srvState[c] = "CLOSED"

\* What a segment in flight, or in the hands of a seghandler, tells: it was
\* sent by the other side, which has gone at least as far as that.
SegInv ==
  /\ \A c \in Conn :
       /\ synacks[c] > 0 => Opened(c)
       /\ finacks[c] > 0 => FinTaken(c)
       /\ fins[c] > 0 => FinSent(c)
  /\ hdlPc \in {"found", "write"} /\ hdlType = "SYNACK" => Opened(hdlConn)
  /\ hdlPc \in {"found", "write"} /\ hdlType = "FINACK" => FinTaken(hdlConn)
  /\ shdPc = "found" /\ shdType = "FIN" => FinSent(shdConn)

\* The state of the client's entry says what the server has done.
StateInv ==
  /\ \A c \in Conn : cliState[c] = "CONNECTED" => Opened(c)
  /\ cliPc = "finwait" /\ cliState[cliConn] = "CLOSED" => FinTaken(cliConn)

SessionInv ==
  /\ TypeOK
  /\ ClientControl
  /\ ServerControl
  /\ SegInv
  /\ StateInv
  /\ EstablishedBothEnds
  /\ OrderlyClose
  /\ CloseOnlyOnFin
=============================================================================
