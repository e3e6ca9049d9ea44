---------------------------- MODULE StcpDataClaims ---------------------------
(***************************************************************************)
(* What the comments of stcp_client.h and stcp_server.h say of the data    *)
(* transfer.  TLC refutes both: unAck_segNum and usedBufLen are updated    *)
(* outside bufMutex.                                                       *)
(***************************************************************************)
EXTENDS MCStcpData

\* stcp_client.h 86: stcp_client_send does not block, so a call returns.  It
\* does not when an update of unAck_segNum is lost and the window never opens
\* again, although every segment sent has been acknowledged.
SendReturns == (appPc # "idle") ~> (appPc = "idle")

\* stcp_server.h 28 and 72: bufMutex guards the receive buffer, and
\* stcp_server_recv receives the data the client sent.  It returns old or
\* missing data when an update of usedBufLen is lost.
DeliveredIsPrefix ==
  /\ Len(delivered) <= sendBufTail
  /\ \A i \in 1..Len(delivered) : delivered[i] = AppStream[i]
=============================================================================
