--------------------------- MODULE StcpSessionClaims --------------------------
(***************************************************************************)
(* What the comments of stcp_client.h say of opening and closing, and TLC  *)
(* refutes.                                                                *)
(***************************************************************************)
EXTENDS MCStcpSession

\* stcp_client.h 114-115: seghandler is an infinite loop around sip_recvseg,
\* and the thread ends when the connection to the SIP process is closed.  It
\* ends as well at the first late segment for a connection the application
\* has closed, and no other connection gets a segment any more.
HandlerEndsWithSip == hdlPc = "ended" => sip = "closed"

\* stcp_client.h 72-73: when the SYNACK arrives stcp_client_connect returns 1,
\* and otherwise it goes to CLOSED and returns -1.  It returns -1 also when
\* the SYNACK arrives after its last look at the state.
SynackWins ==
  [][cliPc = "syngiveup" /\ cliPc' = "failed" => cliState[cliConn] # "CONNECTED"]_vars
=============================================================================
