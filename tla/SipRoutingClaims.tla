--------------------------- MODULE SipRoutingClaims ---------------------------
(* What a comment of constants.h (65) says of SIP and the code does not keep. *)
EXTENDS MCSipRouting

(* StoppedIsClosed: a node whose process has stopped after its neighbours  *)
(* took all its messages is not reached over a link any more: "if two      *)
(* nodes are disconnected, the cost of the link between them is            *)
(* INFINITE_COST".  routeupdate_daemon may send its first message, CONNECT,*)
(* after the CLOSE of sip_stop.                                            *)
StoppedIsClosed ==
  stops > 0 =>
    \A n \in Running : \A m \in Nbrs(n) \cap Stoppable :
      sip[m] = "down" /\ chan[<<m, n>>] = <<>> => nct[n][m] = INFINITE_COST
=============================================================================
