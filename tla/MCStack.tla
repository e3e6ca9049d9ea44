-------------------------------- MODULE MCStack --------------------------------
(***************************************************************************)
(* Small instances of what lies beside and below the STCP of Exp4-4 for    *)
(* TLC: its SON processes, the connection of a SON with its SIP, and the   *)
(* STCP of the two earlier experiments, Exp4-2 and Exp4-1.  One behaviour  *)
(* runs one of them: program says which, and the state of the others stays *)
(* as it was.                                                              *)
(***************************************************************************)
EXTENDS SonOverlay, SonSipLink, StcpTransfer, StcpHandshake, TLC

VARIABLE program

vars == <<program, overlayVars, linkState, transferVars, handshakeVars>>

Init ==
  /\ program \in {"overlay", "link", "transfer", "handshake"}
  /\ OverlayInit /\ LinkInit /\ TransferInit /\ HandshakeInit

Next ==
  /\ UNCHANGED program
  /\ \/ /\ program = "overlay" /\ OverlayNext
        /\ UNCHANGED <<linkState, transferVars, handshakeVars>>
     \/ /\ program = "link" /\ LinkNext
        /\ UNCHANGED <<overlayVars, transferVars, handshakeVars>>
     \/ /\ program = "transfer" /\ TransferNext
        /\ UNCHANGED <<overlayVars, linkState, handshakeVars>>
     \/ /\ program = "handshake" /\ HandshakeNext
        /\ UNCHANGED <<overlayVars, linkState, transferVars>>

Spec == Init /\ [][Next]_vars

\* Node 1, which accepts, is the neighbour of the two others, which connect.
Star == 1 :> {2, 3} @@ 2 :> {1} @@ 3 :> {1}

\* app_stress_client sends the length of the file, then the file.
LengthThenFile == <<1, 3>>
=============================================================================
