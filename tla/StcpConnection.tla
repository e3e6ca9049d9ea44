----------------------------- MODULE StcpConnection ---------------------------
(***************************************************************************)
(* What the connection management of STCP promises of the life of each     *)
(* connection, seen from both ends: it goes through its five stages in     *)
(* order, the stages of the client and those of the server alternate, and  *)
(* no stage is ever taken back.                                            *)
(***************************************************************************)
CONSTANT Connections

VARIABLES
  opened,        \* connections the server has opened
  established,   \* of which the client's connect has returned 1
  finned,        \* for which the client has sent its FIN
  finTaken,      \* for which the server has taken that FIN
  disconnected   \* of which the client's disconnect has returned 1

connectionVars == <<opened, established, finned, finTaken, disconnected>>

ConnectionInit ==
  /\ opened = {} /\ established = {}
  /\ finned = {} /\ finTaken = {} /\ disconnected = {}

Open(c) ==
  /\ opened' = opened \cup {c}
  /\ UNCHANGED <<established, finned, finTaken, disconnected>>

Establish(c) ==
  /\ c \in opened
  /\ established' = established \cup {c}
  /\ UNCHANGED <<opened, finned, finTaken, disconnected>>

Finish(c) ==
  /\ c \in established
  /\ finned' = finned \cup {c}
  /\ UNCHANGED <<opened, established, finTaken, disconnected>>

TakeFin(c) ==
  /\ c \in finned
  /\ finTaken' = finTaken \cup {c}
  /\ UNCHANGED <<opened, established, finned, disconnected>>

Disconnect(c) ==
  /\ c \in finTaken
  /\ disconnected' = disconnected \cup {c}
  /\ UNCHANGED <<opened, established, finned, finTaken>>

ConnectionNext ==
  \E c \in Connections : Open(c) \/ Establish(c) \/ Finish(c) \/ TakeFin(c) \/ Disconnect(c)

ConnectionSpec == ConnectionInit /\ [][ConnectionNext]_connectionVars
=============================================================================
