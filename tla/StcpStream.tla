------------------------------ MODULE StcpStream -----------------------------
(***************************************************************************)
(* What the data transfer of an STCP connection promises: the server takes *)
(* over exactly the data the client application wrote, in the order it was *)
(* written, and the client discards its copy of a segment only after the   *)
(* server has taken it over.                                               *)
(***************************************************************************)
EXTENDS Naturals, Sequences

CONSTANT Data

VARIABLES
  written,    \* the data the client application has put into the send buffer
  taken,      \* the data the server has taken over
  released    \* how many segments the client has discarded

streamVars == <<written, taken, released>>

StreamInit ==
  /\ written = <<>>
  /\ taken = <<>>
  /\ released = 0

Write ==
  /\ \E d \in Data : written' = Append(written, d)
  /\ UNCHANGED <<taken, released>>

Take ==
  /\ Len(taken) < Len(written)
  /\ taken' = Append(taken, written[Len(taken) + 1])
  /\ UNCHANGED <<written, released>>

Release ==
  /\ \E n \in (released + 1)..Len(taken) : released' = n
  /\ UNCHANGED <<written, taken>>

StreamNext == Write \/ Take \/ Release

StreamSpec == StreamInit /\ [][StreamNext]_streamVars
=============================================================================
