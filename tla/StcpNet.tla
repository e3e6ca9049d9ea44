------------------------------- MODULE StcpNet -------------------------------
(***************************************************************************)
(* What an STCP process sees of everything below it: the local SIP         *)
(* process, the SON overlay and the SIP process at the far end.  Each      *)
(* direction is the set of segments in flight.  A set forgets the order of *)
(* the segments (a route that changes while segments are under way         *)
(* reorders them) and a receipt may leave a copy behind (retransmission    *)
(* puts several copies of one segment in flight), so the model has every   *)
(* delivery the overlay can produce and more.  Losses happen where the     *)
(* code makes them, in the sip_recvseg call of the receiving thread.       *)
(***************************************************************************)

EXTENDS Naturals

CONSTANT Data    \* contents of a segment

VARIABLES
  c2s,   \* DATA segments in flight from the client to the server
  s2c    \* sequence numbers of the DATAACKs in flight from server to client

netVars == <<c2s, s2c>>

\* sip_sendseg on an open SIP connection: the segment is under way.
Sent(net, m) == net \cup {m}

\* sip_recvseg returned 0: the segment is delivered, and another copy of it
\* may still be in flight.
Received(net, m) == {net, net \ {m}}

\* sip_recvseg returned 1: seglost dropped the segment, or flipped a bit and
\* checkchecksum rejected it.
Lost(net, m) == net \ {m}

Segs == [seq : Nat, data : Data]

NetTypeOK ==
  /\ c2s \subseteq Segs
  /\ s2c \subseteq Nat

NetInit ==
  /\ c2s = {}
  /\ s2c = {}
=============================================================================
