------------------------------- MODULE SonFrames -------------------------------
(***************************************************************************)
(* The frames of pkt.c on the TCP connections between SON processes and    *)
(* between a SON and its SIP process: "!&", a packet, "!#", each put in    *)
(* the stream by a send() of its own.  What one send() puts there is a     *)
(* token; packets do not contain the delimiters and are longer than all    *)
(* delimiters that can stand side by side.                                 *)
(***************************************************************************)
EXTENDS Integers, Sequences

NoPkt == <<>>
Start == [is |-> "!&", pkt |-> NoPkt]
Stop == [is |-> "!#", pkt |-> NoPkt]
Data(p) == [is |-> "pkt", pkt |-> p]

\* What a sender sends in its three calls of send().
Part(k, p) == <<Start, Data(p), Stop>>[k]
FaultyFrame(p) == <<Start, Data(p)>>
Frame(p) == <<Start, Data(p), Stop>>

\* A receiver between two calls, or in the middle of one.
AtStart == [state |-> "PKTSTART1", pkt |-> NoPkt]

\* recvpkt after the next token: where it is, and what it returns, 0 while it
\* reads on.  When a delimiter stands where the packet should begin, the
\* receiver takes it and all but the end of the next packet for the packet
\* ("GARBLED") and then misses the "!"; what is left is skipped by the next call.
FaultyReturns(r, token) ==
  CASE r.state = "PKTSTOP1" -> IF token = Start THEN 1 ELSE -1
    [] r.state = "GARBLED" /\ token.is = "pkt" -> -1
    [] OTHER -> 0

Returns(r, token) ==
  CASE r.state = "PKTSTOP1" -> IF token = Stop THEN 1 ELSE -1
    [] r.state = "GARBLED" /\ token.is = "pkt" -> -1
    [] OTHER -> 0

FaultyGoes(r, token) ==
  CASE r.state = "PKTSTART1" /\ token = Start -> [r EXCEPT !.state = "PKTRECV"]
    [] r.state = "PKTRECV" /\ token.is = "pkt" -> [state |-> "PKTSTOP1", pkt |-> token.pkt]
    [] r.state \in {"PKTRECV", "GARBLED"} -> [r EXCEPT !.state = "GARBLED"]
    [] OTHER -> AtStart

Goes(r, token) ==
  CASE r.state = "PKTSTART1" /\ token = Start -> [r EXCEPT !.state = "PKTRECV"]
    [] r.state = "PKTRECV" /\ token.is = "pkt" -> [state |-> "PKTSTOP1", pkt |-> token.pkt]
    [] r.state \in {"PKTRECV", "GARBLED"} /\ token.is # "pkt" -> [r EXCEPT !.state = "GARBLED"]
    [] OTHER -> AtStart
=============================================================================
