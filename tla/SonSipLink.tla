------------------------------- MODULE SonSipLink -------------------------------
(***************************************************************************)
(* The connection between the SON process and the SIP process of a node    *)
(* (Exp4-4).  On both sides several threads write frames to it, three      *)
(* calls of send() each, without a lock.  The SIP process skips what it    *)
(* cannot read; the SON process closes the connection then.  A process     *)
(* that sends on a connection the other end has closed may be killed by    *)
(* SIGPIPE, which none of the two handles, and each may be ended from      *)
(* outside this connection: by a signal, or by SIGPIPE on one of its other *)
(* connections.  Connection k is the one of the k-th SIP process.          *)
(***************************************************************************)
EXTENDS Integers, Sequences, SonFrames

CONSTANTS
  Listener,      \* the listen_to_neighbor threads of SON
  MaxSips,       \* bound: SIP processes started one after another
  MaxFrames      \* bound: packets that arrive from neighbours or that SIP sends

ASSUME LinkAssumption ==
  /\ MaxSips \in Nat /\ MaxFrames \in Nat
  /\ Listener \cap {"routeupdate_daemon", "pkthandler", "waitSTCP", "signal"} = {}

Sender == {"routeupdate_daemon", "pkthandler", "waitSTCP"}
Writer == Listener \cup Sender
Idle == [part |-> 0, pkt |-> NoPkt, on |-> 0, alone |-> FALSE]

VARIABLES
  sonAlive,      \* FALSE once the SON process has ended
  sip, sips,     \* the SIP process: "off", "up"; how many there were
  son_conn,      \* of SIP: FALSE is -1
  sip_conn,      \* of SON: the connection it has accepted, 0 is -1
  shut,          \* connections closed by SON
  toSip, toSon,  \* per connection, the tokens on their way
  sipReader, sonReader,
  writer,        \* per thread: its next send(), packet, connection
  returned,      \* threads of SIP that have returned
  frames,        \* how many packets were put in a frame
  lone, got,     \* history: packets whose frame nothing overlapped; packets received
  torn,          \* history: connections on which frames to SON overlapped
  outside        \* history: the processes, SON or SIP, ended from outside

linkState == <<sonAlive, sip, sips, son_conn, sip_conn, shut, toSip, toSon, sipReader, sonReader,
               writer, returned, frames, lone, got, torn, outside>>
sonVars == <<sonAlive, sip_conn, shut, sonReader>>
sipVars == <<sip, sips, son_conn, sipReader, returned, outside>>
streams == <<toSip, toSon>>
threads == <<writer, lone, torn>>

LinkInit ==
  /\ sonAlive = TRUE /\ sip = "off" /\ sips = 0 /\ son_conn = FALSE /\ sip_conn = 0
  /\ shut = {} /\ toSip = [k \in 1..MaxSips |-> <<>>] /\ toSon = [k \in 1..MaxSips |-> <<>>]
  /\ sipReader = AtStart /\ sonReader = AtStart
  /\ writer = [w \in Writer |-> Idle] /\ returned = {}
  /\ frames = 0 /\ lone = {} /\ got = {} /\ torn = {} /\ outside = {}

\* The threads of the same process that are inside a frame on connection k.
Inside(w, k) ==
  {v \in (IF w \in Listener THEN Listener ELSE Sender) \ {w} : writer[v].part > 1 /\ writer[v].on = k}

\* w writes its next token on connection k: the frames it cuts into, and its
\* own if it cuts into one, are not alone; after the third it is idle again.
Wrote(w, k) ==
  LET cut == Inside(w, k)
      alone == writer[w].alone /\ cut = {} /\ writer[w].on = k
      last == writer[w].part = 3
  IN /\ writer' = [v \in Writer |->
          IF v = w
          THEN IF last THEN Idle
               ELSE [part |-> writer[w].part + 1, pkt |-> writer[w].pkt, on |-> k, alone |-> alone]
          ELSE IF v \in cut THEN [writer[v] EXCEPT !.alone = FALSE] ELSE writer[v]]
     /\ lone' = IF last /\ alone THEN lone \cup {<<writer[w].pkt, k>>} ELSE lone
     /\ torn' = IF w \in Sender /\ cut # {} THEN torn \cup {k} ELSE torn

GivesUp(w) == writer' = [writer EXCEPT ![w] = Idle] /\ UNCHANGED <<lone, torn>>
Begins(w, p, k) ==
  /\ writer' = [writer EXCEPT ![w] = [part |-> 1, pkt |-> p, on |-> k, alone |-> TRUE]]
  /\ UNCHANGED <<lone, torn>>

\* What is on its way to a reader, or half read by it.
OnWay(stream, reader, p) == reader.pkt = p \/ \E i \in DOMAIN stream : stream[i].pkt = p
-----------------------------------------------------------------------------
(* SON: waitSIP, listen_to_neighbor                                        *)

\* accept: the next connection, even if its SIP process is gone by now.
AcceptSip ==
  /\ sonAlive /\ sip_conn = 0
  /\ \E k \in 1..sips : k \notin shut /\ (\A j \in 1..(k - 1) : j \in shut) /\ sip_conn' = k
  /\ sonReader' = AtStart
  /\ UNCHANGED <<sonAlive, shut, sipVars, streams, threads, frames, got>>

\* close, sip_conn = -1: what SIP has sent is never read.
Reaccept ==
  /\ sip_conn' = 0 /\ shut' = shut \cup {sip_conn} /\ sonReader' = AtStart
  /\ toSon' = [toSon EXCEPT ![sip_conn] = <<>>]

\* The process is gone, with all its threads: what SIP has sent is never read.
SonEnds ==
  /\ sonAlive' = FALSE /\ sonReader' = AtStart /\ toSon' = [k \in 1..MaxSips |-> <<>>]
  /\ writer' = [w \in Writer |-> IF w \in Listener THEN Idle ELSE writer[w]]
  /\ UNCHANGED <<sip_conn, shut, lone, torn>>

\* getpktToSend takes the next token.  What it returns is sent to neighbours, and
\* one that has gone may kill SON by SIGPIPE.
GetToken ==
  /\ sonAlive /\ sip_conn # 0 /\ toSon[sip_conn] # <<>>
  /\ LET token == Head(toSon[sip_conn])
         res == Returns(sonReader, token)
     IN /\ got' = IF res = 1 THEN got \cup {sonReader.pkt} ELSE got
        /\ \/ res = -1 /\ Reaccept /\ UNCHANGED <<sonAlive, threads, outside>>
           \/ /\ res # -1 /\ toSon' = [toSon EXCEPT ![sip_conn] = Tail(@)]
              /\ sonReader' = Goes(sonReader, token)
              /\ UNCHANGED <<sonAlive, sip_conn, shut, threads, outside>>
           \/ res = 1 /\ SonEnds /\ outside' = outside \cup {"SON"}
  /\ UNCHANGED <<toSip, sip, sips, son_conn, sipReader, returned, frames>>

\* son_stop on a signal, or SIGPIPE from its CLOSE to a neighbour that has gone.
SonStops ==
  /\ sonAlive /\ SonEnds /\ outside' = outside \cup {"SON"}
  /\ UNCHANGED <<toSip, sip, sips, son_conn, sipReader, returned, frames, got>>

SipHasGone(k) == k # sips \/ sip = "off" \/ ~son_conn

\* The end of the stream.
SipClosed ==
  /\ sonAlive /\ sip_conn # 0 /\ toSon[sip_conn] = <<>> /\ SipHasGone(sip_conn)
  /\ Reaccept
  /\ UNCHANGED <<sonAlive, toSip, sipVars, threads, frames, got>>

\* A packet from a neighbour; without a SIP process it is dropped.
Arrives(l) ==
  /\ sonAlive /\ writer[l].part = 0 /\ sip_conn # 0 /\ frames < MaxFrames
  /\ frames' = frames + 1 /\ Begins(l, <<"in", frames + 1>>, sip_conn)
  /\ UNCHANGED <<sonVars, sipVars, streams, got>>

\* A send() of forwardpktToSIP.  The descriptor was read when the call began:
\* by now it may be closed, or be that of the next connection.
ForwardPart(l) ==
  /\ sonAlive /\ writer[l].part > 0
  /\ \/ /\ sip_conn # 0
        /\ toSip' = IF SipHasGone(sip_conn) THEN toSip
                    ELSE [toSip EXCEPT ![sip_conn] = Append(@, Part(writer[l].part, writer[l].pkt))]
        /\ Wrote(l, sip_conn) /\ UNCHANGED <<sonVars, toSon>>
     \/ /\ sip_conn # writer[l].on \/ SipHasGone(sip_conn)
        /\ GivesUp(l) /\ UNCHANGED <<sonVars, streams>>
     \/ /\ sip_conn # 0 /\ SipHasGone(sip_conn)
        /\ SonEnds /\ UNCHANGED toSip
  /\ UNCHANGED <<sipVars, frames, got>>
-----------------------------------------------------------------------------
(* SIP: main, connectToSON, routeupdate_daemon, pkthandler, waitSTCP       *)

StartSip ==
  /\ sonAlive /\ sip = "off" /\ sips < MaxSips
  /\ sip' = "up" /\ sips' = sips + 1 /\ son_conn' = TRUE
  /\ UNCHANGED <<sipReader, returned, outside, sonVars, streams, threads, frames, got>>

\* The process is gone, with all its threads.
SipEnds ==
  /\ sip' = "off" /\ son_conn' = FALSE /\ sipReader' = AtStart /\ returned' = {}
  /\ toSip' = [toSip EXCEPT ![sips] = <<>>]
  /\ writer' = [w \in Writer |-> IF w \in Sender THEN Idle ELSE writer[w]]

\* A route update is due, or STCP has a segment with a next hop.
Begin(s) ==
  /\ sip = "up" /\ s \in Sender \ ({"pkthandler"} \cup returned)
  /\ writer[s].part = 0 /\ frames < MaxFrames
  /\ frames' = frames + 1 /\ Begins(s, <<"out", frames + 1>>, sips)
  /\ UNCHANGED <<sonVars, sipVars, streams, got>>

\* son_recvpkt takes the next token; -1 is answered by another call.  A packet
\* for another node is sent on.
Handle ==
  /\ sip = "up" /\ son_conn /\ "pkthandler" \notin returned
  /\ writer["pkthandler"].part = 0 /\ toSip[sips] # <<>>
  /\ LET token == Head(toSip[sips])
         res == Returns(sipReader, token)
     IN /\ sipReader' = Goes(sipReader, token)
        /\ got' = IF res = 1 THEN got \cup {sipReader.pkt} ELSE got
        /\ \/ UNCHANGED <<threads, frames>>
           \/ /\ res = 1 /\ frames < MaxFrames /\ frames' = frames + 1
              /\ Begins("pkthandler", <<"out", frames + 1>>, sips)
  /\ toSip' = [toSip EXCEPT ![sips] = Tail(@)]
  /\ UNCHANGED <<sip, sips, son_conn, returned, outside, toSon, sonVars>>

SonHasGone == ~sonAlive \/ sips \in shut

\* A send() of son_sendpkt.
SendToSon(s) ==
  /\ sip = "up" /\ writer[s].part > 0 /\ son_conn
  /\ toSon' = IF SonHasGone THEN toSon
              ELSE [toSon EXCEPT ![sips] = Append(@, Part(writer[s].part, writer[s].pkt))]
  /\ Wrote(s, sips)
  /\ UNCHANGED <<toSip, sonVars, sipVars, frames, got>>

\* It returns -1: the two other threads close son_conn and return, waitSTCP
\* calls sip_stop, whose CLOSE has no way to go.
SendFails(s) ==
  /\ sip = "up" /\ writer[s].part > 0 /\ (SonHasGone \/ ~son_conn)
  /\ IF s = "waitSTCP" THEN SipEnds
     ELSE /\ son_conn' = FALSE /\ returned' = returned \cup {s}
          /\ writer' = [writer EXCEPT ![s] = Idle] /\ UNCHANGED <<sip, sipReader, toSip>>
  /\ UNCHANGED <<sips, outside, toSon, sonVars, lone, torn, frames, got>>

\* SIGPIPE.
SipKilled(s) ==
  /\ sip = "up" /\ writer[s].part > 0 /\ SonHasGone /\ son_conn
  /\ SipEnds /\ UNCHANGED <<sips, outside, toSon, sonVars, lone, torn, frames, got>>

\* sip_stop on a signal sends CLOSE, wherever the other threads are; SIGPIPE
\* on the connection to a closed STCP process ends SIP without it.
StopSip ==
  /\ sip = "up" /\ outside' = outside \cup {"SIP"}
  /\ LET cut == Inside("signal", sips)
         close == <<"out", 0>>
     IN \/ UNCHANGED <<toSon, lone, torn>>
        \/ /\ son_conn /\ ~SonHasGone
           /\ toSon' = [toSon EXCEPT ![sips] = @ \o Frame(close)]
           /\ lone' = IF cut = {} THEN lone \cup {<<close, sips>>} ELSE lone
           /\ torn' = IF cut # {} THEN torn \cup {sips} ELSE torn
  /\ SipEnds /\ UNCHANGED <<sips, sonVars, frames, got>>

LinkNext ==
  \/ AcceptSip \/ GetToken \/ SipClosed \/ SonStops
  \/ \E l \in Listener : Arrives(l) \/ ForwardPart(l)
  \/ StartSip \/ Handle \/ StopSip
  \/ \E s \in Sender : Begin(s) \/ SendToSon(s) \/ SendFails(s) \/ SipKilled(s)

LinkSpec == LinkInit /\ [][LinkNext]_linkState
-----------------------------------------------------------------------------
LinkTypeOK ==
  /\ sip \in {"off", "up"} /\ sips \in 0..MaxSips /\ sip_conn \in 0..sips /\ sip_conn \notin shut
  /\ son_conn => sip = "up"
  /\ \A w \in Writer : writer[w].part \in 0..3 /\ writer[w].on \in 0..sips
  /\ returned \subseteq Sender /\ shut \subseteq 1..sips /\ torn \subseteq 1..sips
  /\ sipReader.state \in {"PKTSTART1", "PKTRECV", "GARBLED", "PKTSTOP1"}

\* A packet whose frame no other thread's frame overlapped is received, or
\* still on its way, whatever was garbled before it: son_recvpkt finds the
\* next frame.  It can only be lost when the receiver is gone or has closed
\* the connection, which waitSIP does early only after a garbled frame.
LoneFrameArrives ==
  \A f \in lone :
    LET p == f[1] k == f[2] IN
    \/ p \in got
    \/ p[1] = "in" /\ (SipHasGone(k) \/ "pkthandler" \in returned \/ OnWay(toSip[k], sipReader, p))
    \/ p[1] = "out" /\ (~sonAlive \/ k \in shut \cap torn \/ OnWay(toSon[k], sonReader, p))

\* As long as no two threads of SIP overlapped their frames and nobody ended
\* SIP from outside, SON closes no connection, it never ends because of SIP, and
\* while it lives SIP does too and they stay connected.
KilledExplained ==
  torn = {} /\ "SIP" \notin outside =>
    /\ shut = {} /\ (~sonAlive => "SON" \in outside)
    /\ sonAlive /\ sips > 0 => sip = "up" /\ son_conn
=============================================================================
