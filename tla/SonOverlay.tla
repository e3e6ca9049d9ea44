------------------------------- MODULE SonOverlay ------------------------------
(***************************************************************************)
(* The SON processes of Exp4-4: how they build the mesh of TCP connections *)
(* at start-up, pass packets on to neighbours, and stop.  Of two           *)
(* neighbours the one with the larger number connects.  A connection is    *)
(* <<a, b, k>>: node a, in its k-th run, connected to b.  A process that   *)
(* is started listens at once, and its kernel completes connections that   *)
(* waitNbrs has not accepted, or never will.  The order of the neighbour   *)
(* table is left open, and so is time: SON_START_DELAY may be over before  *)
(* another node is up.                                                     *)
(***************************************************************************)
EXTENDS Integers, FiniteSetsExt, SonFrames

CONSTANTS
  Node,          \* node numbers
  Nbr,           \* the neighbours of each node, from topology.dat
  MaxStarts,     \* bound: how often SON processes are started, in all
  MaxPkts        \* bound: packets the SIP processes hand to SON

ASSUME OverlayAssumption ==
  /\ Node \subseteq Nat /\ IsFiniteSet(Node) /\ MaxStarts \in Nat
  /\ Nbr \in [Node -> SUBSET Node]
  /\ \A n \in Node : n \notin Nbr[n] /\ \A m \in Nbr[n] : n \in Nbr[m]

VARIABLES
  son,           \* the process: "off", "starting", "running"
  runs,          \* how often it was started
  conn,          \* nt[i].conn, per node and neighbour
  conNum, accepting,   \* of waitNbrs
  backlog,       \* connections the kernel completed and nobody accepted
  open,          \* the ends of connections that are open, <<connection, node>>
  chan,          \* the tokens on a connection towards a node
  reader,        \* listen_to_neighbor, per node and neighbour
  targets, part, \* of waitSIP: neighbours it still has to send to; its next send()
  pkts,          \* how many packets were handed to SON
  told, heard    \* history: ends sent a whole CLOSE; ends that received it

meshVars == <<son, runs, conn, conNum, accepting, backlog>>
linkVars == <<open, chan, reader, targets, part, pkts, told, heard>>
overlayVars == <<meshVars, linkVars>>

None == <<0, 0, 0>>
Larger(n) == {m \in Nbr[n] : m > n}
Smaller(n) == {m \in Nbr[n] : m < n}
Conns == {<<a, b, k>> : a \in Node, b \in Node, k \in 1..MaxStarts}
Ends == {e \in Conns \X Node : e[1][2] \in Smaller(e[1][1]) /\ e[2] \in {e[1][1], e[1][2]}}
Peer(c, n) == IF c[1] = n THEN c[2] ELSE c[1]
Up(n) == son[n] # "off"
Put(f, n, v) == [f EXCEPT ![n] = v]

OverlayInit ==
  /\ son = [n \in Node |-> "off"] /\ runs = [n \in Node |-> 0]
  /\ conn = [n \in Node |-> [m \in Nbr[n] |-> None]]
  /\ conNum = [n \in Node |-> 0] /\ accepting = [n \in Node |-> FALSE]
  /\ backlog = [n \in Node |-> <<>>]
  /\ open = {} /\ chan = [e \in Ends |-> <<>>]
  /\ reader = [n \in Node |-> [m \in Nbr[n] |-> AtStart]]
  /\ targets = [n \in Node |-> {}] /\ part = [n \in Node |-> 1]
  /\ pkts = 0 /\ told = {} /\ heard = {}
-----------------------------------------------------------------------------
(* main, waitNbrs, connectNbrs                                             *)

\* nt_create, listen, and waitNbrs, which ends at once if nobody will connect.
StartSon(n) ==
  /\ ~Up(n) /\ Cardinality({r \in Node \X (1..MaxStarts) : r[2] <= runs[r[1]]}) < MaxStarts
  /\ son' = Put(son, n, "starting") /\ runs' = Put(runs, n, runs[n] + 1)
  /\ conNum' = Put(conNum, n, 0) /\ accepting' = Put(accepting, n, Larger(n) # {})
  /\ UNCHANGED <<conn, backlog, linkVars>>

\* The process ends, in whatever way: all its ends are closed.
Ended(n) ==
  /\ son' = Put(son, n, "off")
  /\ conn' = Put(conn, n, [m \in Nbr[n] |-> None])
  /\ backlog' = Put(backlog, n, <<>>)
  /\ open' = {e \in open : e[2] # n}
  /\ reader' = Put(reader, n, [m \in Nbr[n] |-> AtStart])
  /\ targets' = Put(targets, n, {}) /\ part' = Put(part, n, 1)
  /\ UNCHANGED <<runs, conNum, accepting, pkts>>

\* Nobody will read what was sent to n.
Unread(tokens, n) == [e \in Ends |-> IF e[2] = n THEN <<>> ELSE tokens[e]]

\* connectNbrs, after the delay: the next smaller neighbour.
Connect(n, m) ==
  /\ son[n] = "starting" /\ m \in Smaller(n) /\ conn[n][m] = None /\ Up(m)
  /\ LET c == <<n, m, runs[n]>> IN
       /\ conn' = [conn EXCEPT ![n][m] = c]
       /\ backlog' = Put(backlog, m, Append(backlog[m], c))
       /\ open' = open \cup {<<c, n>>, <<c, m>>}
  /\ UNCHANGED <<son, runs, conNum, accepting, chan, reader, targets, part, pkts, told, heard>>

\* A neighbour that is not up refuses, and the process exits.
ConnectFails(n, m) ==
  /\ son[n] = "starting" /\ m \in Smaller(n) /\ conn[n][m] = None /\ ~Up(m)
  /\ Ended(n) /\ chan' = Unread(chan, n) /\ UNCHANGED <<told, heard>>

FaultyEnough(n, count) == count >= Cardinality(Larger(n)) - 1
Enough(n, count) == count >= Cardinality(Larger(n))

\* waitNbrs counts connections, not neighbours, and looks at none of them.
Accept(n) ==
  /\ accepting[n] /\ son[n] = "starting" /\ backlog[n] # <<>>
  /\ LET c == Head(backlog[n]) IN conn' = [conn EXCEPT ![n][c[1]] = c]
  /\ backlog' = Put(backlog, n, Tail(backlog[n]))
  /\ conNum' = Put(conNum, n, conNum[n] + 1)
  /\ accepting' = Put(accepting, n, ~Enough(n, conNum[n] + 1))
  /\ UNCHANGED <<son, runs, linkVars>>

\* pthread_join returns; a listener is started for every neighbour.
Join(n) ==
  /\ son[n] = "starting" /\ ~accepting[n]
  /\ \A m \in Smaller(n) : conn[n][m] # None
  /\ son' = Put(son, n, "running")
  /\ UNCHANGED <<runs, conn, conNum, accepting, backlog, linkVars>>
-----------------------------------------------------------------------------
(* waitSIP, listen_to_neighbor, son_stop                                   *)

\* The SIP process hands over a packet for all neighbours or for one.
GetPktToSend(n) ==
  /\ son[n] = "running" /\ targets[n] = {} /\ pkts < MaxPkts /\ pkts' = pkts + 1
  /\ \E to \in {Nbr[n]} \cup {{m} : m \in Nbr[n]} : targets' = Put(targets, n, to)
  /\ UNCHANGED <<meshVars, open, chan, reader, part, told, heard>>

\* A send() of sendpkt to neighbour m.  When the other end is closed it is
\* lost, or -1 for a reset and the next neighbour's turn, or SIGPIPE, which
\* has no handler, ends the process.
SendPart(n, m) ==
  /\ son[n] = "running" /\ m \in targets[n] /\ conn[n][m] # None
  /\ m = Min(targets[n])
  /\ LET c == conn[n][m] IN
     \/ /\ chan' = IF <<c, m>> \in open
                   THEN Put(chan, <<c, m>>, Append(chan[<<c, m>>], Part(part[n], <<"sip">>)))
                   ELSE chan
        /\ part' = Put(part, n, (part[n] % 3) + 1)
        /\ targets' = IF part[n] = 3 THEN Put(targets, n, targets[n] \ {m}) ELSE targets
        /\ UNCHANGED <<meshVars, open, reader, pkts, told, heard>>
     \/ /\ <<c, m>> \notin open
        /\ targets' = Put(targets, n, targets[n] \ {m}) /\ part' = Put(part, n, 1)
        /\ UNCHANGED <<meshVars, open, chan, reader, pkts, told, heard>>
     \/ /\ <<c, m>> \notin open
        /\ Ended(n) /\ chan' = Unread(chan, n) /\ UNCHANGED <<told, heard>>

\* No connection, or one that is closed between two calls of send().
SkipTarget(n, m) ==
  /\ son[n] = "running" /\ m \in targets[n] /\ m = Min(targets[n]) /\ conn[n][m] = None
  /\ targets' = Put(targets, n, targets[n] \ {m}) /\ part' = Put(part, n, 1)
  /\ UNCHANGED <<meshVars, open, chan, reader, pkts, told, heard>>

\* The listener gives its connection up.
Closed(n, m) ==
  /\ conn' = [conn EXCEPT ![n][m] = None]
  /\ open' = open \ {<<conn[n][m], n>>}
  /\ UNCHANGED <<son, runs, conNum, accepting, backlog, targets, part, pkts, told>>

Listening(n, m) == son[n] = "running" /\ m \in Nbr[n] /\ conn[n][m] # None

\* A token for recvpkt.  What is received is forwarded to SIP (SonSipLink).
Listen(n, m) ==
  /\ Listening(n, m)
  /\ LET e == <<conn[n][m], n>>
         token == Head(chan[e])
         res == Returns(reader[n][m], token)
     IN /\ chan[e] # <<>>
        /\ chan' = Put(chan, e, Tail(chan[e]))
        /\ reader' = [reader EXCEPT ![n][m] = Goes(@, token)]
        /\ heard' = IF res = 1 /\ reader[n][m].pkt = <<"CLOSE">> THEN heard \cup {e} ELSE heard
        /\ IF res = -1 THEN Closed(n, m)
           ELSE UNCHANGED <<meshVars, open, targets, part, pkts, told>>

ListenEnds(n, m) ==
  /\ Listening(n, m)
  /\ chan[<<conn[n][m], n>>] = <<>> /\ <<conn[n][m], m>> \notin open
  /\ Closed(n, m) /\ UNCHANGED <<chan, reader, heard>>

\* A signal.  CLOSE is sent to every neighbour that has a connection, behind
\* whatever waitSIP has sent of a frame; SIGPIPE may end that early.
StopSon(n) ==
  /\ Up(n)
  /\ LET linked == {m \in Nbr[n] : conn[n][m] # None}
         live == {m \in linked : <<conn[n][m], m>> \in open}
         midFrame(m) == part[n] # 1 /\ m = Min(targets[n])
     IN \E sent \in SUBSET live :
          /\ live = linked => sent = live
          /\ chan' = Unread([e \in Ends |->
               IF \E m \in sent : e = <<conn[n][m], m>> THEN chan[e] \o Frame(<<"CLOSE">>) ELSE chan[e]], n)
          /\ told' = told \cup {<<conn[n][m], m>> : m \in {m \in sent : ~midFrame(m)}}
  /\ Ended(n) /\ UNCHANGED heard

Mesh(n) == \E m \in Node : Connect(n, m) \/ ConnectFails(n, m)
Pass(n) == \E m \in Nbr[n] : SendPart(n, m) \/ SkipTarget(n, m) \/ Listen(n, m) \/ ListenEnds(n, m)

OverlayNext ==
  \E n \in Node : StartSon(n) \/ Mesh(n) \/ Accept(n) \/ Join(n) \/ GetPktToSend(n) \/ Pass(n) \/ StopSon(n)

OverlaySpec == OverlayInit /\ [][OverlayNext]_overlayVars
-----------------------------------------------------------------------------
OverlayTypeOK ==
  /\ son \in [Node -> {"off", "starting", "running"}]
  /\ \A n \in Node : conNum[n] \in 0..Cardinality(Larger(n)) /\ part[n] \in 1..3 /\ targets[n] \subseteq Nbr[n]
  /\ \A n \in Node : \A m \in Nbr[n] :
       conn[n][m] # None => <<conn[n][m], n>> \in open /\ Peer(conn[n][m], n) = m
  /\ open \cup told \cup heard \subseteq Ends

\* As long as no SON process is started a second time, two neighbours that run
\* have the same connection at both ends, and waitNbrs waits only for somebody
\* who has still to come.  (A neighbour that is started again is counted
\* twice, and then another one is never accepted.)
MeshOnce ==
  (\A n \in Node : runs[n] <= 1) =>
    \A n \in Node :
      /\ \A m \in Nbr[n] : son[n] = "running" /\ son[m] = "running" =>
           conn[n][m] # None /\ conn[n][m] = conn[m][n]
      /\ son[n] = "starting" /\ accepting[n] /\ backlog[n] = <<>> =>
           \E m \in Larger(n) : runs[m] = 0 \/ son[m] = "off" \/ conn[m][n] = None

\* A listener that has given up a connection over which son_stop sent a whole
\* CLOSE has received the CLOSE first, so its SIP learns that the node is gone.
CloseAnnounced ==
  \A e \in told : e \notin open /\ runs[e[2]] <= 1 /\ Up(e[2]) => e \in heard
=============================================================================
