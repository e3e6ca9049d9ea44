------------------------------ MODULE SipRouting ------------------------------
(***************************************************************************)
(* The SIP processes of an overlay network: each keeps a neighbour cost    *)
(* table, a distance vector table and a routing table, broadcasts its own  *)
(* distance vector every ROUTEUPDATE_INTERVAL (routeupdate_daemon), takes  *)
(* those of its neighbours and forwards packets (pkthandler), sends the    *)
(* segments of the local STCP process (waitSTCP), and says CLOSE when it is*)
(* told to stop (sip_stop).                                                *)
(*                                                                         *)
(* The SON processes below stay up.  They keep one TCP connection per pair *)
(* of neighbours, so what a SIP process sends to a neighbour arrives in    *)
(* order, and drop what arrives while the local SIP process is not there.  *)
(* pkthandler holds dv_mutex from the first change of a table to the last, *)
(* which makes one step of it; a copy that routeupdate_daemon has taken    *)
(* under dv_mutex but not sent yet is, to the neighbours, like one that is *)
(* still on the link.                                                      *)
(*                                                                         *)
(* The place of a data packet among the route updates on a link is left    *)
(* open.                                                                   *)
(***************************************************************************)
EXTENDS Integers, Sequences, FiniteSetsExt

CONSTANTS
  Node,           \* the nodes of the topology file
  Cost,           \* the cost between two nodes, INFINITE_COST without a link
  INFINITE_COST,
  NoNode,         \* next hop -1
  StartedAtOnce,  \* bound: nodes whose SIP process runs from the beginning
  Dest,           \* bound: the nodes that the STCP processes send to
  MaxQueue,       \* bound: route updates on one link
  Startable,      \* bound: nodes whose SIP process is started later, or again
  Stoppable,      \* bound: the nodes whose SIP process is stopped, ...
  MaxStops        \* bound: ... and how often in all

ASSUME RoutingAssumption ==
  /\ INFINITE_COST \in Nat \ {0}
  /\ Cost \in [Node -> [Node -> 1..INFINITE_COST]]
  /\ \A a, b \in Node : Cost[a][b] = Cost[b][a]
  /\ \A a \in Node : Cost[a][a] = INFINITE_COST
  /\ NoNode \notin Node
  /\ StartedAtOnce \subseteq Node /\ Startable \subseteq Node
  /\ Stoppable \subseteq Node /\ Dest \subseteq Node
  /\ MaxQueue \in Nat /\ MaxStops \in Nat

Nbrs(n) == {m \in Node : Cost[n][m] < INFINITE_COST}
Link == {l \in Node \X Node : l[2] \in Nbrs(l[1])}

Vector == [Node -> 0..INFINITE_COST]
Unreachable == [d \in Node |-> INFINITE_COST]

\* The data of a CONNECT and of a CLOSE is never read.
RouteMsg == [type : {"CONNECT", "ROUTE_UPDATE", "CLOSE"}, vec : Vector]
Packet == [to : Node, dst : Node]

VARIABLES
  sip,      \* the SIP process: "down", "up", or "closing" between CLOSE and exit
  first,    \* first of routeupdate_daemon: it has not sent CONNECT yet
  nct,      \* neighbour cost tables
  dv,       \* distance vector tables: the rows of the neighbours ...
  own,      \* ... and the last row, the node's own vector
  next,     \* routing tables
  chan,     \* route updates on the way, per link
  pkts,     \* data packets on the way
  stops     \* how often a process was stopped

tables == <<nct, dv, own, next>>
vars == <<sip, first, tables, chan, pkts, stops>>

\* nbrcosttable_create, dvtable_create, routingtable_create
NctCreated(n) == [m \in Nbrs(n) |-> Cost[n][m]]

DvCreated(n) ==
  [m \in Nbrs(n) |-> [d \in Node |-> IF d = m THEN 0 ELSE INFINITE_COST]]

OwnCreated(n) == [d \in Node |-> IF d = n THEN 0 ELSE Cost[n][d]]

NextCreated(n) == [d \in Node |-> IF d \in Nbrs(n) THEN d ELSE NoNode]

Init ==
  /\ sip = [n \in Node |-> IF n \in StartedAtOnce THEN "up" ELSE "down"]
  /\ first = [n \in Node |-> TRUE]
  /\ nct = [n \in Node |-> NctCreated(n)]
  /\ dv = [n \in Node |-> DvCreated(n)]
  /\ own = [n \in Node |-> OwnCreated(n)]
  /\ next = [n \in Node |-> NextCreated(n)]
  /\ chan = [l \in Link |-> <<>>]
  /\ pkts = {}
  /\ stops = 0

HasRoom(n) == \A m \in Nbrs(n) : Len(chan[<<n, m>>]) < MaxQueue

\* son_sendpkt(BROADCAST_NODEID, ...): waitSIP of the local SON sends to each
\* neighbour.
Broadcast(n, msg) ==
  chan' = [l \in Link |-> IF l[1] = n THEN Append(chan[l], msg) ELSE chan[l]]

\* The first message on a link leaves it.
HeadTaken(l) ==
  /\ chan[l] # <<>>
  /\ chan' = [chan EXCEPT ![l] = Tail(@)]

-----------------------------------------------------------------------------
(* The process and its route updates                                       *)

\* An operator starts the SIP process: the tables are those of the topology file.
Start(n) ==
  /\ sip[n] = "down"
  /\ sip' = [sip EXCEPT ![n] = "up"]
  /\ first' = [first EXCEPT ![n] = TRUE]
  /\ nct' = [nct EXCEPT ![n] = NctCreated(n)]
  /\ dv' = [dv EXCEPT ![n] = DvCreated(n)]
  /\ own' = [own EXCEPT ![n] = OwnCreated(n)]
  /\ next' = [next EXCEPT ![n] = NextCreated(n)]
  /\ UNCHANGED <<chan, pkts, stops>>

\* Faulty variants: first stays 1; nothing is sent after CONNECT.
Update_FirstStays(n) ==
  /\ sip[n] # "down"
  /\ HasRoom(n)
  /\ Broadcast(n, [type |-> "CONNECT", vec |-> Unreachable])
  /\ UNCHANGED <<sip, first, tables, pkts, stops>>

Update_Once(n) ==
  /\ sip[n] # "down"
  /\ first[n]
  /\ HasRoom(n)
  /\ Broadcast(n, [type |-> "CONNECT", vec |-> Unreachable])
  /\ first' = [first EXCEPT ![n] = FALSE]
  /\ UNCHANGED <<sip, tables, pkts, stops>>

\* routeupdate_daemon wakes up, copies its vector under dv_mutex and sends it.
\* It still may after the CLOSE of sip_stop.
Update(n) ==
  /\ sip[n] # "down"
  /\ HasRoom(n)
  /\ Broadcast(n, IF first[n] THEN [type |-> "CONNECT", vec |-> Unreachable]
                              ELSE [type |-> "ROUTE_UPDATE", vec |-> own[n]])
  /\ first' = [first EXCEPT ![n] = FALSE]
  /\ UNCHANGED <<sip, tables, pkts, stops>>

\* sip_stop sends CLOSE under dv_mutex, and then lets the threads run on until
\* it has closed the connections and calls exit.
SendClose(n) ==
  /\ sip[n] = "up"
  /\ stops < MaxStops
  /\ HasRoom(n)
  /\ Broadcast(n, [type |-> "CLOSE", vec |-> Unreachable])
  /\ sip' = [sip EXCEPT ![n] = "closing"]
  /\ stops' = stops + 1
  /\ UNCHANGED <<first, tables, pkts>>

Exit(n) ==
  /\ sip[n] = "closing"
  /\ sip' = [sip EXCEPT ![n] = "down"]
  /\ UNCHANGED <<first, tables, chan, pkts, stops>>

-----------------------------------------------------------------------------
(* pkthandler: a route update                                              *)

\* The neighbour cost and the row of the sender after a message of it.
NctAfter(n, m, msg) ==
  CASE msg.type = "CLOSE"   -> INFINITE_COST
    [] msg.type = "CONNECT" -> Cost[n][m]
    [] OTHER                -> nct[n][m]

RowAfter(m, msg) ==
  CASE msg.type = "CLOSE"   -> Unreachable
    [] msg.type = "CONNECT" -> [d \in Node |-> Cost[m][d]]
    [] OTHER                -> msg.vec

\* Faulty variant: the cost of the link to the neighbour is left out.
Via_NoLinkCost(c, row, m, d) == IF m = d THEN c[m] ELSE row[m][d]

\* D(d) = min {c(self, m) + D(m, d)} over the neighbours m, below INFINITE_COST.
\* c and row are a neighbour cost table and the rows of the neighbours.
Via(c, row, m, d) == c[m] + (IF m = d THEN 0 ELSE row[m][d])

\* Faulty variant: the search for the minimum does not start at INFINITE_COST.
CostTo_NoCap(n, c, row, d) ==
  IF d = n THEN 0
  ELSE IF d \in Nbrs(n) /\ c[d] = INFINITE_COST THEN INFINITE_COST
  ELSE Min({Via(c, row, m, d) : m \in Nbrs(n)})

\* A neighbour whose link is closed is given up, whatever the others say.
CostTo(n, c, row, d) ==
  IF d = n THEN 0
  ELSE IF d \in Nbrs(n) /\ c[d] = INFINITE_COST THEN INFINITE_COST
  ELSE Min({INFINITE_COST} \cup {Via(c, row, m, d) : m \in Nbrs(n)})

\* The neighbour that gives this cost; among equals the code takes the one
\* listed first in the topology file.
HopTo(n, c, row, cost, d) ==
  IF d = n THEN n
  ELSE IF cost = INFINITE_COST THEN NoNode
  ELSE CHOOSE m \in Nbrs(n) : Via(c, row, m, d) = cost

\* Faulty variant: the routing table is not set.
TakeRouteMsg_NoReroute(n, m) ==
  /\ sip[n] # "down"
  /\ HeadTaken(<<m, n>>)
  /\ nct' = [nct EXCEPT ![n][m] = NctAfter(n, m, Head(chan[<<m, n>>]))]
  /\ dv' = [dv EXCEPT ![n][m] = RowAfter(m, Head(chan[<<m, n>>]))]
  /\ own' = [own EXCEPT ![n] = [d \in Node |-> CostTo(n, nct'[n], dv'[n], d)]]
  /\ UNCHANGED <<sip, first, next, pkts, stops>>

\* The whole branch: the row of the sender, then all of the node's own vector
\* and of its routing table.
TakeRouteMsg(n, m) ==
  /\ sip[n] # "down"
  /\ HeadTaken(<<m, n>>)
  /\ nct' = [nct EXCEPT ![n][m] = NctAfter(n, m, Head(chan[<<m, n>>]))]
  /\ dv' = [dv EXCEPT ![n][m] = RowAfter(m, Head(chan[<<m, n>>]))]
  /\ own' = [own EXCEPT ![n] = [d \in Node |-> CostTo(n, nct'[n], dv'[n], d)]]
  /\ next' = [next EXCEPT ![n] = [d \in Node |-> HopTo(n, nct'[n], dv'[n], own'[n][d], d)]]
  /\ UNCHANGED <<sip, first, pkts, stops>>

\* listen_to_neighbor of the SON drops what comes while sip_conn is -1.
DropRouteMsg(n, m) ==
  /\ sip[n] = "down"
  /\ HeadTaken(<<m, n>>)
  /\ UNCHANGED <<sip, first, tables, pkts, stops>>

-----------------------------------------------------------------------------
(* Data packets                                                            *)

\* waitSTCP sends a segment of the local STCP process to the next hop; bound:
\* one packet on the way.
SendSeg(n, d) ==
  /\ sip[n] = "up"
  /\ pkts = {}
  /\ next[n][d] \notin {NoNode, n}
  /\ pkts' = {[to |-> next[n][d], dst |-> d]}
  /\ UNCHANGED <<sip, first, tables, chan, stops>>

\* pkthandler gives a packet that has arrived to STCP, sends it on or finds no
\* route; the SON drops it when there is no SIP process.
HandlePacket(p) ==
  /\ pkts' = (pkts \ {p}) \cup
       IF sip[p.to] = "down" \/ p.dst = p.to \/ next[p.to][p.dst] = NoNode THEN {}
       ELSE {[to |-> next[p.to][p.dst], dst |-> p.dst]}
  /\ UNCHANGED <<sip, first, tables, chan, stops>>

-----------------------------------------------------------------------------
Next ==
  \/ \E n \in Node : Update(n) \/ Exit(n)
  \/ \E n \in Startable : Start(n)
  \/ \E n \in Stoppable : SendClose(n)
  \/ \E l \in Link : TakeRouteMsg(l[2], l[1]) \/ DropRouteMsg(l[2], l[1])
  \/ \E n \in Node, d \in Dest : SendSeg(n, d)
  \/ \E p \in pkts : HandlePacket(p)

Spec == Init /\ [][Next]_vars

\* The threads of a running process get to run: the daemon wakes up every
\* ROUTEUPDATE_INTERVAL, pkthandler and the SONs take what has arrived, and a
\* sip_stop that has started runs to its exit.  No process has to be started
\* or stopped.
Fairness ==
  /\ \A n \in Node : WF_vars(Update(n)) /\ WF_vars(Exit(n))
  /\ \A l \in Link : WF_chan(HeadTaken(l))
  /\ WF_vars(\E p \in pkts : HandlePacket(p))

FairSpec == Spec /\ Fairness
=============================================================================
