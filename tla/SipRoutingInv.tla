---------------------------- MODULE SipRoutingInv -----------------------------
(***************************************************************************)
(* What makes the routing of SipRouting correct.                           *)
(***************************************************************************)
EXTENDS SipRouting

CONSTANT Dist   \* the length of a shortest path between two nodes

ASSUME DistAssumption ==
  /\ Dist \in [Node -> [Node -> Nat]]
  /\ \A a \in Node : Dist[a][a] = 0
  /\ \A a \in Node : \A m \in Nbrs(a) : \A d \in Node :
       Dist[a][d] =< Cost[a][m] + Dist[m][d]

(* Every table entry, also of a process that is down, has a cost of at     *)
(* most INFINITE_COST; a next hop is a neighbour or the node itself.       *)
TypeOK ==
  /\ sip \in [Node -> {"down", "up", "closing"}]
  /\ first \in [Node -> BOOLEAN]
  /\ DOMAIN nct = Node
  /\ \A n \in Node : nct[n] \in [Nbrs(n) -> 1..INFINITE_COST]
  /\ DOMAIN dv = Node
  /\ \A n \in Node : dv[n] \in [Nbrs(n) -> Vector]
  /\ own \in [Node -> Vector]
  /\ next \in [Node -> [Node -> Node \cup {NoNode}]]
  /\ \A n, d \in Node : next[n][d] \in Nbrs(n) \cup {n, NoNode}
  /\ chan \in [Link -> Seq(RouteMsg)]
  /\ pkts \subseteq Packet
  /\ stops \in Nat

\* Every cost in v for going from m is that of some path.
RealVector(m, v) == \A d \in Node : v[d] = INFINITE_COST \/ Dist[m][d] =< v[d]

(* RealDistance: no table, and no route update on its way, promises a      *)
(* shorter way than the network has, whatever processes were stopped and   *)
(* started again, and whatever updates were dropped.                       *)
RealDistance ==
  /\ \A n \in Node : RealVector(n, own[n])
  /\ \A n \in Node : \A m \in Nbrs(n) : RealVector(m, dv[n][m])
  /\ \A l \in Link : \A i \in 1..Len(chan[l]) : RealVector(l[1], chan[l][i].vec)

\* A link always has the cost of the topology file, or is closed.
LinkCosts ==
  \A n \in Node : \A k \in Nbrs(n) : nct[n][k] \in {Cost[n][k], INFINITE_COST}

\* For d, cost and hop are the best that the cost tables c and row of n know.
Best(n, c, row, cost, hop, d) ==
  /\ IF cost = INFINITE_COST THEN hop = NoNode
     ELSE hop \in Nbrs(n) /\ c[hop] # INFINITE_COST /\ cost = Via(c, row, hop, d)
  /\ IF d \in Nbrs(n) /\ c[d] = INFINITE_COST THEN cost = INFINITE_COST
     ELSE \A m \in Nbrs(n) : cost =< Via(c, row, m, d)

(* RoutesAgree: waitSTCP and pkthandler, which look only at the routing    *)
(* table, send to the neighbour that the two cost tables call the best     *)
(* now, and nowhere when they know no way; so never over a closed link,    *)
(* though updates of a neighbour may come after its CLOSE.                 *)
RoutesAgree ==
  \A n \in Node : \A d \in Node \ {n} :
    Best(n, nct[n], dv[n], own[n][d], next[n][d], d)

(* NoRoutingLoop: while no process was stopped, no set of nodes passes the *)
(* packets for a node outside it around among themselves.                  *)
NoRoutingLoop ==
  stops = 0 =>
    \A d \in Node : \A S \in SUBSET (Node \ {d}) :
      (\A n \in S : next[n][d] \in S) => S = {}

-----------------------------------------------------------------------------
(* Why there is no loop: costs only fall while no process is stopped, and  *)
(* what a node believes of a neighbour is what that neighbour had before.  *)

\* v promises no more than w about the way from m to other nodes.
NoBetter(m, v, w) == \A d \in Node \ {m} : w[d] =< v[d]

\* A process that does not run has never run.
Fresh ==
  \A n \in Node :
    /\ sip[n] # "closing"
    /\ nct[n] = NctCreated(n)
    /\ sip[n] = "down" => /\ dv[n] = DvCreated(n)
                          /\ own[n] = OwnCreated(n)
                          /\ next[n] = NextCreated(n)
                          /\ first[n]

\* The updates of m for its neighbour n, from the one n has taken to m's vector
\* of now, get better and better.
FallingTo(m, n) ==
  LET msgs == chan[<<m, n>>] IN
    /\ NoBetter(m, dv[n][m], own[m])
    /\ first[m] => msgs = <<>> /\ NoBetter(m, dv[n][m], Cost[m])
    /\ \A i \in 1..Len(msgs) :
         /\ msgs[i].type # "CLOSE"
         /\ NoBetter(m, RowAfter(m, msgs[i]), own[m])
         /\ NoBetter(m, dv[n][m], RowAfter(m, msgs[i]))
         /\ \A j \in 1..Len(msgs) :
              i =< j => NoBetter(m, RowAfter(m, msgs[i]), RowAfter(m, msgs[j]))

Falling == \A l \in Link : FallingTo(l[1], l[2])

(* CostsFall: while no process was stopped, what pkthandler believes of a  *)
(* neighbour, then the updates on the link in their order, then the        *)
(* neighbour's vector of now never get worse.  So an update that is sent   *)
(* or taken late, after others have changed the tables, promises no more   *)
(* than its sender can keep.                                               *)
CostsFall ==
  stops = 0 => /\ Fresh
               /\ Falling
               /\ \A n \in Node : NoBetter(n, Cost[n], own[n])

\* The inductive invariant.
RoutingInv == TypeOK /\ LinkCosts /\ RealDistance /\ RoutesAgree /\ CostsFall
=============================================================================
